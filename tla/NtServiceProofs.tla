--------------------------- MODULE NtServiceProofs ---------------------------
(***************************************************************************)
(* Proofs about MCNtService for every set of watchdogs and of tools, every *)
(* choice of controls, every number of stops, questions and timeouts and   *)
(* command lines of every length: a watchdog stays on guard until run()    *)
(* has ended, a stop is never taken back, a tool that returns 0 tells the  *)
(* truth, and main() reads a command line as the help says.                *)
(***************************************************************************)
EXTENDS MCNtService, FiniteSetTheorems, TLAPS

-----------------------------------------------------------------------------
(* A busy service: watchdogs *)

Over == {"stopping", "done"}

BusyTypes ==
    /\ stopped \in BOOLEAN /\ current \in Busy!States \cup {"none"}
    /\ report \in [Busy!Threads -> {"idle", "accept", "state", "event", "send"}]
    /\ arg \in [Busy!Threads -> Busy!States \cup {"none"}]
    /\ watchdog \in [Watchdogs -> {"none", "wait", "report", "done"}]

\* "stopped" is in m_status, in the argument of a report under way, or behind the
\* raised event only once run() has ended.  The second is what the interrogation
\* copies, the third what lets watchdogs go.
StopIsOver ==
    \/ main \in Over
    \/ /\ ~stopped
       /\ current # "stopped"
       /\ \A t \in Busy!Threads : report[t] # "idle" => arg[t] # "stopped"
       /\ \A w \in Watchdogs : watchdog[w] # "done"

GuardInv == BusyTypes /\ StopIsOver

\* A step of reportStatus() passes "stopped" on, and brings it up nowhere.
LEMMA ReportingKeepsGuard ==
    ASSUME GuardInv, NEW t \in Busy!Threads, Busy!Reporting(t)
    PROVE  GuardInv'
<1> USE DEF GuardInv, BusyTypes, StopIsOver, Busy!At
<1>1. CASE Busy!ReportAccepted(t)
    BY <1>1 DEF Busy!ReportAccepted
<1>2. CASE Busy!ReportState(t)
    BY <1>2 DEF Busy!ReportState
<1>3. CASE Busy!ReportEvent(t)
    BY <1>3 DEF Busy!ReportEvent
<1>4. CASE Busy!ReportSend(t)
    BY <1>4 DEF Busy!ReportSend, Busy!status
<1> QED
    BY <1>1, <1>2, <1>3, <1>4 DEF Busy!Reporting

\* ServiceMain alone reports the stop, when it is stopping.
LEMMA ServiceMainKeepsGuard ==
    ASSUME GuardInv, Busy!ServiceMain
    PROVE  GuardInv'
<1> USE DEF GuardInv, BusyTypes, StopIsOver, Over, Busy!ReportStatus, Busy!Threads, Busy!States,
            Busy!status, Busy!calls
<1>1. CASE Busy!Register
    BY <1>1 DEF Busy!Register
<1>2. CASE Busy!Started
    BY <1>2, ZenonT(60) DEF Busy!Started
<1>3. CASE Busy!RunReports
    BY <1>3 DEF Busy!RunReports
<1>4. CASE Busy!RunIsUp
    BY <1>4 DEF Busy!RunIsUp
<1>5. CASE Busy!RunReturns
    BY <1>5, ZenonT(60) DEF Busy!RunReturns
<1>6. CASE Busy!ServiceMainReturns
    BY <1>6 DEF Busy!ServiceMainReturns
<1> QED
    BY <1>1, <1>2, <1>3, <1>4, <1>5, <1>6 DEF Busy!ServiceMain

\* The control handler and stop() report and ask, but stop nothing themselves.
LEMMA HandlerKeepsGuard ==
    ASSUME GuardInv,
           Busy!Handler \/ Busy!ControlStop \/ Busy!ControlShutdown
             \/ Busy!ControlInterrogate \/ Busy!ControlOther
    PROVE  GuardInv'
<1> USE DEF GuardInv, BusyTypes, StopIsOver, Busy!ReportStatus, Busy!Threads, Busy!States,
            Busy!status, Busy!calls
<1>1. CASE Busy!StopReports
    BY <1>1, ZenonT(60) DEF Busy!StopReports
<1>2. CASE Busy!StopCreatesWatchdog
    BY <1>2 DEF Busy!StopCreatesWatchdog
<1>3. CASE Busy!StopFails
    BY <1>3 DEF Busy!StopFails
<1>4. CASE Busy!StopAsks
    BY <1>4 DEF Busy!StopAsks
<1>5. CASE Busy!ControlStop
    BY <1>5 DEF Busy!ControlStop
<1>6. CASE Busy!ControlShutdown
    BY <1>6 DEF Busy!ControlShutdown
<1>7. CASE Busy!ControlInterrogate
    BY <1>7 DEF Busy!ControlInterrogate
<1>8. CASE Busy!ControlOther
    BY <1>8 DEF Busy!ControlOther, Busy!vars
<1> QED
    BY <1>1, <1>2, <1>3, <1>4, <1>5, <1>6, <1>7, <1>8 DEF Busy!Handler

\* A watchdog is let go by the event, and reports nothing but a pending stop.
LEMMA WatchdogKeepsGuard ==
    ASSUME GuardInv, NEW w \in Watchdogs,
           Busy!WatchdogReleased(w) \/ Busy!WatchdogExpires(w) \/ Busy!WatchdogLoops(w)
    PROVE  GuardInv'
<1> USE DEF GuardInv, BusyTypes, StopIsOver, Busy!ReportStatus, Busy!Threads, Busy!States,
            Busy!status, Busy!calls
<1>1. CASE Busy!WatchdogReleased(w)
    BY <1>1 DEF Busy!WatchdogReleased
<1>2. CASE Busy!WatchdogExpires(w)
    BY <1>2 DEF Busy!WatchdogExpires
<1>3. CASE Busy!WatchdogLoops(w)
    BY <1>3 DEF Busy!WatchdogLoops
<1> QED
    BY <1>1, <1>2, <1>3

LEMMA BusyKeepsGuard ==
    ASSUME GuardInv, Busy!Next
    PROVE  GuardInv'
<1>1. CASE \E t \in Busy!Threads : Busy!Reporting(t)
    BY <1>1, ReportingKeepsGuard
<1>2. CASE Busy!ServiceMain
    BY <1>2, ServiceMainKeepsGuard
<1>3. CASE \/ Busy!Handler \/ Busy!ControlStop \/ Busy!ControlShutdown
           \/ Busy!ControlInterrogate \/ Busy!ControlOther
    BY <1>3, HandlerKeepsGuard
<1>4. CASE \E w \in Watchdogs :
             Busy!WatchdogReleased(w) \/ Busy!WatchdogExpires(w) \/ Busy!WatchdogLoops(w)
    BY <1>4, WatchdogKeepsGuard
<1>5. CASE Busy!DispatcherReturns \/ Busy!Gone
    BY <1>5 DEF Busy!DispatcherReturns, Busy!Gone, Busy!vars, Busy!status, Busy!calls,
                GuardInv, BusyTypes, StopIsOver
<1> QED
    BY <1>1, <1>2, <1>3, <1>4, <1>5 DEF Busy!Next

\* A watchdog is let go only by the end of run(), whatever comes and however often
\* others time out.  (watchdogProc, reportStatus.)
THEOREM WatchdogsGuard == Spec => []WatchdogGuards
<1> DEFINE I == part = "busy" => GuardInv
<1>1. Init => I
    <2> SUFFICES ASSUME Prompt!Init
                 PROVE  GuardInv
        BY DEF Init
    <2>1. BusyTypes
        BY DEF Prompt!Init, Prompt!Threads, BusyTypes, Busy!Threads, Busy!States
    <2>2. StopIsOver
        BY DEF Prompt!Init, Prompt!Threads, StopIsOver, Busy!Threads
    <2> QED
        BY <2>1, <2>2 DEF GuardInv
<1>2. I /\ [Next]_vars => I'
    <2> SUFFICES ASSUME part = "busy", GuardInv, [Next]_vars
                 PROVE  GuardInv'
        BY DEF Next, vars
    <2>1. CASE UNCHANGED vars
        BY <2>1 DEF vars, serviceVars, GuardInv, BusyTypes, StopIsOver
    <2> QED
        BY <2>1, BusyKeepsGuard DEF Next
<1>3. I => WatchdogGuards
    BY DEF WatchdogGuards, Busy!WatchdogGuards, GuardInv, StopIsOver, Over
<1> QED
    BY <1>1, <1>2, <1>3, PTL DEF Spec

-----------------------------------------------------------------------------
(* A busy service: a stop that the manager has heard of stands *)

Begun == {"none", "start_pending"}
Ending == {"stop_pending", "stopped"}

TakenTypes ==
    /\ BusyTypes
    /\ accepted \in BOOLEAN
    /\ main \in {"register", "starting", "run", "up", "running", "stopping", "done"}
    /\ scm \in [state : Busy!States \cup {"none"}, accepts : BOOLEAN]

\* ServiceMain has not yet written that the service runs.
NotYetUp ==
    \/ main \in {"register", "starting", "run"}
    \/ main = "up" /\ report["ServiceMain"] \in {"accept", "state"}

\* A stop is under way, from its control on.
Stopping ==
    handler \in {"stop", "report", "asking"} \/ \E w \in Watchdogs : watchdog[w] # "none"

\* stop() has made its report.
Told ==
    \/ handler = "report" /\ report["Dispatcher"] = "idle"
    \/ handler = "asking"
    \/ \E w \in Watchdogs : watchdog[w] # "none"

\* Who reports what: ServiceMain where it is, the dispatcher a stop only in stop(),
\* the watchdogs nothing else.
ReportersOK ==
    /\ main \in {"register", "run", "running", "done"} => report["ServiceMain"] = "idle"
    /\ main = "starting" => arg["ServiceMain"] = "start_pending"
    /\ main = "up" => arg["ServiceMain"] = "running"
    /\ main = "stopping" => arg["ServiceMain"] = "stopped"
    /\ handler \in {"stop", "asking"} => report["Dispatcher"] = "idle"
    /\ handler = "report" => report["Dispatcher"] = "idle" \/ arg["Dispatcher"] = "stop_pending"
    /\ \A w \in Watchdogs :
         report[w] # "idle" => arg[w] = "stop_pending" /\ watchdog[w] # "none"

\* Before the service is up nobody says that it is, and nobody stops it.
EarlyOK ==
    NotYetUp => /\ current \in Begun /\ scm.state \in Begun
                /\ report["Dispatcher"] # "idle" => arg["Dispatcher"] \in Begun
                /\ ~Stopping

\* From a stop on m_status says so, and so does each report that has yet to write it:
\* the dispatcher, which alone could carry another state from before, is at the stop.
StoppingOK ==
    Stopping => /\ current \in Ending
                /\ \A t \in Busy!Threads : report[t] \in {"accept", "state"} => arg[t] \in Ending
                /\ ended \/ Told => scm.state \in Ending

\* In a console nothing is sent.
TakenInv == TakenTypes /\ (~console => ReportersOK /\ EarlyOK /\ StoppingOK)

\* A step of reportStatus() writes, and sends, no state that the stop has left behind.
LEMMA ReportingKeepsTaken ==
    ASSUME TakenInv, NEW t \in Busy!Threads, Busy!Reporting(t)
    PROVE  TakenInv'
<1> USE NtServiceInstances
    DEF TakenInv, TakenTypes, BusyTypes, ReportersOK, EarlyOK, StoppingOK, NotYetUp, Stopping, Told,
        Begun, Ending, Busy!NtServiceAssumption, Busy!Threads, Busy!States, Busy!At, Busy!status,
        Busy!calls, Busy!manager
<1>1. CASE Busy!ReportAccepted(t)
    BY <1>1 DEF Busy!ReportAccepted
<1>2. CASE Busy!ReportState(t)
    BY <1>2 DEF Busy!ReportState
<1>3. CASE Busy!ReportEvent(t)
    BY <1>3 DEF Busy!ReportEvent
<1>4. CASE Busy!ReportSend(t)
    BY <1>4 DEF Busy!ReportSend
<1> QED
    BY <1>1, <1>2, <1>3, <1>4 DEF Busy!Reporting

\* ServiceMain says that the service is up only before a stop can come.
LEMMA ServiceMainKeepsTaken ==
    ASSUME TakenInv, Busy!ServiceMain
    PROVE  TakenInv'
<1> USE NtServiceInstances
    DEF TakenInv, TakenTypes, BusyTypes, ReportersOK, EarlyOK, StoppingOK, NotYetUp, Stopping, Told,
        Begun, Ending, Busy!NtServiceAssumption, Busy!Threads, Busy!States, Busy!status,
        Busy!calls, Busy!manager, Busy!ReportStatus
<1>1. CASE Busy!Register
    <2>1. CASE main' = "done" /\ UNCHANGED << report, arg >>
        BY <1>1, <2>1 DEF Busy!Register
    <2>2. CASE main' = "starting" /\ Busy!ReportStatus("ServiceMain", "start_pending")
        BY <1>1, <2>2 DEF Busy!Register
    <2> QED
        BY <1>1, <2>1, <2>2 DEF Busy!Register
<1>2. CASE Busy!Started
    <2>1. CASE main' = "run" /\ UNCHANGED << report, arg >>
        BY <1>2, <2>1 DEF Busy!Started
    <2>2. CASE main' = "stopping" /\ Busy!ReportStatus("ServiceMain", "stopped")
        BY <1>2, <2>2 DEF Busy!Started
    <2> QED
        BY <1>2, <2>1, <2>2 DEF Busy!Started
<1>3. CASE Busy!RunReports
    BY <1>3 DEF Busy!RunReports
<1>4. CASE Busy!RunIsUp
    BY <1>4 DEF Busy!RunIsUp
<1>5. CASE Busy!RunReturns
    <2>1. CASE console
        BY <1>5, <2>1 DEF Busy!RunReturns
    <2>2. CASE ~console
        <3>1. /\ UNCHANGED << console, current, accepted, stopped, handler, watchdog, scm, ended >>
              /\ main \in {"run", "running"} /\ main' = "stopping"
              /\ Busy!ReportStatus("ServiceMain", "stopped")
            BY <1>5, <2>2 DEF Busy!RunReturns
        <3>2. TakenTypes'
            BY <3>1
        <3>3. ReportersOK'
            BY <2>2, <3>1
        <3>4. EarlyOK' /\ StoppingOK'
            BY <2>2, <3>1
        <3> QED
            BY <3>2, <3>3, <3>4
    <2> QED
        BY <2>1, <2>2
<1>6. CASE Busy!ServiceMainReturns
    BY <1>6 DEF Busy!ServiceMainReturns
<1> QED
    BY <1>1, <1>2, <1>3, <1>4, <1>5, <1>6 DEF Busy!ServiceMain

\* A stop comes to a service that is up, when the dispatcher reports nothing.
LEMMA ControlKeepsTaken ==
    ASSUME TakenInv,
           Busy!ControlStop \/ Busy!ControlShutdown \/ Busy!ControlInterrogate \/ Busy!ControlOther
    PROVE  TakenInv'
<1> USE NtServiceInstances
    DEF TakenInv, TakenTypes, BusyTypes, ReportersOK, EarlyOK, StoppingOK, NotYetUp, Stopping, Told,
        Begun, Ending, Busy!NtServiceAssumption, Busy!Threads, Busy!States, Busy!status,
        Busy!calls, Busy!manager, Busy!ReportStatus, Busy!MayControl, Busy!Ends
<1>1. CASE Busy!ControlStop
    <2>1. /\ UNCHANGED << console, accepted, stopped, report, arg, main, watchdog, scm, ended >>
          /\ current' = IF console THEN current ELSE "stop_pending"
          /\ handler' = "stop" /\ handler = "idle" /\ report["Dispatcher"] = "idle"
          /\ ~console => scm.state = "running" /\ ~ended
        BY <1>1 DEF Busy!ControlStop
    <2>2. TakenTypes'
        BY <2>1
    <2>3. CASE console
        BY <2>1, <2>2, <2>3
    <2>4. CASE ~console
        <3>1. ReportersOK' /\ EarlyOK'
            BY <2>1, <2>4
        <3>2. \A t \in Busy!Threads : report[t] \in {"accept", "state"} => arg[t] \in Ending
            BY <2>1, <2>4
        <3>3. StoppingOK'
            BY <2>1, <2>4, <3>2
        <3> QED
            BY <2>2, <3>1, <3>3
    <2> QED
        BY <2>3, <2>4
<1>2. CASE Busy!ControlShutdown
    BY <1>2 DEF Busy!ControlShutdown
<1>3. CASE Busy!ControlInterrogate
    BY <1>3 DEF Busy!ControlInterrogate
<1>4. CASE Busy!ControlOther
    BY <1>4 DEF Busy!ControlOther, Busy!vars
<1> QED
    BY <1>1, <1>2, <1>3, <1>4

\* stop() reports before it starts its watchdog; a watchdog repeats what it says.
LEMMA StopKeepsTaken ==
    ASSUME TakenInv,
           \/ Busy!Handler
           \/ \E w \in Watchdogs :
                Busy!WatchdogReleased(w) \/ Busy!WatchdogExpires(w) \/ Busy!WatchdogLoops(w)
    PROVE  TakenInv'
<1> USE NtServiceInstances
    DEF TakenInv, TakenTypes, BusyTypes, ReportersOK, EarlyOK, StoppingOK, NotYetUp, Stopping, Told,
        Begun, Ending, Busy!NtServiceAssumption, Busy!Threads, Busy!States, Busy!status,
        Busy!calls, Busy!manager, Busy!ReportStatus
<1>1. CASE Busy!StopReports
    <2>1. CASE console
        BY <1>1, <2>1 DEF Busy!StopReports
    <2>2. CASE ~console
        <3>1. /\ UNCHANGED << console, current, accepted, stopped, main, watchdog, scm, ended >>
              /\ handler = "stop" /\ handler' = "report"
              /\ Busy!ReportStatus("Dispatcher", "stop_pending")
            BY <1>1, <2>2 DEF Busy!StopReports
        <3>2. TakenTypes'
            BY <3>1
        <3>3. ReportersOK'
            BY <2>2, <3>1
        <3>4. EarlyOK' /\ StoppingOK'
            BY <2>2, <3>1
        <3> QED
            BY <3>2, <3>3, <3>4
    <2> QED
        BY <2>1, <2>2
<1>2. CASE Busy!StopCreatesWatchdog
    BY <1>2 DEF Busy!StopCreatesWatchdog
<1>3. CASE Busy!StopFails
    BY <1>3 DEF Busy!StopFails
<1>4. CASE Busy!StopAsks
    BY <1>4 DEF Busy!StopAsks
<1>5. ASSUME NEW w \in Watchdogs, Busy!WatchdogReleased(w)
      PROVE  TakenInv'
    <2>1. /\ UNCHANGED << console, current, accepted, report, arg, main, handler, scm, ended >>
          /\ watchdog[w] # "none" /\ watchdog' = [watchdog EXCEPT ![w] = "done"]
          /\ stopped' = FALSE
        BY <1>5 DEF Busy!WatchdogReleased
    <2>2. TakenTypes'
        BY <2>1
    <2>3. (\E v \in Watchdogs : watchdog'[v] # "none") <=> (\E v \in Watchdogs : watchdog[v] # "none")
        BY <2>1
    <2>4. \A v \in Watchdogs : watchdog'[v] # "none" <=> watchdog[v] # "none"
        BY <2>1
    <2> QED
        BY <2>1, <2>2, <2>3, <2>4
<1>6. ASSUME NEW w \in Watchdogs, Busy!WatchdogExpires(w)
      PROVE  TakenInv'
    BY <1>6 DEF Busy!WatchdogExpires
<1>7. ASSUME NEW w \in Watchdogs, Busy!WatchdogLoops(w)
      PROVE  TakenInv'
    BY <1>7 DEF Busy!WatchdogLoops
<1> QED
    BY <1>1, <1>2, <1>3, <1>4, <1>5, <1>6, <1>7 DEF Busy!Handler

LEMMA BusyKeepsTaken ==
    ASSUME TakenInv, Busy!Next
    PROVE  TakenInv'
<1>1. CASE \E t \in Busy!Threads : Busy!Reporting(t)
    BY <1>1, ReportingKeepsTaken
<1>2. CASE Busy!ServiceMain
    BY <1>2, ServiceMainKeepsTaken
<1>3. CASE \/ Busy!ControlStop \/ Busy!ControlShutdown
           \/ Busy!ControlInterrogate \/ Busy!ControlOther
    BY <1>3, ControlKeepsTaken
<1>4. CASE \/ Busy!Handler
           \/ \E w \in Watchdogs :
                Busy!WatchdogReleased(w) \/ Busy!WatchdogExpires(w) \/ Busy!WatchdogLoops(w)
    BY <1>4, StopKeepsTaken
<1>5. CASE Busy!DispatcherReturns \/ Busy!Gone
    BY <1>5 DEF Busy!DispatcherReturns, Busy!Gone, Busy!vars, Busy!status, Busy!calls, Busy!manager,
                TakenInv, TakenTypes, BusyTypes, ReportersOK, EarlyOK, StoppingOK, NotYetUp,
                Stopping, Told
<1> QED
    BY <1>1, <1>2, <1>3, <1>4, <1>5 DEF Busy!Next

\* Once stop() has started its watchdog, the manager never hears again that the
\* service starts or runs, whatever is asked and however often watchdogs time out:
\* no report that is late, or that carries a state read earlier, takes the stop back.
\* (ServiceCtrlHandlerEx, stop, reportStatus, watchdogProc.)
THEOREM StopsAreNotTakenBack == Spec => []StopIsNotTakenBack
<1> DEFINE I == part = "busy" => TakenInv
<1>1. Init => I
    <2> SUFFICES ASSUME Prompt!Init
                 PROVE  TakenInv
        BY DEF Init
    <2>1. BusyTypes
        BY DEF Prompt!Init, Prompt!Threads, BusyTypes, Busy!Threads, Busy!States
    <2>2. /\ accepted \in BOOLEAN
          /\ main \in {"register", "starting", "run", "up", "running", "stopping", "done"}
          /\ scm \in [state : Busy!States \cup {"none"}, accepts : BOOLEAN]
        BY DEF Prompt!Init
    <2>3. ~console => ReportersOK /\ EarlyOK /\ StoppingOK
        BY DEF Prompt!Init, Prompt!Threads, ReportersOK, EarlyOK, StoppingOK, NotYetUp, Stopping, Told,
               Begun
    <2> QED
        BY <2>1, <2>2, <2>3 DEF TakenInv, TakenTypes
<1>2. I /\ [Next]_vars => I'
    <2> SUFFICES ASSUME part = "busy", TakenInv, [Next]_vars
                 PROVE  TakenInv'
        BY DEF Next, vars
    <2>1. CASE UNCHANGED vars
        BY <2>1 DEF vars, serviceVars, TakenInv, TakenTypes, BusyTypes, ReportersOK, EarlyOK,
                    StoppingOK, NotYetUp, Stopping, Told
    <2> QED
        BY <2>1, BusyKeepsTaken DEF Next
<1>3. I => StopIsNotTakenBack
    BY DEF StopIsNotTakenBack, Busy!StopIsNotTakenBack, TakenInv, StoppingOK, Stopping, Told, Ending
<1> QED
    BY <1>1, <1>2, <1>3, PTL DEF Spec

-----------------------------------------------------------------------------
(* The tools that control the service *)

\* What a tool has read is a state that the service had during its call, and an
\* uninstall goes on to delete only a service that it has found stopped.
ToolOK(t) ==
    /\ pc[t] \in {"begin", "open", "control"} => status[t] = "none"
    /\ pc[t] = "params" => command[t] = "install"
    /\ pc[t] = "delete" => command[t] = "uninstall" /\ "stopped" \in witnessed[t]
    /\ status[t] # "none" => status[t] \in witnessed[t]

\* The truth of a 0, in a form that more witnessed states leave true.
Truthful(t) ==
    pc[t] = "done" /\ retval[t] = 0 =>
        /\ command[t] = "start" /\ status[t] = "none" => \E s \in witnessed[t] : s # "stopped"
        /\ command[t] = "start" /\ status[t] # "none" => "running" \in witnessed[t]
        /\ command[t] \in {"stop", "uninstall"} => "stopped" \in witnessed[t]

ControlInv == Control!TypeOK /\ \A t \in Tools : ToolOK(t) /\ Truthful(t)

\* Only t moves; it and all others witness the state that the step leaves.
Moves(t) ==
    /\ state' \in Control!States
    /\ Control!Witness
    /\ \A u \in Tools \ {t} : pc'[u] = pc[u] /\ status'[u] = status[u] /\ retval'[u] = retval[u]
    /\ command' = command

\* A step witnesses the state that it leaves, for every tool that has begun.
LEMMA WitnessGrows ==
    ASSUME ControlInv, Control!Witness, state' \in Control!States
    PROVE  /\ witnessed' \in [Tools -> SUBSET Control!States]
           /\ \A t \in Tools : pc[t] # "begin" => witnessed'[t] = witnessed[t] \cup {state'}
    BY DEF ControlInv, Control!TypeOK, Control!Witness

\* The others are left as they were.
LEMMA OthersKeepInv ==
    ASSUME ControlInv, NEW t, Moves(t), NEW u \in Tools \ {t}
    PROVE  ToolOK(u)' /\ Truthful(u)'
<1>1. witnessed[u] \subseteq witnessed'[u] \/ pc[u] = "begin"
    BY WitnessGrows DEF Moves
<1>2. ToolOK(u) /\ Truthful(u)
    BY DEF ControlInv
<1> QED
    BY <1>1, <1>2 DEF ToolOK, Truthful, Moves

\* A tool's step returns 0 only for a state that it has read or found.
LEMMA ToolKeepsInv ==
    ASSUME ControlInv, NEW t \in Tools, Control!Step(t) \/ Control!Poll(t)
    PROVE  ControlInv'
<1> USE DEF Control!States, Control!service, Control!Go, Control!Return, Control!StopReturns
<1>1. Control!TypeOK
    BY DEF ControlInv
<1>2. state' \in Control!States /\ Control!Witness
    BY <1>1 DEF Control!TypeOK, Control!Step, Control!Poll,
       Control!OpenManager, Control!CreateService, Control!WriteParameters, Control!OpenService, Control!Start,
       Control!Stop, Control!Delete, Control!PollStart, Control!PollStop, Control!PollFails
<1>3. /\ witnessed' \in [Tools -> SUBSET Control!States]
      /\ pc[t] # "begin" => witnessed'[t] = witnessed[t] \cup {state'}
    BY <1>2, WitnessGrows
<1>4. Control!TypeOK' /\ Moves(t) /\ ToolOK(t)' /\ Truthful(t)'
    <2> USE <1>1, <1>2, <1>3 DEF Control!TypeOK, Moves, ToolOK, Truthful
    <2>a. ToolOK(t) /\ Truthful(t)
        BY DEF ControlInv
    <2>1. CASE Control!OpenManager(t)
        BY <2>1, <2>a DEF Control!OpenManager
    <2>2. CASE Control!CreateService(t)
        BY <2>2, <2>a DEF Control!CreateService
    <2>3. CASE Control!WriteParameters(t)
        <3>1. params' \in BOOLEAN
            BY <2>3 DEF Control!WriteParameters
        <3>2. \E value \in 0..1 : Control!Return(t, "params", value)
            BY <2>3 DEF Control!WriteParameters
        <3> QED
            BY <2>3, <2>a, <3>1, <3>2 DEF Control!WriteParameters
    <2>4. CASE Control!OpenService(t)
        BY <2>4, <2>a DEF Control!OpenService
    <2>5. CASE Control!Start(t)
        <3>1. CASE Control!Go(t, "control", "poll") /\ UNCHANGED retval
            BY <2>5, <2>a, <3>1 DEF Control!Start
        <3>2. CASE state' # "stopped" /\ Control!Return(t, "control", 0)
            BY <2>5, <2>a, <3>2 DEF Control!Start
        <3>3. CASE Control!Return(t, "control", 1)
            BY <2>5, <2>a, <3>3 DEF Control!Start
        <3> QED
            BY <2>5, <3>1, <3>2, <3>3 DEF Control!Start
    <2>6. CASE Control!Stop(t)
        BY <2>6, <2>a DEF Control!Stop
    <2>7. CASE Control!Delete(t)
        BY <2>7, <2>a DEF Control!Delete
    <2>8. CASE Control!PollStart(t)
        BY <2>8, <2>a DEF Control!PollStart
    <2>9. CASE Control!PollStop(t)
        BY <2>9, <2>a DEF Control!PollStop
    <2>10. CASE Control!PollFails(t)
        BY <2>10, <2>a DEF Control!PollFails
    <2> QED
        BY <2>1, <2>2, <2>3, <2>4, <2>5, <2>6, <2>7, <2>8, <2>9, <2>10 DEF Control!Step, Control!Poll
<1> QED
    BY <1>4, OthersKeepInv DEF ControlInv

\* The service goes its own way, which all tools witness.
LEMMA ServiceKeepsInv ==
    ASSUME ControlInv, Control!Service
    PROVE  ControlInv'
<1>1. Control!TypeOK'
    BY WitnessGrows DEF ControlInv, Control!TypeOK, Control!States, Control!Service
<1>2. \A t \in Tools : Moves(t)
    BY DEF Moves, Control!Service, Control!States
<1>3. \A t \in Tools : ToolOK(t)' /\ Truthful(t)'
    <2> TAKE t \in Tools
    <2>1. ToolOK(t) /\ Truthful(t)
        BY DEF ControlInv
    <2>2. pc[t] # "begin" => witnessed'[t] = witnessed[t] \cup {state'}
        BY <1>2, WitnessGrows DEF Moves
    <2> QED
        BY <2>1, <2>2 DEF Control!Service, ToolOK, Truthful
<1> QED
    BY <1>1, <1>3 DEF ControlInv

\* A start or a stop that returns 0 has brought the service up or down, or has
\* found it so.  (startService, stopService.)
THEOREM ToolsTellTruth == Spec => []ZeroMeansReached
<1> DEFINE I == part = "control" => ControlInv
<1>1. Init => I
    <2> SUFFICES ASSUME Control!Init
                 PROVE  ControlInv
        BY DEF Init
    <2> QED
        BY NtServiceInstances
           DEF Control!Init, ControlInv, ToolOK, Truthful, Control!TypeOK,
               Control!States
<1>2. I /\ [Next]_vars => I'
    <2> SUFFICES ASSUME part = "control", ControlInv, [Next]_vars
                 PROVE  ControlInv'
        BY DEF Next, vars
    <2>1. CASE UNCHANGED controlVars
        BY <2>1 DEF controlVars, ControlInv, ToolOK, Truthful, Control!TypeOK
    <2> QED
        BY <2>1, ToolKeepsInv, ServiceKeepsInv
           DEF Next, vars, Control!Next, Control!Done, Control!vars, Control!service, controlVars
<1>3. I => ZeroMeansReached
    BY DEF ZeroMeansReached, Control!ZeroMeansReached, ControlInv, Truthful
<1> QED
    BY <1>1, <1>2, <1>3, PTL DEF Spec

-----------------------------------------------------------------------------
(* The command line: main() *)

\* What the words that main() has looked at hold of a kind.
Before(kind) == {k \in Line!Plain(kind) : k < i}

Others == {"--other", "-x", "word"}

LineTypes ==
    /\ argv \in Seq(Line!Words) /\ Len(argv) <= MaxArgs
    /\ i \in Nat \ {0}
    /\ args \in Seq(Line!Words) /\ showUsage \in BOOLEAN

\* main() never stops before a value, and acts when it has seen all words.
HeadOK ==
    /\ i <= Len(argv) => ~Line!IsValue[i]
    /\ phase # "parse" => i > Len(argv)

ActionOK ==
    \/ Before(Line!Modes) = {} /\ action = "service"
    \/ \E k \in Before(Line!Modes) : action = argv[k] /\ \A j \in Before(Line!Modes) : j <= k

UsageOK == showUsage = (Before({"-h", "word"}) # {} \/ Len(argv) \in Before(Line!Valued))

ArgsOK ==
    /\ Len(args) = Cardinality(Before(Others))
    /\ \A k \in Before(Others) :
         args[Cardinality({j \in Before(Others) : j <= k})] = argv[k]

OptionsOK ==
    \A o \in options : o[1] \in Line!Valued =>
        \E k \in Before({o[1]}) : /\ argv[k + 1] = o[2]
                                  /\ \A j \in Before({o[1]}) : j <= k \/ j = Len(argv)

LineInv == LineTypes /\ HeadOK /\ ActionOK /\ UsageOK /\ ArgsOK /\ OptionsOK

LineConstants == MaxArgs \in Nat

LEMMA LineAssumed == LineConstants
BY NtServiceInstances DEF LineConstants, Line!ArgsAssumption

\* Induction up to a number: among the numbers up to a missing one, the successor
\* would map the members into themselves without 0, against the pigeonhole principle.
LEMMA UpTo ==
    ASSUME NEW n \in Nat, NEW S, 0 \in S, \A k \in 0..(n - 1) : k \in S => k + 1 \in S
    PROVE  \A k \in 0..n : k \in S
<1> SUFFICES ASSUME NEW m \in 0..n, m \notin S
             PROVE  FALSE
    OBVIOUS
<1> DEFINE A == {j \in 0..m : j \in S}
           f == [j \in A |-> j + 1]
<1>1. \A j \in A : j + 1 \in A \ {0}
    OBVIOUS
<1>2. f \in [A -> A \ {0}] /\ 0 \in A
    BY <1>1
<1>3. A \in SUBSET (0..m) /\ IsFiniteSet(0..m)
    BY FS_Interval
<1> HIDE DEF A
<1>4. IsFiniteSet(A)
    BY <1>3, FS_Subset
<1>5. IsFiniteSet(A \ {0}) /\ Cardinality(A \ {0}) < Cardinality(A)
    <2>1. Cardinality(A) \in Nat
        BY <1>4, FS_CardinalityType
    <2>2. 0 \in A
        BY <1>2
    <2>3. /\ IsFiniteSet(A \ {0})
          /\ Cardinality(A \ {0}) = IF 0 \in A THEN Cardinality(A) - 1 ELSE Cardinality(A)
        BY <1>4, FS_RemoveElement, Zenon
    <2> QED
        BY <2>1, <2>2, <2>3
<1>6. PICK x \in A, y \in A : x # y /\ f[x] = f[y]
    <2> HIDE DEF f
    <2> QED
        BY <1>2, <1>4, <1>5, FS_PigeonHole
<1> QED
    BY <1>6 DEF A

\* The values on a line, and what makes a function say which they are.
Values(words) ==
    CHOOSE f : f = [k \in 1..MaxArgs |->
                       k > 1 /\ words[k - 1] \in Line!Valued /\ ~f[k - 1]]

LEMMA ValuesOfLine == Line!IsValue = Values(argv)
BY DEF Line!IsValue, Values

\* There is such a function, by induction on the number of words it covers.
LEMMA ValuesUnfold ==
    ASSUME NEW words
    PROVE  \A k \in 1..MaxArgs :
             Values(words)[k] = (k > 1 /\ words[k - 1] \in Line!Valued /\ ~Values(words)[k - 1])
<1> DEFINE Says(f, n) == f = [k \in 1..n |->
                                 k > 1 /\ words[k - 1] \in Line!Valued /\ ~f[k - 1]]
           S == {n \in Nat : \E f : Says(f, n)}
<1>1. 0 \in S
    <2>1. Says([k \in 1..0 |-> FALSE], 0)
        OBVIOUS
    <2> QED
        BY <2>1
<1>2. \A n \in 0..(MaxArgs - 1) : n \in S => n + 1 \in S
    <2> SUFFICES ASSUME NEW n \in 0..(MaxArgs - 1), NEW f, Says(f, n)
                 PROVE  n + 1 \in S
        OBVIOUS
    <2> DEFINE last == n + 1 > 1 /\ words[n] \in Line!Valued /\ ~f[n]
               g == [k \in 1..(n + 1) |-> IF k = n + 1 THEN last ELSE f[k]]
    <2>1. n \in Nat /\ n + 1 \in Nat
        BY LineAssumed DEF LineConstants
    <2>2. ASSUME NEW k \in 1..(n + 1)
          PROVE  g[k] = (k > 1 /\ words[k - 1] \in Line!Valued /\ ~g[k - 1])
        <3>1. CASE k = n + 1
            <4>1. g[k] = last /\ k - 1 = n
                BY <3>1, <2>1
            <4>2. k > 1 => g[n] = f[n]
                BY <3>1, <2>1
            <4> QED
                BY <4>1, <4>2, <3>1
        <3>2. CASE k # n + 1
            <4>1. k \in 1..n /\ g[k] = f[k]
                BY <3>2, <2>1
            <4>2. k > 1 => g[k - 1] = f[k - 1]
                BY <4>1, <2>1
            <4>3. f[k] = (k > 1 /\ words[k - 1] \in Line!Valued /\ ~f[k - 1])
                BY <4>1
            <4> QED
                BY <4>1, <4>2, <4>3
        <3> QED
            BY <3>1, <3>2
    <2>3. Says(g, n + 1)
        <3> DEFINE h == [k \in 1..(n + 1) |->
                            k > 1 /\ words[k - 1] \in Line!Valued /\ ~g[k - 1]]
        <3>1. \A k \in 1..(n + 1) : g[k] = h[k]
            BY <2>2
        <3> QED
            BY <3>1
    <2> QED
        BY <2>1, <2>3
<1>3. MaxArgs \in S
    <2> HIDE DEF S
    <2> QED
        BY <1>1, <1>2, UpTo, LineAssumed DEF LineConstants
<1>4. Says(Values(words), MaxArgs)
    <2>1. PICK f : Says(f, MaxArgs)
        BY <1>3
    <2> QED
        BY <2>1 DEF Values
<1> QED
    BY <1>4

\* As long as the line stays, so do its values and the words of a kind.
LEMMA PlainStays ==
    ASSUME argv' = argv, NEW kind
    PROVE  /\ Line!IsValue' = Line!IsValue
           /\ Before(kind)' = {k \in Line!Plain(kind) : k < i'}
<1>1. Line!IsValue' = Line!IsValue
    BY DEF Line!IsValue
<1> QED
    BY <1>1 DEF Before, Line!Plain

\* A step past a word, and past its value if it takes one: the word is one more of
\* its kind, its value is not, and the next to be looked at is no value.
Past ==
    /\ argv' = argv /\ i <= Len(argv)
    /\ i' = IF argv[i] \in Line!Valued THEN i + 2 ELSE i + 1

LEMMA BeforeGrows ==
    ASSUME LineTypes, HeadOK, Past, phase = "parse", phase' = phase
    PROVE  /\ HeadOK'
           /\ i \in DOMAIN argv
           /\ \A kind : /\ argv[i] \in kind => Before(kind)' = Before(kind) \cup {i}
                        /\ argv[i] \notin kind => Before(kind)' = Before(kind)
           /\ \A kind : Before(kind) \in SUBSET (1..(i - 1))
<1> USE DEF LineTypes, Past
<1>1. i \in 1..Len(argv) /\ Len(argv) \in Nat /\ DOMAIN argv = 1..Len(argv) /\ i \in 1..MaxArgs
    BY LineAssumed DEF LineConstants
<1>2. \A k \in 1..MaxArgs :
        Line!IsValue[k] = (k > 1 /\ argv[k - 1] \in Line!Valued /\ ~Line!IsValue[k - 1])
    BY ValuesUnfold, ValuesOfLine
<1>3. ~Line!IsValue[i]
    BY <1>1 DEF HeadOK
<1>4. i + 1 <= Len(argv) => Line!IsValue[i + 1] = (argv[i] \in Line!Valued)
    BY <1>1, <1>2, <1>3, LineAssumed DEF LineConstants
<1>5. i + 2 <= Len(argv) => (argv[i] \in Line!Valued => ~Line!IsValue[i + 2])
    BY <1>1, <1>2, <1>4, LineAssumed DEF LineConstants
<1>6. Line!IsValue' = Line!IsValue
    BY PlainStays
<1>7. HeadOK'
    BY <1>1, <1>4, <1>5, <1>6 DEF HeadOK
<1>8. ASSUME NEW kind
      PROVE  /\ argv[i] \in kind => Before(kind)' = Before(kind) \cup {i}
             /\ argv[i] \notin kind => Before(kind)' = Before(kind)
    <2>1. Before(kind)' = {k \in Line!Plain(kind) : k < i'}
        BY PlainStays
    <2>2. Before(kind) = {k \in Line!Plain(kind) : k < i}
        BY DEF Before
    <2>3. ASSUME NEW k \in 1..Len(argv), k < i', ~(k < i)
          PROVE  k = i \/ Line!IsValue[k]
        <3>1. k = i \/ (k = i + 1 /\ argv[i] \in Line!Valued)
            BY <1>1, <2>3
        <3>2. CASE k = i + 1 /\ argv[i] \in Line!Valued
            <4>1. Line!IsValue[k] = (argv[i] \in Line!Valued)
                BY <3>2, <1>1, <1>4
            <4> QED
                BY <4>1, <3>2, Zenon
        <3> QED
            BY <3>1, <3>2
    <2>4. i \in Line!Plain(kind) <=> argv[i] \in kind
        BY <1>1, <1>3 DEF Line!Plain
    <2>5. \A k \in Line!Plain(kind) : k \in 1..Len(argv) /\ ~Line!IsValue[k]
        BY <1>1 DEF Line!Plain
    <2>6. i < i' /\ \A k \in 1..Len(argv) : k < i => k < i'
        BY <1>1
    <2>7. \A k : k \in Before(kind)' <=> k \in Before(kind) \/ (k = i /\ argv[i] \in kind)
        BY <2>1, <2>2, <2>3, <2>4, <2>5, <2>6, <1>1
    <2>8. CASE argv[i] \in kind
        BY <2>7, <2>8
    <2>9. CASE argv[i] \notin kind
        <3>1. \A k : k \in Before(kind)' <=> k \in Before(kind)
            BY <2>7, <2>9
        <3>2. Before(kind)' = Before(kind)
            BY <3>1, <2>1, <2>2
        <3> QED
            BY <3>2, <2>9
    <2> QED
        BY <2>8, <2>9
<1>9. \A kind : Before(kind) \in SUBSET (1..(i - 1))
    BY <1>1 DEF Before, Line!Plain
<1> QED
    BY <1>1, <1>7, <1>8, <1>9

\* What is kept when a step meets a word of another kind.
LEMMA OthersKeep ==
    ASSUME LineInv, Past, phase = "parse", phase' = phase
    PROVE  /\ argv[i] \notin Line!Modes /\ action' = action => ActionOK'
           /\ argv[i] \notin Line!Valued \cup {"-h", "word"} /\ showUsage' = showUsage => UsageOK'
           /\ argv[i] \notin Others /\ args' = args => ArgsOK'
           /\ argv[i] \notin Line!Valued /\ options' = options => OptionsOK'
<1> USE BeforeGrows DEF LineInv
<1>0. argv' = argv
    BY DEF Past
<1>1. argv[i] \notin Line!Modes /\ action' = action => ActionOK'
    BY <1>0 DEF ActionOK
<1>2. argv[i] \notin Line!Valued \cup {"-h", "word"} /\ showUsage' = showUsage => UsageOK'
    <2> SUFFICES ASSUME argv[i] \notin Line!Valued \cup {"-h", "word"}, showUsage' = showUsage
                 PROVE  UsageOK'
        OBVIOUS
    <2>1. Before({"-h", "word"})' = Before({"-h", "word"}) /\ Before(Line!Valued)' = Before(Line!Valued)
        OBVIOUS
    <2> QED
        BY <1>0, <2>1 DEF UsageOK, Line!Valued
<1>3. argv[i] \notin Others /\ args' = args => ArgsOK'
    <2> SUFFICES ASSUME argv[i] \notin Others, args' = args
                 PROVE  ArgsOK'
        OBVIOUS
    <2>1. Before(Others)' = Before(Others)
        OBVIOUS
    <2> QED
        BY <1>0, <2>1 DEF ArgsOK
<1>4. argv[i] \notin Line!Valued /\ options' = options => OptionsOK'
    <2> SUFFICES ASSUME argv[i] \notin Line!Valued, options' = options,
                        NEW o \in options, o[1] \in Line!Valued
                 PROVE  \E k \in Before({o[1]})' : /\ argv'[k + 1] = o[2]
                                                  /\ \A j \in Before({o[1]})' : j <= k \/ j = Len(argv')
        BY DEF OptionsOK
    <2>1. Before({o[1]})' = Before({o[1]})
        OBVIOUS
    <2> QED
        BY <1>0, <2>1 DEF OptionsOK
<1> QED
    BY <1>1, <1>2, <1>3, <1>4

\* The word counted last is the one argument more.
LEMMA ArgsGrow ==
    ASSUME LineInv, Past, phase = "parse", phase' = phase, argv[i] \in Others,
           args' = Append(args, argv[i])
    PROVE  ArgsOK'
<1> DEFINE B == Before(Others)
           Upto(k) == {j \in B : j <= k}
<1>1. /\ B' = B \cup {i} /\ B \in SUBSET (1..(i - 1)) /\ i \in Nat \ {0}
      /\ argv' = argv /\ i \in DOMAIN argv
    BY BeforeGrows DEF LineInv, LineTypes, Past
<1>2. /\ Len(args) = Cardinality(B)
      /\ \A k \in B : args[Cardinality(Upto(k))] = argv[k]
    BY DEF LineInv, ArgsOK
<1>3. /\ args \in Seq(Line!Words) /\ argv[i] \in Line!Words
    BY <1>1 DEF LineInv, LineTypes
<1> HIDE DEF B
<1>4. IsFiniteSet(B) /\ i \notin B
    <2>1. IsFiniteSet(1..(i - 1)) /\ B \in SUBSET (1..(i - 1))
        BY <1>1, FS_Interval
    <2>2. IsFiniteSet(B)
        BY <2>1, FS_Subset
    <2> QED
        BY <1>1, <2>2
<1>5. IsFiniteSet(B \cup {i}) /\ Cardinality(B \cup {i}) = Cardinality(B) + 1
    BY <1>4, FS_AddElement
<1>6. Len(args') = Cardinality(B')
    BY <1>1, <1>2, <1>3, <1>5
<1>7. ASSUME NEW k \in B
      PROVE  args'[Cardinality({j \in B' : j <= k})] = argv[k]
    <2>1. {j \in B' : j <= k} = Upto(k)
        BY <1>1
    <2>2. /\ IsFiniteSet(Upto(k)) /\ Cardinality(Upto(k)) <= Cardinality(B)
          /\ Upto(k) # {} /\ Cardinality(Upto(k)) \in Nat
        <3>1. Upto(k) \in SUBSET B /\ k \in Upto(k)
            BY <1>1
        <3> HIDE DEF Upto
        <3> QED
            BY <3>1, <1>4, FS_Subset, FS_CardinalityType
    <2>3. Cardinality(Upto(k)) # 0
        <3> HIDE DEF Upto
        <3> QED
            BY <2>2, FS_EmptySet
    <2>4. Cardinality(Upto(k)) \in 1..Len(args)
        BY <2>2, <2>3, <1>2, <1>3
    <2>5. args'[Cardinality(Upto(k))] = args[Cardinality(Upto(k))]
        <3> HIDE DEF Upto
        <3> QED
            BY <2>4, <1>3
    <2> QED
        BY <2>1, <2>5, <1>2
<1>8. args'[Cardinality({j \in B' : j <= i})] = argv[i]
    <2>1. \A j \in B \cup {i} : j <= i
        BY <1>1
    <2>2. {j \in B' : j <= i} = B \cup {i}
        <3>1. B' = B \cup {i}
            BY <1>1
        <3> QED
            BY <3>1, <2>1, Zenon
    <2>3. Cardinality({j \in B' : j <= i}) = Len(args) + 1
        BY <2>2, <1>2, <1>5
    <2> QED
        BY <2>3, <1>3
<1>9. \A k \in B' : args'[Cardinality({j \in B' : j <= k})] = argv'[k]
    BY <1>1, <1>7, <1>8
<1> QED
    BY <1>6, <1>9 DEF ArgsOK, B

\* A command is the last one so far.
LEMMA ModeKeeps ==
    ASSUME LineInv, Line!ParseMode
    PROVE  LineInv'
<1> USE DEF Line!ParseMode, Line!Word, Line!stored
<1>1. argv[i] \in Line!Modes /\ argv[i] \notin Line!Valued \cup {"-h", "word"} \cup Others
    BY DEF Line!Modes, Line!Valued, Others
<1>2. Past /\ phase = "parse" /\ phase' = phase
    BY <1>1 DEF Past
<1>3. ActionOK'
    <2>1. /\ Before(Line!Modes)' = Before(Line!Modes) \cup {i} /\ argv' = argv
          /\ Before(Line!Modes) \in SUBSET (1..(i - 1)) /\ i \in Nat \ {0}
        BY <1>1, <1>2, BeforeGrows DEF LineInv, LineTypes
    <2>2. i \in Before(Line!Modes)' /\ \A j \in Before(Line!Modes)' : j <= i
        BY <2>1
    <2> QED
        BY <2>1, <2>2 DEF ActionOK
<1>4. LineTypes'
    BY DEF LineInv, LineTypes
<1> QED
    BY <1>1, <1>2, <1>3, <1>4, OthersKeep, BeforeGrows DEF LineInv

\* An option has the value behind it; the last one of a line asks for help.
LEMMA ValuedKeeps ==
    ASSUME LineInv, Line!ParseValued
    PROVE  LineInv'
<1> USE DEF Line!ParseValued, Line!Word, Line!stored
<1>1. argv[i] \in Line!Valued /\ argv[i] \notin Line!Modes \cup {"-h", "word"} \cup Others
    BY DEF Line!Modes, Line!Valued, Others
<1>2. Past /\ phase = "parse" /\ phase' = phase
    BY <1>1 DEF Past
<1>a. showUsage' = (showUsage \/ ~(i < Len(argv))) /\ showUsage' \in BOOLEAN
    <2>1. CASE i < Len(argv)
        BY <2>1, Zenon DEF LineInv, LineTypes
    <2>2. CASE ~(i < Len(argv))
        BY <2>2, Zenon
    <2> QED
        BY <2>1, <2>2
<1>3. LineTypes'
    BY <1>a DEF LineInv, LineTypes
<1>4. /\ argv' = argv /\ i \in 1..Len(argv) /\ Len(argv) \in Nat
      /\ \A kind : Before(kind) \in SUBSET (1..(i - 1))
      /\ \A kind : /\ argv[i] \in kind => Before(kind)' = Before(kind) \cup {i}
                   /\ argv[i] \notin kind => Before(kind)' = Before(kind)
    BY <1>2, BeforeGrows DEF LineInv, LineTypes
<1>5. UsageOK'
    <2>1. /\ Before({"-h", "word"})' = Before({"-h", "word"})
          /\ Before(Line!Valued)' = Before(Line!Valued) \cup {i}
        BY <1>1, <1>4
    <2>2. Len(argv) \notin Before(Line!Valued)
        BY <1>4
    <2>3. showUsage = (Before({"-h", "word"}) # {})
        BY <2>2 DEF LineInv, UsageOK
    <2>4. showUsage' = (showUsage \/ i = Len(argv))
        <3>1. i = Len(argv) <=> ~(i < Len(argv))
            BY <1>4
        <3> QED
            BY <3>1, <1>a, Zenon
    <2> QED
        BY <2>1, <2>2, <2>3, <2>4, <1>4 DEF UsageOK
<1>6. OptionsOK'
    <2> SUFFICES ASSUME NEW o \in options', o[1] \in Line!Valued
                 PROVE  \E k \in Before({o[1]})' : /\ argv'[k + 1] = o[2]
                                                  /\ \A j \in Before({o[1]})' : j <= k \/ j = Len(argv')
        BY DEF OptionsOK
    <2>1. CASE o[1] # argv[i]
        <3>1. o \in options /\ Before({o[1]})' = Before({o[1]})
            BY <2>1, <1>4
        <3> QED
            BY <3>1, <1>4 DEF LineInv, OptionsOK
    <2>2. CASE o[1] = argv[i]
        <3>1. Before({o[1]})' = Before({o[1]}) \cup {i} /\ Before({o[1]}) \in SUBSET (1..(i - 1))
            BY <2>2, <1>4
        <3>2. CASE i < Len(argv)
            <4>1. o = << argv[i], argv[i + 1] >>
                BY <2>2, <3>2
            <4>2. i \in Before({o[1]})' /\ \A j \in Before({o[1]})' : j <= i
                BY <3>1, <1>4, SMTT(30)
            <4> QED
                BY <4>1, <4>2, <1>4
        <3>3. CASE ~(i < Len(argv))
            <4>1. o \in options /\ i = Len(argv)
                BY <3>3, <1>4
            <4>2. PICK k \in Before({o[1]}) : /\ argv[k + 1] = o[2]
                                              /\ \A j \in Before({o[1]}) : j <= k \/ j = Len(argv)
                BY <4>1 DEF LineInv, OptionsOK
            <4> QED
                BY <4>1, <4>2, <3>1, <1>4
        <3> QED
            BY <3>2, <3>3
    <2> QED
        BY <2>1, <2>2
<1> QED
    BY <1>1, <1>2, <1>3, <1>5, <1>6, OthersKeep, BeforeGrows DEF LineInv

LEMMA DelayedKeeps ==
    ASSUME LineInv, Line!ParseDelayed
    PROVE  LineInv'
<1> USE DEF Line!ParseDelayed, Line!Word, Line!stored
<1>1. argv[i] \notin Line!Modes \cup Line!Valued \cup {"-h", "word"} \cup Others
    BY DEF Line!Modes, Line!Valued, Others
<1>2. Past /\ phase = "parse" /\ phase' = phase
    BY <1>1 DEF Past
<1>3. LineTypes'
    BY DEF LineInv, LineTypes
<1>4. OptionsOK'
    <2> SUFFICES ASSUME NEW o \in options', o[1] \in Line!Valued
                 PROVE  \E k \in Before({o[1]})' : /\ argv'[k + 1] = o[2]
                                                  /\ \A j \in Before({o[1]})' : j <= k \/ j = Len(argv')
        BY DEF OptionsOK
    <2>1. o \in options /\ o[1] # argv[i]
        BY <1>1
    <2>2. Before({o[1]})' = Before({o[1]}) /\ argv' = argv
        BY <2>1, <1>2, BeforeGrows DEF LineInv
    <2> QED
        BY <2>1, <2>2 DEF LineInv, OptionsOK
<1> QED
    BY <1>1, <1>2, <1>3, <1>4, OthersKeep, BeforeGrows DEF LineInv

\* Two kinds of words ask for help, one of them an argument as well.
LEMMA HelpKeeps ==
    ASSUME LineInv, Line!ParseHelp \/ Line!ParseUnknown
    PROVE  LineInv'
<1> USE DEF Line!ParseHelp, Line!ParseUnknown, Line!Word, Line!stored
<1>1. /\ argv[i] \notin Line!Modes \cup Line!Valued
      /\ argv[i] \in Others <=> Line!ParseUnknown
      /\ argv[i] \in {"-h", "word"} <=> Line!ParseHelp \/ argv[i] = "word"
    BY DEF Line!Modes, Line!Valued, Line!Unknown, Others
<1>2. Past /\ phase = "parse" /\ phase' = phase
    BY <1>1 DEF Past
<1>3. LineTypes'
    <2>1. i \in DOMAIN argv /\ argv[i] \in Line!Words
        BY <1>2, BeforeGrows DEF LineInv, LineTypes
    <2>2. showUsage' \in BOOLEAN
        BY Zenon DEF LineInv, LineTypes
    <2>3. args' \in Seq(Line!Words)
        BY <2>1 DEF LineInv, LineTypes
    <2> QED
        BY <2>2, <2>3 DEF LineInv, LineTypes
<1>4. ArgsOK'
    <2>1. CASE Line!ParseHelp
        BY <2>1, <1>1, <1>2, OthersKeep DEF Others
    <2>2. CASE Line!ParseUnknown
        BY <2>2, <1>1, <1>2, ArgsGrow
    <2> QED
        BY <2>1, <2>2
<1>5. UsageOK'
    <2>1. /\ argv' = argv
          /\ Before(Line!Valued)' = Before(Line!Valued)
          /\ argv[i] \in {"-h", "word"} => Before({"-h", "word"})' = Before({"-h", "word"}) \cup {i}
          /\ argv[i] \notin {"-h", "word"} => Before({"-h", "word"})' = Before({"-h", "word"})
        BY <1>1, <1>2, BeforeGrows DEF LineInv
    <2>2. showUsage \in BOOLEAN /\ showUsage' = (showUsage \/ argv[i] \in {"-h", "word"})
        BY <1>1 DEF LineInv, LineTypes
    <2>3. showUsage = (Before({"-h", "word"}) # {} \/ Len(argv) \in Before(Line!Valued))
        BY DEF LineInv, UsageOK
    <2>4. showUsage' = (Before({"-h", "word"})' # {} \/ Len(argv') \in Before(Line!Valued)')
        <3>1. CASE argv[i] \in {"-h", "word"}
            BY <3>1, <2>1, <2>2
        <3>2. CASE argv[i] \notin {"-h", "word"}
            BY <3>2, <2>1, <2>2, <2>3
        <3> QED
            BY <3>1, <3>2
    <2> QED
        BY <2>4 DEF UsageOK
<1> QED
    BY <1>1, <1>2, <1>3, <1>4, <1>5, OthersKeep, BeforeGrows DEF LineInv

\* What follows the parsing changes neither the line nor what was made of it.
LEMMA ActingKeeps ==
    ASSUME LineInv, UNCHANGED << argv, i, action, showUsage, options, args >>,
           phase' = phase \/ i > Len(argv)
    PROVE  LineInv'
<1>1. Line!IsValue' = Line!IsValue
    BY PlainStays
<1>2. \A kind : Before(kind)' = Before(kind)
    BY PlainStays DEF Before
<1> QED
    BY <1>1, <1>2 DEF LineInv, LineTypes, HeadOK, ActionOK, UsageOK, ArgsOK, OptionsOK

LEMMA LineStepKeeps == LineInv /\ Line!Next => LineInv'
<1> SUFFICES ASSUME LineInv, Line!Next
             PROVE  LineInv'
    OBVIOUS
<1>1. CASE Line!Act
    BY <1>1, ActingKeeps DEF Line!Act
<1>2. CASE Line!Install
    BY <1>2, ActingKeeps DEF Line!Install, LineInv, LineTypes, HeadOK
<1>3. CASE Line!ServiceMain
    BY <1>3, ActingKeeps DEF Line!ServiceMain, LineInv, LineTypes, HeadOK
<1>4. CASE Line!ServiceMainReadsNothing
    BY <1>4, ActingKeeps DEF Line!ServiceMainReadsNothing, LineInv, LineTypes, HeadOK
<1>5. CASE Line!Done
    BY <1>5, ActingKeeps DEF Line!Done, Line!vars
<1> QED
    BY <1>1, <1>2, <1>3, <1>4, <1>5, ModeKeeps, ValuedKeeps, DelayedKeeps, HelpKeeps DEF Line!Next

\* At the end the words looked at are all words.
LEMMA AllAreBefore ==
    ASSUME LineInv, phase # "parse", NEW kind
    PROVE  Before(kind) = Line!Plain(kind)
BY DEF LineInv, LineTypes, HeadOK, Before, Line!Plain

\* What main() makes of a command line is what the help promises: the last command
\* counts, options have the values that follow them, a value is never taken for a
\* command or an argument, nothing unknown is lost or reordered.  (main.)
THEOREM LinesParseAsDocumented == Spec => []ParsesAsDocumented
<1> DEFINE I == part = "line" => LineInv
<1>1. Init => I
    <2> SUFFICES ASSUME Line!Init
                 PROVE  LineInv
        BY DEF Init
    <2>1. LineTypes
        <3>1. PICK m \in 0..MaxArgs : argv \in [1..m -> Line!Words]
            BY DEF Line!Init, Line!BoundedSeq, Line!SeqOf
        <3>2. argv \in Seq(Line!Words) /\ Len(argv) = m
            BY <3>1, LineAssumed DEF LineConstants
        <3>3. args \in Seq(Line!Words) /\ i \in Nat \ {0}
            BY DEF Line!Init
        <3>4. showUsage \in BOOLEAN
            BY Zenon DEF Line!Init
        <3>5. Len(argv) <= MaxArgs
            BY <3>2, LineAssumed DEF LineConstants
        <3> QED
            BY <3>2, <3>3, <3>4, <3>5 DEF LineTypes
    <2>2. \A kind : Before(kind) = {}
        BY <2>1 DEF Line!Init, Before, Line!Plain, LineTypes
    <2>3. HeadOK
        <3>1. Len(argv) >= 1 => ~Line!IsValue[1]
            <4>1. Len(argv) >= 1 => 1 \in 1..MaxArgs
                BY <2>1, LineAssumed DEF LineTypes, LineConstants
            <4>2. 1 \in 1..MaxArgs =>
                    Values(argv)[1] = (1 > 1 /\ argv[1 - 1] \in Line!Valued /\ ~Values(argv)[1 - 1])
                BY ValuesUnfold
            <4>3. ~(1 > 1)
                OBVIOUS
            <4>4. 1 \in 1..MaxArgs => ~Values(argv)[1]
                BY <4>2, <4>3, Zenon
            <4> QED
                BY <4>1, <4>4, ValuesOfLine, Zenon
        <3> QED
            BY <3>1 DEF Line!Init, HeadOK
    <2> QED
        BY <2>1, <2>2, <2>3, FS_EmptySet
           DEF Line!Init, LineInv, ActionOK, UsageOK, ArgsOK, OptionsOK
<1>2. I /\ [Next]_vars => I'
    <2> SUFFICES ASSUME part = "line", LineInv, [Next]_vars
                 PROVE  LineInv'
        BY DEF Next, vars
    <2>1. CASE UNCHANGED lineVars
        BY <2>1, ActingKeeps DEF lineVars
    <2> QED
        BY <2>1, LineStepKeeps DEF Next, vars
<1>3. I => ParsesAsDocumented
    <2> SUFFICES ASSUME LineInv, phase # "parse"
                 PROVE  Line!ParsesAsDocumented
        BY DEF ParsesAsDocumented, Line!ParsesAsDocumented
    <2>1. \A kind : Before(kind) = Line!Plain(kind)
        BY AllAreBefore
    <2>2. action = IF Line!Plain(Line!Modes) = {} THEN "service"
                   ELSE argv[CHOOSE k \in Line!Plain(Line!Modes) :
                                 \A j \in Line!Plain(Line!Modes) : j <= k]
        <3>1. CASE Line!Plain(Line!Modes) = {}
            BY <3>1, <2>1 DEF LineInv, ActionOK
        <3>2. CASE Line!Plain(Line!Modes) # {}
            <4> DEFINE M == Line!Plain(Line!Modes)
            <4>1. PICK k \in M : action = argv[k] /\ \A j \in M : j <= k
                BY <3>2, <2>1 DEF LineInv, ActionOK
            <4>2. M \subseteq Nat
                BY DEF LineInv, LineTypes, Line!Plain
            <4> HIDE DEF M
            <4> DEFINE last == CHOOSE m \in M : \A j \in M : j <= m
            <4>3. last \in M /\ \A j \in M : j <= last
                BY <4>1, Zenon
            <4> HIDE DEF last
            <4>4. k = last
                BY <4>1, <4>2, <4>3
            <4> QED
                BY <3>2, <4>1, <4>4 DEF M, last
        <3> QED
            BY <3>1, <3>2
    <2>3. Others = Line!Unknown \cup {"word"}
        BY DEF Others, Line!Unknown
    <2>4. showUsage = (Line!Plain({"-h", "word"}) # {} \/ Len(argv) \in Line!Plain(Line!Valued))
        BY <2>1 DEF LineInv, UsageOK
    <2>5. /\ Len(args) = Cardinality(Line!Plain(Others))
          /\ \A k \in Line!Plain(Others) :
               args[Cardinality({j \in Line!Plain(Others) : j <= k})] = argv[k]
        BY <2>1 DEF LineInv, ArgsOK
    <2>6. \A o \in options : o[1] \in Line!Valued =>
            \E k \in Line!Plain({o[1]}) :
                argv[k + 1] = o[2] /\ \A j \in Line!Plain({o[1]}) : j <= k \/ j = Len(argv)
        BY <2>1 DEF LineInv, OptionsOK
    <2>7. /\ Len(args) = Line!Cardinality(Line!Plain(Others))
          /\ \A k \in Line!Plain(Others) :
               args[Line!Cardinality({j \in Line!Plain(Others) : j <= k})] = argv[k]
        BY <2>5 DEF Line!Cardinality, Cardinality
    <2> QED
        BY <2>2, <2>3, <2>4, <2>6, <2>7, Zenon DEF Line!ParsesAsDocumented
<1> QED
    BY <1>1, <1>2, <1>3, PTL DEF Spec
=============================================================================
