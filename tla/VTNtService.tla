----------------------------- MODULE VTNtService -----------------------------
(***************************************************************************)
(* A running NtService of src/VTNtService.cpp.  ServiceMain, the control   *)
(* handler (on the dispatcher's thread) and the watchdogs that stop()      *)
(* creates all call reportStatus(), which writes the shared m_status and   *)
(* m_stoppedEvent and then sends m_status to the service control manager,  *)
(* without a lock.  The manager and the derived class's run() and stop()   *)
(* are the environment.  Check points and wait hints are left out.         *)
(***************************************************************************)
EXTENDS Naturals, FiniteSets

CONSTANTS Watchdogs,     \* one for each call of stop()
          Controls,      \* the control codes that the manager sends
          MaxStops,      \* bound on the stops and shutdowns it sends
          MaxAsks,       \* bound on its requests for the state
          MaxExpiries,   \* bound on the watchdogs' timeouts
          SelfEnding     \* may run() return before it is asked to?

Ends == {"stop", "shutdown"}
Refused == {"pause", "continue", "unknown"}

NtServiceAssumption ==
    /\ "ServiceMain" \notin Watchdogs /\ "Dispatcher" \notin Watchdogs
    /\ Controls \subseteq Ends \cup Refused \cup {"interrogate", "device"}
    /\ MaxStops \in Nat /\ MaxAsks \in Nat /\ MaxExpiries \in Nat
    /\ MaxStops <= Cardinality(Watchdogs)
    /\ SelfEnding \in BOOLEAN

States == {"start_pending", "running", "stop_pending", "stopped"}
Threads == {"ServiceMain", "Dispatcher"} \cup Watchdogs

VARIABLES console,    \* m_console
          current,    \* m_status.dwCurrentState
          accepted,   \* m_status.dwControlsAccepted # 0
          stopped,    \* m_stoppedEvent, which resets itself (line 46)
          report,     \* per thread: where it is in reportStatus()
          arg,        \* per thread: reportStatus()'s currentState
          main,       \* where ServiceMain or startConsole is
          handler,    \* where the control handler is
          watchdog,   \* per watchdog: where it is
          asked,      \* has the derived class asked run() to return?
          scm,        \* the state and controls the manager was last sent
          ended,      \* has the manager been told of a stop?
          alive,      \* is the process alive?
          sent        \* numbers of controls and timeouts so far

status == << current, accepted, stopped >>
calls == << report, arg >>
manager == << scm, ended >>
vars == << console, status, calls, main, handler, watchdog, asked, manager, alive, sent >>

\* Every variable has its type.
TypeOK ==
    /\ console \in BOOLEAN /\ accepted \in BOOLEAN /\ stopped \in BOOLEAN
    /\ asked \in BOOLEAN /\ ended \in BOOLEAN /\ alive \in BOOLEAN
    /\ current \in States \cup {"none"}
    /\ report \in [Threads -> {"idle", "accept", "state", "event", "send"}]
    /\ arg \in [Threads -> States \cup {"none"}]
    /\ main \in {"register", "starting", "run", "up", "running", "stopping", "done"}
    /\ handler \in {"idle", "stop", "report", "asking"}
    /\ watchdog \in [Watchdogs -> {"none", "wait", "report", "done"}]
    /\ scm \in [state : States \cup {"none"}, accepts : BOOLEAN]
    /\ sent \in [stops : 0..MaxStops, asks : 0..MaxAsks, expiries : 0..MaxExpiries]

Init ==
    /\ console \in BOOLEAN
    /\ current = "none" /\ accepted = FALSE /\ stopped = FALSE
    /\ report = [t \in Threads |-> "idle"]
    /\ arg = [t \in Threads |-> "none"]
    /\ main = IF console THEN "run" ELSE "register"
    /\ handler = "idle"
    /\ watchdog = [w \in Watchdogs |-> "none"]
    /\ asked = FALSE
    /\ scm = [state |-> "none", accepts |-> FALSE]
    /\ ended = FALSE
    /\ alive = TRUE
    /\ sent = [stops |-> 0, asks |-> 0, expiries |-> 0]

-----------------------------------------------------------------------------
(* reportStatus(): four steps that other threads' steps may come between. *)

ReportStatus(t, state) ==
    /\ report[t] = "idle"
    /\ report' = [report EXCEPT ![t] = "accept"]
    /\ arg' = [arg EXCEPT ![t] = state]

At(t, from, to) ==
    /\ alive
    /\ report[t] = from
    /\ report' = [report EXCEPT ![t] = to]
    /\ UNCHANGED << console, arg, main, handler, watchdog, asked, alive, sent >>

ReportAccepted(t) ==
    /\ At(t, "accept", "state")
    /\ accepted' = (arg[t] # "start_pending")
    /\ UNCHANGED << current, stopped, manager >>

ReportState(t) ==
    /\ At(t, "state", "event")
    /\ current' = arg[t]
    /\ UNCHANGED << accepted, stopped, manager >>

ReportEvent(t) ==
    /\ At(t, "event", "send")
    /\ stopped' = (arg[t] = "stopped")
    /\ UNCHANGED << current, accepted, manager >>

\* A fault the runs must catch, in no specification: reportStatus()
\* that sends what it was called with instead of what m_status holds.
ReportSendsArgument(t) ==
    /\ At(t, "send", "idle")
    /\ scm' = [state |-> arg[t], accepts |-> arg[t] # "start_pending"]
    /\ ended' = (ended \/ arg[t] = "stopped")
    /\ UNCHANGED status

\* SetServiceStatus(), which sends whatever m_status holds by now.  The manager
\* may refuse it from a service that has not started or has stopped.
ReportSend(t) ==
    /\ At(t, "send", "idle")
    /\ \/ /\ scm' = [state |-> current, accepts |-> accepted]
          /\ ended' = (ended \/ current = "stopped")
       \/ /\ console \/ ended \/ arg[t] = "start_pending"
          /\ UNCHANGED manager
    /\ UNCHANGED status

-----------------------------------------------------------------------------
(* Faults the runs must catch; no specification uses them. *)

\* A watchdog that leaves the event to somebody else.
StopRaisesEvent ==
    /\ alive
    /\ handler = "report" /\ report["Dispatcher"] = "idle"
    /\ handler' = "asking"
    /\ stopped' = TRUE
    /\ \E w \in Watchdogs : /\ watchdog[w] = "none"
                            /\ watchdog' = [watchdog EXCEPT ![w] = "wait"]
    /\ UNCHANGED << console, current, accepted, calls, main, asked, manager, alive, sent >>

\* stop() that waits for the watchdog it has created.
StopJoinsWatchdog ==
    /\ alive
    /\ \/ /\ handler = "report" /\ report["Dispatcher"] = "idle"
          /\ handler' = "joining"
          /\ \E w \in Watchdogs : /\ watchdog[w] = "none"
                                  /\ watchdog' = [watchdog EXCEPT ![w] = "wait"]
       \/ /\ handler = "joining" /\ handler' = "asking"
          /\ \A w \in Watchdogs : watchdog[w] \in {"none", "done"}
          /\ UNCHANGED watchdog
    /\ UNCHANGED << console, status, calls, main, asked, manager, alive, sent >>

-----------------------------------------------------------------------------
(* ServiceMain, and startConsole in a console *)

Register ==
    /\ alive /\ main = "register"
    /\ \/ main' = "done" /\ UNCHANGED calls
       \/ main' = "starting" /\ ReportStatus("ServiceMain", "start_pending")
    /\ UNCHANGED << console, status, handler, watchdog, asked, manager, alive, sent >>

\* run() is called if the report succeeded.
Started ==
    /\ alive /\ main = "starting" /\ report["ServiceMain"] = "idle"
    /\ IF scm.state = "start_pending"
       THEN main' = "run" /\ UNCHANGED calls
       ELSE main' = "stopping" /\ ReportStatus("ServiceMain", "stopped")
    /\ UNCHANGED << console, status, handler, watchdog, asked, manager, alive, sent >>

\* run() says that the service is up.
RunReports ==
    /\ alive /\ main = "run" /\ ~console
    /\ ReportStatus("ServiceMain", "running")
    /\ main' = "up"
    /\ UNCHANGED << console, status, handler, watchdog, asked, manager, alive, sent >>

RunIsUp ==
    /\ alive /\ main = "up" /\ report["ServiceMain"] = "idle"
    /\ main' = "running"
    /\ UNCHANGED << console, status, calls, handler, watchdog, asked, manager, alive, sent >>

\* run() returns: the stopped status is reported, or in a console the event set.
RunReturns ==
    /\ alive
    /\ main \in {"run", "running"}
    /\ asked \/ SelfEnding
    /\ IF console
       THEN /\ main' = "done" /\ stopped' = TRUE /\ UNCHANGED calls
       ELSE /\ main' = "stopping" /\ UNCHANGED stopped
            /\ ReportStatus("ServiceMain", "stopped")
    /\ UNCHANGED << console, current, accepted, handler, watchdog, asked, manager, alive, sent >>

ServiceMainReturns ==
    /\ alive /\ main = "stopping" /\ report["ServiceMain"] = "idle"
    /\ main' = "done"
    /\ UNCHANGED << console, status, calls, handler, watchdog, asked, manager, alive, sent >>

-----------------------------------------------------------------------------
(* ServiceCtrlHandlerEx and stop() *)

\* The manager sends what the service accepts, and a stop or a shutdown only to one
\* that runs; the dispatcher's one thread answers a control before the next.  In a
\* console the derived class itself calls stop().
MayControl(c) ==
    /\ alive /\ handler = "idle" /\ report["Dispatcher"] = "idle" /\ c \in Controls
    /\ IF console THEN c = "stop" /\ main = "run"
                  ELSE scm.state \notin {"none", "stopped"} /\ ~ended
    /\ c \in Ends => /\ console \/ (scm.state = "running" /\ scm.accepts)
                     /\ sent.stops < MaxStops
    /\ c = "interrogate" => sent.asks < MaxAsks

Count(c) == sent' = IF c \in Ends THEN [sent EXCEPT !.stops = @ + 1]
                                  ELSE [sent EXCEPT !.asks = @ + 1]

ControlStop ==
    /\ MayControl("stop") /\ Count("stop")
    /\ current' = IF console THEN current ELSE "stop_pending"
    /\ handler' = "stop"
    /\ UNCHANGED << console, accepted, stopped, calls, main, watchdog, asked, manager, alive >>

\* SERVICE_CONTROL_SHUTDOWN and PRESHUTDOWN: the derived class's shutdown().
ControlShutdown ==
    /\ MayControl("shutdown") /\ Count("shutdown")
    /\ asked' = TRUE
    /\ UNCHANGED << console, status, calls, main, handler, watchdog, manager, alive >>

\* The state is read here and reported later.
ControlInterrogate ==
    /\ MayControl("interrogate") /\ Count("interrogate")
    /\ ReportStatus("Dispatcher", current)
    /\ UNCHANGED << console, status, main, handler, watchdog, asked, manager, alive >>

\* Codes that are answered without a change of state.
ControlOther ==
    /\ \E c \in Refused \cup {"device"} : MayControl(c)
    /\ UNCHANGED vars

StopReports ==
    /\ alive /\ handler = "stop"
    /\ IF console THEN UNCHANGED calls ELSE ReportStatus("Dispatcher", "stop_pending")
    /\ handler' = "report"
    /\ UNCHANGED << console, status, main, watchdog, asked, manager, alive, sent >>

StopCreatesWatchdog ==
    /\ alive /\ handler = "report" /\ report["Dispatcher"] = "idle"
    /\ handler' = "asking"
    /\ \E w \in Watchdogs : /\ watchdog[w] = "none"
                            /\ watchdog' = [watchdog EXCEPT ![w] = "wait"]
    /\ UNCHANGED << console, status, calls, main, asked, manager, alive, sent >>

\* No thread: ExitProcess().  The manager sees the process end.
StopFails ==
    /\ alive /\ handler = "report" /\ report["Dispatcher"] = "idle"
    /\ alive' = FALSE /\ ended' = TRUE
    /\ scm' = [scm EXCEPT !.state = "stopped"]
    /\ UNCHANGED << console, status, calls, main, handler, watchdog, asked, sent >>

\* The derived class's stop(), after NtService::stop(), makes run() return.
StopAsks ==
    /\ alive /\ handler = "asking"
    /\ handler' = "idle"
    /\ asked' = TRUE
    /\ UNCHANGED << console, status, calls, main, watchdog, manager, alive, sent >>

-----------------------------------------------------------------------------
(* watchdogProc *)

\* The wait succeeds and takes the event with it.
WatchdogReleased(w) ==
    /\ alive
    /\ watchdog[w] = "wait" /\ stopped
    /\ stopped' = FALSE
    /\ watchdog' = [watchdog EXCEPT ![w] = "done"]
    /\ UNCHANGED << console, current, accepted, calls, main, handler, asked, manager, alive, sent >>

WatchdogExpires(w) ==
    /\ alive
    /\ watchdog[w] = "wait" /\ ~stopped
    /\ sent.expiries < MaxExpiries
    /\ sent' = [sent EXCEPT !.expiries = @ + 1]
    /\ ReportStatus(w, "stop_pending")
    /\ watchdog' = [watchdog EXCEPT ![w] = "report"]
    /\ UNCHANGED << console, status, main, handler, asked, manager, alive >>

WatchdogLoops(w) ==
    /\ alive
    /\ watchdog[w] = "report" /\ report[w] = "idle"
    /\ watchdog' = [watchdog EXCEPT ![w] = "wait"]
    /\ UNCHANGED << console, status, calls, main, handler, asked, manager, alive, sent >>

-----------------------------------------------------------------------------
\* startDispatcher: StartServiceCtrlDispatcher() returns once the manager was
\* told of the stop, or gives up on a service that told it nothing; main() ends.
DispatcherReturns ==
    /\ alive
    /\ IF console THEN main = "done"
                  ELSE \/ ended /\ handler = "idle" /\ report["Dispatcher"] = "idle"
                       \/ main = "done" /\ scm.state = "none"
    /\ alive' = FALSE
    /\ UNCHANGED << console, status, calls, main, handler, watchdog, asked, manager, sent >>

Gone == ~alive /\ UNCHANGED vars

Reporting(t) ==
    ReportAccepted(t) \/ ReportState(t) \/ ReportEvent(t) \/ ReportSend(t)

ServiceMain ==
    Register \/ Started \/ RunReports \/ RunIsUp \/ RunReturns \/ ServiceMainReturns

Handler == StopReports \/ StopCreatesWatchdog \/ StopFails \/ StopAsks

Next ==
    \/ \E t \in Threads : Reporting(t)
    \/ ServiceMain \/ Handler
    \/ ControlStop \/ ControlShutdown \/ ControlInterrogate \/ ControlOther
    \/ \E w \in Watchdogs : WatchdogReleased(w) \/ WatchdogExpires(w) \/ WatchdogLoops(w)
    \/ DispatcherReturns \/ Gone

\* All threads run, run() comes up and honours a request to return, and the
\* dispatcher returns.  Controls and timeouts may or may not come.
Fairness ==
    /\ \A t \in Threads : WF_vars(Reporting(t))
    /\ WF_vars(ServiceMain /\ (main = "running" => asked)) /\ WF_vars(Handler) /\ WF_vars(DispatcherReturns)
    /\ \A w \in Watchdogs : WF_vars(WatchdogReleased(w)) /\ WF_vars(WatchdogLoops(w))

Spec == Init /\ [][Next]_vars /\ Fairness

-----------------------------------------------------------------------------
(* Properties *)

\* When ServiceMain has made its last report the manager knows that the service
\* has stopped: no other thread's report came in between.  The code does not keep
\* it: a watchdog that times out, or an interrogation that has read m_status before,
\* can report after ServiceMain.  (ServiceMain, reportStatus, watchdogProc.)
StoppedIsReported ==
    main = "done" /\ ~console /\ scm.state # "none" => scm.state = "stopped"

\* Once stop() has started its watchdog, the manager never hears again that the
\* service starts or runs, though reports overlap, share one m_status without a lock
\* and may have begun before the stop.  (ServiceCtrlHandlerEx, stop,
\* reportStatus.)
StopIsNotTakenBack ==
    ~console /\ (\E w \in Watchdogs : watchdog[w] # "none")
        => scm.state \in {"stop_pending", "stopped"}

\* A watchdog is let go only by the end of run(): it does not take the event for
\* set while the service is still stopping.  (watchdogProc, reportStatus.)
WatchdogGuards ==
    \A w \in Watchdogs : watchdog[w] = "done" => main \in {"stopping", "done"}

\* A stop or a shutdown ends the process.  (stop, ServiceMain, startDispatcher.)
StopEnds == handler = "stop" \/ asked ~> ~alive

\* Whatever controls come and however often watchdogs time out, a request to
\* stop brings ServiceMain to its end.  (stop, ServiceMain.)
ServiceMainEnds == handler = "stop" \/ asked ~> main = "done" \/ ~alive

\* A service that is up, with no report under way, accepts a stop.
\* (reportStatus, ServiceCtrlHandlerEx.)
RunningAcceptsStop ==
    main = "running" /\ (\A t \in Threads : report[t] = "idle") => scm.accepts
=============================================================================
