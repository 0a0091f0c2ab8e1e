-------------------------- MODULE VTNtServiceControl --------------------------
(***************************************************************************)
(* The command line tools of src/VTNtService.cpp: --install, --uninstall,  *)
(* --start and --stop, run by several users at once against one service    *)
(* control manager.  A call of the manager is one step and may fail.  The  *)
(* manager's database and the service itself are the environment.          *)
(***************************************************************************)
EXTENDS Naturals

CONSTANTS Tools,      \* processes that run one command each
          Commands    \* what they may be told

ControlAssumption == Commands \subseteq {"install", "uninstall", "start", "stop"}

VARIABLES installed,    \* "no", "yes" or "marked" for deletion
          state,        \* the service's state
          params,       \* are its parameters in the registry?
          command,      \* per tool: its command
          pc,           \* per tool: where it is
          status,       \* per tool: m_status.dwCurrentState
          retval,       \* per tool: what the function it is in will return
          witnessed     \* per tool: (history) states the service has had since its call

service == << installed, state, params >>
vars == << service, command, pc, status, retval, witnessed >>

States == {"stopped", "start_pending", "running", "stop_pending"}

\* Every variable has its type.
TypeOK ==
    /\ installed \in {"no", "yes", "marked"}
    /\ state \in States
    /\ params \in BOOLEAN
    /\ command \in [Tools -> Commands]
    /\ pc \in [Tools -> {"begin", "open", "params", "control", "poll", "delete", "done"}]
    /\ status \in [Tools -> States \cup {"none"}]
    /\ retval \in [Tools -> 0..1]
    /\ witnessed \in [Tools -> SUBSET States]

Init ==
    /\ installed \in {"no", "yes"}
    /\ params = (installed = "yes")
    /\ state \in IF installed = "yes" THEN {"stopped", "running"} ELSE {"stopped"}
    /\ command \in [Tools -> Commands]
    /\ pc = [t \in Tools |-> "begin"]
    /\ status = [t \in Tools |-> "none"]
    /\ retval = [t \in Tools |-> 1]
    /\ witnessed = [t \in Tools |-> {}]

-----------------------------------------------------------------------------
\* Every step keeps the history of the service's state.
Witness == witnessed' = [t \in Tools |->
    IF pc[t] = "begin" THEN {} ELSE witnessed[t] \cup {state'}]

Go(t, from, to) ==
    /\ pc[t] = from
    /\ pc' = [pc EXCEPT ![t] = to]
    /\ UNCHANGED command

Return(t, from, value) ==
    /\ Go(t, from, "done")
    /\ retval' = [retval EXCEPT ![t] = value]

\* stopService() has returned; uninstallService() goes on if it succeeded.
StopReturns(t, from, value) ==
    IF command[t] = "uninstall" /\ value = 0
    THEN Go(t, from, "delete") /\ retval' = [retval EXCEPT ![t] = 0]
    ELSE Return(t, from, value)

\* Faults the runs must catch; no specification uses them.

\* startService() that takes any end of the polling for success.
StartPollsBlindly(t) ==
    /\ command[t] = "start"
    /\ status' = [status EXCEPT ![t] = state]
    /\ IF state = "start_pending" THEN UNCHANGED << pc, retval, command >> /\ pc[t] = "poll"
                                  ELSE Return(t, "poll", 0)
    /\ UNCHANGED service /\ Witness

-----------------------------------------------------------------------------
(* installService *)

\* OpenSCManager(), with which every command begins.
OpenManager(t) ==
    /\ \/ Go(t, "begin", "open") /\ UNCHANGED retval
       \/ Return(t, "begin", 1)
    /\ UNCHANGED << service, status >> /\ Witness

CreateService(t) ==
    /\ command[t] = "install"
    /\ \/ /\ installed = "no" /\ installed' = "yes"
          /\ Go(t, "open", "params") /\ UNCHANGED retval
       \/ Return(t, "open", 1) /\ UNCHANGED installed
    /\ UNCHANGED << state, params, status >> /\ Witness

\* RegCreateKeyEx() and RegSetValueEx().  The service is left as it is when they fail.
WriteParameters(t) ==
    /\ \/ params' = TRUE /\ Return(t, "params", 0)
       \/ UNCHANGED params /\ Return(t, "params", 1)
    /\ UNCHANGED << installed, state, status >> /\ Witness

-----------------------------------------------------------------------------
(* startService and stopService *)

OpenService(t) ==
    /\ command[t] # "install"
    /\ \/ installed # "no" /\ Go(t, "open", "control") /\ UNCHANGED retval
       \/ Return(t, "open", 1)
    /\ UNCHANGED << service, status >> /\ Witness

\* StartService(): a service that is already running is a success, other errors are not.
Start(t) ==
    /\ command[t] = "start"
    /\ \/ /\ installed = "yes" /\ state = "stopped"
          /\ state' = "start_pending"
          /\ Go(t, "control", "poll") /\ UNCHANGED retval
       \/ state # "stopped" /\ Return(t, "control", 0) /\ UNCHANGED state
       \/ Return(t, "control", 1) /\ UNCHANGED state
    /\ UNCHANGED << installed, params, status >> /\ Witness

\* ControlService(): a service that is not active is a success.  A call that
\* succeeds fills in the service's status.
Stop(t) ==
    /\ command[t] \in {"stop", "uninstall"}
    /\ \/ /\ state = "running"
          /\ state' \in {"stop_pending", "running"}
          /\ status' = [status EXCEPT ![t] = state']
          /\ Go(t, "control", "poll") /\ UNCHANGED retval
       \/ state = "stopped" /\ StopReturns(t, "control", 0) /\ UNCHANGED << state, status >>
       \/ StopReturns(t, "control", 1) /\ UNCHANGED << state, status >>
    /\ UNCHANGED << installed, params >> /\ Witness

\* QueryServiceStatus(): the loop goes on while the state is pending.
PollStart(t) ==
    /\ command[t] = "start"
    /\ status' = [status EXCEPT ![t] = state]
    /\ IF state = "start_pending" THEN UNCHANGED << pc, retval, command >> /\ pc[t] = "poll"
                                  ELSE Return(t, "poll", IF state = "running" THEN 0 ELSE 1)
    /\ UNCHANGED service /\ Witness

PollStop(t) ==
    /\ command[t] \in {"stop", "uninstall"}
    /\ status' = [status EXCEPT ![t] = state]
    /\ IF state = "stop_pending" THEN UNCHANGED << pc, retval, command >> /\ pc[t] = "poll"
       ELSE StopReturns(t, "poll", IF state = "stopped" THEN 0 ELSE 1)
    /\ UNCHANGED service /\ Witness

\* The query fails; the state read last decides.
PollFails(t) ==
    /\ UNCHANGED << service, status >> /\ Witness
    /\ IF command[t] = "start"
       THEN Return(t, "poll", IF status[t] = "running" THEN 0 ELSE 1)
       ELSE StopReturns(t, "poll", IF status[t] = "stopped" THEN 0 ELSE 1)

-----------------------------------------------------------------------------
\* uninstallService(), the service stopped: each failure leaves retval at the 0
\* that stopService() returned.  The manager deletes a service once it is stopped.
Delete(t) ==
    /\ Return(t, "delete", retval[t])
    /\ \/ /\ installed = "yes"
          /\ installed' = IF state = "stopped" THEN "no" ELSE "marked"
          /\ params' = (params /\ installed' # "no")
       \/ UNCHANGED << installed, params >>
    /\ UNCHANGED << state, status >> /\ Witness

\* The service comes up, goes down, or ends by itself.
Service ==
    /\ \/ state = "start_pending" /\ state' \in {"running", "stopped"}
       \/ state = "stop_pending" /\ state' = "stopped"
       \/ state = "running" /\ state' = "stopped"
    /\ installed' = IF installed = "marked" /\ state' = "stopped" THEN "no" ELSE installed
    /\ params' = (params /\ installed' # "no")
    /\ UNCHANGED << command, pc, status, retval >> /\ Witness

Done == (\A t \in Tools : pc[t] = "done") /\ UNCHANGED vars

Step(t) ==
    \/ OpenManager(t) \/ CreateService(t) \/ WriteParameters(t)
    \/ OpenService(t) \/ Start(t) \/ Stop(t) \/ Delete(t)

Poll(t) == PollStart(t) \/ PollStop(t) \/ PollFails(t)

Next == (\E t \in Tools : Step(t) \/ Poll(t)) \/ Service \/ Done

Spec == Init /\ [][Next]_vars

-----------------------------------------------------------------------------
(* Properties *)

\* A start or a stop that returns 0 has brought the service up or down, or has
\* found it so: it was in that state at some moment of the call, however others
\* control it meanwhile.  (startService, stopService.)
ZeroMeansReached ==
    \A t \in Tools : pc[t] = "done" /\ retval[t] = 0 =>
        CASE command[t] = "start" ->
                IF status[t] = "none" THEN witnessed[t] # {"stopped"}
                                      ELSE "running" \in witnessed[t]
          [] command[t] \in {"stop", "uninstall"} -> "stopped" \in witnessed[t]
          [] OTHER -> TRUE

\* An uninstall that returns 0 has removed the service or marked it for removal.
\* (uninstallService; "uninstalls the service".)
UninstallRemoves ==
    [][\A t \in Tools : pc[t] = "delete" /\ pc'[t] = "done" /\ retval'[t] = 0
        => installed' # "yes"]_vars
=============================================================================
