------------------------------- MODULE VTDaemon -------------------------------
(***************************************************************************)
(* VT::Daemon of src/VTDaemonLin.cpp: main() forks, the parent waits for   *)
(* the child's signal, the child detaches itself, tells the parent and     *)
(* calls run(), which ends on SIGTERM.  Signals are sets: those of one     *)
(* kind merge.  run(), the kernel and whoever sends SIGTERM are the        *)
(* environment.  SIGINT is treated as SIGTERM is.                          *)
(***************************************************************************)
EXTENDS Naturals, FiniteSets

CONSTANTS MayBeSlow,    \* may the child take longer than the parent's alarm?
          MaxTerms      \* bound on the SIGTERMs sent

DaemonAssumption == MayBeSlow \in BOOLEAN /\ MaxTerms \in Nat

Procs == {"parent", "child"}
Signals == {"SIGALRM", "SIGUSR1", "SIGCHLD", "SIGTERM"}

VARIABLES mode,       \* "daemon", "console" or "help"
          ofInit,     \* is the parent's parent process 1?
          pc,         \* per process: where it is
          status,     \* per process: "none", "running", "0", "1" or "killed"
          pending,    \* per process: signals that wait
          handlers,   \* per process: signals that have a handler
          alarmed,    \* has the parent's alarm been set?
          target,     \* the child's local variable parent
          detached,   \* has the child its own session and directory?
          told,       \* who was sent SIGUSR1
          quit,       \* per process: g_quit
          onSignal,   \* per process: the thread of on_signal()
          terms       \* SIGTERMs sent so far

life == << pc, status >>
signals == << pending, handlers >>
user == << quit, onSignal >>
vars == << mode, ofInit, life, signals, alarmed, target, detached, told, user, terms >>

\* Every variable has its type.
TypeOK ==
    /\ mode \in {"daemon", "console", "help"} /\ ofInit \in BOOLEAN
    /\ pc \in [Procs -> {"main", "daemonize", "fork", "pause", "getppid", "detach",
                         "tell", "handlers", "run", "over"}]
    /\ status \in [Procs -> {"none", "running", "0", "1", "killed"}]
    /\ pending \in [Procs -> SUBSET Signals] /\ handlers \in [Procs -> SUBSET Signals]
    /\ alarmed \in BOOLEAN /\ detached \in BOOLEAN
    /\ target \in {"none", "parent", "init"}
    /\ told \subseteq {"parent", "init"}
    /\ quit \in [Procs -> BOOLEAN]
    /\ onSignal \in [Procs -> {"none", "waiting", "called"}]
    /\ terms \in 0..MaxTerms

Init ==
    /\ mode \in {"daemon", "console", "help"} /\ ofInit \in BOOLEAN
    /\ pc = [p \in Procs |-> IF p = "parent" THEN "main" ELSE "over"]
    /\ status = [p \in Procs |-> IF p = "parent" THEN "running" ELSE "none"]
    /\ pending = [p \in Procs |-> {}] /\ handlers = [p \in Procs |-> {}]
    /\ alarmed = FALSE /\ target = "none" /\ detached = FALSE /\ told = {}
    /\ quit = [p \in Procs |-> FALSE]
    /\ onSignal = [p \in Procs |-> "none"]
    /\ terms = 0

-----------------------------------------------------------------------------
Go(p, from, to) ==
    /\ status[p] = "running" /\ pc[p] = from
    /\ pc' = [pc EXCEPT ![p] = to]
    /\ UNCHANGED << mode, ofInit, status, terms >>

\* A process ends; the end of a child is a signal to its parent.
Ends(p, how) ==
    /\ status' = [status EXCEPT ![p] = how]
    /\ pc' = [pc EXCEPT ![p] = "over"]
    /\ pending' = IF p = "child" /\ status["parent"] = "running"
                  THEN [pending EXCEPT ![p] = {}, !["parent"] = @ \cup {"SIGCHLD"}]
                  ELSE [pending EXCEPT ![p] = {}]
    /\ UNCHANGED << mode, ofInit, handlers, alarmed, target, detached, told, user, terms >>

Exits(p, from, how) == status[p] = "running" /\ pc[p] = from /\ Ends(p, how)

-----------------------------------------------------------------------------
(* Faults the runs must catch; no specification uses them. *)

\* A child that tells its parent before it has detached itself.
TellFirst ==
    /\ status["child"] = "running" /\ pc["child"] = "detach"
    /\ told' = told \cup {target}
    /\ pc' = [pc EXCEPT !["child"] = "tell"]
    /\ pending' = IF target = "parent" /\ status["parent"] = "running"
                  THEN [pending EXCEPT !["parent"] = @ \cup {"SIGUSR1"}] ELSE pending
    /\ UNCHANGED << mode, ofInit, status, handlers, alarmed, target, detached, user, terms >>

\* A parent that does not wait for its child.
ForkExitsAtOnce ==
    /\ status["parent"] = "running" /\ pc["parent"] = "fork"
    /\ pc' = [pc EXCEPT !["parent"] = "over", !["child"] = "getppid"]
    /\ status' = [status EXCEPT !["child"] = "running", !["parent"] = "1"]
    /\ handlers' = [handlers EXCEPT !["child"] = handlers["parent"]]
    /\ UNCHANGED << mode, ofInit, pending, alarmed, target, detached, told, user, terms >>

\* A child that tells nobody.
TellNobody ==
    /\ Go("child", "tell", "handlers")
    /\ UNCHANGED << signals, alarmed, target, detached, told, user >>

\* wait_for_signal() that misses a signal that came before it was called.
WaitForNext(p) ==
    /\ status[p] = "running" /\ pc[p] = "run"
    /\ onSignal[p] = "waiting" /\ quit[p] /\ "SIGTERM" \in pending[p]
    /\ onSignal' = [onSignal EXCEPT ![p] = "called"]
    /\ UNCHANGED << mode, ofInit, life, signals, alarmed, target, detached, told, quit, terms >>

-----------------------------------------------------------------------------
(* Daemon::main *)

Main ==
    \/ mode = "help" /\ Exits("parent", "main", "0")
    \/ /\ mode # "help"
       /\ Go("parent", "main", IF mode = "console" THEN "handlers" ELSE "daemonize")
       /\ UNCHANGED << signals, alarmed, target, detached, told, user >>

SetHandlers(p) ==
    /\ Go(p, "handlers", "run")
    /\ handlers' = [handlers EXCEPT ![p] = @ \cup {"SIGTERM"}]
    /\ UNCHANGED << pending, alarmed, target, detached, told, user >>

\* run() returns, with 0 or after an exception with 1, once it is told to quit
\* or for reasons of its own.
RunEnds(p) == \E how \in {"0", "1"} : Exits(p, "run", how)

\* on_signal(), called by run(): a detached thread waits.
OnSignal(p) ==
    /\ status[p] = "running" /\ pc[p] = "run"
    /\ onSignal[p] = "none"
    /\ onSignal' = [onSignal EXCEPT ![p] = "waiting"]
    /\ UNCHANGED << mode, ofInit, life, signals, alarmed, target, detached, told, quit, terms >>

\* wait_for_signal() sees g_quit at its next look, and the handler is called.
WaitForSignal(p) ==
    /\ status[p] = "running"
    /\ onSignal[p] = "waiting" /\ quit[p]
    /\ onSignal' = [onSignal EXCEPT ![p] = "called"]
    /\ UNCHANGED << mode, ofInit, life, signals, alarmed, target, detached, told, quit, terms >>

-----------------------------------------------------------------------------
(* daemonize *)

\* A child of process 1 takes itself for a daemon.  Otherwise the lock file is
\* opened: its name is appended to an array that was never initialised, so the
\* file opened may be another, or none (exit).  Then signals get their handlers.
Daemonize ==
    \/ /\ ofInit /\ Go("parent", "daemonize", "handlers")
       /\ UNCHANGED << signals, alarmed, target, detached, told, user >>
    \/ /\ ~ofInit /\ Go("parent", "daemonize", "fork")
       /\ handlers' = [handlers EXCEPT !["parent"] = {"SIGCHLD", "SIGUSR1", "SIGALRM"}]
       /\ UNCHANGED << pending, alarmed, target, detached, told, user >>
    \/ ~ofInit /\ Exits("parent", "daemonize", "1")

Fork ==
    \/ /\ status["parent"] = "running" /\ pc["parent"] = "fork"
       /\ pc' = [pc EXCEPT !["parent"] = "pause", !["child"] = "getppid"]
       /\ status' = [status EXCEPT !["child"] = "running"]
       /\ handlers' = [handlers EXCEPT !["child"] = handlers["parent"]]
       /\ UNCHANGED << mode, ofInit, pending, alarmed, target, detached, told, user, terms >>
    \/ Exits("parent", "fork", "1")

\* alarm(2), after which pause() waits for a signal.
Alarm ==
    /\ status["parent"] = "running" /\ pc["parent"] = "pause" /\ ~alarmed
    /\ alarmed' = TRUE
    /\ UNCHANGED << mode, ofInit, life, signals, target, detached, told, user, terms >>

GetParent ==
    /\ Go("child", "getppid", "detach")
    /\ target' = IF status["parent"] = "running" THEN "parent" ELSE "init"
    /\ UNCHANGED << signals, alarmed, detached, told, user >>

\* SIGCHLD gets its default back; setsid() and chdir() may fail.
Detach ==
    \/ /\ Go("child", "detach", "tell")
       /\ detached' = TRUE
       /\ handlers' = [handlers EXCEPT !["child"] = @ \ {"SIGCHLD"}]
       /\ UNCHANGED << pending, alarmed, target, told, user >>
    \/ Exits("child", "detach", "1")

Tell ==
    /\ Go("child", "tell", "handlers")
    /\ told' = told \cup {target}
    /\ pending' = IF target = "parent" /\ status["parent"] = "running"
                  THEN [pending EXCEPT !["parent"] = @ \cup {"SIGUSR1"}] ELSE pending
    /\ UNCHANGED << handlers, alarmed, target, detached, user >>

-----------------------------------------------------------------------------
(* Signals *)

\* Two seconds are over.
AlarmRings ==
    /\ status["parent"] = "running" /\ alarmed
    /\ MayBeSlow \/ status["child"] # "running"
    /\ "SIGALRM" \notin pending["parent"]
    /\ pending' = [pending EXCEPT !["parent"] = @ \cup {"SIGALRM"}]
    /\ UNCHANGED << mode, ofInit, life, handlers, alarmed, target, detached, told, user, terms >>

Terminate(p) ==
    /\ status[p] = "running" /\ terms < MaxTerms
    /\ terms' = terms + 1
    /\ pending' = [pending EXCEPT ![p] = @ \cup {"SIGTERM"}]
    /\ UNCHANGED << mode, ofInit, life, handlers, alarmed, target, detached, told, user >>

\* child_handler, term_handler, and what the system does by default.
Handle(p, s) ==
    /\ status[p] = "running" /\ s \in pending[p]
    /\ CASE s \notin handlers[p] /\ s # "SIGCHLD" -> Ends(p, "killed")
         [] s \in handlers[p] /\ s = "SIGUSR1" -> Ends(p, "0")
         [] s \in handlers[p] /\ s \in {"SIGALRM", "SIGCHLD"} -> Ends(p, "1")
         [] OTHER ->
              /\ pending' = [pending EXCEPT ![p] = @ \ {s}]
              /\ quit' = [quit EXCEPT ![p] = @ \/ s = "SIGTERM"]
              /\ UNCHANGED << mode, ofInit, life, handlers, alarmed, target, detached,
                              told, onSignal, terms >>

-----------------------------------------------------------------------------
Over == (\A p \in Procs : status[p] # "running") /\ UNCHANGED vars

Proceed(p) ==
    \/ p = "parent" /\ (Main \/ Daemonize \/ Fork \/ Alarm)
    \/ p = "child" /\ (GetParent \/ Detach \/ Tell)
    \/ SetHandlers(p)
    \/ \E s \in Signals : Handle(p, s)

Next ==
    \/ \E p \in Procs : \/ Proceed(p) \/ RunEnds(p) \/ OnSignal(p) \/ WaitForSignal(p)
                        \/ Terminate(p)
    \/ AlarmRings \/ Over

\* The kernel runs processes and delivers signals; the alarm rings; run() ends
\* once it is told to; a waiting thread looks at g_quit again and again.
Fairness ==
    /\ \A p \in Procs : /\ WF_vars(Proceed(p)) /\ WF_vars(WaitForSignal(p))
                        /\ WF_vars(quit[p] /\ onSignal[p] # "waiting" /\ RunEnds(p))
    /\ WF_vars(AlarmRings)

Spec == Init /\ [][Next]_vars /\ Fairness

-----------------------------------------------------------------------------
(* Properties *)

\* A parent that forked and returns success leaves a daemon with a session of
\* its own, which has told it so.  (daemonize, child_handler.)
SuccessMeansDaemon ==
    status["parent"] = "0" /\ status["child"] # "none" => detached /\ "parent" \in told

\* A parent that returns failure leaves no daemon, unless the child was too slow
\* for it.  (daemonize, child_handler.)
FailureMeansNoDaemon ==
    status["parent"] = "1" /\ ~MayBeSlow => status["child"] # "running"

\* The parent does not hang: the child's word, its death or the alarm ends it,
\* even when they come before pause().  (daemonize.)
ParentEnds == pc["parent"] = "pause" ~> status["parent"] # "running"

\* A signal to quit reaches the thread that on_signal() started, though it may
\* have come first, or finds the process over.  (wait_for_signal, term_handler.)
HandlerCalled ==
    \A p \in Procs : quit[p] /\ onSignal[p] = "waiting" ~> onSignal[p] = "called" \/ status[p] # "running"

\* The child tells its parent, and nobody else.  (daemonize, "Tell the parent
\* process that we are A-okay".)
TellsOnlyParent == told \subseteq {"parent"}

\* Once the parent has returned success, SIGTERM does not kill the daemon
\* outright.  (main, "Exit gracefully on SIGTERM and SIGINT".)
TermIsGraceful == status["parent"] = "0" => status["child"] # "killed"
=============================================================================
