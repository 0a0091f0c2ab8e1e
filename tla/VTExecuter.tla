------------------------------ MODULE VTExecuter ------------------------------
(***************************************************************************)
(* VT::Executer of src/VTExecuter.cpp: a thread that calls a function at   *)
(* an interval until the object is destroyed.  The interval is the timeout *)
(* of a wait on the event stop_, which the destructor signals.  stop_ is   *)
(* the detailed event of VTEvent.tla, so that the races between a deadline *)
(* that passes and a signal are those of the code.                         *)
(***************************************************************************)
EXTENDS Naturals

CONSTANTS Worker,      \* impl::thread_
          Owner,       \* the thread that deletes the Executer
          NoThread,
          LateBound    \* bound on the count of late calls

ASSUME ExecuterAssumption ==
    /\ Worker # Owner
    /\ NoThread \notin {Worker, Owner}
    /\ LateBound \in Nat

VARIABLES interval,    \* interval_ms_: "zero", "finite" or "infinite" (-1)
          hasFnc,      \* is fnc_ callable?
          worker,      \* where the worker is
          owner,       \* where the owner is
          late,        \* calls of fnc_ begun since stop_ was signaled
          isSignaled, lock, sleepers, pc, timed, result    \* stop_

stopVars == << isSignaled, lock, sleepers, pc, timed, result >>
vars == << interval, hasFnc, worker, owner, late, stopVars >>

Stop == INSTANCE VTEvent WITH
    Threads <- {Worker, Owner}, Resetters <- {}, ManualReset <- TRUE

\* Every variable has its type; no more than LateBound late calls.
TypeOK == /\ interval \in {"zero", "finite", "infinite"}
          /\ hasFnc \in BOOLEAN
          /\ worker \in {"start", "loop", "waiting", "call", "calling", "exited"}
          /\ owner \in {"alive", "signaling", "joining", "destroyed"}
          /\ late \in 0..LateBound
          /\ Stop!TypeOK

Init == /\ interval \in {"zero", "finite", "infinite"}
        /\ hasFnc \in BOOLEAN
        /\ worker = "start"
        /\ owner = "alive"
        /\ late = 0
        /\ Stop!Init

-----------------------------------------------------------------------------
(* Faults the runs must catch; no specification uses them. *)

\* worker() that ignores what wait() returned.
WorkerReturnDeaf ==
    /\ worker = "waiting"
    /\ pc[Worker] = "idle"
    /\ worker' = "call"
    /\ UNCHANGED << interval, hasFnc, owner, late, stopVars >>

\* worker() without its handlers: an exception of fnc_ ends the process.
FncEndsUncaught ==
    /\ worker = "calling"
    /\ worker' \in {"loop", "terminated"}
    /\ UNCHANGED << interval, hasFnc, owner, late, stopVars >>

\* ~impl that joins without signalling.
DeleteSilent ==
    /\ owner = "alive"
    /\ owner' = "joining"
    /\ UNCHANGED << interval, hasFnc, worker, late, stopVars >>

-----------------------------------------------------------------------------
(* worker() *)

\* Nothing to call, or never: the thread ends at once.
WorkerStart ==
    /\ worker = "start"
    /\ worker' = IF interval = "zero" \/ ~hasFnc THEN "exited" ELSE "loop"
    /\ UNCHANGED << interval, hasFnc, owner, late, stopVars >>

\* stop_.wait(interval_ms_), with a timeout unless the interval is -1.
WorkerWait ==
    /\ worker = "loop"
    /\ Stop!WaitCall(Worker)
    /\ timed'[Worker] = (interval = "finite")
    /\ worker' = "waiting"
    /\ UNCHANGED << interval, hasFnc, owner, late >>

\* The loop's condition, once wait() has returned.
WorkerReturn ==
    /\ worker = "waiting"
    /\ pc[Worker] = "idle"
    /\ worker' = IF result[Worker] = "true" THEN "exited" ELSE "call"
    /\ UNCHANGED << interval, hasFnc, owner, late, stopVars >>

FncBegins ==
    /\ worker = "call"
    /\ worker' = "calling"
    /\ late' = IF isSignaled /\ late < LateBound THEN late + 1 ELSE late
    /\ UNCHANGED << interval, hasFnc, owner, stopVars >>

\* fnc_ returns or throws; either way the loop goes on.
FncEnds ==
    /\ worker = "calling"
    /\ worker' = "loop"
    /\ UNCHANGED << interval, hasFnc, owner, late, stopVars >>

-----------------------------------------------------------------------------
(* ~Executer() *)

Delete ==
    /\ owner = "alive"
    /\ Stop!SignalCheck(Owner)
    /\ owner' = "signaling"
    /\ UNCHANGED << interval, hasFnc, worker, late >>

\* signal() has returned; join() begins.
Signaled ==
    /\ owner = "signaling"
    /\ pc[Owner] = "idle"
    /\ owner' = "joining"
    /\ UNCHANGED << interval, hasFnc, worker, late, stopVars >>

Joined ==
    /\ owner = "joining"
    /\ worker = "exited"
    /\ owner' = "destroyed"
    /\ UNCHANGED << interval, hasFnc, worker, late, stopVars >>

-----------------------------------------------------------------------------
\* Steps inside stop_'s operations.
InStop(t) == /\ Stop!Proceed(t)
             /\ UNCHANGED << interval, hasFnc, worker, owner, late >>

Deadline == /\ Stop!WaitExpire(Worker)
            /\ UNCHANGED << interval, hasFnc, worker, owner, late >>

Spurious == /\ Stop!SpuriousWakeup(Worker)
            /\ UNCHANGED << interval, hasFnc, worker, owner, late >>

WorkerStep == \/ WorkerStart \/ WorkerWait \/ WorkerReturn \/ FncBegins \/ FncEnds
              \/ InStop(Worker)

OwnerStep == Signaled \/ Joined \/ InStop(Owner)

Destroyed == owner = "destroyed" /\ UNCHANGED vars

Next == WorkerStep \/ Deadline \/ Spurious \/ Delete \/ OwnerStep \/ Destroyed

\* Both threads keep running and fnc_ ends.  Deadlines pass: wait_for's is an
\* instant, which spurious wakeups do not put off.  And stop_'s mutex goes in
\* time to an owner that asks for it, though the worker may wake, take it and
\* block again without end.  Hence the two strong fairness conditions.
Fairness == WF_vars(WorkerStep) /\ SF_vars(Deadline) /\ SF_vars(OwnerStep)

SafetySpec == Init /\ [][Next]_vars

Spec == SafetySpec /\ Fairness

-----------------------------------------------------------------------------
(* Properties *)

\* Once stop_ is signaled at most one more call begins: that of a wait whose
\* deadline had passed before.  (worker, ~impl.)
AtMostOneLateCall == late <= 1

\* The destructor returns, whatever the interval, with no function, and
\* whether the worker sleeps or is in a call.  (~impl.)
DestructionEnds == owner # "alive" ~> owner = "destroyed"

\* While the Executer lives the function is called again and again, whether
\* or not it throws.  (worker.)
KeepsCalling ==
    (interval = "finite" /\ hasFnc) =>
        []<>(worker = "calling" \/ owner # "alive")
=============================================================================
