------------------------------- MODULE VTEvent -------------------------------
(***************************************************************************)
(* VT::Event of src/VTEvent.hpp: a flag (std::atomic<bool>), a mutex and a *)
(* condition variable.  signal() looks at the flag before it takes the     *)
(* mutex, reset() never takes it, wait() holds it from its look at the     *)
(* flag until the condition variable has put the thread to sleep.  The     *)
(* model has one action per step another thread can observe.               *)
(***************************************************************************)
CONSTANTS Threads,       \* the threads that share the event
          Resetters,     \* those of them that may call reset()
          ManualReset,   \* the constructor's argument
          NoThread

ASSUME ThreadsAssumption ==
    /\ NoThread \notin Threads
    /\ Resetters \subseteq Threads
    /\ ManualReset \in BOOLEAN

VARIABLES isSignaled,    \* is_signaled_
          lock,          \* lock_: the thread that holds it, or NoThread
          sleepers,      \* cond_: the threads blocked on it
          pc,            \* where each thread is
          timed,         \* was the thread's wait() given a timeout?
          result         \* what the thread's last wait() returned

vars == << isSignaled, lock, sleepers, pc, timed, result >>

InSignal == {"store", "notify"}
InWait == {"enter", "predicate", "block", "asleep", "expired"}
HoldsLock == {"notify", "predicate", "block"}
Results == {"none", "true", "false"}

\* Every variable has its type, and the condition variable blocks only
\* threads that are in cond_.wait or cond_.wait_for.
TypeOK == /\ isSignaled \in BOOLEAN
          /\ lock \in Threads \cup {NoThread}
          /\ pc \in [Threads -> {"idle"} \cup InSignal \cup InWait]
          /\ sleepers \subseteq {t \in Threads : pc[t] = "asleep"}
          /\ timed \in [Threads -> BOOLEAN]
          /\ result \in [Threads -> Results]

Init == /\ isSignaled = FALSE
        /\ lock = NoThread
        /\ sleepers = {}
        /\ pc = [t \in Threads |-> "idle"]
        /\ timed = [t \in Threads |-> FALSE]
        /\ result = [t \in Threads |-> "none"]

Goto(t, label) == pc' = [pc EXCEPT ![t] = label]

Return(t, value) == /\ Goto(t, "idle")
                    /\ result' = [result EXCEPT ![t] = value]

-----------------------------------------------------------------------------
(* Faults the runs must catch; no specification uses them. *)

\* notify_one() in place of notify_all().
SignalNotifyOne(t) ==
    /\ pc[t] = "notify"
    /\ \/ sleepers = {} /\ sleepers' = {}
       \/ \E u \in sleepers : sleepers' = sleepers \ {u}
    /\ lock' = NoThread
    /\ Goto(t, "idle")
    /\ UNCHANGED << isSignaled, timed, result >>

\* wait_for that returns the clock's verdict, not the predicate's.
WaitGiveUpBlind(t) ==
    /\ pc[t] = "expired"
    /\ lock = NoThread
    /\ Return(t, "false")
    /\ UNCHANGED << isSignaled, lock, sleepers, timed >>

-----------------------------------------------------------------------------
(* signal() *)

\* The unlocked look at the flag: a signaled event is left alone.
SignalCheck(t) ==
    /\ pc[t] = "idle"
    /\ ~isSignaled
    /\ Goto(t, "store")
    /\ UNCHANGED << isSignaled, lock, sleepers, timed, result >>

\* Take the mutex; only a manual-reset event keeps the signal.
SignalStore(t) ==
    /\ pc[t] = "store"
    /\ lock = NoThread
    /\ lock' = t
    /\ isSignaled' = (isSignaled \/ ManualReset)
    /\ Goto(t, "notify")
    /\ UNCHANGED << sleepers, timed, result >>

\* notify_all() and the release of the mutex.
SignalNotify(t) ==
    /\ pc[t] = "notify"
    /\ sleepers' = {}
    /\ lock' = NoThread
    /\ Goto(t, "idle")
    /\ UNCHANGED << isSignaled, timed, result >>

-----------------------------------------------------------------------------
(* reset() *)

Reset(t) ==
    /\ t \in Resetters
    /\ pc[t] = "idle"
    /\ isSignaled' = FALSE
    /\ UNCHANGED << lock, sleepers, pc, timed, result >>

-----------------------------------------------------------------------------
(* wait() *)

WaitCall(t) ==
    /\ pc[t] = "idle"
    /\ Goto(t, "enter")
    /\ timed' \in {[timed EXCEPT ![t] = b] : b \in BOOLEAN}
    /\ result' = [result EXCEPT ![t] = "none"]
    /\ UNCHANGED << isSignaled, lock, sleepers >>

\* The early return, or the first look of the condition variable's loop.
WaitEnter(t) ==
    /\ pc[t] = "enter"
    /\ lock = NoThread
    /\ \/ /\ isSignaled
          /\ Return(t, "true")
          /\ UNCHANGED lock
       \/ /\ ~isSignaled
          /\ lock' = t
          /\ Goto(t, "predicate")
          /\ UNCHANGED result
    /\ UNCHANGED << isSignaled, sleepers, timed >>

\* cond_.wait's loop, mutex held: return when the predicate holds.
WaitPredicate(t) ==
    /\ pc[t] = "predicate"
    /\ \/ /\ isSignaled
          /\ lock' = NoThread
          /\ Return(t, "true")
       \/ /\ ~isSignaled
          /\ Goto(t, "block")
          /\ UNCHANGED << lock, result >>
    /\ UNCHANGED << isSignaled, sleepers, timed >>

\* The condition variable releases the mutex and blocks in one step.
WaitBlock(t) ==
    /\ pc[t] = "block"
    /\ lock' = NoThread
    /\ sleepers' = sleepers \cup {t}
    /\ Goto(t, "asleep")
    /\ UNCHANGED << isSignaled, timed, result >>

\* A notified thread takes the mutex again.
WaitResume(t) ==
    /\ pc[t] = "asleep"
    /\ t \notin sleepers
    /\ lock = NoThread
    /\ lock' = t
    /\ Goto(t, "predicate")
    /\ UNCHANGED << isSignaled, sleepers, timed, result >>

\* A condition variable may wake a thread nobody notified.
SpuriousWakeup(t) ==
    /\ t \in sleepers
    /\ sleepers' = sleepers \ {t}
    /\ UNCHANGED << isSignaled, lock, pc, timed, result >>

\* wait_for's deadline passes.
WaitExpire(t) ==
    /\ pc[t] = "asleep"
    /\ timed[t]
    /\ sleepers' = sleepers \ {t}
    /\ Goto(t, "expired")
    /\ UNCHANGED << isSignaled, lock, timed, result >>

\* wait_for returns what the predicate says after the deadline.
WaitGiveUp(t) ==
    /\ pc[t] = "expired"
    /\ lock = NoThread
    /\ Return(t, IF isSignaled THEN "true" ELSE "false")
    /\ UNCHANGED << isSignaled, lock, sleepers, timed >>

-----------------------------------------------------------------------------
\* Steps a thread inside a call takes by itself.
Proceed(t) == \/ SignalStore(t) \/ SignalNotify(t)
              \/ WaitEnter(t) \/ WaitPredicate(t) \/ WaitBlock(t)
              \/ WaitResume(t) \/ WaitGiveUp(t)

Next == \E t \in Threads :
           \/ SignalCheck(t)
           \/ Reset(t)
           \/ WaitCall(t)
           \/ Proceed(t)
           \/ SpuriousWakeup(t)
           \/ WaitExpire(t)

\* A thread inside a call keeps running.  No call has to be made, no wakeup
\* has to be spurious and no deadline has to pass.
Fairness == \A t \in Threads : WF_vars(Proceed(t))

SafetySpec == Init /\ [][Next]_vars

Spec == SafetySpec /\ Fairness

-----------------------------------------------------------------------------
(* Properties *)

\* The mutex protects the window between a waiter's look at the flag and its
\* blocking: a thread about to block holds the mutex and the event is not
\* signaled.  (VTEvent.hpp, wait and signal.)
BlockOnlyUnsignaled ==
    \A t \in Threads : pc[t] = "block" => lock = t /\ ~isSignaled

\* Lost wakeup: while the event is signaled, a blocked thread always has a
\* notify_all() ahead of it.  (VTEvent.hpp, signal and wait.)
NoLostWakeup ==
    isSignaled /\ sleepers # {} => \E t \in Threads : pc[t] = "notify"

\* The promise to callers: operations that take effect at one instant, and no
\* waiter left behind while the event stays signaled.
Abstract == INSTANCE EventSpec WITH
    flag <- isSignaled,
    call <- [t \in Threads |-> IF pc[t] \notin InWait THEN "none"
                               ELSE IF timed[t] THEN "timed" ELSE "untimed"]

ImplementsEvent == Abstract!Spec

\* A signal() that nobody takes back gets through: a thread asleep when
\* notify_all() runs comes back from wait().  Meant for Resetters = {}.
\* (VTEvent.hpp:43: "return true if event is signaled".)
SignalReleasesSleepers ==
    \A t \in Threads :
        (t \in sleepers /\ \E u \in Threads : pc[u] = "notify") ~> pc[t] = "idle"
=============================================================================
