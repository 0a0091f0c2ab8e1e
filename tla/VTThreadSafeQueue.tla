-------------------------- MODULE VTThreadSafeQueue --------------------------
(***************************************************************************)
(* VT::ThreadSafeQueue of src/VTThreadSafeQueue.h: a std::queue, a mutex   *)
(* and a condition variable.  push() notifies one sleeper after it has     *)
(* released the mutex; pop() looks at the queue again whenever it wakes.   *)
(***************************************************************************)
EXTENDS Naturals, Sequences, FiniteSets

CONSTANTS Threads, Items, NoItem, NoThread,
          MaxLength     \* bound: nobody calls push on a queue this long

ASSUME QueueAssumption ==
    /\ IsFiniteSet(Threads)
    /\ NoThread \notin Threads
    /\ NoItem \notin Items
    /\ MaxLength \in Nat

VARIABLES queue,      \* queue_
          lock,       \* mutex_: its holder, or NoThread
          sleepers,   \* cond_: the threads blocked on it
          pc,         \* where each thread is
          item,       \* the argument of the thread's push()
          got         \* what its last pop() returned

vars == << queue, lock, sleepers, pc, item, got >>

InPop == {"enter", "check", "block", "asleep"}
HoldsLock == {"check", "block"}

\* Every variable has its type, and the condition variable blocks only
\* threads that are in cond_.wait.
TypeOK == /\ queue \in Seq(Items)
          /\ lock \in Threads \cup {NoThread}
          /\ pc \in [Threads -> {"idle", "push", "notify"} \cup InPop]
          /\ sleepers \subseteq {t \in Threads : pc[t] = "asleep"}
          /\ item \in [Threads -> Items \cup {NoItem}]
          /\ got \in [Threads -> Items \cup {NoItem}]

Init == /\ queue = << >>
        /\ lock = NoThread
        /\ sleepers = {}
        /\ pc = [t \in Threads |-> "idle"]
        /\ item = [t \in Threads |-> NoItem]
        /\ got = [t \in Threads |-> NoItem]

Goto(t, label) == pc' = [pc EXCEPT ![t] = label]

-----------------------------------------------------------------------------
(* Faults the runs must catch; no specification uses them. *)

\* push() that notifies only when the queue has just become non-empty.
NotifyOneIfFirst(t) ==
    /\ pc[t] = "notify"
    /\ \/ /\ Len(queue) # 1 \/ sleepers = {}
          /\ UNCHANGED sleepers
       \/ /\ Len(queue) = 1
          /\ \E s \in sleepers : sleepers' = sleepers \ {s}
    /\ Goto(t, "idle")
    /\ UNCHANGED << queue, lock, item, got >>

\* pop() that trusts its wakeup, with "if" in place of "while".
PopResumeTrusting(t) ==
    /\ pc[t] = "asleep"
    /\ t \notin sleepers
    /\ lock = NoThread
    /\ got' = [got EXCEPT ![t] = IF queue = << >> THEN NoItem ELSE Head(queue)]
    /\ queue' = IF queue = << >> THEN queue ELSE Tail(queue)
    /\ Goto(t, "idle")
    /\ UNCHANGED << lock, sleepers, item >>

-----------------------------------------------------------------------------
(* push() *)

PushCall(t) ==
    /\ pc[t] = "idle"
    /\ Len(queue) < MaxLength
    /\ \E i \in Items : item' = [item EXCEPT ![t] = i]
    /\ Goto(t, "push")
    /\ UNCHANGED << queue, lock, sleepers, got >>

\* The mutex is held for queue_.push alone.
PushItem(t) ==
    /\ pc[t] = "push"
    /\ lock = NoThread
    /\ queue' = Append(queue, item[t])
    /\ item' = [item EXCEPT ![t] = NoItem]
    /\ Goto(t, "notify")
    /\ UNCHANGED << lock, sleepers, got >>

\* notify_one(), without the mutex.
NotifyOne(t) ==
    /\ pc[t] = "notify"
    /\ \/ sleepers = {} /\ UNCHANGED sleepers
       \/ \E s \in sleepers : sleepers' = sleepers \ {s}
    /\ Goto(t, "idle")
    /\ UNCHANGED << queue, lock, item, got >>

-----------------------------------------------------------------------------
(* pop() *)

PopCall(t) ==
    /\ pc[t] = "idle"
    /\ got' = [got EXCEPT ![t] = NoItem]
    /\ Goto(t, "enter")
    /\ UNCHANGED << queue, lock, sleepers, item >>

PopEnter(t) ==
    /\ pc[t] = "enter"
    /\ lock = NoThread
    /\ lock' = t
    /\ Goto(t, "check")
    /\ UNCHANGED << queue, sleepers, item, got >>

\* The loop's condition fails: the oldest item is taken, the mutex released.
PopTake(t) ==
    /\ pc[t] = "check"
    /\ queue # << >>
    /\ got' = [got EXCEPT ![t] = Head(queue)]
    /\ queue' = Tail(queue)
    /\ lock' = NoThread
    /\ Goto(t, "idle")
    /\ UNCHANGED << sleepers, item >>

PopEmpty(t) ==
    /\ pc[t] = "check"
    /\ queue = << >>
    /\ Goto(t, "block")
    /\ UNCHANGED << queue, lock, sleepers, item, got >>

\* cond_.wait releases the mutex and blocks in one step.
PopBlock(t) ==
    /\ pc[t] = "block"
    /\ lock' = NoThread
    /\ sleepers' = sleepers \cup {t}
    /\ Goto(t, "asleep")
    /\ UNCHANGED << queue, item, got >>

PopResume(t) ==
    /\ pc[t] = "asleep"
    /\ t \notin sleepers
    /\ lock = NoThread
    /\ lock' = t
    /\ Goto(t, "check")
    /\ UNCHANGED << queue, sleepers, item, got >>

SpuriousWakeup(t) ==
    /\ t \in sleepers
    /\ sleepers' = sleepers \ {t}
    /\ UNCHANGED << queue, lock, pc, item, got >>

-----------------------------------------------------------------------------
\* Steps a thread inside a call takes by itself.
Proceed(t) == \/ PushItem(t) \/ NotifyOne(t)
              \/ PopEnter(t) \/ PopTake(t) \/ PopEmpty(t) \/ PopBlock(t)
              \/ PopResume(t)

Next == \E t \in Threads :
           PushCall(t) \/ PopCall(t) \/ Proceed(t) \/ SpuriousWakeup(t)

Fairness == \A t \in Threads : WF_vars(Proceed(t))

SafetySpec == Init /\ [][Next]_vars

Spec == SafetySpec /\ Fairness

-----------------------------------------------------------------------------
(* Properties *)

\* Threads that have yet to notify, or have woken and have yet to look.
Promised == {t \in Threads : \/ pc[t] \in {"notify", "check"}
                             \/ pc[t] = "asleep" /\ t \notin sleepers}

\* No item is left lying while a consumer sleeps: there are at least as many
\* pending notifications and woken consumers as items, though notify_one runs
\* after the unlock and another consumer may take the item first.
NoStrandedItem == sleepers # {} => Len(queue) <= Cardinality(Promised)

\* Callers see a first-in first-out queue whose operations are atomic, and
\* while there are items and waiting consumers one of them gets one.
Abstract == INSTANCE QueueSpec WITH
    popping <- {t \in Threads : pc[t] \in InPop}

ImplementsQueue == Abstract!Spec
=============================================================================
