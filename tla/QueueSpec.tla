------------------------------ MODULE QueueSpec ------------------------------
(***************************************************************************)
(* What VT::ThreadSafeQueue promises: a first-in first-out queue whose     *)
(* push and pop take effect at one instant between call and return.  A pop *)
(* on an empty queue waits.  VTThreadSafeQueue.tla implements it.          *)
(***************************************************************************)
EXTENDS Naturals, Sequences

CONSTANTS Threads, Items, NoItem

VARIABLES queue,     \* the items, oldest first
          popping,   \* the threads inside pop()
          got        \* got[t]: what t's last pop() returned

vars == << queue, popping, got >>

TypeOK == /\ queue \in Seq(Items)
          /\ popping \subseteq Threads
          /\ got \in [Threads -> Items \cup {NoItem}]

Init == /\ queue = << >>
        /\ popping = {}
        /\ got = [t \in Threads |-> NoItem]

Push(i) == queue' = Append(queue, i) /\ UNCHANGED << popping, got >>

CallPop(t) == /\ t \notin popping
              /\ popping' = popping \cup {t}
              /\ got' = [got EXCEPT ![t] = NoItem]
              /\ UNCHANGED queue

Pop(t) == /\ t \in popping
          /\ queue # << >>
          /\ got' = [got EXCEPT ![t] = Head(queue)]
          /\ queue' = Tail(queue)
          /\ popping' = popping \ {t}

Next == \/ \E i \in Items : Push(i)
        \/ \E t \in Threads : CallPop(t) \/ Pop(t)

\* While there are items and a thread that waits for one, one is handed over.
Fairness == WF_vars(\E t \in Threads : Pop(t))

SafetySpec == Init /\ [][Next]_vars

Spec == SafetySpec /\ Fairness
=============================================================================
