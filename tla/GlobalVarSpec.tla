---------------------------- MODULE GlobalVarSpec ----------------------------
(***************************************************************************)
(* What users of a VT::GlobalVar rely on (src/VTOSProcess.h): a lock that  *)
(* one thread at a time holds, and a counter that its holder references,   *)
(* dereferences and looks at.                                              *)
(***************************************************************************)
EXTENDS Integers

CONSTANTS Threads, NoThread

VARIABLES owner,     \* who holds the lock
          count,     \* references minus dereferences
          answer,    \* per thread: what is_set() told it last
          held       \* per thread: the references it has made and not undone

vars == << owner, count, answer, held >>

Init ==
    /\ owner = NoThread
    /\ count = 0
    /\ answer = [t \in Threads |-> FALSE]
    /\ held = [t \in Threads |-> 0]

Lock(t) ==
    /\ owner = NoThread
    /\ owner' = t
    /\ UNCHANGED << count, answer, held >>

Unlock(t) ==
    /\ owner = t
    /\ owner' = NoThread
    /\ UNCHANGED << count, answer, held >>

Change(t, delta) ==
    /\ owner = t
    /\ count' = count + delta
    /\ held' = [held EXCEPT ![t] = @ + delta]
    /\ UNCHANGED << owner, answer >>

IsSet(t) ==
    /\ owner = t
    /\ answer' = [answer EXCEPT ![t] = count > 0]
    /\ UNCHANGED << owner, count, held >>

\* The process dies, and another begins with what it has left behind.
Restart ==
    /\ owner' = NoThread
    /\ held' = [t \in Threads |-> 0]
    /\ UNCHANGED << count, answer >>

Next == Restart \/ \E t \in Threads :
    Lock(t) \/ Unlock(t) \/ IsSet(t) \/ \E delta \in {-1, 1} : Change(t, delta)

Spec == Init /\ [][Next]_vars
=============================================================================
