------------------------------ MODULE VTWin32Cs ------------------------------
(***************************************************************************)
(* Cs of src/fn_win32.h: a critical section with a counter of its locks,   *)
(* kept beside the system's own, from which the destructor knows how often *)
(* to leave.  The system's section is the environment.                     *)
(***************************************************************************)
EXTENDS Integers

CONSTANTS Threads, NoThread,
          MaxDepth      \* bound on nested locks

CsAssumption == NoThread \notin Threads /\ MaxDepth \in Nat \ {0}

VARIABLES owner, depth,  \* the system's section
          counter,       \* m_counter
          at,            \* per thread: where it is in Cs
          deleted        \* DeleteCriticalSection() has been called

section == << owner, depth >>
vars == << section, counter, at, deleted >>

\* Every variable has its type.
TypeOK ==
    /\ owner \in Threads \cup {NoThread}
    /\ depth \in 0..MaxDepth /\ (depth = 0 <=> owner = NoThread)
    /\ counter \in -1..MaxDepth
    /\ at \in [Threads -> {"idle", "entering", "entered", "leaving", "destroying"}]
    /\ deleted \in BOOLEAN

Init ==
    /\ owner = NoThread /\ depth = 0
    /\ counter = 0
    /\ at = [t \in Threads |-> "idle"]
    /\ deleted = FALSE

-----------------------------------------------------------------------------
Move(t, from, to) == at[t] = from /\ at' = [at EXCEPT ![t] = to]

SystemEnters(t) == owner \in {NoThread, t} /\ owner' = t /\ depth' = depth + 1

SystemLeaves == depth' = depth - 1 /\ owner' = IF depth = 1 THEN NoThread ELSE owner

\* Faults the runs must catch; no specification uses them.

\* A destructor that leaves once too often.
DestroyOnce(t) ==
    /\ at[t] = "destroying"
    /\ SystemLeaves
    /\ at' = [at EXCEPT ![t] = "idle"] /\ deleted' = TRUE
    /\ counter' = counter - 1

-----------------------------------------------------------------------------
LockCall(t) == Move(t, "idle", "entering") /\ UNCHANGED << section, counter, deleted >>

Enter(t) == Move(t, "entering", "entered") /\ SystemEnters(t) /\ UNCHANGED << counter, deleted >>

Increment(t) ==
    /\ Move(t, "entered", "idle")
    /\ counter' = counter + 1
    /\ UNCHANGED << section, deleted >>

\* try_lock() returns FALSE when another thread is inside.
TryLock(t) ==
    \/ Move(t, "idle", "entered") /\ SystemEnters(t) /\ UNCHANGED << counter, deleted >>
    \/ at[t] = "idle" /\ owner \notin {NoThread, t} /\ UNCHANGED vars

Unlock(t) ==
    /\ owner = t
    /\ Move(t, "idle", "leaving")
    /\ counter' = counter - 1
    /\ UNCHANGED << section, deleted >>

Leave(t) == Move(t, "leaving", "idle") /\ SystemLeaves /\ UNCHANGED << counter, deleted >>

\* The destructor, called by the thread that holds the section, if any does.
Destroy(t) == Move(t, "idle", "destroying") /\ UNCHANGED << section, counter, deleted >>

DestroyLoop(t) ==
    /\ at[t] = "destroying"
    /\ counter' = counter - 1
    /\ IF counter' >= 0
       THEN SystemLeaves /\ UNCHANGED << at, deleted >>
       ELSE at' = [at EXCEPT ![t] = "idle"] /\ deleted' = TRUE /\ UNCHANGED section

-----------------------------------------------------------------------------
\* Callers do not use a section that is being destroyed, nor destroy one that
\* another thread uses.
Usable == ~deleted /\ \A t \in Threads : at[t] # "destroying"

MayDestroy(t) ==
    /\ Usable
    /\ owner \in {NoThread, t}
    /\ \A u \in Threads : at[u] = "idle"

Next == \E t \in Threads :
    \/ Usable /\ (LockCall(t) \/ Unlock(t))
    \/ depth < MaxDepth /\ (Enter(t) \/ (Usable /\ TryLock(t)))
    \/ Increment(t) \/ Leave(t)
    \/ MayDestroy(t) /\ Destroy(t)
    \/ DestroyLoop(t)

Spec == Init /\ [][Next]_vars /\ \A t \in Threads : WF_vars(DestroyLoop(t))

-----------------------------------------------------------------------------
(* Properties *)

\* The destructor leaves the section as often as it was entered, by lock() and
\* try_lock(), in whatever nesting.  (~Cs.)
DestroyedFree == deleted => owner = NoThread /\ depth = 0
=============================================================================
