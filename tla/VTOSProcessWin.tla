---------------------------- MODULE VTOSProcessWin ----------------------------
(***************************************************************************)
(* VT::GlobalVar of src/VTOSProcessWin.cpp: a counter in a named mapping,  *)
(* which lives as long as somebody has a handle on it, and a named mutex,  *)
(* which belongs to the thread.  An object's hMapping is never read by a   *)
(* later call, and so a handle that is not closed at once stays open.      *)
(***************************************************************************)
EXTENDS Integers

CONSTANTS Threads, NoThread,
          MaxDepth,     \* bound on a thread's nested locks
          MaxHandles    \* bound on the handles that stay open

GlobalVarAssumption ==
    NoThread \notin Threads /\ MaxDepth \in Nat \ {0} /\ MaxHandles \in Nat

VARIABLES owner, depth,   \* the mutex
          handles,        \* open handles on the mapping
          value,          \* what it holds
          pc,             \* per thread: where it is in OperateMapping()
          mod,            \* per thread: mod_val
          count,          \* per thread: count
          answer,         \* per thread: what is_set() told it last
          held            \* per thread: references it has made and not yet undone

mutex == << owner, depth >>
mapping == << handles, value >>
vars == << mutex, mapping, pc, mod, count, answer, held >>

\* Every variable has its type, and a free mutex is not locked.
TypeOK ==
    /\ owner \in Threads \cup {NoThread}
    /\ depth \in 0..MaxDepth /\ (owner = NoThread <=> depth = 0)
    /\ handles \in 0..MaxHandles /\ value \in -1..MaxHandles
    /\ pc \in [Threads -> {"idle", "add", "close"}]
    /\ mod \in [Threads -> {-1, 0, 1}]
    /\ count \in [Threads -> -1..MaxHandles]
    /\ answer \in [Threads -> BOOLEAN]
    /\ held \in [Threads -> 0..MaxHandles]

Init ==
    /\ owner = NoThread /\ depth = 0
    /\ handles = 0 /\ value = 0
    /\ pc = [t \in Threads |-> "idle"]
    /\ mod = [t \in Threads |-> 0] /\ count = [t \in Threads |-> 0]
    /\ answer = [t \in Threads |-> FALSE]
    /\ held = [t \in Threads |-> 0]

-----------------------------------------------------------------------------
(* Faults the runs must catch; no specification uses them. *)

\* A lock that another thread's does not keep out.
LockAny(t) ==
    /\ pc[t] = "idle" /\ depth < MaxDepth
    /\ owner' = t /\ depth' = depth + 1
    /\ UNCHANGED << mapping, pc, mod, count, answer, held >>

\* OperateMapping() that leaves no handle behind.
CloseAlways(t) ==
    /\ pc[t] = "close"
    /\ handles' = handles - 1
    /\ pc' = [pc EXCEPT ![t] = "idle"]
    /\ UNCHANGED << mutex, value, mod, count, answer, held >>

-----------------------------------------------------------------------------
Lock(t) ==
    /\ pc[t] = "idle"
    /\ owner \in {NoThread, t} /\ depth < MaxDepth
    /\ owner' = t /\ depth' = depth + 1
    /\ UNCHANGED << mapping, pc, mod, count, answer, held >>

Unlock(t) ==
    /\ owner = t /\ pc[t] = "idle"
    /\ owner' = IF depth = 1 THEN NoThread ELSE t
    /\ depth' = depth - 1
    /\ UNCHANGED << mapping, pc, mod, count, answer, held >>

\* OperateMapping() opens the mapping or, unless it is only to look, creates it.
\* Its callers have the lock, and dereference what they have referenced.
OpenMapping(t, delta) ==
    /\ owner = t /\ pc[t] = "idle" /\ handles < MaxHandles
    /\ delta = -1 => held[t] > 0
    /\ IF handles = 0 /\ delta = 0
       THEN /\ answer' = [answer EXCEPT ![t] = FALSE]
            /\ UNCHANGED << mapping, pc, mod >>
       ELSE /\ handles' = handles + 1
            /\ value' = IF handles = 0 THEN 0 ELSE value
            /\ mod' = [mod EXCEPT ![t] = delta]
            /\ pc' = [pc EXCEPT ![t] = "add"]
            /\ UNCHANGED answer
    /\ UNCHANGED << mutex, count, held >>

\* The view is changed in place and read.
Add(t) ==
    /\ pc[t] = "add"
    /\ value' = value + mod[t]
    /\ count' = [count EXCEPT ![t] = value']
    /\ held' = [held EXCEPT ![t] = @ + mod[t]]
    /\ answer' = IF mod[t] = 0 THEN [answer EXCEPT ![t] = value > 0] ELSE answer
    /\ pc' = [pc EXCEPT ![t] = "close"]
    /\ UNCHANGED << mutex, handles, mod >>

\* The handle is closed only at a count of zero or less.
CloseMapping(t) ==
    /\ pc[t] = "close"
    /\ handles' = IF count[t] <= 0 THEN handles - 1 ELSE handles
    /\ pc' = [pc EXCEPT ![t] = "idle"]
    /\ UNCHANGED << mutex, value, mod, count, answer, held >>

-----------------------------------------------------------------------------
Next == \E t \in Threads :
    \/ Lock(t) \/ Unlock(t) \/ Add(t) \/ CloseMapping(t)
    \/ \E delta \in {-1, 0, 1} : OpenMapping(t, delta)

Spec == Init /\ [][Next]_vars

-----------------------------------------------------------------------------
(* Properties *)

\* Lock and counter are those of GlobalVarSpec.
Global == INSTANCE GlobalVarSpec WITH count <- IF handles > 0 THEN value ELSE 0

\* (GlobalVar.)
ImplementsGlobalVar == Global!Spec
=============================================================================
