---------------------------- MODULE VTOSProcessLin ----------------------------
(***************************************************************************)
(* VT::GlobalVar of src/VTOSProcessLin.cpp: a counter in a file whose name *)
(* has the process's number, locked with flock().  The lock belongs to the *)
(* open file, so to the object and not to the thread.  Bytes and integers  *)
(* are as narrow as Base and IntBytes say; the file's value has twice the  *)
(* bytes of an int.                                                        *)
(***************************************************************************)
EXTENDS Integers, FiniteSets, FiniteSetsExt

CONSTANTS Threads, NoThread,
          Vars, NoVar,    \* GlobalVar objects of one name
          Uses,           \* the object each thread uses
          Base,           \* values of a byte
          IntBytes,       \* bytes of an int
          MaxRefs,        \* bound on the references a thread holds
          MaxRestarts     \* bound on processes that die and whose number comes back

GlobalVarAssumption ==
    /\ NoThread \notin Threads /\ NoVar \notin Vars
    /\ Uses \in [Threads -> Vars]
    /\ Base \in Nat \ {0, 1} /\ IntBytes \in Nat \ {0}
    /\ MaxRefs \in Nat /\ MaxRestarts \in Nat
    /\ 2 * ((MaxRestarts + 1) * (MaxRefs * Cardinality(Threads)) + 1) <= Base ^ IntBytes

\* What the prover does not know of powers: true of every Base.
PowersAssumption ==
    Base ^ 0 = 1 /\ \A k \in 0..(2 * IntBytes) : Base ^ (k + 1) = Base * Base ^ k

VARIABLES open,      \* objects that exist
          file,      \* the bytes of the file, or << >> when it is empty
          flock,     \* the object whose open file has the lock
          locked,    \* per object: Impl::locked
          pc,        \* per thread: where it is
          mod,       \* per thread: OperateMapping()'s mod_val
          count,     \* per thread: OperateMapping()'s count
          answer,    \* per thread: what is_set() told it last
          held,      \* per thread: references it has made and not yet undone
          restarts   \* processes that have died

vars == << open, file, flock, locked, pc, mod, count, answer, held, restarts >>

Least == -((Base ^ IntBytes) \div 2)
Bytes == [0..(2 * IntBytes - 1) -> 0..(Base - 1)]

\* Every variable has its type.
TypeOK ==
    /\ open \subseteq Vars
    /\ file \in Bytes \cup {<< >>}
    /\ flock \in Vars \cup {NoVar}
    /\ locked \in [Vars -> BOOLEAN]
    /\ pc \in [Threads -> {"idle", "locking", "locked", "read"}]
    /\ mod \in [Threads -> {-1, 0, 1}]
    /\ count \in [Threads -> Least..(-Least - 1)]
    /\ answer \in [Threads -> BOOLEAN]
    /\ held \in [Threads -> 0..MaxRefs]
    /\ restarts \in 0..MaxRestarts

Init ==
    /\ open = {} /\ file = << >> /\ flock = NoVar
    /\ locked = [v \in Vars |-> FALSE]
    /\ pc = [t \in Threads |-> "idle"]
    /\ mod = [t \in Threads |-> 0] /\ count = [t \in Threads |-> 0]
    /\ answer = [t \in Threads |-> FALSE]
    /\ held = [t \in Threads |-> 0]
    /\ restarts = 0

-----------------------------------------------------------------------------
(* Faults the runs must catch; no specification uses them. *)

\* A lock that is tried but not waited for.
LockTry(t) ==
    /\ pc[t] = "locking"
    /\ flock' = Uses[t]
    /\ locked' = [locked EXCEPT ![Uses[t]] = TRUE]
    /\ pc' = [pc EXCEPT ![t] = "locked"]
    /\ UNCHANGED << open, file, mod, count, answer, held, restarts >>

-----------------------------------------------------------------------------
(* Conversions *)

\* val_to_buf(): the value, widened, byte by byte.
ToBuf(val) == [k \in 0..(2 * IntBytes - 1) |-> (val \div Base ^ k) % Base]

\* The int with the given low bytes.
IntOf(low) ==
    LET f[k \in 0..IntBytes] == IF k = 0 THEN 0 ELSE f[k - 1] + low[k - 1] * Base ^ (k - 1)
        n == f[IntBytes]
    IN IF n < -Least THEN n ELSE n - Base ^ IntBytes

\* buf_to_val(): each byte is shifted as an int.  For the upper half the shift is
\* undefined; it gives nothing, or, taken modulo the width, falls on the lower half.
FromBuf(buf) ==
    { IntOf([k \in 0..(IntBytes - 1) |-> buf[k]]),
      IntOf([k \in 0..(IntBytes - 1) |->
                IF buf[k + IntBytes] = 0 THEN buf[k] ELSE Base - 1]) }

-----------------------------------------------------------------------------
\* The constructor opens the file, and creates it empty if there is none.
Open(v) ==
    /\ v \notin open
    /\ open' = open \cup {v}
    /\ UNCHANGED << file, flock, locked, pc, mod, count, answer, held, restarts >>

\* The destructor, with no thread inside the object; it unlocks if need be.
Close(v) ==
    /\ v \in open
    /\ \A t \in Threads : Uses[t] = v => pc[t] = "idle"
    /\ open' = open \ {v}
    /\ locked' = [locked EXCEPT ![v] = FALSE]
    /\ flock' = IF flock = v THEN NoVar ELSE flock
    /\ UNCHANGED << file, pc, mod, count, answer, held, restarts >>

LockCall(t) ==
    /\ pc[t] = "idle" /\ Uses[t] \in open
    /\ pc' = [pc EXCEPT ![t] = "locking"]
    /\ UNCHANGED << open, file, flock, locked, mod, count, answer, held, restarts >>

\* flock(LOCK_EX), repeated while interrupted: granted at once to the open file
\* that has the lock already.
Lock(t) ==
    /\ pc[t] = "locking"
    /\ flock \in {NoVar, Uses[t]}
    /\ flock' = Uses[t]
    /\ locked' = [locked EXCEPT ![Uses[t]] = TRUE]
    /\ pc' = [pc EXCEPT ![t] = "locked"]
    /\ UNCHANGED << open, file, mod, count, answer, held, restarts >>

\* unlock() and OperateMapping() assert that the object is locked, and go no
\* further if it is not.
Unlock(t) ==
    /\ pc[t] = "locked" /\ locked[Uses[t]]
    /\ flock' = NoVar
    /\ locked' = [locked EXCEPT ![Uses[t]] = FALSE]
    /\ pc' = [pc EXCEPT ![t] = "idle"]
    /\ UNCHANGED << open, file, mod, count, answer, held, restarts >>

\* OperateMapping(), first half: reference() adds 1, dereference() -1, is_set()
\* nothing.  A file at its end leaves count at 0.
Operate(t, delta) ==
    /\ pc[t] = "locked" /\ locked[Uses[t]]
    /\ delta = 1 => held[t] < MaxRefs
    /\ delta = -1 => held[t] > 0
    /\ \E val \in IF file = << >> THEN {0} ELSE FromBuf(file) :
        /\ count' = [count EXCEPT ![t] = val]
        /\ answer' = IF delta = 0 THEN [answer EXCEPT ![t] = val > 0] ELSE answer
    /\ mod' = [mod EXCEPT ![t] = delta]
    /\ pc' = IF delta = 0 THEN pc ELSE [pc EXCEPT ![t] = "read"]
    /\ UNCHANGED << open, file, flock, locked, held, restarts >>

\* OperateMapping(), second half.
Write(t) ==
    /\ pc[t] = "read"
    /\ count' = [count EXCEPT ![t] = @ + mod[t]]
    /\ file' = ToBuf(count[t] + mod[t])
    /\ held' = [held EXCEPT ![t] = @ + mod[t]]
    /\ pc' = [pc EXCEPT ![t] = "locked"]
    /\ UNCHANGED << open, flock, locked, mod, answer, restarts >>

\* The process dies, and one with its number begins: locks are gone, the file is not.
Restart ==
    /\ restarts < MaxRestarts
    /\ restarts' = restarts + 1
    /\ open' = {} /\ flock' = NoVar
    /\ locked' = [v \in Vars |-> FALSE]
    /\ pc' = [t \in Threads |-> "idle"]
    /\ held' = [t \in Threads |-> 0]
    /\ UNCHANGED << file, mod, count, answer >>

-----------------------------------------------------------------------------
Next ==
    \/ \E v \in Vars : Open(v) \/ Close(v)
    \/ \E t \in Threads : \/ LockCall(t) \/ Lock(t) \/ Unlock(t) \/ Write(t)
                          \/ \E delta \in {-1, 0, 1} : Operate(t, delta)
    \/ Restart

Spec == Init /\ [][Next]_vars

-----------------------------------------------------------------------------
(* Properties *)

Total == MapThenSumSet(LAMBDA t : held[t], Threads)

\* The file holds the references that the process's threads have made and not
\* undone; none is lost between a read and a write.  (OperateMapping, lock.)
FileCounts == (IF file = << >> THEN {0} ELSE FromBuf(file)) = {Total}

\* From a thread's lock() to its unlock() the object stays locked, as unlock() and
\* OperateMapping() assert.  ("GlobalVar not locked".)
StaysLocked == \A t \in Threads : pc[t] \in {"locked", "read"} => locked[Uses[t]]

\* With an object for each thread this is the lock and the counter of GlobalVarSpec.
Global == INSTANCE GlobalVarSpec WITH
    owner <- IF \E t \in Threads : pc[t] \in {"locked", "read"}
             THEN CHOOSE t \in Threads : pc[t] \in {"locked", "read"} ELSE NoThread,
    count <- IF file = << >> THEN 0 ELSE CHOOSE val \in FromBuf(file) : TRUE

\* (GlobalVar.)
ImplementsGlobalVar == Global!Spec
=============================================================================
