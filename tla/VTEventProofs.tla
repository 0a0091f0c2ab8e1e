---------------------------- MODULE VTEventProofs ----------------------------
(***************************************************************************)
(* Proofs about VTEvent for every set of threads: its invariants, and that *)
(* its steps are steps of the abstract event of EventSpec.                 *)
(***************************************************************************)
EXTENDS VTEvent, TLAPS

\* The mutex is held by the one thread whose position says so.
MutexOK ==
    \A t \in Threads : pc[t] \in HoldsLock <=> lock = t

\* Only a timed wait meets a deadline.
DeadlineOK ==
    \A t \in Threads : pc[t] = "expired" => timed[t]

\* The inductive invariant: a thread about to block saw the flag lowered
\* and, holding the mutex, has kept signallers from raising it since.
EventInv == /\ TypeOK
            /\ MutexOK
            /\ DeadlineOK
            /\ BlockOnlyUnsignaled
            /\ NoLostWakeup

\* The constructor establishes the invariant.
LEMMA InitEventInv == Init => EventInv
BY ThreadsAssumption
   DEF Init, EventInv, TypeOK, MutexOK, DeadlineOK, BlockOnlyUnsignaled, NoLostWakeup,
       InSignal, InWait, HoldsLock, Results

\* Every step of every operation preserves it.
LEMMA NextEventInv == EventInv /\ [Next]_vars => EventInv'
<1> SUFFICES ASSUME EventInv, [Next]_vars
             PROVE  EventInv'
    OBVIOUS
<1> USE ThreadsAssumption
    DEF EventInv, TypeOK, MutexOK, DeadlineOK, BlockOnlyUnsignaled, NoLostWakeup,
        InSignal, InWait, HoldsLock, Results, Goto, Return
<1>1. ASSUME NEW t \in Threads, SignalCheck(t) PROVE EventInv'
    BY <1>1 DEF SignalCheck
<1>2. ASSUME NEW t \in Threads, Reset(t) PROVE EventInv'
    BY <1>2 DEF Reset
<1>3. ASSUME NEW t \in Threads, WaitCall(t) PROVE EventInv'
    BY <1>3 DEF WaitCall
<1>4. ASSUME NEW t \in Threads, SignalStore(t) PROVE EventInv'
    BY <1>4 DEF SignalStore
<1>5. ASSUME NEW t \in Threads, SignalNotify(t) PROVE EventInv'
    BY <1>5 DEF SignalNotify
<1>6. ASSUME NEW t \in Threads, WaitEnter(t) PROVE EventInv'
    BY <1>6 DEF WaitEnter
<1>7. ASSUME NEW t \in Threads, WaitPredicate(t) PROVE EventInv'
    BY <1>7 DEF WaitPredicate
<1>8. ASSUME NEW t \in Threads, WaitBlock(t) PROVE EventInv'
    BY <1>8 DEF WaitBlock
<1>9. ASSUME NEW t \in Threads, WaitResume(t) PROVE EventInv'
    BY <1>9 DEF WaitResume
<1>10. ASSUME NEW t \in Threads, SpuriousWakeup(t) PROVE EventInv'
    BY <1>10 DEF SpuriousWakeup
<1>11. ASSUME NEW t \in Threads, WaitExpire(t) PROVE EventInv'
    BY <1>11 DEF WaitExpire
<1>12. ASSUME NEW t \in Threads, WaitGiveUp(t) PROVE EventInv'
    BY <1>12 DEF WaitGiveUp
<1>13. CASE UNCHANGED vars
    BY <1>13 DEF vars
<1> QED
    BY <1>1, <1>2, <1>3, <1>4, <1>5, <1>6, <1>7, <1>8, <1>9, <1>10, <1>11,
       <1>12, <1>13 DEF Next, Proceed

\* The inductive invariant holds in every reachable state.
THEOREM EventInvariant == SafetySpec => []EventInv
<1>1. Init => EventInv
    BY InitEventInv
<1>2. EventInv /\ [Next]_vars => EventInv'
    BY NextEventInv
<1> QED
    BY <1>1, <1>2, PTL DEF SafetySpec

\* Type correctness of the event, for every set of threads.
THEOREM EventTypeCorrect == SafetySpec => []TypeOK
<1>1. EventInv => TypeOK
    BY DEF EventInv
<1> QED
    BY <1>1, EventInvariant, PTL

\* A thread never blocks on an event that is signaled.
THEOREM EventBlocksOnlyUnsignaled == SafetySpec => []BlockOnlyUnsignaled
<1>1. EventInv => BlockOnlyUnsignaled
    BY DEF EventInv
<1> QED
    BY <1>1, EventInvariant, PTL

\* No wakeup is lost, whatever the number of threads.
THEOREM EventLosesNoWakeup == SafetySpec => []NoLostWakeup
<1>1. EventInv => NoLostWakeup
    BY DEF EventInv
<1> QED
    BY <1>1, EventInvariant, PTL

-----------------------------------------------------------------------------
(* The code's steps are steps of the abstract event. *)

LEMMA InitImplements == Init => Abstract!Init
BY DEF Init, Abstract!Init, InWait

LEMMA StepImplements == EventInv /\ [Next]_vars => [Abstract!Next]_(Abstract!vars)
<1> SUFFICES ASSUME EventInv, [Next]_vars
             PROVE  [Abstract!Next]_(Abstract!vars)
    OBVIOUS
<1> USE ThreadsAssumption
    DEF EventInv, TypeOK, DeadlineOK, InSignal, InWait, Goto, Return
<1>1. ASSUME NEW t \in Threads, SignalCheck(t) PROVE UNCHANGED Abstract!vars
    BY <1>1 DEF SignalCheck, Abstract!vars
<1>2. ASSUME NEW t \in Threads, Reset(t) PROVE Abstract!Lower
    BY <1>2 DEF Reset, Abstract!Lower
<1>3. ASSUME NEW t \in Threads, WaitCall(t) PROVE Abstract!Wait(t)
    BY <1>3 DEF WaitCall, Abstract!Wait
<1>4. ASSUME NEW t \in Threads, SignalStore(t)
      PROVE Abstract!Raise \/ UNCHANGED Abstract!vars
    BY <1>4 DEF SignalStore, Abstract!Raise, Abstract!vars
<1>5. ASSUME NEW t \in Threads, SignalNotify(t) PROVE UNCHANGED Abstract!vars
    BY <1>5 DEF SignalNotify, Abstract!vars
<1>6. ASSUME NEW t \in Threads, WaitEnter(t)
      PROVE Abstract!ReturnTrue(t) \/ UNCHANGED Abstract!vars
    BY <1>6 DEF WaitEnter, Abstract!ReturnTrue, Abstract!vars
<1>7. ASSUME NEW t \in Threads, WaitPredicate(t)
      PROVE Abstract!ReturnTrue(t) \/ UNCHANGED Abstract!vars
    BY <1>7 DEF WaitPredicate, Abstract!ReturnTrue, Abstract!vars
<1>8. ASSUME NEW t \in Threads, WaitBlock(t) PROVE UNCHANGED Abstract!vars
    BY <1>8 DEF WaitBlock, Abstract!vars
<1>9. ASSUME NEW t \in Threads, WaitResume(t) PROVE UNCHANGED Abstract!vars
    BY <1>9 DEF WaitResume, Abstract!vars
<1>10. ASSUME NEW t \in Threads, SpuriousWakeup(t) PROVE UNCHANGED Abstract!vars
    BY <1>10 DEF SpuriousWakeup, Abstract!vars
<1>11. ASSUME NEW t \in Threads, WaitExpire(t) PROVE UNCHANGED Abstract!vars
    BY <1>11 DEF WaitExpire, Abstract!vars
<1>12. ASSUME NEW t \in Threads, WaitGiveUp(t)
      PROVE Abstract!ReturnTrue(t) \/ Abstract!ReturnFalse(t)
    <2>1. CASE isSignaled
        BY <1>12, <2>1 DEF WaitGiveUp, Abstract!ReturnTrue
    <2>2. CASE ~isSignaled
        BY <1>12, <2>2 DEF WaitGiveUp, Abstract!ReturnFalse
    <2> QED
        BY <2>1, <2>2
<1>13. CASE UNCHANGED vars
    BY <1>13 DEF vars, Abstract!vars
<1> QED
    BY <1>1, <1>2, <1>3, <1>4, <1>5, <1>6, <1>7, <1>8, <1>9, <1>10, <1>11,
       <1>12, <1>13 DEF Next, Proceed, Abstract!Next

\* The safety half of ImplementsEvent: whatever signal, reset and wait do in
\* any interleaving, callers see an atomic flag.
THEOREM EventImplementsSpec == SafetySpec => Abstract!SafetySpec
<1>1. Init => Abstract!Init
    BY InitImplements
<1>2. EventInv /\ [Next]_vars => [Abstract!Next]_(Abstract!vars)
    BY StepImplements
<1> QED
    BY <1>1, <1>2, EventInvariant, PTL DEF SafetySpec, Abstract!SafetySpec
=============================================================================
