--------------------------- MODULE VTExecuterProofs ---------------------------
(***************************************************************************)
(* Proofs about VTExecuter, whatever its interval and function: its types, *)
(* and that the destructor's signal lets at most one more call begin.      *)
(***************************************************************************)
EXTENDS VTExecuter, TLAPS

\* The worker is bound to call fnc_ before it looks at stop_ again.
BoundToCall == \/ worker = "call"
               \/ worker = "waiting" /\ pc[Worker] = "idle" /\ result[Worker] # "true"

\* The worker only waits on stop_.  Before stop_ is signaled no call is late,
\* and afterwards the call the worker is bound to make is the only one.
LateOK == /\ pc[Worker] \notin Stop!InSignal
          /\ ~isSignaled => late = 0
          /\ isSignaled /\ BoundToCall => late = 0
          /\ AtMostOneLateCall

ExecuterInv == TypeOK /\ LateOK

-----------------------------------------------------------------------------
\* A step inside one of stop_'s operations, or of its clock, keeps its types.
LEMMA StopTypes ==
    ASSUME Stop!TypeOK, NEW t \in {Worker, Owner},
           Stop!Proceed(t) \/ Stop!WaitExpire(t) \/ Stop!SpuriousWakeup(t)
    PROVE  Stop!TypeOK'
<1> USE ExecuterAssumption
    DEF Stop!TypeOK, Stop!InSignal, Stop!InWait, Stop!Results, Stop!Goto, Stop!Return
<1>1. CASE Stop!SignalStore(t)
    BY <1>1 DEF Stop!SignalStore
<1>2. CASE Stop!SignalNotify(t)
    BY <1>2 DEF Stop!SignalNotify
<1>3. CASE Stop!WaitEnter(t)
    BY <1>3 DEF Stop!WaitEnter
<1>4. CASE Stop!WaitPredicate(t)
    BY <1>4 DEF Stop!WaitPredicate
<1>5. CASE Stop!WaitBlock(t)
    BY <1>5 DEF Stop!WaitBlock
<1>6. CASE Stop!WaitResume(t)
    BY <1>6 DEF Stop!WaitResume
<1>7. CASE Stop!WaitGiveUp(t)
    BY <1>7 DEF Stop!WaitGiveUp
<1>8. CASE Stop!WaitExpire(t)
    BY <1>8 DEF Stop!WaitExpire
<1>9. CASE Stop!SpuriousWakeup(t)
    BY <1>9 DEF Stop!SpuriousWakeup
<1> QED
    BY <1>1, <1>2, <1>3, <1>4, <1>5, <1>6, <1>7, <1>8, <1>9 DEF Stop!Proceed

\* A wait that returns while stop_ is signaled returns true: no step inside
\* stop_ binds the worker to a call after the signal.
LEMMA StopBindsNoCall ==
    ASSUME ExecuterInv, NEW t \in {Worker, Owner},
           Stop!Proceed(t) \/ Stop!WaitExpire(t) \/ Stop!SpuriousWakeup(t),
           UNCHANGED << worker, late >>
    PROVE  LateOK'
<1> USE ExecuterAssumption
    DEF ExecuterInv, TypeOK, LateOK, BoundToCall, AtMostOneLateCall,
        Stop!TypeOK, Stop!InSignal, Stop!InWait, Stop!Results, Stop!Goto, Stop!Return
<1>1. CASE Stop!SignalStore(t)
    BY <1>1 DEF Stop!SignalStore
<1>2. CASE Stop!SignalNotify(t)
    BY <1>2 DEF Stop!SignalNotify
<1>3. CASE Stop!WaitEnter(t)
    BY <1>3 DEF Stop!WaitEnter
<1>4. CASE Stop!WaitPredicate(t)
    BY <1>4 DEF Stop!WaitPredicate
<1>5. CASE Stop!WaitBlock(t)
    BY <1>5 DEF Stop!WaitBlock
<1>6. CASE Stop!WaitResume(t)
    BY <1>6 DEF Stop!WaitResume
<1>7. CASE Stop!WaitGiveUp(t)
    BY <1>7 DEF Stop!WaitGiveUp
<1>8. CASE Stop!WaitExpire(t)
    BY <1>8 DEF Stop!WaitExpire
<1>9. CASE Stop!SpuriousWakeup(t)
    BY <1>9 DEF Stop!SpuriousWakeup
<1> QED
    BY <1>1, <1>2, <1>3, <1>4, <1>5, <1>6, <1>7, <1>8, <1>9 DEF Stop!Proceed

\* Construction establishes the invariant.
LEMMA InitExecuterInv == Init => ExecuterInv
<1> SUFFICES ASSUME Init
             PROVE  ExecuterInv
    OBVIOUS
<1>1. Stop!TypeOK
    BY DEF Init, Stop!Init, Stop!TypeOK, Stop!InSignal, Stop!InWait, Stop!Results
<1>2. TypeOK
    BY <1>1, ExecuterAssumption DEF Init, TypeOK
<1>3. LateOK
    BY DEF Init, Stop!Init, Stop!InSignal, LateOK, BoundToCall, AtMostOneLateCall
<1> QED
    BY <1>2, <1>3 DEF ExecuterInv

\* Every step of the worker, the owner and the clock preserves it.
LEMMA NextExecuterInv == ExecuterInv /\ [Next]_vars => ExecuterInv'
<1> SUFFICES ASSUME ExecuterInv, [Next]_vars
             PROVE  ExecuterInv'
    OBVIOUS
<1>a. /\ TypeOK /\ Stop!TypeOK /\ LateOK
      /\ late \in Nat
    BY ExecuterAssumption DEF ExecuterInv, TypeOK
<1>1. ASSUME UNCHANGED stopVars PROVE Stop!TypeOK'
    BY <1>1, <1>a DEF stopVars, Stop!TypeOK
<1>2. CASE WorkerStart
    BY <1>2, <1>1, <1>a
       DEF WorkerStart, ExecuterInv, TypeOK, LateOK, BoundToCall, AtMostOneLateCall, stopVars
<1>3. CASE WorkerWait
    <2>1. Stop!TypeOK'
        BY <1>3, <1>a DEF WorkerWait, Stop!WaitCall, Stop!TypeOK, Stop!Goto,
                          Stop!InSignal, Stop!InWait, Stop!Results
    <2>2. /\ worker' = "waiting" /\ UNCHANGED << interval, hasFnc, owner, late, isSignaled >>
          /\ pc'[Worker] = "enter"
        BY <1>3, <1>a DEF WorkerWait, Stop!WaitCall, Stop!TypeOK, Stop!Goto
    <2> QED
        BY <2>1, <2>2, <1>a
           DEF ExecuterInv, TypeOK, LateOK, BoundToCall, AtMostOneLateCall, Stop!InSignal
<1>4. CASE WorkerReturn
    BY <1>4, <1>1, <1>a
       DEF WorkerReturn, ExecuterInv, TypeOK, LateOK, BoundToCall, AtMostOneLateCall, stopVars
<1>5. CASE FncBegins
    BY <1>5, <1>1, <1>a, ExecuterAssumption
       DEF FncBegins, ExecuterInv, TypeOK, LateOK, BoundToCall, AtMostOneLateCall, stopVars
<1>6. CASE FncEnds
    BY <1>6, <1>1, <1>a
       DEF FncEnds, ExecuterInv, TypeOK, LateOK, BoundToCall, AtMostOneLateCall, stopVars
<1>7. CASE Delete
    <2>1. Stop!TypeOK'
        BY <1>7, <1>a DEF Delete, Stop!SignalCheck, Stop!TypeOK, Stop!Goto,
                          Stop!InSignal, Stop!InWait, Stop!Results
    <2>2. /\ owner' = "signaling"
          /\ UNCHANGED << interval, hasFnc, worker, late, isSignaled, result >>
          /\ pc'[Worker] = pc[Worker]
        BY <1>7, <1>a, ExecuterAssumption DEF Delete, Stop!SignalCheck, Stop!TypeOK, Stop!Goto
    <2> QED
        BY <2>1, <2>2, <1>a DEF ExecuterInv, TypeOK, LateOK, BoundToCall, AtMostOneLateCall
<1>8. CASE Signaled \/ Joined \/ UNCHANGED vars
    BY <1>8, <1>1, <1>a
       DEF Signaled, Joined, vars, ExecuterInv, TypeOK, LateOK, BoundToCall,
           AtMostOneLateCall, stopVars
<1>9. CASE InStop(Worker) \/ InStop(Owner) \/ Deadline \/ Spurious
    <2>1. PICK t \in {Worker, Owner} :
             Stop!Proceed(t) \/ Stop!WaitExpire(t) \/ Stop!SpuriousWakeup(t)
        BY <1>9 DEF InStop, Deadline, Spurious
    <2>2. UNCHANGED << interval, hasFnc, worker, owner, late >>
        BY <1>9 DEF InStop, Deadline, Spurious
    <2>3. Stop!TypeOK'
        BY <2>1, <1>a, StopTypes
    <2>4. LateOK'
        BY <2>1, <2>2, StopBindsNoCall
    <2> QED
        BY <2>2, <2>3, <2>4, <1>a DEF ExecuterInv, TypeOK
<1> QED
    BY <1>2, <1>3, <1>4, <1>5, <1>6, <1>7, <1>8, <1>9
       DEF Next, WorkerStep, OwnerStep, Destroyed

\* The executer's variables keep their types.
THEOREM ExecuterTypeCorrect == SafetySpec => []TypeOK
<1>1. ExecuterInv => TypeOK
    BY DEF ExecuterInv
<1> QED
    BY <1>1, InitExecuterInv, NextExecuterInv, PTL DEF SafetySpec

\* At most one call of fnc_ begins once the destructor has signaled stop_,
\* however the deadline and the signal fall.  (worker, ~impl.)
THEOREM ExecuterStopsInTime == SafetySpec => []AtMostOneLateCall
<1>1. ExecuterInv => AtMostOneLateCall
    BY DEF ExecuterInv, LateOK
<1> QED
    BY <1>1, InitExecuterInv, NextExecuterInv, PTL DEF SafetySpec
=============================================================================
