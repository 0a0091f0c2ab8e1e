----------------------- MODULE VTThreadSafeQueueProofs -----------------------
(***************************************************************************)
(* Proofs about VTThreadSafeQueue for every finite set of threads, every   *)
(* set of items and every bound.                                           *)
(***************************************************************************)
EXTENDS VTThreadSafeQueue, FiniteSetTheorems, TLAPS

\* The mutex is held by the one thread whose position says so.
MutexOK ==
    \A t \in Threads : pc[t] \in HoldsLock <=> lock = t

\* A thread about to block found the queue empty and has kept pushes out since.
BlockOnlyEmpty ==
    \A t \in Threads : pc[t] = "block" => queue = << >>

\* A push under way has its item.
ItemOK ==
    \A t \in Threads : pc[t] = "push" => item[t] \in Items

QueueInv == /\ TypeOK
            /\ MutexOK
            /\ BlockOnlyEmpty
            /\ ItemOK
            /\ NoStrandedItem

-----------------------------------------------------------------------------
(* Counting the threads a sleeping consumer may rely on *)

\* Promised counts as a finite set.
LEMMA PromisedCount ==
    /\ IsFiniteSet(Promised)
    /\ Cardinality(Promised) \in Nat
<1>1. Promised \subseteq Threads
    BY DEF Promised
<1>2. IsFiniteSet(Promised)
    BY <1>1, QueueAssumption, FS_Subset
<1> QED
    BY <1>2, FS_CardinalityType

\* A finite set of threads that gains members does not count less.
LEMMA CountGrows ==
    ASSUME NEW S, NEW T, T \subseteq Threads, S \subseteq T
    PROVE  /\ Cardinality(S) \in Nat /\ Cardinality(T) \in Nat
           /\ Cardinality(S) <= Cardinality(T)
<1>1. IsFiniteSet(T)
    BY QueueAssumption, FS_Subset
<1>2. IsFiniteSet(S) /\ Cardinality(S) <= Cardinality(T)
    BY <1>1, FS_Subset
<1> QED
    BY <1>1, <1>2, FS_CardinalityType

\* One that gains a thread it lacked counts one more at least.
LEMMA CountGrowsByOne ==
    ASSUME NEW S, NEW T, NEW t \in T, T \subseteq Threads, S \subseteq T, t \notin S
    PROVE  /\ Cardinality(S) \in Nat /\ Cardinality(T) \in Nat
           /\ Cardinality(S) + 1 <= Cardinality(T)
<1>1. IsFiniteSet(S) /\ Cardinality(S) \in Nat
    BY QueueAssumption, FS_Subset, FS_CardinalityType
<1>2. Cardinality(S \cup {t}) = Cardinality(S) + 1
    BY <1>1, FS_AddElement
<1>3. S \cup {t} \subseteq T
    OBVIOUS
<1> QED
    BY <1>1, <1>2, <1>3, CountGrows

\* One that loses at most the thread t counts at most one less.
LEMMA CountShrinksByOne ==
    ASSUME NEW S, NEW T, NEW t, S \subseteq Threads, T \subseteq Threads,
           S \subseteq T \cup {t}
    PROVE  /\ Cardinality(S) \in Nat /\ Cardinality(T) \in Nat
           /\ Cardinality(S) <= Cardinality(T) + 1
<1>1. /\ IsFiniteSet(S) /\ Cardinality(S) \in Nat
      /\ IsFiniteSet(T) /\ Cardinality(T) \in Nat
    BY QueueAssumption, FS_Subset, FS_CardinalityType
<1>2. IsFiniteSet(T \cup {t}) /\ Cardinality(T \cup {t}) <= Cardinality(T) + 1
    BY <1>1, FS_AddElement
<1>3. Cardinality(S) <= Cardinality(T \cup {t})
    BY <1>2, FS_Subset
<1>4. Cardinality(T \cup {t}) \in Nat
    BY <1>2, FS_CardinalityType
<1> QED
    BY <1>1, <1>2, <1>3, <1>4

-----------------------------------------------------------------------------
\* The constructor establishes the invariant.
LEMMA InitQueueInv == Init => QueueInv
<1> SUFFICES ASSUME Init
             PROVE  QueueInv
    OBVIOUS
<1>1. TypeOK
    BY DEF Init, TypeOK, InPop
<1>2. MutexOK /\ BlockOnlyEmpty /\ ItemOK
    BY QueueAssumption DEF Init, MutexOK, BlockOnlyEmpty, ItemOK, HoldsLock
<1>3. NoStrandedItem
    BY DEF Init, NoStrandedItem
<1> QED
    BY <1>1, <1>2, <1>3 DEF QueueInv

\* Types, mutual exclusion and the rest of the invariant that does not count.
LEMMA NextPlainInv ==
    QueueInv /\ [Next]_vars => (TypeOK /\ MutexOK /\ BlockOnlyEmpty /\ ItemOK)'
<1> SUFFICES ASSUME QueueInv, [Next]_vars
             PROVE  (TypeOK /\ MutexOK /\ BlockOnlyEmpty /\ ItemOK)'
    OBVIOUS
<1> DEFINE Plain == TypeOK /\ MutexOK /\ BlockOnlyEmpty /\ ItemOK
<1> USE QueueAssumption
    DEF QueueInv, TypeOK, MutexOK, BlockOnlyEmpty, ItemOK, InPop, HoldsLock, Goto
<1>1. ASSUME NEW t \in Threads, PushCall(t) PROVE Plain'
    BY <1>1 DEF PushCall
<1>2. ASSUME NEW t \in Threads, PushItem(t) PROVE Plain'
    BY <1>2 DEF PushItem
<1>3. ASSUME NEW t \in Threads, NotifyOne(t) PROVE Plain'
    BY <1>3 DEF NotifyOne
<1>4. ASSUME NEW t \in Threads, PopCall(t) PROVE Plain'
    BY <1>4 DEF PopCall
<1>5. ASSUME NEW t \in Threads, PopEnter(t) PROVE Plain'
    BY <1>5 DEF PopEnter
<1>6. ASSUME NEW t \in Threads, PopTake(t) PROVE Plain'
    <2>1. Head(queue) \in Items /\ Tail(queue) \in Seq(Items)
        BY <1>6 DEF PopTake
    <2> QED
        BY <1>6, <2>1 DEF PopTake
<1>7. ASSUME NEW t \in Threads, PopEmpty(t) PROVE Plain'
    BY <1>7 DEF PopEmpty
<1>8. ASSUME NEW t \in Threads, PopBlock(t) PROVE Plain'
    BY <1>8 DEF PopBlock
<1>9. ASSUME NEW t \in Threads, PopResume(t) PROVE Plain'
    BY <1>9 DEF PopResume
<1>10. ASSUME NEW t \in Threads, SpuriousWakeup(t) PROVE Plain'
    BY <1>10 DEF SpuriousWakeup
<1>11. CASE UNCHANGED vars
    BY <1>11 DEF vars
<1> QED
    BY <1>1, <1>2, <1>3, <1>4, <1>5, <1>6, <1>7, <1>8, <1>9, <1>10, <1>11
       DEF Next, Proceed

\* Every step keeps an item from being stranded.
LEMMA NextNoStrandedItem == QueueInv /\ [Next]_vars => NoStrandedItem'
<1> SUFFICES ASSUME QueueInv, [Next]_vars, sleepers' # {}
             PROVE  Len(queue') <= Cardinality(Promised')
    BY DEF NoStrandedItem
<1>0. /\ Promised \subseteq Threads /\ Promised' \subseteq Threads
      /\ Len(queue) \in Nat
    BY DEF Promised, QueueInv, TypeOK
<1>a. ASSUME sleepers # {}, Len(queue') = Len(queue), Promised \subseteq Promised'
      PROVE  Len(queue') <= Cardinality(Promised')
    BY <1>0, <1>a, CountGrows DEF QueueInv, NoStrandedItem
<1> USE DEF QueueInv, TypeOK, InPop, Goto
<1>1. ASSUME NEW t \in Threads, PushCall(t)
      PROVE  Len(queue') <= Cardinality(Promised')
    <2>1. Promised \subseteq Promised'
        BY <1>1 DEF PushCall, Promised
    <2> QED
        BY <1>1, <2>1, <1>a DEF PushCall
<1>2. ASSUME NEW t \in Threads, PushItem(t)
      PROVE  Len(queue') <= Cardinality(Promised')
    <2>1. t \notin Promised /\ t \in Promised' /\ Promised \subseteq Promised'
        BY <1>2 DEF PushItem, Promised
    <2>2. Len(queue') = Len(queue) + 1
        BY <1>2 DEF PushItem, ItemOK
    <2>3. Len(queue) <= Cardinality(Promised)
        BY <1>2 DEF PushItem, NoStrandedItem
    <2>4. /\ Cardinality(Promised) \in Nat /\ Cardinality(Promised') \in Nat
          /\ Cardinality(Promised) + 1 <= Cardinality(Promised')
        BY <2>1, <1>0, CountGrowsByOne
    <2> QED
        BY <2>2, <2>3, <2>4, <1>0
<1>3. ASSUME NEW t \in Threads, NotifyOne(t)
      PROVE  Len(queue') <= Cardinality(Promised')
    <2>1. PICK s \in sleepers : sleepers' = sleepers \ {s}
        BY <1>3 DEF NotifyOne
    <2>2. /\ s \in Promised' /\ s \notin Promised
          /\ Promised' \subseteq Threads
          /\ Promised \subseteq (Promised' \ {s}) \cup {t}
        BY <1>3, <2>1 DEF NotifyOne, Promised
    <2>3. Cardinality(Promised) <= Cardinality(Promised' \ {s}) + 1
        BY <2>2, <1>0, CountShrinksByOne
    <2>4. /\ Cardinality(Promised' \ {s}) + 1 <= Cardinality(Promised')
          /\ Cardinality(Promised' \ {s}) \in Nat
          /\ Cardinality(Promised') \in Nat
        BY <2>2, CountGrowsByOne
    <2>5. Len(queue) <= Cardinality(Promised)
        BY <2>1 DEF NoStrandedItem
    <2>6. queue' = queue
        BY <1>3 DEF NotifyOne
    <2> QED
        BY <2>3, <2>4, <2>5, <2>6, <1>0, PromisedCount
<1>4. ASSUME NEW t \in Threads, PopCall(t)
      PROVE  Len(queue') <= Cardinality(Promised')
    <2>1. Promised \subseteq Promised'
        BY <1>4 DEF PopCall, Promised
    <2> QED
        BY <1>4, <2>1, <1>a DEF PopCall
<1>5. ASSUME NEW t \in Threads, PopEnter(t)
      PROVE  Len(queue') <= Cardinality(Promised')
    <2>1. Promised \subseteq Promised'
        BY <1>5 DEF PopEnter, Promised
    <2> QED
        BY <1>5, <2>1, <1>a DEF PopEnter
<1>6. ASSUME NEW t \in Threads, PopTake(t)
      PROVE  Len(queue') <= Cardinality(Promised')
    <2>1. Promised \subseteq Promised' \cup {t}
        BY <1>6 DEF PopTake, Promised
    <2>2. /\ Cardinality(Promised) \in Nat /\ Cardinality(Promised') \in Nat
          /\ Cardinality(Promised) <= Cardinality(Promised') + 1
        BY <2>1, <1>0, CountShrinksByOne
    <2>3. Len(queue') = Len(queue) - 1
        BY <1>6 DEF PopTake
    <2>4. Len(queue) <= Cardinality(Promised)
        BY <1>6 DEF PopTake, NoStrandedItem
    <2> QED
        BY <2>2, <2>3, <2>4, <1>0
<1>7. ASSUME NEW t \in Threads, PopEmpty(t)
      PROVE  Len(queue') <= Cardinality(Promised')
    <2>1. Len(queue') = 0
        BY <1>7 DEF PopEmpty
    <2>2. Cardinality(Promised') \in Nat
        BY <1>0, CountGrows
    <2> QED
        BY <2>1, <2>2
<1>8. ASSUME NEW t \in Threads, PopBlock(t)
      PROVE  Len(queue') <= Cardinality(Promised')
    <2>1. Len(queue') = 0
        BY <1>8 DEF PopBlock, BlockOnlyEmpty
    <2>2. Cardinality(Promised') \in Nat
        BY <1>0, CountGrows
    <2> QED
        BY <2>1, <2>2
<1>9. ASSUME NEW t \in Threads, PopResume(t)
      PROVE  Len(queue') <= Cardinality(Promised')
    <2>1. Promised \subseteq Promised'
        BY <1>9 DEF PopResume, Promised
    <2> QED
        BY <1>9, <2>1, <1>a DEF PopResume
<1>10. ASSUME NEW t \in Threads, SpuriousWakeup(t)
       PROVE  Len(queue') <= Cardinality(Promised')
    <2>1. Promised \subseteq Promised'
        BY <1>10 DEF SpuriousWakeup, Promised
    <2> QED
        BY <1>10, <2>1, <1>a DEF SpuriousWakeup
<1>11. ASSUME UNCHANGED vars
       PROVE  Len(queue') <= Cardinality(Promised')
    <2>1. Promised \subseteq Promised'
        BY <1>11 DEF vars, Promised
    <2> QED
        BY <1>11, <2>1, <1>a DEF vars
<1> QED
    BY <1>1, <1>2, <1>3, <1>4, <1>5, <1>6, <1>7, <1>8, <1>9, <1>10, <1>11
       DEF Next, Proceed

\* The inductive invariant holds in every reachable state.
THEOREM QueueInvariant == SafetySpec => []QueueInv
<1>1. Init => QueueInv
    BY InitQueueInv
<1>2. QueueInv /\ [Next]_vars => QueueInv'
    BY NextPlainInv, NextNoStrandedItem DEF QueueInv
<1> QED
    BY <1>1, <1>2, PTL DEF SafetySpec

\* Type correctness of the queue.
THEOREM QueueTypeCorrect == SafetySpec => []TypeOK
<1>1. QueueInv => TypeOK
    BY DEF QueueInv
<1> QED
    BY <1>1, QueueInvariant, PTL

\* No item lies in the queue while a consumer sleeps without a promise of
\* being woken, for any number of producers and consumers.
THEOREM QueueStrandsNoItem == SafetySpec => []NoStrandedItem
<1>1. QueueInv => NoStrandedItem
    BY DEF QueueInv
<1> QED
    BY <1>1, QueueInvariant, PTL

-----------------------------------------------------------------------------
(* The code's steps are steps of the abstract queue. *)

LEMMA InitImplements == Init => Abstract!Init
BY DEF Init, Abstract!Init, InPop

LEMMA StepImplements == QueueInv /\ [Next]_vars => [Abstract!Next]_(Abstract!vars)
<1> SUFFICES ASSUME QueueInv, [Next]_vars
             PROVE  [Abstract!Next]_(Abstract!vars)
    OBVIOUS
<1> USE QueueAssumption DEF QueueInv, TypeOK, InPop, Goto
<1>1. ASSUME NEW t \in Threads, PushCall(t) PROVE UNCHANGED Abstract!vars
    BY <1>1 DEF PushCall, Abstract!vars
<1>2. ASSUME NEW t \in Threads, PushItem(t) PROVE \E i \in Items : Abstract!Push(i)
    BY <1>2 DEF PushItem, ItemOK, Abstract!Push
<1>3. ASSUME NEW t \in Threads, NotifyOne(t) PROVE UNCHANGED Abstract!vars
    BY <1>3 DEF NotifyOne, Abstract!vars
<1>4. ASSUME NEW t \in Threads, PopCall(t) PROVE Abstract!CallPop(t)
    BY <1>4 DEF PopCall, Abstract!CallPop
<1>5. ASSUME NEW t \in Threads, PopEnter(t) PROVE UNCHANGED Abstract!vars
    BY <1>5 DEF PopEnter, Abstract!vars
<1>6. ASSUME NEW t \in Threads, PopTake(t) PROVE Abstract!Pop(t)
    BY <1>6 DEF PopTake, Abstract!Pop
<1>7. ASSUME NEW t \in Threads, PopEmpty(t) PROVE UNCHANGED Abstract!vars
    BY <1>7 DEF PopEmpty, Abstract!vars
<1>8. ASSUME NEW t \in Threads, PopBlock(t) PROVE UNCHANGED Abstract!vars
    BY <1>8 DEF PopBlock, Abstract!vars
<1>9. ASSUME NEW t \in Threads, PopResume(t) PROVE UNCHANGED Abstract!vars
    BY <1>9 DEF PopResume, Abstract!vars
<1>10. ASSUME NEW t \in Threads, SpuriousWakeup(t) PROVE UNCHANGED Abstract!vars
    BY <1>10 DEF SpuriousWakeup, Abstract!vars
<1>11. CASE UNCHANGED vars
    BY <1>11 DEF vars, Abstract!vars
<1> QED
    BY <1>1, <1>2, <1>3, <1>4, <1>5, <1>6, <1>7, <1>8, <1>9, <1>10, <1>11
       DEF Next, Proceed, Abstract!Next

\* The safety half of ImplementsQueue: first in, first out, each item once.
THEOREM QueueImplementsSpec == SafetySpec => Abstract!SafetySpec
<1>1. Init => Abstract!Init
    BY InitImplements
<1>2. QueueInv /\ [Next]_vars => [Abstract!Next]_(Abstract!vars)
    BY StepImplements
<1> QED
    BY <1>1, <1>2, QueueInvariant, PTL DEF SafetySpec, Abstract!SafetySpec
=============================================================================
