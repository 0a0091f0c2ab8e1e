-------------------------- MODULE VTThreadPoolProofs --------------------------
(***************************************************************************)
(* Proofs about VTThreadPool for every set of tasks, clients and workers   *)
(* and every number of resizing calls, provided that the pool is shrunk    *)
(* only while it has no work.                                              *)
(***************************************************************************)
EXTENDS VTThreadPool, FiniteSetTheorems, TLAPS

-----------------------------------------------------------------------------
(* The inductive invariant *)

JoinLabels == {"trimJoin", "waitJoin", "expiredJoin", "destroyJoin", "schedulerJoin"}
StopLabels == {"stopScheduler", "joinScheduler", "destroyThreads", "destroyJoin",
               "destroyed"}

\* The lock is held by the client inside adjust_thread_count.
LockOK == \A c \in Clients : pc[c] \in {"adjust", "trimJoin"} <=> lock = c

\* A worker at rest: no work, and working_ up only if it has been told to end.
Resting(w) == free[w] /\ work[w] = None /\ (working[w] <=> terminated[w])

\* A worker with work it has not begun or not ended.
Assigned(w) == ~free[w] /\ work[w] \in Tasks /\ working[w] /\ ~terminated[w]

WorkerOK(w) ==
    /\ wpc[w] = "absent" => ~free[w] /\ work[w] = None /\ ~working[w] /\ ~terminated[w]
    /\ wpc[w] \in {"idle", "notify"} => Resting(w) \/ Assigned(w)
    /\ wpc[w] = "run" => Assigned(w)
    /\ wpc[w] = "reset" => ~free[w] /\ work[w] = None /\ working[w] /\ ~terminated[w]
    /\ wpc[w] = "free" => ~free[w] /\ work[w] = None /\ ~working[w] /\ ~terminated[w]
    /\ wpc[w] = "exited" => free[w] /\ work[w] = None /\ terminated[w]

WorkersOK == \A w \in Workers : WorkerOK(w)

\* The pool's threads exist and have not been told to end; a thread that has
\* left the pool has no work.
MembersOK == /\ \A w \in ToSet(threads) : wpc[w] # "absent" /\ ~terminated[w]
             /\ \A w \in Workers \ ToSet(threads) : wpc[w] # "absent" => free[w]

\* References lead to threads that exist.  A thread being joined has been told
\* to end, has left the pool, and nobody else shares it.
RefsOK == /\ \A p \in Procs : ref[p] # None => wpc[ref[p]] # "absent"
          /\ pc[Scheduler] = "release" => ref[Scheduler] # None
          /\ \A p \in Procs : pc[p] \in JoinLabels =>
                /\ ref[p] # None
                /\ ref[p] \notin ToSet(threads)
                /\ terminated[ref[p]]
                /\ \A q \in Procs \ {p} : ref[q] # ref[p]

\* While threads remain to be trimmed none of the pool's is at work.
TrimOK == \A c \in Clients :
    pc[c] \in {"adjust", "trimJoin"} /\ target[c] < Len(threads) => BusyThreads = {}

\* From the end of its wait_for_all on, the destructor finds the pool idle.
DestroyOK == \A c \in Clients :
    /\ pc[c] \in StopLabels => c = destroyer
    /\ c = destroyer /\ pc[c] \in StopLabels \cup {"allDone"} =>
          BusyThreads = {} /\ queue = << >>
    /\ pc[c] \in StopLabels \ {"stopScheduler"} => dead

\* Accepted work is in the queue or with a worker.
AcceptedOK == \A t \in Tasks :
    status[t] = "accepted" => t \in ToSet(queue) \/ \E w \in Workers : work[w] = t

PoolInv == /\ TypeOK
           /\ LockOK
           /\ WorkersOK
           /\ MembersOK
           /\ RefsOK
           /\ TrimOK
           /\ DestroyOK
           /\ HasQueueOK
           /\ AcceptedOK
           /\ NoBrokenPromise

-----------------------------------------------------------------------------
(* Sequences and the sets of their elements *)

LEMMA EmptySet ==
    ASSUME NEW S, NEW s \in Seq(S)
    PROVE  /\ ToSet(s) \subseteq S
           /\ Len(s) \in Nat
           /\ ToSet(<< >>) = {}
           /\ s # << >> <=> Len(s) > 0
BY DEF ToSet

LEMMA AppendSet ==
    ASSUME NEW S, NEW s \in Seq(S), NEW e \in S
    PROVE  /\ Append(s, e) \in Seq(S)
           /\ Append(s, e) # << >>
           /\ Len(Append(s, e)) = Len(s) + 1
           /\ ToSet(Append(s, e)) = ToSet(s) \cup {e}
<1> DEFINE a == Append(s, e)
<1>1. /\ a \in Seq(S)
      /\ a # << >>
      /\ Len(a) = Len(s) + 1
      /\ Len(s) \in Nat
    OBVIOUS
<1>2. DOMAIN s = 1..Len(s) /\ DOMAIN a = 1..(Len(s) + 1)
    BY <1>1
<1>3. a[Len(s) + 1] = e /\ \A i \in 1..Len(s) : a[i] = s[i]
    OBVIOUS
<1>4. ToSet(a) \subseteq ToSet(s) \cup {e}
    <2> SUFFICES ASSUME NEW i \in DOMAIN a
                 PROVE  a[i] \in ToSet(s) \cup {e}
        BY DEF ToSet
    <2>1. CASE i = Len(s) + 1
        BY <2>1, <1>3
    <2>2. CASE i \in 1..Len(s)
        BY <2>2, <1>2, <1>3 DEF ToSet
    <2> HIDE DEF a
    <2> QED
        BY <2>1, <2>2, <1>1, <1>2
<1> HIDE DEF a
<1>5. ToSet(s) \subseteq ToSet(a)
    <2> SUFFICES ASSUME NEW i \in DOMAIN s
                 PROVE  s[i] \in ToSet(a)
        BY DEF ToSet
    <2>1. i \in DOMAIN a /\ a[i] = s[i]
        BY <1>1, <1>2, <1>3
    <2> QED
        BY <2>1 DEF ToSet
<1>6. e \in ToSet(a)
    <2>1. Len(s) + 1 \in DOMAIN a
        BY <1>1, <1>2
    <2> QED
        BY <2>1, <1>3 DEF ToSet
<1>7. ToSet(a) = ToSet(s) \cup {e}
    BY <1>4, <1>5, <1>6
<1> QED
    BY <1>1, <1>7 DEF a

LEMMA FrontSet ==
    ASSUME NEW S, NEW s \in Seq(S), s # << >>
    PROVE  /\ Front(s) \in Seq(S)
           /\ Len(Front(s)) = Len(s) - 1
           /\ Last(s) \in S
           /\ ToSet(s) = ToSet(Front(s)) \cup {Last(s)}
<1> DEFINE f == Front(s)
<1>1. Len(s) \in Nat \ {0} /\ DOMAIN s = 1..Len(s)
    OBVIOUS
<1>2. /\ f \in Seq(S)
      /\ Len(f) = Len(s) - 1
      /\ \A i \in 1..(Len(s) - 1) : f[i] = s[i]
    BY <1>1 DEF Front
<1>3. Last(s) = s[Len(s)] /\ Last(s) \in S
    BY <1>1 DEF Last
<1>4. DOMAIN f = 1..(Len(s) - 1)
    BY <1>2
<1> HIDE DEF f
<1>5. ToSet(s) \subseteq ToSet(f) \cup {Last(s)}
    <2> SUFFICES ASSUME NEW i \in DOMAIN s
                 PROVE  s[i] \in ToSet(f) \cup {Last(s)}
        BY DEF ToSet
    <2>1. CASE i = Len(s)
        BY <2>1, <1>3
    <2>2. CASE i # Len(s)
        <3>1. i \in DOMAIN f /\ s[i] = f[i]
            BY <2>2, <1>1, <1>2, <1>4
        <3> QED
            BY <3>1 DEF ToSet
    <2> QED
        BY <2>1, <2>2
<1>6. ToSet(f) \subseteq ToSet(s)
    <2> SUFFICES ASSUME NEW i \in DOMAIN f
                 PROVE  f[i] \in ToSet(s)
        BY DEF ToSet
    <2>1. i \in DOMAIN s /\ f[i] = s[i]
        BY <1>1, <1>2, <1>4
    <2> QED
        BY <2>1 DEF ToSet
<1>7. Last(s) \in ToSet(s)
    <2>1. Len(s) \in DOMAIN s
        BY <1>1
    <2> QED
        BY <2>1, <1>3 DEF ToSet
<1>8. ToSet(s) = ToSet(f) \cup {Last(s)}
    BY <1>5, <1>6, <1>7
<1> QED
    BY <1>2, <1>3, <1>8 DEF f

LEMMA TailSet ==
    ASSUME NEW S, NEW s \in Seq(S), s # << >>
    PROVE  /\ Tail(s) \in Seq(S)
           /\ Len(Tail(s)) = Len(s) - 1
           /\ Head(s) \in S
           /\ ToSet(s) = ToSet(Tail(s)) \cup {Head(s)}
<1> DEFINE f == Tail(s)
<1>1. Len(s) \in Nat \ {0} /\ DOMAIN s = 1..Len(s)
    OBVIOUS
<1>2. /\ f \in Seq(S)
      /\ Len(f) = Len(s) - 1
      /\ \A i \in 1..(Len(s) - 1) : f[i] = s[i + 1]
    BY <1>1
<1>3. Head(s) = s[1] /\ Head(s) \in S
    BY <1>1
<1>4. DOMAIN f = 1..(Len(s) - 1)
    BY <1>2
<1> HIDE DEF f
<1>5. ToSet(s) \subseteq ToSet(f) \cup {Head(s)}
    <2> SUFFICES ASSUME NEW i \in DOMAIN s
                 PROVE  s[i] \in ToSet(f) \cup {Head(s)}
        BY DEF ToSet
    <2>1. CASE i = 1
        BY <2>1, <1>3
    <2>2. CASE i # 1
        <3>1. i - 1 \in DOMAIN f /\ s[i] = f[i - 1]
            BY <2>2, <1>1, <1>2, <1>4
        <3> QED
            BY <3>1 DEF ToSet
    <2> QED
        BY <2>1, <2>2
<1>6. ToSet(f) \subseteq ToSet(s)
    <2> SUFFICES ASSUME NEW i \in DOMAIN f
                 PROVE  f[i] \in ToSet(s)
        BY DEF ToSet
    <2>1. i + 1 \in DOMAIN s /\ f[i] = s[i + 1]
        BY <1>1, <1>2, <1>4
    <2> QED
        BY <2>1 DEF ToSet
<1>7. Head(s) \in ToSet(s)
    <2>1. 1 \in DOMAIN s
        BY <1>1
    <2> QED
        BY <2>1, <1>3 DEF ToSet
<1>8. ToSet(s) = ToSet(f) \cup {Head(s)}
    BY <1>5, <1>6, <1>7
<1> QED
    BY <1>2, <1>3, <1>8 DEF f

\* Where a process goes on after a join.
LEMMA AfterJoinValues ==
    /\ DOMAIN AfterJoin = JoinLabels
    /\ AfterJoin["trimJoin"] = "adjust"
    /\ AfterJoin["waitJoin"] = "wait"
    /\ AfterJoin["expiredJoin"] = "idle"
    /\ AfterJoin["destroyJoin"] = "destroyThreads"
    /\ AfterJoin["schedulerJoin"] = "waitQueue"
BY DEF AfterJoin, JoinLabels

-----------------------------------------------------------------------------
(* Types *)

LEMMA InitTypes == Init => TypeOK
<1> SUFFICES ASSUME Init
             PROVE  TypeOK
    OBVIOUS
<1>1. threads \in Seq(Workers)
    BY PoolAssumption DEF Init
<1>3. queue \in Seq(Tasks)
    BY DEF Init
<1>4. /\ maxCount \in 1..MaxLimit /\ adjusts \in 0..AdjustBound
      /\ target \in [Clients -> 0..MaxLimit]
    BY PoolAssumption DEF Init
<1>5. dead \in BOOLEAN /\ hasQueue \in BOOLEAN /\ hasFree \in BOOLEAN
    BY Zenon DEF Init
<1>6. /\ wpc \in [Workers -> WorkerLabels]
      /\ work \in [Workers -> Tasks \cup {None}]
      /\ terminated \in [Workers -> BOOLEAN]
      /\ working \in [Workers -> BOOLEAN]
      /\ free \in [Workers -> BOOLEAN]
    BY DEF Init, WorkerLabels
<1>7. /\ pc \in [Procs -> SchedulerLabels \cup ClientLabels]
      /\ pc[Scheduler] \in SchedulerLabels
      /\ \A c \in Clients : pc[c] \in ClientLabels
    BY PoolAssumption DEF Init, Procs, SchedulerLabels, ClientLabels
<1>8. /\ lock \in Clients \cup {None}
      /\ ref \in [Procs -> Workers \cup {None}]
      /\ destroyer \in Clients \cup {None}
      /\ status \in [Tasks -> Statuses]
    BY DEF Init, Statuses
<1> QED
    BY <1>1, <1>3, <1>4, <1>5, <1>6, <1>7, <1>8 DEF TypeOK

\* The variables of the processes keep their types when one lets a worker go.
LEMMA LetGoTypes ==
    ASSUME TypeOK, NEW p \in Procs, NEW w \in Workers \cup {None}, NEW s,
           NEW label \in JoinLabels, label = "schedulerJoin" <=> p = Scheduler,
           LetGo(p, w, s, label)
    PROVE  /\ pc' \in [Procs -> SchedulerLabels \cup ClientLabels]
           /\ pc'[Scheduler] \in SchedulerLabels
           /\ \A c \in Clients : pc'[c] \in ClientLabels
           /\ ref' \in [Procs -> Workers \cup {None}]
           /\ terminated' \in [Workers -> BOOLEAN]
           /\ working' \in [Workers -> BOOLEAN]
<1> USE DEF TypeOK
<1>1. /\ {label, AfterJoin[label]} \subseteq SchedulerLabels \cup ClientLabels
      /\ p = Scheduler => {label, AfterJoin[label]} \subseteq SchedulerLabels
      /\ p # Scheduler => {label, AfterJoin[label]} \subseteq ClientLabels
    <2>1. CASE label = "trimJoin"
        BY <2>1, AfterJoinValues DEF SchedulerLabels, ClientLabels
    <2>2. CASE label = "waitJoin"
        BY <2>2, AfterJoinValues DEF SchedulerLabels, ClientLabels
    <2>3. CASE label = "expiredJoin"
        BY <2>3, AfterJoinValues DEF SchedulerLabels, ClientLabels
    <2>4. CASE label = "destroyJoin"
        BY <2>4, AfterJoinValues DEF SchedulerLabels, ClientLabels
    <2>5. CASE label = "schedulerJoin"
        BY <2>5, AfterJoinValues DEF SchedulerLabels, ClientLabels
    <2> QED
        BY <2>1, <2>2, <2>3, <2>4, <2>5 DEF JoinLabels
<1>2. \E l \in {label, AfterJoin[label]} : pc' = [pc EXCEPT ![p] = l]
    BY DEF LetGo, Goto
<1>3. PICK l \in {label, AfterJoin[label]} : pc' = [pc EXCEPT ![p] = l]
    BY <1>2
<1>4. /\ pc' \in [Procs -> SchedulerLabels \cup ClientLabels]
      /\ pc'[Scheduler] \in SchedulerLabels
      /\ \A c \in Clients : pc'[c] \in ClientLabels
    BY <1>1, <1>3, PoolAssumption DEF Procs
<1>5. /\ ref' \in [Procs -> Workers \cup {None}]
      /\ terminated' \in [Workers -> BOOLEAN]
      /\ working' \in [Workers -> BOOLEAN]
    BY DEF LetGo
<1> QED
    BY <1>4, <1>5

\* Every step keeps the types.
LEMMA NextTypes == TypeOK /\ [Next]_vars => TypeOK'
<1> SUFFICES ASSUME TypeOK, [Next]_vars
             PROVE  TypeOK'
    OBVIOUS
<1> USE PoolAssumption
    DEF TypeOK, Goto, implVars, workerVars, callVars, Procs, WorkerLabels,
        SchedulerLabels, ClientLabels, Statuses
<1>1. ASSUME NEW t \in Tasks, Submit(t) PROVE TypeOK'
    <2>1. CASE \E w \in FreeThreads : DoWork(w, t) /\ UNCHANGED << queue, threads, hasQueue, hasFree, wpc >>
        <3>1. FreeThreads \subseteq Workers
            BY EmptySet DEF FreeThreads
        <3> QED
            BY <1>1, <2>1, <3>1 DEF Submit, DoWork
    <2>2. CASE \E w \in Absent : StartThread(w) /\ DoWork(w, t) /\ UNCHANGED << queue, hasQueue >>
        <3>1. PICK w \in Absent : StartThread(w) /\ DoWork(w, t)
            BY <2>2
        <3>2. w \in Workers
            BY DEF Absent
        <3>3. threads' \in Seq(Workers)
            BY <3>1, <3>2, AppendSet DEF StartThread
        <3> QED
            BY <1>1, <2>2, <3>1, <3>2, <3>3 DEF Submit, DoWork, StartThread
    <2>3. CASE /\ queue' = Append(queue, t)
               /\ hasQueue' = TRUE
               /\ UNCHANGED << threads, hasFree, wpc, work, working, free >>
        BY <1>1, <2>3 DEF Submit
    <2> QED
        BY <1>1, <2>1, <2>2, <2>3 DEF Submit
<1>2. ASSUME NEW w \in Workers, WorkerWake(w) PROVE TypeOK'
    BY <1>2 DEF WorkerWake
<1>3. ASSUME NEW w \in Workers, WorkerFinish(w) PROVE TypeOK'
    BY <1>3 DEF WorkerFinish
<1>4. ASSUME NEW w \in Workers, WorkerReset(w) PROVE TypeOK'
    BY <1>4 DEF WorkerReset
<1>5. ASSUME NEW w \in Workers, WorkerFree(w) PROVE TypeOK'
    BY <1>5 DEF WorkerFree
<1>6. ASSUME NEW w \in Workers, WorkerNotify(w) PROVE TypeOK'
    BY <1>6 DEF WorkerNotify
<1>7. ASSUME SchedulerWaitQueue PROVE TypeOK'
    BY <1>7 DEF SchedulerWaitQueue
<1>8. ASSUME SchedulerResetFree PROVE TypeOK'
    BY <1>8 DEF SchedulerResetFree
<1>9. ASSUME SchedulerDispatch PROVE TypeOK'
    <2>1. \A w \in Workers : Take(w) =>
              /\ queue' \in Seq(Tasks)
              /\ hasQueue' \in BOOLEAN
              /\ work' \in [Workers -> Tasks \cup {None}]
              /\ working' \in [Workers -> BOOLEAN]
              /\ free' \in [Workers -> BOOLEAN]
        <3> SUFFICES ASSUME NEW w \in Workers, Take(w)
                     PROVE  /\ queue' \in Seq(Tasks)
                            /\ hasQueue' \in BOOLEAN
                            /\ work' \in [Workers -> Tasks \cup {None}]
                            /\ working' \in [Workers -> BOOLEAN]
                            /\ free' \in [Workers -> BOOLEAN]
            OBVIOUS
        <3>1. CASE queue = << >>
            BY <3>1 DEF Take
        <3>2. CASE queue # << >>
            <4>1. queue' = Front(queue) /\ DoWork(w, Last(queue))
                BY <3>2 DEF Take
            <4>2. queue' \in Seq(Tasks) /\ Last(queue) \in Tasks
                BY <3>2, <4>1, FrontSet
            <4>3. hasQueue' \in BOOLEAN
                BY <3>2, Zenon DEF Take
            <4> QED
                BY <4>1, <4>2, <4>3 DEF DoWork
        <3> QED
            BY <3>1, <3>2
    <2>2. FreeThreads \subseteq Workers
        BY EmptySet DEF FreeThreads
    <2>3. CASE Goto(Scheduler, "exited") /\ UNCHANGED << queue, threads, hasQueue, hasFree, workerVars, ref >>
        BY <1>9, <2>3 DEF SchedulerDispatch
    <2>4. CASE /\ \E w \in FreeThreads : Take(w) /\ ref' = [ref EXCEPT ![Scheduler] = w]
               /\ Goto(Scheduler, "release")
               /\ UNCHANGED << threads, hasFree, wpc, terminated >>
        BY <1>9, <2>1, <2>2, <2>4 DEF SchedulerDispatch
    <2>5. CASE /\ \E w \in Absent : /\ StartThread(w)
                                    /\ Take(w)
                                    /\ ref' = [ref EXCEPT ![Scheduler] = w]
               /\ Goto(Scheduler, "release")
               /\ UNCHANGED terminated
        BY <1>9, <2>1, <2>5 DEF SchedulerDispatch, StartThread, Absent
    <2>6. CASE Goto(Scheduler, "waitFree") /\ UNCHANGED << queue, threads, hasQueue, hasFree, workerVars, ref >>
        BY <1>9, <2>6 DEF SchedulerDispatch
    <2> QED
        BY <1>9, <2>3, <2>4, <2>5, <2>6 DEF SchedulerDispatch
<1>10. ASSUME SchedulerRelease PROVE TypeOK'
    BY <1>10, LetGoTypes DEF SchedulerRelease, JoinLabels
<1>11. ASSUME SchedulerWaitFree PROVE TypeOK'
    BY <1>11 DEF SchedulerWaitFree
<1>12. ASSUME NEW p \in Procs, Join(p) PROVE TypeOK'
    <2>1. /\ p \in Clients => AfterJoin[pc[p]] \in ClientLabels
          /\ p = Scheduler => AfterJoin[pc[p]] \in SchedulerLabels
        BY <1>12, AfterJoinValues DEF Join, JoinLabels
    <2>2. pc' = [pc EXCEPT ![p] = AfterJoin[pc[p]]]
        BY <1>12 DEF Join
    <2>3. /\ pc' \in [Procs -> SchedulerLabels \cup ClientLabels]
          /\ pc'[Scheduler] \in SchedulerLabels
          /\ \A c \in Clients : pc'[c] \in ClientLabels
        BY <2>1, <2>2
    <2>4. /\ wpc' \in [Workers -> WorkerLabels]
          /\ work' \in [Workers -> Tasks \cup {None}]
          /\ terminated' \in [Workers -> BOOLEAN]
          /\ working' \in [Workers -> BOOLEAN]
          /\ free' \in [Workers -> BOOLEAN]
          /\ ref' \in [Procs -> Workers \cup {None}]
        BY <1>12 DEF Join
    <2>5. status' \in [Tasks -> Statuses]
        BY <1>12 DEF Join
    <2> QED
        BY <1>12, <2>3, <2>4, <2>5 DEF Join
<1>13. ASSUME NEW c \in Clients, NEW n \in 0..MaxLimit, SetThreadCount(c, n) PROVE TypeOK'
    BY <1>13 DEF SetThreadCount
<1>14. ASSUME NEW c \in Clients, NEW n \in 0..MaxLimit, SetMaxThreadCount(c, n) PROVE TypeOK'
    <2>1. maxCount' \in 1..MaxLimit /\ adjusts' \in 0..AdjustBound
        BY <1>14 DEF SetMaxThreadCount
    <2>2. CASE lock' = c /\ target' = [target EXCEPT ![c] = n] /\ Goto(c, "adjust")
        BY <1>14, <2>1, <2>2 DEF SetMaxThreadCount
    <2>3. CASE UNCHANGED << lock, target, pc >>
        BY <1>14, <2>1, <2>3 DEF SetMaxThreadCount
    <2> QED
        BY <1>14, <2>2, <2>3 DEF SetMaxThreadCount
<1>15. ASSUME NEW c \in Clients, LockThreadCount(c) PROVE TypeOK'
    BY <1>15 DEF LockThreadCount
<1>16. ASSUME NEW c \in Clients, AdjustGrow(c) PROVE TypeOK'
    BY <1>16 DEF AdjustGrow, Absent, AddThread, StartThread
<1>17. ASSUME NEW c \in Clients, AdjustTrim(c) PROVE TypeOK'
    <2>1. threads # << >>
        BY <1>17, EmptySet DEF AdjustTrim
    <2>2. threads' \in Seq(Workers) /\ Last(threads) \in Workers
        BY <1>17, <2>1, FrontSet DEF AdjustTrim
    <2>3. LetGo(c, Last(threads), Front(threads), "trimJoin") /\ c # Scheduler
        BY <1>17 DEF AdjustTrim
    <2> QED
        BY <1>17, <2>2, <2>3, LetGoTypes DEF AdjustTrim, JoinLabels
<1>18. ASSUME NEW c \in Clients, AdjustDone(c) PROVE TypeOK'
    BY <1>18 DEF AdjustDone
<1>19. ASSUME NEW c \in Clients, Wait(c) PROVE TypeOK'
    BY <1>19 DEF Wait
<1>20. ASSUME NEW c \in Clients, WaitScan(c) PROVE TypeOK'
    <2>1. BusyThreads \subseteq Workers
        BY EmptySet DEF BusyThreads
    <2>2. ref' \in [Procs -> Workers \cup {None}]
        BY <1>20, <2>1 DEF WaitScan
    <2>3. \/ pc' = [pc EXCEPT ![c] = "allDone"]
          \/ pc' = [pc EXCEPT ![c] = "blocked"]
        BY <1>20 DEF WaitScan
    <2>4. UNCHANGED << implVars, workerVars, target, destroyer, adjusts, status >>
        BY <1>20 DEF WaitScan
    <2>5. /\ pc' \in [Procs -> SchedulerLabels \cup ClientLabels]
          /\ pc'[Scheduler] \in SchedulerLabels
          /\ \A d \in Clients : pc'[d] \in ClientLabels
        <3>1. CASE pc' = [pc EXCEPT ![c] = "allDone"]
            BY <3>1
        <3>2. CASE pc' = [pc EXCEPT ![c] = "blocked"]
            BY <3>2
        <3> QED
            BY <2>3, <3>1, <3>2
    <2> QED
        BY <2>2, <2>4, <2>5
<1>21. ASSUME NEW c \in Clients, WaitSpin(c) PROVE TypeOK'
    BY <1>21 DEF WaitSpin
<1>22. ASSUME NEW c \in Clients, WaitFree(c) PROVE TypeOK'
    BY <1>22, LetGoTypes DEF WaitFree, JoinLabels
<1>23. ASSUME NEW c \in Clients, WaitExpire(c) PROVE TypeOK'
    <2>1. CASE Goto(c, "idle") /\ UNCHANGED << ref, terminated, working >>
        BY <1>23, <2>1 DEF WaitExpire
    <2>2. CASE LetGo(c, ref[c], threads, "expiredJoin")
        <3>1. c # Scheduler /\ ref[c] \in Workers \cup {None}
            OBVIOUS
        <3> QED
            BY <1>23, <2>2, <3>1, LetGoTypes DEF WaitExpire, JoinLabels
    <2> QED
        BY <1>23, <2>1, <2>2 DEF WaitExpire
<1>24. ASSUME NEW c \in Clients, WaitReturn(c) PROVE TypeOK'
    BY <1>24 DEF WaitReturn
<1>25. ASSUME NEW c \in Clients, Destroy(c) PROVE TypeOK'
    BY <1>25 DEF Destroy
<1>26. ASSUME NEW c \in Clients, StopScheduler(c) PROVE TypeOK'
    BY <1>26 DEF StopScheduler
<1>27. ASSUME NEW c \in Clients, JoinScheduler(c) PROVE TypeOK'
    BY <1>27 DEF JoinScheduler
<1>28. ASSUME NEW c \in Clients, DestroyThread(c) PROVE TypeOK'
    BY <1>28, LetGoTypes, TailSet DEF DestroyThread, JoinLabels
<1>29. ASSUME NEW c \in Clients, DestroyDone(c) PROVE TypeOK'
    BY <1>29 DEF DestroyDone
<1>30. CASE UNCHANGED vars
    BY <1>30 DEF vars
<1> QED
    BY <1>1, <1>2, <1>3, <1>4, <1>5, <1>6, <1>7, <1>8, <1>9, <1>10, <1>11, <1>12, <1>13, <1>14, <1>15, <1>16, <1>17, <1>18, <1>19, <1>20, <1>21, <1>22, <1>23, <1>24, <1>25, <1>26, <1>27, <1>28, <1>29, <1>30
       DEF Next, WorkerStep, SchedulerStep, ClientStep, ClientCall, Terminated,
           WorkerSubmit, Run

-----------------------------------------------------------------------------
(* The queue and its event *)

\* Every step keeps has_queue_ in accord with the queue.
LEMMA NextHasQueueOK == PoolInv /\ [Next]_vars => HasQueueOK'
<1> SUFFICES ASSUME PoolInv, [Next]_vars
             PROVE  HasQueueOK'
    OBVIOUS
<1> USE DEF PoolInv, TypeOK, HasQueueOK
<1>1. ASSUME UNCHANGED << queue, dead, hasQueue >> PROVE HasQueueOK'
    BY <1>1
<1>2. ASSUME NEW t \in Tasks, Submit(t) PROVE HasQueueOK'
    <2>1. CASE UNCHANGED << queue, hasQueue >>
        BY <1>2, <2>1 DEF Submit
    <2>2. CASE queue' = Append(queue, t) /\ hasQueue' = TRUE
        BY <2>2, AppendSet
    <2> QED
        BY <1>2, <2>1, <2>2 DEF Submit
<1>3. ASSUME SchedulerDispatch PROVE HasQueueOK'
    <2>1. CASE UNCHANGED << queue, hasQueue >>
        BY <1>3, <2>1 DEF SchedulerDispatch
    <2>2. CASE ~dead /\ \E w \in Workers : Take(w)
        <3>1. CASE queue = << >>
            BY <1>3, <2>2, <3>1 DEF SchedulerDispatch, Take
        <3>2. CASE queue # << >>
            <4>1. queue' = Front(queue) /\ (hasQueue' <=> hasQueue /\ Len(queue) > 1)
                BY <2>2, <3>2 DEF Take
            <4>2. queue' \in Seq(Tasks) /\ Len(queue') = Len(queue) - 1 /\ Len(queue) \in Nat
                BY <3>2, <4>1, FrontSet, EmptySet
            <4>3. queue' # << >> <=> Len(queue) > 1
                BY <4>2, EmptySet
            <4> QED
                BY <1>3, <2>2, <3>2, <4>1, <4>3 DEF SchedulerDispatch
        <3> QED
            BY <3>1, <3>2
    <2>3. FreeThreads \subseteq Workers /\ Absent \subseteq Workers
        BY EmptySet DEF FreeThreads, Absent
    <2> QED
        BY <1>3, <2>1, <2>2, <2>3 DEF SchedulerDispatch
<1>4. ASSUME NEW c \in Clients, StopScheduler(c) PROVE HasQueueOK'
    BY <1>4 DEF StopScheduler
<1>5. ASSUME NEW c \in Clients, JoinScheduler(c) PROVE HasQueueOK'
    BY <1>5 DEF JoinScheduler, DestroyOK, StopLabels
<1> HIDE DEF PoolInv, TypeOK, HasQueueOK
<1> QED
    BY <1>1, <1>2, <1>3, <1>4, <1>5
       DEF Next, WorkerStep, SchedulerStep, ClientStep, ClientCall, Terminated,
           WorkerSubmit, Run, vars, implVars,
           WorkerWake, WorkerFinish, WorkerReset, WorkerFree, WorkerNotify,
           SchedulerWaitQueue, SchedulerResetFree, SchedulerRelease, SchedulerWaitFree,
           SetThreadCount, LockThreadCount, SetMaxThreadCount, AdjustGrow, AdjustTrim,
           AdjustDone, Wait, WaitScan, WaitSpin, WaitFree, WaitExpire, WaitReturn,
           Destroy, DestroyThread, DestroyDone, Join

-----------------------------------------------------------------------------
(* The workers *)

\* A free thread of the pool is parked or about to be, with nothing to do.
LEMMA FreeThreadRests ==
    ASSUME PoolInv, NEW w \in FreeThreads
    PROVE  /\ w \in Workers /\ w \in ToSet(threads) /\ free[w]
           /\ wpc[w] \in {"idle", "notify"}
           /\ work[w] = None
           /\ ~working[w] /\ ~terminated[w]
<1>1. w \in Workers /\ w \in ToSet(threads) /\ free[w]
    BY EmptySet DEF FreeThreads, PoolInv, TypeOK
<1>2. wpc[w] # "absent" /\ ~terminated[w]
    BY <1>1 DEF PoolInv, MembersOK
<1>3. WorkerOK(w) /\ wpc[w] \in WorkerLabels
    BY <1>1 DEF PoolInv, TypeOK, WorkersOK
<1> QED
    BY <1>1, <1>2, <1>3 DEF WorkerOK, WorkerLabels, Resting, Assigned

\* A WorkerThread that does not exist yet has nothing to do either.
LEMMA AbsentRests ==
    ASSUME PoolInv, NEW w \in Absent
    PROVE  /\ w \in Workers /\ w \notin ToSet(threads)
           /\ wpc[w] = "absent"
           /\ work[w] = None
           /\ ~working[w] /\ ~terminated[w] /\ ~free[w]
BY DEF PoolInv, MembersOK, WorkersOK, WorkerOK, Absent

\* A worker with work is one of the pool's and not free.
LEMMA WorkingIsBusy ==
    ASSUME PoolInv, NEW w \in Workers, work[w] # None \/ wpc[w] = "run"
    PROVE  /\ w \in BusyThreads
           /\ work[w] \in Tasks
           /\ working[w] /\ ~terminated[w] /\ ~free[w]
           /\ wpc[w] \in {"idle", "notify", "run"}
<1>1. WorkerOK(w) /\ wpc[w] \in WorkerLabels
    BY DEF PoolInv, TypeOK, WorkersOK
<1>2. /\ Assigned(w)
      /\ wpc[w] \in {"idle", "notify", "run"}
    BY <1>1 DEF WorkerOK, WorkerLabels, Resting
<1>3. w \in ToSet(threads)
    BY <1>2 DEF PoolInv, MembersOK, Assigned
<1> QED
    BY <1>2, <1>3 DEF Assigned, BusyThreads

\* The thread a client or the scheduler joins has ended.
LEMMA JoinedHasEnded ==
    ASSUME PoolInv, NEW p \in Procs, Join(p)
    PROVE  /\ ref[p] \in Workers
           /\ ref[p] \notin ToSet(threads)
           /\ wpc[ref[p]] = "exited"
           /\ work[ref[p]] = None
           /\ \A q \in Procs \ {p} : ref[q] # ref[p]
<1>1. pc[p] \in JoinLabels /\ wpc[ref[p]] = "exited"
    BY AfterJoinValues DEF Join
<1>2. /\ ref[p] \in Workers
      /\ ref[p] \notin ToSet(threads)
      /\ \A q \in Procs \ {p} : ref[q] # ref[p]
    BY <1>1 DEF PoolInv, TypeOK, RefsOK
<1>3. WorkerOK(ref[p])
    BY <1>2 DEF PoolInv, WorkersOK
<1> QED
    BY <1>1, <1>2, <1>3 DEF WorkerOK

\* The queue that is destroyed with the scheduler is empty.
LEMMA StopsWithoutWork ==
    ASSUME PoolInv, NEW c \in Clients, JoinScheduler(c)
    PROVE  queue = << >> /\ ToSet(queue) = {}
<1>1. queue = << >>
    BY DEF JoinScheduler, PoolInv, DestroyOK, StopLabels
<1>2. ToSet(<< >>) = {}
    BY DEF ToSet
<1> QED
    BY <1>1, <1>2

-----------------------------------------------------------------------------
(* Accepted work and its promises *)

\* Every step keeps accepted work in the queue or with a worker.
LEMMA NextAcceptedOK == PoolInv /\ [Next]_vars => AcceptedOK'
<1> SUFFICES ASSUME PoolInv, [Next]_vars
             PROVE  AcceptedOK'
    OBVIOUS
<1> USE DEF AcceptedOK
<1>a. AcceptedOK /\ TypeOK
    BY DEF PoolInv
<1>1. ASSUME UNCHANGED << queue, work, status >> PROVE AcceptedOK'
    BY <1>1, <1>a
<1>2. ASSUME NEW t \in Tasks, Submit(t) PROVE AcceptedOK'
    <2>1. status' = [status EXCEPT ![t] = "accepted"]
        BY <1>2 DEF Submit
    <2>2. ASSUME NEW w \in Workers, work[w] = None, DoWork(w, t), queue' = queue
          PROVE  AcceptedOK'
        BY <2>1, <2>2, <1>a, PoolAssumption DEF DoWork, TypeOK
    <2>3. CASE queue' = Append(queue, t) /\ UNCHANGED work
        <3>1. ToSet(queue') = ToSet(queue) \cup {t}
            BY <2>3, <1>a, AppendSet DEF TypeOK
        <3> QED
            BY <2>1, <2>3, <3>1, <1>a DEF TypeOK
    <2>4. CASE \E w \in FreeThreads : DoWork(w, t) /\ UNCHANGED queue
        BY <2>4, <2>2, FreeThreadRests
    <2>5. CASE \E w \in Absent : DoWork(w, t) /\ UNCHANGED queue
        BY <2>5, <2>2, AbsentRests
    <2> QED
        BY <1>2, <2>3, <2>4, <2>5 DEF Submit
<1>3. ASSUME NEW w \in Workers, WorkerFinish(w) PROVE AcceptedOK'
    <2>1. work[w] \in Tasks
        BY <1>3, WorkingIsBusy DEF WorkerFinish
    <2> QED
        BY <1>3, <2>1, <1>a DEF WorkerFinish, TypeOK, implVars
<1>4. ASSUME SchedulerDispatch PROVE AcceptedOK'
    <2>1. UNCHANGED status
        BY <1>4 DEF SchedulerDispatch
    <2>2. CASE UNCHANGED << queue, work >>
        BY <2>1, <2>2, <1>1
    <2>3. ASSUME NEW w \in Workers, Take(w), work[w] = None
          PROVE  AcceptedOK'
        <3>1. CASE queue = << >>
            BY <2>1, <2>3, <3>1, <1>1 DEF Take
        <3>2. CASE queue # << >>
            <4>1. queue' = Front(queue) /\ DoWork(w, Last(queue))
                BY <2>3, <3>2 DEF Take
            <4>2. ToSet(queue) = ToSet(queue') \cup {Last(queue)}
                BY <3>2, <4>1, <1>a, FrontSet DEF TypeOK
            <4> QED
                BY <2>1, <2>3, <4>1, <4>2, <1>a, PoolAssumption DEF DoWork, TypeOK
        <3> QED
            BY <3>1, <3>2
    <2>4. CASE \E w \in FreeThreads \cup Absent : Take(w)
        BY <2>3, <2>4, FreeThreadRests, AbsentRests
    <2> QED
        BY <1>4, <2>2, <2>4 DEF SchedulerDispatch, workerVars
<1>5. ASSUME NEW c \in Clients, JoinScheduler(c) PROVE AcceptedOK'
    <2>1. queue = << >> /\ ToSet(queue) = {}
        BY <1>5, StopsWithoutWork
    <2> QED
        BY <1>5, <2>1, <1>a DEF JoinScheduler, workerVars
<1>6. ASSUME NEW p \in Procs, Join(p) PROVE AcceptedOK'
    <2>1. work[ref[p]] = None
        BY <1>6, JoinedHasEnded
    <2> QED
        BY <1>6, <2>1, <1>a, PoolAssumption DEF Join, implVars, TypeOK
<1> QED
    BY <1>1, <1>2, <1>3, <1>4, <1>5, <1>6
       DEF Next, WorkerStep, SchedulerStep, ClientStep, ClientCall, Terminated,
           WorkerSubmit, Run, Procs, vars, implVars, workerVars,
           WorkerWake, WorkerReset, WorkerFree, WorkerNotify,
           SchedulerWaitQueue, SchedulerResetFree, SchedulerRelease, SchedulerWaitFree,
           SetThreadCount, LockThreadCount, SetMaxThreadCount, AdjustGrow, AddThread,
           AdjustTrim, AdjustDone, Wait, WaitScan, WaitSpin, WaitFree, WaitExpire,
           WaitReturn, Destroy, StopScheduler, DestroyThread, DestroyDone

\* No step breaks a promise.
LEMMA NextNoBrokenPromise == PoolInv /\ [Next]_vars => NoBrokenPromise'
<1> SUFFICES ASSUME PoolInv, [Next]_vars
             PROVE  NoBrokenPromise'
    OBVIOUS
<1> USE DEF NoBrokenPromise
<1>a. NoBrokenPromise /\ TypeOK
    BY DEF PoolInv
<1>1. ASSUME UNCHANGED status PROVE NoBrokenPromise'
    BY <1>1, <1>a
<1>2. ASSUME NEW t \in Tasks, Submit(t) PROVE NoBrokenPromise'
    BY <1>2, <1>a DEF Submit, TypeOK
<1>3. ASSUME NEW w \in Workers, WorkerFinish(w) PROVE NoBrokenPromise'
    BY <1>3, <1>a DEF WorkerFinish, TypeOK
<1>4. ASSUME NEW c \in Clients, JoinScheduler(c) PROVE NoBrokenPromise'
    <2>1. ToSet(queue) = {}
        BY <1>4, StopsWithoutWork
    <2> QED
        BY <1>4, <2>1, <1>a DEF JoinScheduler
<1>5. ASSUME NEW p \in Procs, Join(p) PROVE NoBrokenPromise'
    <2>1. work[ref[p]] = None
        BY <1>5, JoinedHasEnded
    <2> QED
        BY <1>5, <2>1, <1>a, PoolAssumption DEF Join
<1> QED
    BY <1>1, <1>2, <1>3, <1>4, <1>5
       DEF Next, WorkerStep, SchedulerStep, ClientStep, ClientCall, Terminated,
           WorkerSubmit, Run, Procs, vars,
           WorkerWake, WorkerReset, WorkerFree, WorkerNotify,
           SchedulerWaitQueue, SchedulerResetFree, SchedulerDispatch,
           SchedulerRelease, SchedulerWaitFree,
           SetThreadCount, LockThreadCount, SetMaxThreadCount, AdjustGrow,
           AdjustTrim, AdjustDone, Wait, WaitScan, WaitSpin, WaitFree, WaitExpire,
           WaitReturn, Destroy, StopScheduler, DestroyThread, DestroyDone

-----------------------------------------------------------------------------
(* What the workers' flags and positions say *)

\* A worker that nobody shares any more is told to end while it rests.
LEMMA LetGoKeepsWorkers ==
    ASSUME PoolInv, NEW p \in Procs, NEW w \in Workers, NEW label,
           LetGo(p, w, threads', label),
           UNCHANGED << wpc, work, free >>,
           wpc[w] # "absent",
           ToSet(threads') \subseteq ToSet(threads),
           ToSet(threads) \subseteq ToSet(threads') \cup {w},
           w \in ToSet(threads) => free[w] \/ w \in ToSet(threads')
    PROVE  WorkersOK' /\ MembersOK'
<1> USE DEF PoolInv, TypeOK, WorkersOK, MembersOK
<1>1. CASE UNCHANGED << terminated, working >>
    BY <1>1 DEF WorkerOK, Resting, Assigned
<1>2. CASE /\ ~SharedBy(p, w, threads')
           /\ terminated' = [terminated EXCEPT ![w] = TRUE]
           /\ working' = [working EXCEPT ![w] = TRUE]
    <2>1. w \notin ToSet(threads') /\ free[w]
        BY <1>2 DEF SharedBy
    <2>2. MembersOK'
        BY <1>2, <2>1
    <2>3. WorkerOK(w)'
        BY <1>2, <2>1 DEF WorkerOK, WorkerLabels, Resting, Assigned
    <2>4. \A v \in Workers \ {w} : WorkerOK(v)'
        BY <1>2 DEF WorkerOK, Resting, Assigned
    <2> QED
        BY <2>2, <2>3, <2>4
<1> QED
    BY <1>1, <1>2 DEF LetGo

\* A resting thread of the pool, or a new one, takes work.
LEMMA DoWorkKeepsWorkers ==
    ASSUME PoolInv, NEW w \in Workers, NEW t \in Tasks, DoWork(w, t),
           UNCHANGED terminated,
           \/ w \in FreeThreads /\ UNCHANGED << threads, wpc >>
           \/ w \in Absent /\ StartThread(w)
    PROVE  WorkersOK' /\ MembersOK'
<1> USE DEF PoolInv, TypeOK, WorkersOK, MembersOK
<1>1. /\ ToSet(threads') = ToSet(threads) \cup {w}
      /\ wpc'[w] \in {"idle", "notify"}
      /\ ~terminated[w]
      /\ \A v \in Workers \ {w} : wpc'[v] = wpc[v]
    <2>1. CASE w \in FreeThreads /\ UNCHANGED << threads, wpc >>
        BY <2>1, FreeThreadRests
    <2>2. CASE w \in Absent /\ StartThread(w)
        BY <2>2, AbsentRests, AppendSet DEF StartThread
    <2> QED
        BY <2>1, <2>2
<1>2. WorkerOK(w)'
    BY <1>1 DEF DoWork, WorkerOK, Resting, Assigned
<1>3. \A v \in Workers \ {w} : WorkerOK(v)'
    BY <1>1 DEF DoWork, WorkerOK, Resting, Assigned
<1>4. MembersOK'
    <2>1. ToSet(threads) \subseteq Workers
        BY EmptySet
    <2> QED
        BY <1>1, <2>1 DEF DoWork
<1> QED
    BY <1>2, <1>3, <1>4

\* A thread of the pool, or a new one, is free.
LEMMA FreeingKeepsWorkers ==
    ASSUME PoolInv, NEW w \in Workers, free' = [free EXCEPT ![w] = TRUE],
           UNCHANGED << work, working, terminated >>,
           \/ w \in FreeThreads /\ UNCHANGED << threads, wpc >>
           \/ w \in Absent /\ StartThread(w)
    PROVE  WorkersOK' /\ MembersOK'
<1> USE DEF PoolInv, TypeOK, WorkersOK, MembersOK
<1>1. /\ ToSet(threads') = ToSet(threads) \cup {w}
      /\ wpc'[w] \in {"idle", "notify"}
      /\ work[w] = None /\ ~working[w] /\ ~terminated[w]
      /\ \A v \in Workers \ {w} : wpc'[v] = wpc[v]
    <2>1. CASE w \in FreeThreads /\ UNCHANGED << threads, wpc >>
        BY <2>1, FreeThreadRests
    <2>2. CASE w \in Absent /\ StartThread(w)
        BY <2>2, AbsentRests, AppendSet DEF StartThread
    <2> QED
        BY <2>1, <2>2
<1>2. WorkerOK(w)'
    BY <1>1 DEF WorkerOK, Resting, Assigned
<1>3. \A v \in Workers \ {w} : WorkerOK(v)'
    BY <1>1 DEF WorkerOK, Resting, Assigned
<1>4. MembersOK'
    <2>1. ToSet(threads) \subseteq Workers
        BY EmptySet
    <2> QED
        BY <1>1, <2>1
<1> QED
    BY <1>2, <1>3, <1>4

\* Every step keeps the workers' flags in accord with their positions, and the
\* pool's threads alive.
LEMMA NextWorkersOK == PoolInv /\ [Next]_vars => WorkersOK' /\ MembersOK'
<1> SUFFICES ASSUME PoolInv, [Next]_vars
             PROVE  WorkersOK' /\ MembersOK'
    OBVIOUS
<1> DEFINE Keeps == WorkersOK' /\ MembersOK'
<1>a. TypeOK /\ WorkersOK /\ MembersOK
    BY DEF PoolInv
<1>1. ASSUME UNCHANGED << threads, workerVars >> PROVE Keeps
    BY <1>1, <1>a DEF workerVars, WorkersOK, MembersOK, WorkerOK, Resting, Assigned
<1>2. ASSUME NEW t \in Tasks, Submit(t) PROVE Keeps
    <2>1. UNCHANGED terminated
        BY <1>2 DEF Submit
    <2>2. CASE \E w \in FreeThreads : DoWork(w, t) /\ UNCHANGED << threads, wpc >>
        BY <2>1, <2>2, FreeThreadRests, DoWorkKeepsWorkers
    <2>3. CASE \E w \in Absent : StartThread(w) /\ DoWork(w, t)
        BY <2>1, <2>3, AbsentRests, DoWorkKeepsWorkers
    <2>4. CASE UNCHANGED << threads, wpc, work, working, free >>
        BY <2>1, <2>4, <1>1 DEF workerVars
    <2> QED
        BY <1>2, <2>2, <2>3, <2>4 DEF Submit
<1>3. ASSUME NEW w \in Workers, WorkerWake(w) PROVE Keeps
    BY <1>3, <1>a DEF WorkerWake, implVars, WorkersOK, MembersOK, WorkerOK, Resting,
                      Assigned, TypeOK
<1>4. ASSUME NEW w \in Workers, WorkerFinish(w) PROVE Keeps
    BY <1>4, <1>a DEF WorkerFinish, implVars, WorkersOK, MembersOK, WorkerOK, Resting,
                      Assigned, TypeOK
<1>5. ASSUME NEW w \in Workers, WorkerReset(w) PROVE Keeps
    BY <1>5, <1>a DEF WorkerReset, implVars, WorkersOK, MembersOK, WorkerOK, Resting,
                      Assigned, TypeOK
<1>6. ASSUME NEW w \in Workers, WorkerFree(w) PROVE Keeps
    BY <1>6, <1>a DEF WorkerFree, implVars, WorkersOK, MembersOK, WorkerOK, Resting,
                      Assigned, TypeOK
<1>7. ASSUME NEW w \in Workers, WorkerNotify(w) PROVE Keeps
    BY <1>7, <1>a DEF WorkerNotify, WorkersOK, MembersOK, WorkerOK, Resting,
                      Assigned, TypeOK
<1>8. ASSUME SchedulerDispatch PROVE Keeps
    <2>1. CASE UNCHANGED << threads, workerVars >>
        BY <2>1, <1>1
    <2>2. ASSUME NEW w \in Workers, Take(w), UNCHANGED terminated,
                 \/ w \in FreeThreads /\ UNCHANGED << threads, wpc >>
                 \/ w \in Absent /\ StartThread(w)
          PROVE  Keeps
        <3>1. CASE queue = << >>
            BY <2>2, <3>1, FreeingKeepsWorkers DEF Take
        <3>2. CASE queue # << >>
            <4>1. DoWork(w, Last(queue)) /\ Last(queue) \in Tasks
                BY <2>2, <3>2, <1>a, FrontSet DEF Take, TypeOK
            <4> QED
                BY <2>2, <4>1, DoWorkKeepsWorkers
        <3> QED
            BY <3>1, <3>2
    <2>3. CASE \E w \in FreeThreads : Take(w) /\ UNCHANGED << threads, wpc, terminated >>
        BY <2>2, <2>3, FreeThreadRests
    <2>4. CASE \E w \in Absent : StartThread(w) /\ Take(w) /\ UNCHANGED terminated
        BY <2>2, <2>4, AbsentRests
    <2> QED
        BY <1>8, <2>1, <2>3, <2>4 DEF SchedulerDispatch
<1>9. ASSUME NEW p \in Procs, NEW w \in Workers, NEW label, LetGo(p, w, threads, label),
             w = ref[p], UNCHANGED << threads, wpc, work, free >>
      PROVE  Keeps
    <2>1. wpc[w] # "absent"
        BY <1>9, PoolAssumption DEF PoolInv, RefsOK, TypeOK
    <2> QED
        BY <1>9, <2>1, LetGoKeepsWorkers
<1>10. ASSUME SchedulerRelease PROVE Keeps
    <2>1. ref[Scheduler] \in Workers /\ Scheduler \in Procs
        BY <1>10, <1>a DEF SchedulerRelease, PoolInv, RefsOK, TypeOK, Procs
    <2> QED
        BY <1>10, <2>1, <1>9 DEF SchedulerRelease, implVars
<1>11. ASSUME NEW c \in Clients, WaitFree(c) PROVE Keeps
    <2>1. ref[c] \in Workers /\ c \in Procs
        BY <1>11, <1>a DEF WaitFree, TypeOK, Procs
    <2> QED
        BY <1>11, <2>1, <1>9 DEF WaitFree, implVars
<1>12. ASSUME NEW c \in Clients, WaitExpire(c) PROVE Keeps
    <2>1. c \in Procs /\ (ref[c] # None => ref[c] \in Workers)
        BY <1>a DEF TypeOK, Procs
    <2> QED
        BY <1>12, <2>1, <1>9, <1>1 DEF WaitExpire, implVars, workerVars
<1>13. ASSUME NEW c \in Clients, AdjustGrow(c) PROVE Keeps
    BY <1>13, AbsentRests, FreeingKeepsWorkers DEF AdjustGrow, AddThread
<1>14. ASSUME NEW c \in Clients, AdjustTrim(c) PROVE Keeps
    <2>1. BusyThreads = {}
        BY <1>14 DEF AdjustTrim, PoolInv, TrimOK
    <2>2. threads # << >>
        BY <1>14, <1>a, EmptySet DEF AdjustTrim, TypeOK
    <2>3. /\ Last(threads) \in Workers
          /\ ToSet(threads) = ToSet(threads') \cup {Last(threads)}
        BY <1>14, <1>a, <2>2, FrontSet DEF AdjustTrim, TypeOK
    <2>4. wpc[Last(threads)] # "absent" /\ free[Last(threads)]
        BY <2>1, <2>3, <1>a DEF BusyThreads, MembersOK
    <2> QED
        BY <1>14, <2>3, <2>4, LetGoKeepsWorkers DEF AdjustTrim, Procs
<1>15. ASSUME NEW c \in Clients, DestroyThread(c) PROVE Keeps
    <2>1. BusyThreads = {}
        BY <1>15 DEF DestroyThread, PoolInv, DestroyOK, StopLabels
    <2>2. /\ Head(threads) \in Workers
          /\ ToSet(threads) = ToSet(threads') \cup {Head(threads)}
        BY <1>15, <1>a, TailSet DEF DestroyThread, TypeOK
    <2>3. wpc[Head(threads)] # "absent" /\ free[Head(threads)]
        BY <2>1, <2>2, <1>a DEF BusyThreads, MembersOK
    <2> QED
        BY <1>15, <2>2, <2>3, LetGoKeepsWorkers DEF DestroyThread, Procs
<1>16. ASSUME NEW p \in Procs, Join(p) PROVE Keeps
    BY <1>16, <1>a, JoinedHasEnded
       DEF Join, implVars, WorkersOK, MembersOK, WorkerOK, Resting, Assigned, TypeOK
<1> QED
    BY <1>1, <1>2, <1>3, <1>4, <1>5, <1>6, <1>7, <1>8, <1>10, <1>11, <1>12, <1>13,
       <1>14, <1>15, <1>16
       DEF Next, WorkerStep, SchedulerStep, ClientStep, ClientCall, Terminated,
           WorkerSubmit, Run, Procs, vars, implVars,
           SchedulerWaitQueue, SchedulerResetFree, SchedulerWaitFree,
           SetThreadCount, LockThreadCount, SetMaxThreadCount, AdjustDone,
           Wait, WaitScan, WaitSpin, WaitReturn, Destroy, StopScheduler,
           JoinScheduler, DestroyDone

-----------------------------------------------------------------------------
(* Shared ownership *)

\* No join is followed by another join, nor by the end of the loop's body.
LEMMA AfterJoinIsElsewhere ==
    ASSUME NEW label \in JoinLabels
    PROVE  AfterJoin[label] \in {"adjust", "wait", "idle", "destroyThreads", "waitQueue"}
BY AfterJoinValues DEF JoinLabels

\* References and threads stay as they are, or new threads join the pool, and
\* nobody starts a join.
LEMMA RefsKept ==
    ASSUME PoolInv, UNCHANGED << ref, terminated >>,
           \A w \in Workers : wpc[w] # "absent" => wpc'[w] # "absent",
           \A w \in ToSet(threads') \ ToSet(threads) : wpc[w] = "absent",
           \A p \in Procs : pc'[p] \in JoinLabels \cup {"release"} => pc'[p] = pc[p]
    PROVE  RefsOK'
BY PoolAssumption DEF PoolInv, TypeOK, RefsOK, Procs

\* p, which is not joining, takes a reference to a thread of the pool.
LEMMA RefTaken ==
    ASSUME PoolInv, NEW p \in Procs, NEW w \in Workers, NEW l, l \notin JoinLabels,
           ref' = [ref EXCEPT ![p] = w],
           Goto(p, l),
           UNCHANGED terminated,
           \A v \in Workers : wpc[v] # "absent" => wpc'[v] # "absent",
           wpc'[w] # "absent",
           w \in ToSet(threads'),
           w \in ToSet(threads) \/ wpc[w] = "absent",
           \A v \in ToSet(threads') \ ToSet(threads) : wpc[v] = "absent",
           p = Scheduler \/ l # "release"
    PROVE  RefsOK'
<1> USE PoolAssumption DEF PoolInv, TypeOK, Goto
<1>1. \A q \in Procs : ref'[q] # None => wpc'[ref'[q]] # "absent"
    BY DEF RefsOK
<1>2. pc'[Scheduler] = "release" => ref'[Scheduler] # None
    BY DEF RefsOK, Procs
<1>3. ASSUME NEW q \in Procs, pc'[q] \in JoinLabels
      PROVE  /\ ref'[q] # None
             /\ ref'[q] \notin ToSet(threads')
             /\ terminated'[ref'[q]]
             /\ \A r \in Procs \ {q} : ref'[r] # ref'[q]
    <2>1. q # p /\ pc[q] \in JoinLabels /\ ref'[q] = ref[q]
        BY <1>3
    <2>2. /\ ref[q] \in Workers
          /\ ref[q] \notin ToSet(threads)
          /\ terminated[ref[q]]
          /\ wpc[ref[q]] # "absent"
          /\ \A r \in Procs \ {q} : ref[r] # ref[q]
        BY <2>1 DEF RefsOK
    <2> QED
        BY <2>1, <2>2
<1> QED
    BY <1>1, <1>2, <1>3 DEF RefsOK

\* p lets go of w, and joins it if nobody else shares it.
LEMMA LetGoKeepsRefs ==
    ASSUME PoolInv, NEW p \in Procs, NEW w \in Workers, NEW label \in JoinLabels,
           LetGo(p, w, threads', label),
           UNCHANGED wpc,
           wpc[w] # "absent",
           ToSet(threads') \subseteq ToSet(threads)
    PROVE  RefsOK'
<1> USE PoolAssumption DEF PoolInv, TypeOK, Goto
<1>1. ASSUME NEW q \in Procs \ {p}, pc[q] \in JoinLabels
      PROVE  /\ ref[q] \in Workers
             /\ ref[q] \notin ToSet(threads')
             /\ terminated[ref[q]]
             /\ \A r \in Procs \ {q} : ref[r] # ref[q]
    BY <1>1 DEF RefsOK
<1>2. CASE /\ pc' = [pc EXCEPT ![p] = AfterJoin[label]]
           /\ ref' = [ref EXCEPT ![p] = None]
           /\ UNCHANGED << terminated, working >>
    <2>1. pc'[p] \notin JoinLabels \cup {"release"}
        BY <1>2, AfterJoinIsElsewhere DEF JoinLabels
    <2>2. \A q \in Procs \ {p} : pc'[q] = pc[q] /\ ref'[q] = ref[q]
        BY <1>2
    <2> QED
        BY <1>1, <1>2, <2>1, <2>2 DEF RefsOK, Procs
<1>3. CASE /\ ~SharedBy(p, w, threads')
           /\ pc' = [pc EXCEPT ![p] = label]
           /\ ref' = [ref EXCEPT ![p] = w]
           /\ terminated' = [terminated EXCEPT ![w] = TRUE]
    <2>1. /\ w \notin ToSet(threads')
          /\ \A q \in Procs \ {p} : ref[q] # w
        BY <1>3 DEF SharedBy
    <2>2. \A q \in Procs \ {p} : pc'[q] = pc[q] /\ ref'[q] = ref[q]
        BY <1>3
    <2>3. /\ ref'[p] = w
          /\ pc'[p] # "release"
          /\ terminated'[w]
        BY <1>3 DEF JoinLabels
    <2>4. \A q \in Procs : ref'[q] # None => wpc'[ref'[q]] # "absent"
        BY <2>2, <2>3 DEF RefsOK
    <2>5. pc'[Scheduler] = "release" => ref'[Scheduler] # None
        BY <2>2, <2>3 DEF RefsOK, Procs
    <2>6. ASSUME NEW q \in Procs, pc'[q] \in JoinLabels
          PROVE  /\ ref'[q] # None
                 /\ ref'[q] \notin ToSet(threads')
                 /\ terminated'[ref'[q]]
                 /\ \A r \in Procs \ {q} : ref'[r] # ref'[q]
        <3>1. CASE q = p
            BY <3>1, <2>1, <2>2, <2>3
        <3>2. CASE q # p
            BY <3>2, <1>1, <1>3, <2>1, <2>2, <2>3, <2>6
        <3> QED
            BY <3>1, <3>2
    <2> QED
        BY <2>4, <2>5, <2>6 DEF RefsOK
<1> QED
    BY <1>2, <1>3 DEF LetGo

\* Every step keeps references alive and joins exclusive.
LEMMA NextRefsOK == PoolInv /\ [Next]_vars => RefsOK'
<1> SUFFICES ASSUME PoolInv, [Next]_vars
             PROVE  RefsOK'
    OBVIOUS
<1>a. TypeOK /\ RefsOK
    BY DEF PoolInv
<1>b. \A c \in Clients : c \in Procs /\ c # Scheduler
    BY PoolAssumption DEF Procs
<1>c. Scheduler \in Procs
    BY DEF Procs
<1>1. ASSUME UNCHANGED << threads, wpc, terminated, ref, pc >> PROVE RefsOK'
    BY <1>1, RefsKept
<1>2. ASSUME NEW p \in Procs, NEW l, l \notin JoinLabels \cup {"release"}, Goto(p, l),
             UNCHANGED << threads, wpc, terminated, ref >>
      PROVE  RefsOK'
    <2>1. \A q \in Procs : pc'[q] \in JoinLabels \cup {"release"} => pc'[q] = pc[q]
        BY <1>2, <1>a DEF Goto, TypeOK
    <2> QED
        BY <1>2, <2>1, RefsKept
<1>3. ASSUME NEW t \in Tasks, Submit(t) PROVE RefsOK'
    <2>1. CASE UNCHANGED << threads, wpc >>
        BY <1>3, <2>1, <1>1 DEF Submit, callVars
    <2>2. CASE \E w \in Absent : StartThread(w)
        <3>1. PICK w \in Absent : StartThread(w)
            BY <2>2
        <3>2. /\ ToSet(threads') = ToSet(threads) \cup {w}
              /\ wpc[w] = "absent"
              /\ wpc' = [wpc EXCEPT ![w] = "idle"]
            BY <3>1, <1>a, AppendSet, AbsentRests DEF StartThread, TypeOK
        <3> QED
            BY <1>3, <3>2, <1>a, RefsKept DEF Submit, callVars, TypeOK
    <2> QED
        BY <1>3, <2>1, <2>2 DEF Submit
<1>4. ASSUME NEW w \in Workers, WorkerWake(w) PROVE RefsOK'
    BY <1>4, <1>a, RefsKept DEF WorkerWake, implVars, callVars, TypeOK
<1>5. ASSUME NEW w \in Workers, WorkerFinish(w) PROVE RefsOK'
    BY <1>5, <1>a, RefsKept DEF WorkerFinish, implVars, callVars, TypeOK
<1>6. ASSUME NEW w \in Workers, WorkerReset(w) PROVE RefsOK'
    BY <1>6, <1>a, RefsKept DEF WorkerReset, implVars, callVars, TypeOK
<1>7. ASSUME NEW w \in Workers, WorkerFree(w) PROVE RefsOK'
    BY <1>7, <1>a, RefsKept DEF WorkerFree, implVars, callVars, TypeOK
<1>8. ASSUME NEW w \in Workers, WorkerNotify(w) PROVE RefsOK'
    BY <1>8, <1>a, RefsKept DEF WorkerNotify, implVars, callVars, TypeOK
<1>9. ASSUME SchedulerWaitQueue PROVE RefsOK'
    BY <1>9, <1>c, <1>2 DEF SchedulerWaitQueue, implVars, workerVars, JoinLabels
<1>10. ASSUME SchedulerResetFree PROVE RefsOK'
    BY <1>10, <1>c, <1>2 DEF SchedulerResetFree, implVars, workerVars, JoinLabels
<1>11. ASSUME SchedulerWaitFree PROVE RefsOK'
    BY <1>11, <1>c, <1>2 DEF SchedulerWaitFree, implVars, workerVars, JoinLabels
<1>12. ASSUME NEW c \in Clients, NEW n \in 0..MaxLimit, SetThreadCount(c, n) PROVE RefsOK'
    BY <1>12, <1>b, <1>2 DEF SetThreadCount, implVars, workerVars, JoinLabels
<1>13. ASSUME NEW c \in Clients, LockThreadCount(c) PROVE RefsOK'
    BY <1>13, <1>b, <1>2 DEF LockThreadCount, implVars, workerVars, JoinLabels
<1>14. ASSUME NEW c \in Clients, NEW n \in 0..MaxLimit, SetMaxThreadCount(c, n) PROVE RefsOK'
    BY <1>14, <1>b, <1>2, <1>1 DEF SetMaxThreadCount, implVars, workerVars, JoinLabels
<1>15. ASSUME NEW c \in Clients, AdjustDone(c) PROVE RefsOK'
    BY <1>15, <1>b, <1>2 DEF AdjustDone, implVars, workerVars, JoinLabels
<1>16. ASSUME NEW c \in Clients, Wait(c) PROVE RefsOK'
    BY <1>16, <1>b, <1>2 DEF Wait, implVars, workerVars, JoinLabels
<1>17. ASSUME NEW c \in Clients, WaitSpin(c) PROVE RefsOK'
    BY <1>17, <1>b, <1>2 DEF WaitSpin, implVars, workerVars, JoinLabels
<1>18. ASSUME NEW c \in Clients, WaitReturn(c) PROVE RefsOK'
    BY <1>18, <1>b, <1>2 DEF WaitReturn, implVars, workerVars, JoinLabels
<1>19. ASSUME NEW c \in Clients, Destroy(c) PROVE RefsOK'
    BY <1>19, <1>b, <1>2 DEF Destroy, implVars, workerVars, JoinLabels
<1>20. ASSUME NEW c \in Clients, StopScheduler(c) PROVE RefsOK'
    BY <1>20, <1>b, <1>2 DEF StopScheduler, implVars, workerVars, JoinLabels
<1>21. ASSUME NEW c \in Clients, JoinScheduler(c) PROVE RefsOK'
    BY <1>21, <1>b, <1>2 DEF JoinScheduler, implVars, workerVars, JoinLabels
<1>22. ASSUME NEW c \in Clients, DestroyDone(c) PROVE RefsOK'
    BY <1>22, <1>b, <1>2 DEF DestroyDone, implVars, workerVars, JoinLabels
<1>23. ASSUME SchedulerDispatch PROVE RefsOK'
    <2>1. CASE /\ \E l \in {"exited", "waitFree"} : Goto(Scheduler, l)
               /\ UNCHANGED << threads, workerVars, ref >>
        BY <2>1, <1>c, <1>2 DEF workerVars, JoinLabels
    <2>2. ASSUME NEW w \in FreeThreads, ref' = [ref EXCEPT ![Scheduler] = w],
                 Goto(Scheduler, "release"), UNCHANGED << threads, wpc, terminated >>
          PROVE  RefsOK'
        <3>1. w \in Workers /\ w \in ToSet(threads) /\ wpc[w] # "absent"
            BY FreeThreadRests
        <3> QED
            BY <2>2, <3>1, <1>c, RefTaken DEF JoinLabels
    <2>3. ASSUME NEW w \in Absent, StartThread(w), ref' = [ref EXCEPT ![Scheduler] = w],
                 Goto(Scheduler, "release"), UNCHANGED terminated
          PROVE  RefsOK'
        <3>1. /\ w \in Workers /\ wpc[w] = "absent"
              /\ wpc' = [wpc EXCEPT ![w] = "idle"]
              /\ ToSet(threads') = ToSet(threads) \cup {w}
            BY <2>3, <1>a, AbsentRests, AppendSet DEF StartThread, TypeOK
        <3>2. /\ \A v \in Workers : wpc[v] # "absent" => wpc'[v] # "absent"
              /\ wpc'[w] # "absent"
            BY <3>1, <1>a DEF TypeOK
        <3>3. /\ w \in ToSet(threads')
              /\ \A v \in ToSet(threads') \ ToSet(threads) : wpc[v] = "absent"
            BY <3>1
        <3> QED
            BY <2>3, <3>1, <3>2, <3>3, <1>c, RefTaken DEF JoinLabels
    <2> QED
        BY <1>23, <2>1, <2>2, <2>3 DEF SchedulerDispatch
<1>24. ASSUME NEW c \in Clients, WaitScan(c) PROVE RefsOK'
    <2>1. CASE UNCHANGED ref
        BY <1>24, <2>1, <1>b, <1>2 DEF WaitScan, implVars, workerVars, JoinLabels
    <2>2. ASSUME NEW w \in BusyThreads, ref' = [ref EXCEPT ![c] = w], Goto(c, "blocked")
          PROVE  RefsOK'
        <3>1. w \in Workers /\ w \in ToSet(threads) /\ wpc[w] # "absent"
            BY <1>a, EmptySet DEF BusyThreads, PoolInv, MembersOK, TypeOK
        <3> QED
            BY <1>24, <2>2, <3>1, <1>b, RefTaken
               DEF WaitScan, implVars, workerVars, JoinLabels
    <2> QED
        BY <1>24, <2>1, <2>2 DEF WaitScan
<1>25. ASSUME NEW c \in Clients, AdjustGrow(c) PROVE RefsOK'
    <2>1. PICK w \in Absent : StartThread(w)
        BY <1>25 DEF AdjustGrow, AddThread
    <2>2. /\ ToSet(threads') = ToSet(threads) \cup {w}
          /\ wpc[w] = "absent"
          /\ wpc' = [wpc EXCEPT ![w] = "idle"]
        BY <2>1, <1>a, AppendSet, AbsentRests DEF StartThread, TypeOK
    <2> QED
        BY <1>25, <2>2, <1>a, RefsKept DEF AdjustGrow, AddThread, callVars, TypeOK
<1>26. ASSUME SchedulerRelease PROVE RefsOK'
    <2>1. ref[Scheduler] \in Workers /\ wpc[ref[Scheduler]] # "absent"
        BY <1>26, <1>a, <1>c DEF SchedulerRelease, RefsOK, TypeOK
    <2> QED
        BY <1>26, <2>1, <1>c, LetGoKeepsRefs DEF SchedulerRelease, implVars, JoinLabels
<1>27. ASSUME NEW c \in Clients, WaitFree(c) PROVE RefsOK'
    <2>1. ref[c] \in Workers /\ wpc[ref[c]] # "absent"
        BY <1>27, <1>a, <1>b DEF WaitFree, RefsOK, TypeOK
    <2> QED
        BY <1>27, <2>1, <1>b, LetGoKeepsRefs DEF WaitFree, implVars, JoinLabels
<1>28. ASSUME NEW c \in Clients, WaitExpire(c) PROVE RefsOK'
    <2>1. CASE ref[c] = None
        BY <1>28, <2>1, <1>b, <1>2 DEF WaitExpire, implVars, JoinLabels
    <2>2. CASE ref[c] # None
        <3>1. ref[c] \in Workers /\ wpc[ref[c]] # "absent"
            BY <2>2, <1>a, <1>b DEF RefsOK, TypeOK
        <3> QED
            BY <1>28, <2>2, <3>1, <1>b, LetGoKeepsRefs DEF WaitExpire, implVars, JoinLabels
    <2> QED
        BY <2>1, <2>2
<1>29. ASSUME NEW c \in Clients, AdjustTrim(c) PROVE RefsOK'
    <2>1. threads # << >>
        BY <1>29, <1>a, EmptySet DEF AdjustTrim, TypeOK
    <2>2. /\ Last(threads) \in Workers
          /\ ToSet(threads) = ToSet(threads') \cup {Last(threads)}
        BY <1>29, <1>a, <2>1, FrontSet DEF AdjustTrim, TypeOK
    <2>3. wpc[Last(threads)] # "absent"
        BY <2>2 DEF PoolInv, MembersOK
    <2> QED
        BY <1>29, <2>2, <2>3, <1>b, LetGoKeepsRefs DEF AdjustTrim, JoinLabels
<1>30. ASSUME NEW c \in Clients, DestroyThread(c) PROVE RefsOK'
    <2>1. /\ Head(threads) \in Workers
          /\ ToSet(threads) = ToSet(threads') \cup {Head(threads)}
        BY <1>30, <1>a, TailSet DEF DestroyThread, TypeOK
    <2>2. wpc[Head(threads)] # "absent"
        BY <2>1 DEF PoolInv, MembersOK
    <2> QED
        BY <1>30, <2>1, <2>2, <1>b, LetGoKeepsRefs DEF DestroyThread, JoinLabels
<1>31. ASSUME NEW p \in Procs, Join(p) PROVE RefsOK'
    <2>1. /\ ref[p] \in Workers
          /\ \A q \in Procs \ {p} : ref[q] # ref[p]
        BY <1>31, JoinedHasEnded
    <2>2. pc'[p] \notin JoinLabels \cup {"release"} /\ ref'[p] = None
        BY <1>31, <1>a, AfterJoinValues, AfterJoinIsElsewhere
           DEF Join, Goto, TypeOK, JoinLabels
    <2>3. \A q \in Procs \ {p} : pc'[q] = pc[q] /\ ref'[q] = ref[q]
        BY <1>31, <1>a DEF Join, Goto, TypeOK
    <2>4. /\ threads' = threads
          /\ \A w \in Workers \ {ref[p]} : wpc'[w] = wpc[w] /\ terminated'[w] = terminated[w]
        BY <1>31, <1>a DEF Join, implVars, TypeOK
    <2>5. \A q \in Procs : ref'[q] # None =>
              /\ q # p /\ ref'[q] = ref[q]
              /\ ref[q] \in Workers \ {ref[p]}
        BY <2>1, <2>2, <2>3, <1>a DEF TypeOK
    <2>6. \A q \in Procs : ref'[q] # None => wpc'[ref'[q]] # "absent"
        BY <2>4, <2>5, <1>a DEF RefsOK
    <2>7. pc'[Scheduler] = "release" => ref'[Scheduler] # None
        BY <2>2, <2>3, <1>a, <1>c DEF RefsOK
    <2>8. ASSUME NEW q \in Procs, pc'[q] \in JoinLabels
          PROVE  /\ ref'[q] # None
                 /\ ref'[q] \notin ToSet(threads')
                 /\ terminated'[ref'[q]]
                 /\ \A r \in Procs \ {q} : ref'[r] # ref'[q]
        <3>1. q # p /\ ref'[q] = ref[q] /\ pc[q] \in JoinLabels
            BY <2>2, <2>3, <2>8
        <3>2. /\ ref[q] # None
              /\ ref[q] \notin ToSet(threads)
              /\ terminated[ref[q]]
              /\ \A r \in Procs \ {q} : ref[r] # ref[q]
            BY <3>1, <1>a DEF RefsOK
        <3>3. terminated'[ref[q]]
            BY <2>4, <2>5, <3>1, <3>2
        <3>4. \A r \in Procs \ {q} : ref'[r] # ref[q]
            BY <2>2, <2>3, <3>2
        <3> QED
            BY <2>4, <3>1, <3>2, <3>3, <3>4
    <2> QED
        BY <2>6, <2>7, <2>8 DEF RefsOK
<1>32. CASE UNCHANGED vars
    BY <1>32, <1>1 DEF vars, implVars, workerVars, callVars
<1> QED
    BY <1>3, <1>4, <1>5, <1>6, <1>7, <1>8, <1>9, <1>10, <1>11, <1>12, <1>13, <1>14, <1>15, <1>16, <1>17, <1>18, <1>19, <1>20, <1>21, <1>22, <1>23, <1>24, <1>25, <1>26, <1>27, <1>28, <1>29, <1>30, <1>31, <1>32
       DEF Next, WorkerStep, SchedulerStep, ClientStep, ClientCall, Terminated,
           WorkerSubmit, Run, Procs

-----------------------------------------------------------------------------
(* The lock *)

AdjustLabels == {"adjust", "trimJoin"}

\* A process moves without entering or leaving adjust_thread_count.
LEMMA LockKept ==
    ASSUME PoolInv, UNCHANGED lock, NEW p \in Procs, NEW l, Goto(p, l),
           p \in Clients => (l \in AdjustLabels <=> pc[p] \in AdjustLabels)
    PROVE  LockOK'
BY DEF PoolInv, TypeOK, LockOK, Goto, AdjustLabels

LEMMA LetGoKeepsLock ==
    ASSUME PoolInv, UNCHANGED lock, NEW p \in Procs, NEW w, NEW s, NEW label \in JoinLabels,
           LetGo(p, w, s, label),
           p \in Clients => (label = "trimJoin" <=> pc[p] \in AdjustLabels)
    PROVE  LockOK'
<1>1. AfterJoin[label] \in AdjustLabels <=> label = "trimJoin"
    BY AfterJoinValues DEF JoinLabels, AdjustLabels
<1>2. label \in AdjustLabels <=> label = "trimJoin"
    BY DEF JoinLabels, AdjustLabels
<1> QED
    BY <1>1, <1>2, LockKept DEF LetGo

\* Every step keeps the lock with the client inside adjust_thread_count.
LEMMA NextLockOK == PoolInv /\ [Next]_vars => LockOK'
<1> SUFFICES ASSUME PoolInv, [Next]_vars
             PROVE  LockOK'
    OBVIOUS
<1>a. TypeOK /\ LockOK
    BY DEF PoolInv
<1>b. \A c \in Clients : c \in Procs /\ c # Scheduler /\ c # None
    BY PoolAssumption DEF Procs
<1>c. Scheduler \in Procs /\ Scheduler \notin Clients
    BY PoolAssumption DEF Procs
<1>1. ASSUME UNCHANGED << lock, pc >> PROVE LockOK'
    BY <1>1, <1>a DEF LockOK
<1>2. ASSUME SchedulerWaitQueue PROVE LockOK'
    BY <1>2, <1>c, LockKept DEF SchedulerWaitQueue, implVars
<1>3. ASSUME SchedulerResetFree PROVE LockOK'
    BY <1>3, <1>c, LockKept DEF SchedulerResetFree, implVars
<1>4. ASSUME SchedulerWaitFree PROVE LockOK'
    BY <1>4, <1>c, LockKept DEF SchedulerWaitFree, implVars
<1>5. ASSUME SchedulerDispatch PROVE LockOK'
    BY <1>5, <1>c, LockKept DEF SchedulerDispatch, implVars
<1>6. ASSUME SchedulerRelease PROVE LockOK'
    BY <1>6, <1>c, LetGoKeepsLock DEF SchedulerRelease, implVars, JoinLabels
<1>7. ASSUME NEW c \in Clients, NEW n \in 0..MaxLimit, SetThreadCount(c, n) PROVE LockOK'
    BY <1>7, <1>b, LockKept DEF SetThreadCount, implVars, AdjustLabels
<1>8. ASSUME NEW c \in Clients, Wait(c) PROVE LockOK'
    BY <1>8, <1>b, LockKept DEF Wait, implVars, AdjustLabels
<1>9. ASSUME NEW c \in Clients, WaitScan(c) PROVE LockOK'
    BY <1>9, <1>b, LockKept DEF WaitScan, implVars, AdjustLabels
<1>10. ASSUME NEW c \in Clients, WaitSpin(c) PROVE LockOK'
    BY <1>10, <1>b, LockKept DEF WaitSpin, implVars, AdjustLabels
<1>11. ASSUME NEW c \in Clients, WaitReturn(c) PROVE LockOK'
    BY <1>11, <1>b, LockKept DEF WaitReturn, implVars, AdjustLabels
<1>12. ASSUME NEW c \in Clients, Destroy(c) PROVE LockOK'
    BY <1>12, <1>b, LockKept DEF Destroy, implVars, AdjustLabels
<1>13. ASSUME NEW c \in Clients, StopScheduler(c) PROVE LockOK'
    BY <1>13, <1>b, LockKept DEF StopScheduler, implVars, AdjustLabels
<1>14. ASSUME NEW c \in Clients, JoinScheduler(c) PROVE LockOK'
    BY <1>14, <1>b, LockKept DEF JoinScheduler, implVars, AdjustLabels
<1>15. ASSUME NEW c \in Clients, DestroyDone(c) PROVE LockOK'
    BY <1>15, <1>b, LockKept DEF DestroyDone, implVars, AdjustLabels
<1>16. ASSUME NEW c \in Clients, WaitFree(c) PROVE LockOK'
    BY <1>16, <1>b, LetGoKeepsLock DEF WaitFree, implVars, JoinLabels, AdjustLabels
<1>17. ASSUME NEW c \in Clients, WaitExpire(c) PROVE LockOK'
    <2>1. pc[c] = "blocked" /\ UNCHANGED lock
        BY <1>17 DEF WaitExpire, implVars
    <2>2. CASE Goto(c, "idle")
        BY <2>1, <2>2, <1>b, LockKept DEF AdjustLabels
    <2>3. CASE LetGo(c, ref[c], threads, "expiredJoin")
        BY <2>1, <2>3, <1>b, LetGoKeepsLock DEF JoinLabels, AdjustLabels
    <2> QED
        BY <1>17, <2>2, <2>3 DEF WaitExpire
<1>18. ASSUME NEW c \in Clients, AdjustTrim(c) PROVE LockOK'
    BY <1>18, <1>b, LetGoKeepsLock DEF AdjustTrim, JoinLabels, AdjustLabels
<1>19. ASSUME NEW c \in Clients, DestroyThread(c) PROVE LockOK'
    BY <1>19, <1>b, LetGoKeepsLock DEF DestroyThread, JoinLabels, AdjustLabels
<1>20. ASSUME NEW c \in Clients, LockThreadCount(c) PROVE LockOK'
    BY <1>20, <1>a, <1>b DEF LockThreadCount, LockOK, TypeOK, Goto
<1>21. ASSUME NEW c \in Clients, AdjustDone(c) PROVE LockOK'
    BY <1>21, <1>a, <1>b DEF AdjustDone, LockOK, TypeOK, Goto
<1>22. ASSUME NEW c \in Clients, NEW n \in 0..MaxLimit, SetMaxThreadCount(c, n) PROVE LockOK'
    BY <1>22, <1>a, <1>b, <1>1 DEF SetMaxThreadCount, LockOK, TypeOK, Goto
<1>23. ASSUME NEW p \in Procs, Join(p) PROVE LockOK'
    <2>1. AfterJoin[pc[p]] \in AdjustLabels <=> pc[p] \in AdjustLabels
        BY <1>23, AfterJoinValues DEF Join, JoinLabels, AdjustLabels
    <2> QED
        BY <1>23, <2>1, LockKept DEF Join, implVars
<1> QED
    BY <1>1, <1>2, <1>3, <1>4, <1>5, <1>6, <1>7, <1>8, <1>9, <1>10, <1>11, <1>12, <1>13, <1>14, <1>15, <1>16, <1>17, <1>18, <1>19, <1>20, <1>21, <1>22, <1>23
       DEF Next, WorkerStep, SchedulerStep, ClientStep, ClientCall, Terminated,
           WorkerSubmit, Run, Submit, Procs, vars, implVars, callVars,
           WorkerWake, WorkerFinish, WorkerReset, WorkerFree, WorkerNotify, AdjustGrow

-----------------------------------------------------------------------------
(* Who becomes busy *)

\* The pool is given no work.
WorkShrinks == /\ BusyThreads' \subseteq BusyThreads
               /\ queue = << >> => queue' = << >>

\* Otherwise the lock is free: the pool is given work by a client, while there
\* is no destructor, or by work it is doing, or it starts work from its queue.
WorkArrives == /\ lock' = None
               /\ destroyer = None \/ BusyThreads # {} \/ queue # << >>

LEMMA NextWorkShrinks ==
    ASSUME PoolInv, [Next]_vars
    PROVE  WorkShrinks \/ WorkArrives
<1>a. TypeOK
    BY DEF PoolInv
<1>1. ASSUME UNCHANGED << queue, threads, free >> PROVE WorkShrinks
    BY <1>1 DEF WorkShrinks, BusyThreads
<1>2. ASSUME NEW w \in Workers, WorkerFree(w) PROVE WorkShrinks
    BY <1>2, <1>a DEF WorkerFree, implVars, WorkShrinks, BusyThreads, TypeOK
<1>3. ASSUME NEW w \in Absent, StartThread(w), free' = [free EXCEPT ![w] = TRUE],
             UNCHANGED queue
      PROVE  WorkShrinks
    <2>1. w \in Workers /\ ToSet(threads') = ToSet(threads) \cup {w}
        BY <1>3, <1>a, AbsentRests, AppendSet DEF StartThread, TypeOK
    <2> QED
        BY <1>3, <2>1, <1>a DEF WorkShrinks, BusyThreads, TypeOK
<1>4. ASSUME SchedulerDispatch PROVE WorkShrinks \/ WorkArrives
    <2>1. CASE UNCHANGED << queue, threads, workerVars >>
        BY <2>1, <1>1 DEF workerVars
    <2>2. CASE queue # << >>
        BY <1>4, <2>2 DEF SchedulerDispatch, WorkArrives
    <2>3. ASSUME queue = << >>, NEW w \in FreeThreads, Take(w), UNCHANGED threads
          PROVE  WorkShrinks
        <3>1. free' = [free EXCEPT ![w] = TRUE] /\ UNCHANGED queue
            BY <2>3 DEF Take
        <3>2. ToSet(threads) \subseteq Workers
            BY <1>a, EmptySet DEF TypeOK
        <3> QED
            BY <2>3, <3>1, <3>2, <1>a DEF WorkShrinks, BusyThreads, TypeOK
    <2>4. ASSUME queue = << >>, NEW w \in Absent, Take(w), StartThread(w)
          PROVE  WorkShrinks
        BY <2>4, <1>3 DEF Take
    <2> QED
        BY <1>4, <2>1, <2>2, <2>3, <2>4 DEF SchedulerDispatch
<1>5. ASSUME NEW c \in Clients, AdjustGrow(c) PROVE WorkShrinks
    BY <1>5, <1>3 DEF AdjustGrow, AddThread
<1>6. ASSUME NEW c \in Clients, AdjustTrim(c) PROVE WorkShrinks
    <2>1. threads # << >>
        BY <1>6, <1>a, EmptySet DEF AdjustTrim, TypeOK
    <2>2. ToSet(threads') \subseteq ToSet(threads)
        BY <1>6, <2>1, <1>a, FrontSet DEF AdjustTrim, TypeOK
    <2> QED
        BY <1>6, <2>2 DEF AdjustTrim, WorkShrinks, BusyThreads
<1>7. ASSUME NEW c \in Clients, DestroyThread(c) PROVE WorkShrinks
    <2>1. ToSet(threads') \subseteq ToSet(threads)
        BY <1>7, <1>a, TailSet DEF DestroyThread, TypeOK
    <2> QED
        BY <1>7, <2>1 DEF DestroyThread, WorkShrinks, BusyThreads
<1>8. ASSUME NEW c \in Clients, JoinScheduler(c) PROVE WorkShrinks
    BY <1>8 DEF JoinScheduler, workerVars, WorkShrinks, BusyThreads
<1>9. ASSUME NEW p \in Procs, Join(p) PROVE WorkShrinks
    <2>1. ref[p] \notin ToSet(threads) /\ ToSet(threads) \subseteq Workers
        BY <1>9, <1>a, JoinedHasEnded, EmptySet DEF TypeOK
    <2>2. free' = [free EXCEPT ![ref[p]] = FALSE] /\ UNCHANGED << queue, threads >>
        BY <1>9 DEF Join, implVars
    <2> QED
        BY <2>1, <2>2, <1>a DEF WorkShrinks, BusyThreads, TypeOK
<1>10. ASSUME NEW c \in Clients, NEW t \in Tasks, Run(c, t) PROVE WorkArrives
    BY <1>10 DEF Run, Submit, WorkArrives
<1>11. ASSUME NEW w \in Workers, NEW t \in Tasks, WorkerSubmit(w, t) PROVE WorkArrives
    BY <1>11, WorkingIsBusy DEF WorkerSubmit, Submit, WorkArrives
<1> QED
    BY <1>1, <1>2, <1>4, <1>5, <1>6, <1>7, <1>8, <1>9, <1>10, <1>11
       DEF Next, WorkerStep, SchedulerStep, ClientStep, ClientCall, Terminated,
           Procs, vars, implVars, workerVars,
           WorkerWake, WorkerFinish, WorkerReset, WorkerNotify,
           SchedulerWaitQueue, SchedulerResetFree, SchedulerRelease, SchedulerWaitFree,
           SetThreadCount, LockThreadCount, SetMaxThreadCount, AdjustDone,
           Wait, WaitScan, WaitSpin, WaitFree, WaitExpire, WaitReturn,
           Destroy, StopScheduler, DestroyDone

-----------------------------------------------------------------------------
(* Trimming *)

\* A process moves without starting to trim, and the pool does not grow.
LEMMA TrimKept ==
    ASSUME PoolInv, WorkShrinks, UNCHANGED target, NEW p \in Procs, NEW l, Goto(p, l),
           p \in Clients /\ l \in AdjustLabels => pc[p] \in AdjustLabels,
           Len(threads') \in Nat, Len(threads') <= Len(threads)
    PROVE  TrimOK'
<1>1. ASSUME NEW c \in Clients, pc'[c] \in AdjustLabels, target'[c] < Len(threads')
      PROVE  BusyThreads' = {}
    <2>1. pc[c] \in AdjustLabels
        BY <1>1 DEF PoolInv, TypeOK, Goto
    <2>2. /\ Len(threads) \in Nat /\ Len(threads') \in Nat
          /\ target[c] \in Nat
        BY EmptySet DEF PoolInv, TypeOK
    <2>3. target[c] < Len(threads)
        BY <1>1, <2>2
    <2>4. BusyThreads = {}
        BY <2>1, <2>3 DEF PoolInv, TrimOK, AdjustLabels
    <2> QED
        BY <2>4 DEF WorkShrinks
<1> QED
    BY <1>1 DEF TrimOK, AdjustLabels

LEMMA LetGoKeepsTrim ==
    ASSUME PoolInv, WorkShrinks, UNCHANGED target, NEW p \in Procs, NEW w, NEW s,
           NEW label \in JoinLabels, LetGo(p, w, s, label),
           p \in Clients /\ label = "trimJoin" => pc[p] \in AdjustLabels,
           Len(threads') \in Nat, Len(threads') <= Len(threads)
    PROVE  TrimOK'
<1>1. AfterJoin[label] \in AdjustLabels <=> label = "trimJoin"
    BY AfterJoinValues DEF JoinLabels, AdjustLabels
<1>2. label \in AdjustLabels <=> label = "trimJoin"
    BY DEF JoinLabels, AdjustLabels
<1> QED
    BY <1>1, <1>2, TrimKept DEF LetGo

\* Every step keeps trimming to idle pools.
LEMMA NextTrimOK ==
    ASSUME ShrinkWhenBusy = FALSE, PoolInv, [Next]_vars
    PROVE  TrimOK'
<1>a. TypeOK /\ LockOK /\ TrimOK
    BY DEF PoolInv
<1>b. \A c \in Clients : c \in Procs /\ c # Scheduler /\ c # None
    BY PoolAssumption DEF Procs
<1>c. Scheduler \in Procs /\ Scheduler \notin Clients
    BY PoolAssumption DEF Procs
<1>d. TypeOK' /\ LockOK'
    BY <1>a, NextTypes, NextLockOK
<1>e. Len(threads) \in Nat /\ Len(threads') \in Nat
    BY <1>a, <1>d, EmptySet DEF TypeOK
<1>0. CASE lock' = None
    BY <1>0, <1>b, <1>d DEF LockOK, TrimOK
<1>f. CASE lock' # None
  <2>0. WorkShrinks
    BY <1>f, NextWorkShrinks DEF WorkArrives
  <2>1. ASSUME UNCHANGED << pc, target, threads >> PROVE TrimOK'
    BY <1>a, <2>0, <2>1 DEF TrimOK, WorkShrinks
  <2>2. ASSUME SchedulerWaitQueue PROVE TrimOK'
    BY <2>2, <2>0, <1>c, <1>e, TrimKept DEF SchedulerWaitQueue, implVars
  <2>3. ASSUME SchedulerResetFree PROVE TrimOK'
    BY <2>3, <2>0, <1>c, <1>e, TrimKept DEF SchedulerResetFree, implVars
  <2>4. ASSUME SchedulerWaitFree PROVE TrimOK'
    BY <2>4, <2>0, <1>c, <1>e, TrimKept DEF SchedulerWaitFree, implVars
  <2>5. ASSUME SchedulerRelease PROVE TrimOK'
    BY <2>5, <2>0, <1>c, <1>e, LetGoKeepsTrim DEF SchedulerRelease, implVars, JoinLabels
  <2>6. ASSUME NEW c \in Clients, Wait(c) PROVE TrimOK'
    BY <2>6, <2>0, <1>b, <1>e, TrimKept DEF Wait, implVars, AdjustLabels
  <2>7. ASSUME NEW c \in Clients, WaitSpin(c) PROVE TrimOK'
    BY <2>7, <2>0, <1>b, <1>e, TrimKept DEF WaitSpin, implVars, AdjustLabels
  <2>8. ASSUME NEW c \in Clients, WaitReturn(c) PROVE TrimOK'
    BY <2>8, <2>0, <1>b, <1>e, TrimKept DEF WaitReturn, implVars, AdjustLabels
  <2>9. ASSUME NEW c \in Clients, Destroy(c) PROVE TrimOK'
    BY <2>9, <2>0, <1>b, <1>e, TrimKept DEF Destroy, implVars, AdjustLabels
  <2>10. ASSUME NEW c \in Clients, JoinScheduler(c) PROVE TrimOK'
    BY <2>10, <2>0, <1>b, <1>e, TrimKept DEF JoinScheduler, implVars, AdjustLabels
  <2>11. ASSUME NEW c \in Clients, DestroyDone(c) PROVE TrimOK'
    BY <2>11, <2>0, <1>b, <1>e, TrimKept DEF DestroyDone, implVars, AdjustLabels
  <2>12. ASSUME NEW c \in Clients, WaitFree(c) PROVE TrimOK'
    BY <2>12, <2>0, <1>b, <1>e, LetGoKeepsTrim DEF WaitFree, implVars, JoinLabels
  <2>13. ASSUME NEW c \in Clients, WaitExpire(c) PROVE TrimOK'
    <3>1. UNCHANGED << threads, target >>
        BY <2>13 DEF WaitExpire, implVars
    <3>2. CASE Goto(c, "idle")
        BY <2>0, <3>1, <3>2, <1>b, <1>e, TrimKept DEF AdjustLabels
    <3>3. CASE LetGo(c, ref[c], threads, "expiredJoin")
        BY <2>0, <3>1, <3>3, <1>b, <1>e, LetGoKeepsTrim DEF JoinLabels
    <3> QED
        BY <2>13, <3>2, <3>3 DEF WaitExpire
  <2>14. ASSUME NEW c \in Clients, AdjustTrim(c) PROVE TrimOK'
    <3>1. threads # << >>
        BY <2>14, <1>a, EmptySet DEF AdjustTrim, TypeOK
    <3>2. Len(threads') <= Len(threads)
        <4>1. threads' = Front(threads) /\ threads \in Seq(Workers)
            BY <2>14, <1>a DEF AdjustTrim, TypeOK
        <4>2. Len(threads') = Len(threads) - 1
            BY <3>1, <4>1, FrontSet
        <4> QED
            BY <4>2, <1>e
    <3> QED
        BY <2>14, <2>0, <3>2, <1>b, <1>e, LetGoKeepsTrim
           DEF AdjustTrim, JoinLabels, AdjustLabels
  <2>15. ASSUME NEW c \in Clients, DestroyThread(c) PROVE TrimOK'
    <3>1. Len(threads') <= Len(threads)
        BY <2>15, <1>a, <1>e, TailSet DEF DestroyThread, TypeOK
    <3> QED
        BY <2>15, <2>0, <3>1, <1>b, <1>e, LetGoKeepsTrim DEF DestroyThread, JoinLabels
  <2>16. ASSUME NEW c \in Clients, NEW n \in 0..MaxLimit, SetThreadCount(c, n) PROVE TrimOK'
    BY <2>16, <2>0, <1>a DEF SetThreadCount, implVars, Goto, TypeOK, TrimOK, WorkShrinks
  <2>17. ASSUME NEW c \in Clients, LockThreadCount(c) PROVE TrimOK'
    <3>1. \A d \in Clients : pc[d] \notin AdjustLabels
        BY <2>17, <1>a, <1>b DEF LockThreadCount, LockOK, AdjustLabels
    <3>2. target[c] < Len(threads) => BusyThreads = {}
        BY <2>17 DEF LockThreadCount, MayShrinkTo
    <3> QED
        BY <2>17, <2>0, <3>1, <3>2, <1>a
           DEF LockThreadCount, Goto, TypeOK, TrimOK, WorkShrinks, AdjustLabels
  <2>18. ASSUME NEW c \in Clients, NEW n \in 0..MaxLimit, SetMaxThreadCount(c, n) PROVE TrimOK'
    <3>1. \A d \in Clients : pc[d] \notin AdjustLabels
        BY <2>18, <1>a, <1>b DEF SetMaxThreadCount, LockOK, AdjustLabels
    <3>2. n < Len(threads) => BusyThreads = {}
        BY <2>18 DEF SetMaxThreadCount, MayShrinkTo
    <3> QED
        BY <2>18, <2>0, <3>1, <3>2, <1>a
           DEF SetMaxThreadCount, Goto, TypeOK, TrimOK, WorkShrinks, AdjustLabels
  <2>19. ASSUME NEW c \in Clients, AdjustGrow(c) PROVE TrimOK'
    <3>1. \A d \in Clients \ {c} : pc[d] \notin AdjustLabels
        BY <2>19, <1>a, <1>b DEF AdjustGrow, LockOK, AdjustLabels
    <3>2. Len(threads') = Len(threads) + 1
        BY <2>19, <1>a, AbsentRests, AppendSet
           DEF AdjustGrow, AddThread, StartThread, PoolInv, TypeOK, Absent
    <3>3. ~(target[c] < Len(threads')) /\ UNCHANGED << pc, target >>
        BY <2>19, <3>2, <1>a, <1>e DEF AdjustGrow, callVars, TypeOK
    <3> QED
        BY <3>1, <3>3 DEF TrimOK, AdjustLabels
  <2>20. ASSUME NEW p \in Procs, Join(p) PROVE TrimOK'
    <3>1. AfterJoin[pc[p]] \in AdjustLabels => pc[p] \in AdjustLabels
        BY <2>20, AfterJoinValues DEF Join, JoinLabels, AdjustLabels
    <3> QED
        BY <2>20, <2>0, <3>1, <1>e, TrimKept DEF Join, implVars
  <2> QED
    BY <1>f, <2>1, <2>2, <2>3, <2>4, <2>5, <2>6, <2>7, <2>8, <2>9, <2>10, <2>11, <2>12, <2>13, <2>14, <2>15, <2>16, <2>17, <2>18, <2>19, <2>20
       DEF Next, WorkerStep, SchedulerStep, ClientStep, ClientCall, Terminated,
           WorkerSubmit, Run, Submit, Procs, vars, implVars, callVars,
           WorkerWake, WorkerFinish, WorkerReset, WorkerFree, WorkerNotify,
           SchedulerDispatch, WaitScan, StopScheduler, AdjustDone
<1> QED
    BY <1>0, <1>f

-----------------------------------------------------------------------------
(* Destruction *)

\* Once the destructor's wait_for_all has found the pool idle it stays so.
LEMMA IdleKept ==
    ASSUME PoolInv, [Next]_vars, destroyer # None, BusyThreads = {}, queue = << >>
    PROVE  BusyThreads' = {} /\ queue' = << >>
BY NextWorkShrinks DEF WorkShrinks, WorkArrives

\* A process moves, or nobody does, without leaving wait_for_all or stopping
\* the scheduler.
LEMMA DestroyKept ==
    ASSUME PoolInv, [Next]_vars, UNCHANGED destroyer, dead => dead',
           NEW p \in Procs, NEW l, Goto(p, l),
           p \in Clients /\ l \in StopLabels \cup {"allDone"} =>
               /\ l \notin {"allDone", "stopScheduler"}
               /\ pc[p] \in StopLabels \ {"stopScheduler"}
    PROVE  DestroyOK'
<1> USE PoolAssumption DEF PoolInv, TypeOK, Goto
<1>1. ASSUME NEW c \in Clients
      PROVE  /\ pc'[c] \in StopLabels \cup {"allDone"} =>
                  pc[c] \in StopLabels \cup {"allDone"}
             /\ pc'[c] \in StopLabels => pc[c] \in StopLabels
             /\ pc'[c] \in StopLabels \ {"stopScheduler"} =>
                  pc[c] \in StopLabels \ {"stopScheduler"}
    <2>1. CASE c = p
        BY <2>1 DEF StopLabels
    <2>2. CASE c # p
        BY <2>2
    <2> QED
        BY <2>1, <2>2
<1>2. ASSUME NEW c \in Clients, c = destroyer', pc'[c] \in StopLabels \cup {"allDone"}
      PROVE  BusyThreads' = {} /\ queue' = << >>
    <2>1. destroyer # None /\ BusyThreads = {} /\ queue = << >>
        BY <1>1, <1>2 DEF DestroyOK, Procs
    <2> QED
        BY <2>1, IdleKept
<1> QED
    BY <1>1, <1>2 DEF DestroyOK

LEMMA LetGoKeepsDestroy ==
    ASSUME PoolInv, [Next]_vars, UNCHANGED << destroyer, dead >>,
           NEW p \in Procs, NEW w, NEW s, NEW label \in JoinLabels, LetGo(p, w, s, label),
           p \in Clients /\ label = "destroyJoin" => pc[p] = "destroyThreads"
    PROVE  DestroyOK'
<1>1. AfterJoin[label] \in StopLabels \cup {"allDone"} =>
          label = "destroyJoin" /\ AfterJoin[label] = "destroyThreads"
    BY AfterJoinValues DEF JoinLabels, StopLabels
<1>2. label \in StopLabels \cup {"allDone"} => label = "destroyJoin"
    BY DEF JoinLabels, StopLabels
<1>3. CASE Goto(p, label)
    BY <1>2, <1>3, DestroyKept DEF StopLabels
<1>4. CASE Goto(p, AfterJoin[label])
    BY <1>1, <1>4, DestroyKept DEF StopLabels
<1> QED
    BY <1>3, <1>4 DEF LetGo

\* Every step keeps the pool idle under a destructor that has waited.
LEMMA NextDestroyOK == PoolInv /\ [Next]_vars => DestroyOK'
<1> SUFFICES ASSUME PoolInv, [Next]_vars
             PROVE  DestroyOK'
    OBVIOUS
<1>a. TypeOK /\ DestroyOK
    BY DEF PoolInv
<1>b. \A c \in Clients : c \in Procs /\ c # Scheduler /\ c # None
    BY PoolAssumption DEF Procs
<1>c. Scheduler \in Procs /\ Scheduler \notin Clients
    BY PoolAssumption DEF Procs
<1>1. ASSUME UNCHANGED << pc, destroyer, dead >> PROVE DestroyOK'
    BY <1>1, <1>a, <1>b, IdleKept DEF DestroyOK
<1>2. ASSUME SchedulerWaitQueue PROVE DestroyOK'
    BY <1>2, <1>c, DestroyKept DEF SchedulerWaitQueue, implVars
<1>3. ASSUME SchedulerResetFree PROVE DestroyOK'
    BY <1>3, <1>c, DestroyKept DEF SchedulerResetFree, implVars
<1>4. ASSUME SchedulerWaitFree PROVE DestroyOK'
    BY <1>4, <1>c, DestroyKept DEF SchedulerWaitFree, implVars
<1>5. ASSUME SchedulerDispatch PROVE DestroyOK'
    BY <1>5, <1>c, DestroyKept DEF SchedulerDispatch, implVars
<1>6. ASSUME SchedulerRelease PROVE DestroyOK'
    BY <1>6, <1>c, LetGoKeepsDestroy DEF SchedulerRelease, implVars, JoinLabels
<1>7. ASSUME NEW c \in Clients, NEW n \in 0..MaxLimit, SetThreadCount(c, n) PROVE DestroyOK'
    BY <1>7, <1>b, DestroyKept DEF SetThreadCount, implVars, StopLabels
<1>8. ASSUME NEW c \in Clients, NEW n \in 0..MaxLimit, SetMaxThreadCount(c, n) PROVE DestroyOK'
    BY <1>8, <1>b, DestroyKept, <1>1 DEF SetMaxThreadCount, implVars, StopLabels
<1>9. ASSUME NEW c \in Clients, LockThreadCount(c) PROVE DestroyOK'
    BY <1>9, <1>b, DestroyKept DEF LockThreadCount, implVars, StopLabels
<1>10. ASSUME NEW c \in Clients, AdjustDone(c) PROVE DestroyOK'
    BY <1>10, <1>b, DestroyKept DEF AdjustDone, implVars, StopLabels
<1>11. ASSUME NEW c \in Clients, Wait(c) PROVE DestroyOK'
    BY <1>11, <1>b, DestroyKept DEF Wait, implVars, StopLabels
<1>12. ASSUME NEW c \in Clients, WaitSpin(c) PROVE DestroyOK'
    BY <1>12, <1>b, DestroyKept DEF WaitSpin, implVars, StopLabels
<1>13. ASSUME NEW c \in Clients, JoinScheduler(c) PROVE DestroyOK'
    BY <1>13, <1>b, DestroyKept DEF JoinScheduler, implVars, StopLabels
<1>14. ASSUME NEW c \in Clients, DestroyDone(c) PROVE DestroyOK'
    BY <1>14, <1>b, DestroyKept DEF DestroyDone, implVars, StopLabels
<1>15. ASSUME NEW c \in Clients, WaitScan(c) PROVE DestroyOK'
    <2>1. UNCHANGED << destroyer, dead >>
        BY <1>15 DEF WaitScan, implVars
    <2>2. CASE Goto(c, "blocked")
        BY <2>1, <2>2, <1>b, DestroyKept DEF StopLabels
    <2>3. CASE BusyThreads = {} /\ queue = << >> /\ Goto(c, "allDone")
        <3>1. BusyThreads' = {} /\ queue' = << >>
            BY <1>15, <2>3 DEF WaitScan, implVars, workerVars, BusyThreads
        <3>2. pc'[c] = "allDone" /\ \A d \in Clients \ {c} : pc'[d] = pc[d]
            BY <2>3, <1>a, <1>b DEF Goto, TypeOK
        <3> QED
            BY <2>1, <3>1, <3>2, <1>a DEF DestroyOK, StopLabels
    <2> QED
        BY <1>15, <2>2, <2>3 DEF WaitScan
<1>16. ASSUME NEW c \in Clients, WaitFree(c) PROVE DestroyOK'
    BY <1>16, <1>b, LetGoKeepsDestroy DEF WaitFree, implVars, JoinLabels
<1>17. ASSUME NEW c \in Clients, WaitExpire(c) PROVE DestroyOK'
    <2>1. UNCHANGED << destroyer, dead >>
        BY <1>17 DEF WaitExpire, implVars
    <2>2. CASE Goto(c, "idle")
        BY <2>1, <2>2, <1>b, DestroyKept DEF StopLabels
    <2>3. CASE LetGo(c, ref[c], threads, "expiredJoin")
        BY <2>1, <2>3, <1>b, LetGoKeepsDestroy DEF JoinLabels
    <2> QED
        BY <1>17, <2>2, <2>3 DEF WaitExpire
<1>18. ASSUME NEW c \in Clients, WaitReturn(c) PROVE DestroyOK'
    <2>1. UNCHANGED << destroyer, dead, queue, threads, free >> /\ pc[c] = "allDone"
        BY <1>18 DEF WaitReturn, implVars, workerVars
    <2>2. /\ pc'[c] = IF c = destroyer THEN "stopScheduler" ELSE "idle"
          /\ \A d \in Clients \ {c} : pc'[d] = pc[d]
        BY <1>18, <1>a, <1>b DEF WaitReturn, Goto, TypeOK
    <2> QED
        BY <2>1, <2>2, <1>a DEF DestroyOK, StopLabels, BusyThreads
<1>19. ASSUME NEW c \in Clients, Destroy(c) PROVE DestroyOK'
    <2>1. \A d \in Clients : pc'[d] \in {"idle", "wait"}
        BY <1>19, <1>a, <1>b DEF Destroy, Goto, TypeOK
    <2> QED
        BY <2>1 DEF DestroyOK, StopLabels
<1>20. ASSUME NEW c \in Clients, StopScheduler(c) PROVE DestroyOK'
    <2>1. UNCHANGED << destroyer, queue, threads, free >> /\ dead' = TRUE
        BY <1>20 DEF StopScheduler, workerVars
    <2>2. /\ pc[c] = "stopScheduler"
          /\ \A d \in Clients \ {c} : pc'[d] = pc[d]
        BY <1>20, <1>a, <1>b DEF StopScheduler, Goto, TypeOK
    <2> QED
        BY <2>1, <2>2, <1>a DEF DestroyOK, StopLabels, BusyThreads
<1>21. ASSUME NEW c \in Clients, AdjustTrim(c) PROVE DestroyOK'
    BY <1>21, <1>b, LetGoKeepsDestroy DEF AdjustTrim, JoinLabels
<1>22. ASSUME NEW c \in Clients, DestroyThread(c) PROVE DestroyOK'
    BY <1>22, <1>b, LetGoKeepsDestroy DEF DestroyThread, JoinLabels
<1>23. ASSUME NEW p \in Procs, Join(p) PROVE DestroyOK'
    <2>1. AfterJoin[pc[p]] \in StopLabels \cup {"allDone"} =>
              pc[p] = "destroyJoin" /\ AfterJoin[pc[p]] = "destroyThreads"
        BY <1>23, AfterJoinValues DEF Join, JoinLabels, StopLabels
    <2> QED
        BY <1>23, <2>1, DestroyKept DEF Join, implVars, StopLabels
<1> QED
    BY <1>1, <1>2, <1>3, <1>4, <1>5, <1>6, <1>7, <1>8, <1>9, <1>10, <1>11, <1>12, <1>13, <1>14, <1>15, <1>16, <1>17, <1>18, <1>19, <1>20, <1>21, <1>22, <1>23
       DEF Next, WorkerStep, SchedulerStep, ClientStep, ClientCall, Terminated,
           WorkerSubmit, Run, Submit, Procs, vars, implVars, callVars,
           WorkerWake, WorkerFinish, WorkerReset, WorkerFree, WorkerNotify, AdjustGrow

-----------------------------------------------------------------------------
(* The end of wait_for_all *)

\* Only the locked look at the threads and the queue ends wait_for_all.
LEMMA ReachesAllDone ==
    ASSUME PoolInv, [Next]_vars, NEW c \in Clients, pc[c] = "wait", pc'[c] = "allDone"
    PROVE  BusyThreads = {} /\ queue = << >>
<1> DEFINE Idle == BusyThreads = {} /\ queue = << >>
<1>a. TypeOK
    BY DEF PoolInv
<1>b. \A d \in Clients : d \in Procs /\ d # Scheduler
    BY PoolAssumption DEF Procs
<1>c. Scheduler \in Procs /\ Scheduler \notin Clients
    BY PoolAssumption DEF Procs
<1>1. ASSUME UNCHANGED pc PROVE FALSE
    BY <1>1
<1>2. ASSUME NEW p \in Procs, NEW l, Goto(p, l), p # c \/ l # "allDone"
      PROVE  FALSE
    BY <1>2, <1>a, <1>b DEF Goto, TypeOK
<1>3. ASSUME NEW p \in Procs, NEW w, NEW s, NEW label \in JoinLabels, LetGo(p, w, s, label)
      PROVE  FALSE
    <2>1. label # "allDone" /\ AfterJoin[label] # "allDone"
        BY AfterJoinIsElsewhere DEF JoinLabels
    <2> QED
        BY <1>3, <2>1, <1>2 DEF LetGo
<1>4. ASSUME NEW p \in Procs, Join(p) PROVE FALSE
    <2>1. AfterJoin[pc[p]] # "allDone"
        BY <1>4, AfterJoinValues, AfterJoinIsElsewhere DEF Join
    <2> QED
        BY <1>4, <2>1, <1>2 DEF Join
<1>5. ASSUME SchedulerStep PROVE FALSE
    BY <1>5, <1>c, <1>2, <1>3, <1>4
       DEF SchedulerStep, SchedulerWaitQueue, SchedulerResetFree, SchedulerDispatch,
           SchedulerRelease, SchedulerWaitFree, JoinLabels
<1>6. ASSUME NEW d \in Clients, WaitScan(d) PROVE Idle
    BY <1>6, <1>b, <1>2 DEF WaitScan
<1>7. ASSUME NEW d \in Clients, ClientStep(d) PROVE Idle
    BY <1>7, <1>b, <1>1, <1>2, <1>3, <1>4, <1>6
       DEF ClientStep, LockThreadCount, AdjustGrow, AdjustTrim, AdjustDone, WaitSpin,
           WaitFree, WaitReturn, StopScheduler, JoinScheduler, DestroyThread,
           DestroyDone, JoinLabels, callVars
<1>8. ASSUME NEW d \in Clients, ClientCall(d) PROVE FALSE
    BY <1>8, <1>b, <1>1, <1>2, <1>3
       DEF ClientCall, Run, Submit, SetThreadCount, SetMaxThreadCount, Wait,
           WaitExpire, Destroy, JoinLabels, callVars
<1>9. ASSUME NEW w \in Workers, WorkerStep(w) PROVE FALSE
    BY <1>9, <1>1
       DEF WorkerStep, WorkerWake, WorkerFinish, WorkerReset, WorkerFree,
           WorkerNotify, WorkerSubmit, Submit, callVars
<1>10. CASE UNCHANGED vars
    BY <1>10, <1>1 DEF vars, callVars
<1> QED
    BY <1>5, <1>7, <1>8, <1>9, <1>10 DEF Next, Terminated

-----------------------------------------------------------------------------
(* Theorems *)

\* The constructor establishes the invariant.
LEMMA InitPoolInv == Init => PoolInv
<1> SUFFICES ASSUME Init
             PROVE  PoolInv
    OBVIOUS
<1> USE PoolAssumption
<1>1. TypeOK
    BY InitTypes
<1>2. \A c \in Clients : pc[c] = "idle"
    BY DEF Init, Procs
<1>3. LockOK /\ TrimOK /\ DestroyOK
    BY <1>2 DEF Init, LockOK, TrimOK, DestroyOK, StopLabels, Procs
<1>4. \A w \in Workers :
          /\ wpc[w] = IF w \in ToSet(threads) THEN "idle" ELSE "absent"
          /\ free[w] <=> w \in ToSet(threads)
          /\ work[w] = None /\ ~terminated[w] /\ ~working[w]
    BY Zenon DEF Init
<1>5. ToSet(threads) \subseteq Workers
    BY <1>1, EmptySet DEF TypeOK
<1>6. WorkersOK
    BY <1>4 DEF WorkersOK, WorkerOK, Resting, Assigned
<1>7. MembersOK
    BY <1>4, <1>5 DEF MembersOK
<1>8. RefsOK
    <2>1. \A p \in Procs : ref[p] = None /\ pc[p] \in {"idle", "waitQueue"}
        BY DEF Init
    <2>2. Scheduler \in Procs
        BY DEF Procs
    <2> QED
        BY <2>1, <2>2 DEF RefsOK, JoinLabels
<1>9. HasQueueOK
    BY DEF Init, HasQueueOK
<1>10. AcceptedOK /\ NoBrokenPromise
    BY DEF Init, AcceptedOK, NoBrokenPromise
<1> QED
    BY <1>1, <1>3, <1>6, <1>7, <1>8, <1>9, <1>10 DEF PoolInv

\* In a pool that is shrunk only while it is idle the inductive invariant holds
\* in every reachable state.
THEOREM PoolInvariant == ShrinkWhenBusy = FALSE => (SafetySpec => []PoolInv)
<1> SUFFICES ASSUME ShrinkWhenBusy = FALSE
             PROVE  SafetySpec => []PoolInv
    OBVIOUS
<1>1. Init => PoolInv
    BY InitPoolInv
<1>2. PoolInv /\ [Next]_vars => PoolInv'
    <2> SUFFICES ASSUME PoolInv, [Next]_vars
                 PROVE  PoolInv'
        OBVIOUS
    <2>1. TypeOK' /\ LockOK' /\ WorkersOK' /\ MembersOK' /\ RefsOK'
        BY NextTypes, NextLockOK, NextWorkersOK, NextRefsOK DEF PoolInv
    <2>2. TrimOK' /\ DestroyOK'
        BY NextTrimOK, NextDestroyOK
    <2>3. HasQueueOK' /\ AcceptedOK' /\ NoBrokenPromise'
        BY NextHasQueueOK, NextAcceptedOK, NextNoBrokenPromise
    <2> QED
        BY <2>1, <2>2, <2>3 DEF PoolInv
<1> QED
    BY <1>1, <1>2, PTL DEF SafetySpec

\* Type correctness, for every set of tasks, clients and workers, however the
\* pool is resized.
THEOREM PoolTypeCorrect == SafetySpec => []TypeOK
<1>1. Init => TypeOK
    BY InitTypes
<1>2. TypeOK /\ [Next]_vars => TypeOK'
    BY NextTypes
<1> QED
    BY <1>1, <1>2, PTL DEF SafetySpec

\* has_queue_ never says that an empty queue has an entry, nor hides one.
THEOREM PoolQueueSignalled ==
    ShrinkWhenBusy = FALSE => (SafetySpec => []HasQueueOK)
<1>1. PoolInv => HasQueueOK
    BY DEF PoolInv
<1> QED
    BY <1>1, PoolInvariant, PTL

\* No signal to a parked worker, of work or of its end, is lost.
THEOREM PoolLosesNoSignal ==
    ShrinkWhenBusy = FALSE => (SafetySpec => []NoLostSignal)
<1>1. PoolInv => NoLostSignal
    <2> SUFFICES ASSUME PoolInv, NEW w \in Workers, wpc[w] = "idle",
                        work[w] # None \/ terminated[w]
                 PROVE  working[w]
        BY DEF NoLostSignal
    <2>1. Resting(w) \/ Assigned(w)
        BY DEF PoolInv, WorkersOK, WorkerOK
    <2> QED
        BY <2>1 DEF Resting, Assigned
<1> QED
    BY <1>1, PoolInvariant, PTL

\* No promise is destroyed before its work has run: not by trimming, not by
\* the destructor.
THEOREM PoolBreaksNoPromise ==
    ShrinkWhenBusy = FALSE => (SafetySpec => []NoBrokenPromise)
<1>1. PoolInv => NoBrokenPromise
    BY DEF PoolInv
<1> QED
    BY <1>1, PoolInvariant, PTL

\* Every WorkerThread that can be reached exists.
THEOREM PoolDanglesNoThread ==
    ShrinkWhenBusy = FALSE => (SafetySpec => []NoDanglingThread)
<1>1. PoolInv => NoDanglingThread
    BY DEF PoolInv, MembersOK, RefsOK, NoDanglingThread
<1> QED
    BY <1>1, PoolInvariant, PTL

\* wait_for_all returns true only when all accepted work has ended.
THEOREM PoolWaitsForAll ==
    ShrinkWhenBusy = FALSE => (SafetySpec => WaitForAllSound)
<1>1. ASSUME PoolInv, [Next]_vars, NEW c \in Clients, pc[c] = "wait", pc'[c] = "allDone"
      PROVE  \A t \in Tasks : status[t] # "accepted"
    <2>1. BusyThreads = {} /\ queue = << >>
        BY <1>1, ReachesAllDone
    <2>2. \A w \in Workers : work[w] = None
        BY <1>1, <2>1, WorkingIsBusy
    <2>3. ToSet(queue) = {}
        BY <2>1 DEF ToSet
    <2> QED
        BY <1>1, <2>2, <2>3, PoolAssumption DEF PoolInv, AcceptedOK
<1>2. PoolInv /\ [Next]_vars =>
          [\A c \in Clients : pc[c] = "wait" /\ pc'[c] = "allDone" =>
               \A t \in Tasks : status[t] # "accepted"]_vars
    BY <1>1
<1> QED
    BY <1>2, PoolInvariant, PTL DEF SafetySpec, WaitForAllSound

-----------------------------------------------------------------------------
(* The places of the work *)

LEMMA PoolSequences ==
    ASSUME TypeOK
    PROVE  /\ queue \in Seq(Tasks) /\ ToSet(queue) \subseteq Tasks
           /\ threads \in Seq(Workers) /\ ToSet(threads) \subseteq Workers
<1>1. queue \in Seq(Tasks) /\ threads \in Seq(Workers)
    BY DEF TypeOK
<1> QED
    BY <1>1, EmptySet

\* Each entry of the queue, and each worker's work, is there once, and accepted.
PlacesOK ==
    /\ \A i, j \in DOMAIN queue : queue[i] = queue[j] => i = j
    /\ \A v, w \in Workers : work[v] # None /\ work[v] = work[w] => v = w
    /\ \A w \in Workers : work[w] \notin ToSet(queue)
    /\ \A t \in ToSet(queue) : status[t] = "accepted"
    /\ \A w \in Workers : work[w] # None => status[work[w]] = "accepted"

\* A task nobody had goes to the end of the queue.
LEMMA AppendKeepsPlaces ==
    ASSUME TypeOK, PlacesOK, NEW t \in Tasks, status[t] # "accepted",
           queue' = Append(queue, t), UNCHANGED work,
           status' = [status EXCEPT ![t] = "accepted"]
    PROVE  PlacesOK'
<1>1. /\ ToSet(queue') = ToSet(queue) \cup {t}
      /\ queue \in Seq(Tasks)
    BY AppendSet, PoolSequences
<1>2. /\ DOMAIN queue' = 1..(Len(queue) + 1)
      /\ DOMAIN queue = 1..Len(queue)
      /\ Len(queue) \in Nat
      /\ queue'[Len(queue) + 1] = t
      /\ \A i \in 1..Len(queue) : queue'[i] = queue[i]
    BY <1>1
<1>3. t \notin ToSet(queue) /\ \A w \in Workers : work[w] # t
    BY PoolAssumption DEF PlacesOK
<1>4. \A i \in 1..Len(queue) : queue[i] # t
    BY <1>2, <1>3 DEF ToSet
<1>5. \A i, j \in DOMAIN queue' : queue'[i] = queue'[j] => i = j
    BY <1>2, <1>4 DEF PlacesOK
<1>6. /\ status'[t] = "accepted"
      /\ \A u \in Tasks \ {t} : status'[u] = status[u]
    BY DEF TypeOK
<1>7. \A u \in ToSet(queue') : status'[u] = "accepted"
    BY <1>1, <1>6, PoolSequences DEF PlacesOK
<1>8. \A w \in Workers : work'[w] # None => status'[work'[w]] = "accepted"
    BY <1>6 DEF PlacesOK, TypeOK
<1> QED
    BY <1>1, <1>3, <1>5, <1>7, <1>8 DEF PlacesOK

\* A task nobody had is given to a worker.
LEMMA DoWorkKeepsPlaces ==
    ASSUME TypeOK, PlacesOK, NEW t \in Tasks, NEW w \in Workers, DoWork(w, t),
           status[t] # "accepted",
           UNCHANGED queue, status' = [status EXCEPT ![t] = "accepted"]
    PROVE  PlacesOK'
<1>1. t \notin ToSet(queue) /\ \A v \in Workers : work[v] # t
    BY PoolAssumption DEF PlacesOK
<1>2. work'[w] = t /\ \A v \in Workers \ {w} : work'[v] = work[v]
    BY DEF DoWork, TypeOK
<1>3. /\ status'[t] = "accepted"
      /\ \A u \in Tasks \ {t} : status'[u] = status[u]
    BY DEF TypeOK
<1>4. \A u, v \in Workers : work'[u] # None /\ work'[u] = work'[v] => u = v
    BY <1>1, <1>2 DEF PlacesOK
<1>5. \A v \in Workers : work'[v] \notin ToSet(queue')
    BY <1>1, <1>2 DEF PlacesOK
<1>6. \A u \in ToSet(queue') : status'[u] = "accepted"
    BY <1>1, <1>3, PoolSequences DEF PlacesOK
<1>7. \A v \in Workers : work'[v] # None => status'[work'[v]] = "accepted"
    BY <1>2, <1>3 DEF PlacesOK, TypeOK
<1> QED
    BY <1>4, <1>5, <1>6, <1>7 DEF PlacesOK

\* The newest entry of the queue moves to a worker.
LEMMA TakeKeepsPlaces ==
    ASSUME TypeOK, PlacesOK, NEW w \in Workers, Take(w), UNCHANGED status
    PROVE  PlacesOK'
<1>1. CASE queue = << >>
    BY <1>1 DEF Take, PlacesOK
<1>2. CASE queue # << >>
    <2>1. DoWork(w, Last(queue)) /\ queue' = Front(queue)
        BY <1>2 DEF Take
    <2>2. /\ ToSet(queue) = ToSet(queue') \cup {Last(queue)}
          /\ Last(queue) \in Tasks
          /\ queue \in Seq(Tasks)
        BY <1>2, <2>1, FrontSet, PoolSequences
    <2>3. /\ Len(queue) \in Nat \ {0}
          /\ DOMAIN queue = 1..Len(queue)
          /\ Last(queue) = queue[Len(queue)]
        BY <1>2, <2>2 DEF Last
    <2>4. /\ DOMAIN queue' = 1..(Len(queue) - 1)
          /\ \A i \in 1..(Len(queue) - 1) : queue'[i] = queue[i]
        BY <2>1, <2>2, <2>3 DEF Front
    <2>5. Last(queue) \notin ToSet(queue')
        BY <2>3, <2>4 DEF PlacesOK, ToSet
    <2>6. \A i, j \in DOMAIN queue' : queue'[i] = queue'[j] => i = j
        BY <2>3, <2>4 DEF PlacesOK
    <2>7. work'[w] = Last(queue) /\ \A v \in Workers \ {w} : work'[v] = work[v]
        BY <2>1 DEF DoWork, TypeOK
    <2>8. \A v \in Workers : work[v] \notin ToSet(queue)
        BY DEF PlacesOK
    <2>9. \A u, v \in Workers : work'[u] # None /\ work'[u] = work'[v] => u = v
        BY <2>2, <2>7, <2>8 DEF PlacesOK
    <2>10. \A v \in Workers : work'[v] \notin ToSet(queue')
        BY <2>2, <2>5, <2>7, <2>8
    <2>11. /\ \A u \in ToSet(queue') : status'[u] = "accepted"
           /\ \A v \in Workers : work'[v] # None => status'[work'[v]] = "accepted"
        BY <2>2, <2>7 DEF PlacesOK
    <2> QED
        BY <2>6, <2>9, <2>10, <2>11 DEF PlacesOK
<1> QED
    BY <1>1, <1>2

\* Every step keeps the work in its places.
LEMMA NextPlacesOK ==
    ASSUME PoolInv, PlacesOK, [Next]_vars
    PROVE  PlacesOK'
<1>a. TypeOK
    BY DEF PoolInv
<1>1. ASSUME UNCHANGED << queue, work, status >> PROVE PlacesOK'
    BY <1>1 DEF PlacesOK
<1>2. ASSUME NEW t \in Tasks, Submit(t) PROVE PlacesOK'
    <2>1. status[t] # "accepted" /\ status' = [status EXCEPT ![t] = "accepted"]
        BY <1>2 DEF Submit
    <2>2. CASE UNCHANGED queue /\ \E w \in Workers : DoWork(w, t)
        BY <2>1, <2>2, <1>a, DoWorkKeepsPlaces
    <2>3. CASE queue' = Append(queue, t) /\ UNCHANGED work
        BY <2>1, <2>3, <1>a, AppendKeepsPlaces
    <2>4. FreeThreads \subseteq Workers /\ Absent \subseteq Workers
        BY <1>a, PoolSequences DEF FreeThreads, Absent
    <2> QED
        BY <1>2, <2>2, <2>3, <2>4 DEF Submit
<1>3. ASSUME NEW w \in Workers, WorkerFinish(w) PROVE PlacesOK'
    <2>1. work[w] \in Tasks /\ work[w] # None
        BY <1>3, WorkingIsBusy, PoolAssumption DEF WorkerFinish
    <2>2. work'[w] = None /\ \A v \in Workers \ {w} : work'[v] = work[v]
        BY <1>3, <1>a DEF WorkerFinish, TypeOK
    <2>3. queue' = queue /\ \A u \in Tasks \ {work[w]} : status'[u] = status[u]
        BY <1>3, <1>a DEF WorkerFinish, TypeOK, implVars
    <2>4. \A v \in Workers \ {w} : work[v] # work[w]
        BY <2>1 DEF PlacesOK
    <2>5. ToSet(queue) \subseteq Tasks /\ work[w] \notin ToSet(queue)
        BY <1>a, PoolSequences DEF PlacesOK
    <2>6. None \notin ToSet(queue)
        BY <2>5, PoolAssumption
    <2>7. \A v \in Workers : work'[v] # None => status'[work'[v]] = "accepted"
        BY <2>2, <2>3, <2>4, <1>a DEF PlacesOK, TypeOK
    <2>8. \A v \in Workers : work'[v] \notin ToSet(queue')
        BY <2>2, <2>3, <2>6 DEF PlacesOK
    <2>9. \A u \in ToSet(queue') : status'[u] = "accepted"
        BY <2>3, <2>5 DEF PlacesOK
    <2> QED
        BY <2>2, <2>3, <2>7, <2>8, <2>9 DEF PlacesOK
<1>4. CASE SchedulerDispatch
    <2>1. UNCHANGED status
        BY <1>4 DEF SchedulerDispatch
    <2>2. CASE UNCHANGED << queue, work >>
        BY <2>1, <2>2, <1>1
    <2>3. CASE \E w \in Workers : Take(w)
        BY <2>1, <2>3, <1>a, TakeKeepsPlaces
    <2>4. FreeThreads \subseteq Workers /\ Absent \subseteq Workers
        BY <1>a, PoolSequences DEF FreeThreads, Absent
    <2> QED
        BY <1>4, <2>2, <2>3, <2>4 DEF SchedulerDispatch, workerVars
<1>5. ASSUME NEW p \in Procs, Join(p) PROVE PlacesOK'
    <2>1. ref[p] \in Workers /\ work[ref[p]] = None
        BY <1>5, JoinedHasEnded
    <2>2. UNCHANGED << queue, work >>
        BY <1>5, <2>1, <1>a DEF Join, implVars, TypeOK
    <2>3. UNCHANGED status
        BY <1>5, <2>1, <1>a, PoolAssumption DEF Join, TypeOK
    <2> QED
        BY <2>2, <2>3, <1>1
<1>6. ASSUME NEW c \in Clients, JoinScheduler(c) PROVE PlacesOK'
    <2>1. queue = << >>
        BY <1>6 DEF PoolInv, DestroyOK, JoinScheduler, StopLabels
    <2>2. UNCHANGED << queue, work >>
        BY <1>6, <2>1 DEF JoinScheduler, workerVars
    <2>3. UNCHANGED status
        BY <1>6, <2>1, <1>a, EmptySet DEF JoinScheduler, TypeOK
    <2> QED
        BY <2>2, <2>3, <1>1
<1>7. ASSUME NEW c \in Clients, AdjustGrow(c) PROVE PlacesOK'
    BY <1>7, <1>1 DEF AdjustGrow, AddThread
<1> QED
    BY <1>1, <1>2, <1>3, <1>4, <1>5, <1>6, <1>7
       DEF Next, WorkerStep, SchedulerStep, ClientStep, ClientCall, Terminated,
           WorkerSubmit, Run, Procs, vars, implVars, workerVars,
           WorkerWake, WorkerReset, WorkerFree, WorkerNotify,
           SchedulerWaitQueue, SchedulerResetFree, SchedulerRelease, SchedulerWaitFree,
           SetThreadCount, LockThreadCount, SetMaxThreadCount, AdjustTrim,
           AdjustDone, Wait, WaitScan, WaitSpin, WaitFree, WaitExpire, WaitReturn,
           Destroy, StopScheduler, DestroyThread, DestroyDone

\* Counted, the places of a task are one or none.
LEMMA PlacesCounted ==
    ASSUME TypeOK, AcceptedOK, PlacesOK
    PROVE  WorkInOnePlace
<1> SUFFICES ASSUME NEW t \in Tasks
             PROVE  Cardinality({i \in DOMAIN queue : queue[i] = t})
                      + Cardinality({w \in Workers : work[w] = t})
                        = IF status[t] = "accepted" THEN 1 ELSE 0
    BY DEF WorkInOnePlace
<1> DEFINE Q == {i \in DOMAIN queue : queue[i] = t}
           W == {w \in Workers : work[w] = t}
<1>a. t # None
    BY PoolAssumption
<1>b. Cardinality({}) = 0 /\ \A x : Cardinality({x}) = 1
    BY FS_EmptySet, FS_Singleton
<1>c. t \in ToSet(queue) <=> Q # {}
    BY DEF ToSet
<1>d. W # {} => status[t] = "accepted" /\ Q = {}
    BY <1>a, <1>c DEF PlacesOK
<1>e. Q # {} => status[t] = "accepted"
    BY <1>c DEF PlacesOK
<1>1. CASE Q # {}
    <2>1. PICK i \in Q : TRUE
        BY <1>1
    <2>2. Q = {i}
        BY <2>1 DEF PlacesOK
    <2>3. W = {}
        BY <1>1, <1>d
    <2> HIDE DEF Q, W
    <2>4. Cardinality(Q) = 1 /\ Cardinality(W) = 0
        BY <2>2, <2>3, <1>b
    <2> QED
        BY <2>4, <1>1, <1>e DEF Q, W
<1>2. CASE W # {}
    <2>1. PICK w \in W : TRUE
        BY <1>2
    <2>2. W = {w}
        BY <2>1, <1>a DEF PlacesOK
    <2>3. Q = {}
        BY <1>2, <1>d
    <2> HIDE DEF Q, W
    <2>4. Cardinality(Q) = 0 /\ Cardinality(W) = 1
        BY <2>2, <2>3, <1>b
    <2> QED
        BY <2>4, <1>2, <1>d DEF Q, W
<1>3. CASE Q = {} /\ W = {}
    <2>1. status[t] # "accepted"
        BY <1>3, <1>c DEF AcceptedOK
    <2> HIDE DEF Q, W
    <2>2. Cardinality(Q) = 0 /\ Cardinality(W) = 0
        BY <1>3, <1>b
    <2> QED
        BY <2>1, <2>2 DEF Q, W
<1> QED
    BY <1>1, <1>2, <1>3

\* Accepted work is in the queue once or with one worker, and nothing else is:
\* the pool neither loses nor doubles it.  (run, scheduler_loop, worker.)
THEOREM PoolKeepsWork ==
    ShrinkWhenBusy = FALSE => (SafetySpec => []WorkInOnePlace)
<1> SUFFICES ASSUME ShrinkWhenBusy = FALSE
             PROVE  SafetySpec => []WorkInOnePlace
    OBVIOUS
<1>1. Init => PlacesOK
    <2> SUFFICES ASSUME Init
                 PROVE  PlacesOK
        OBVIOUS
    <2>1. queue = << >> /\ \A w \in Workers : work[w] = None
        BY DEF Init
    <2>2. DOMAIN queue = {} /\ ToSet(queue) = {}
        BY <2>1 DEF ToSet
    <2> QED
        BY <2>1, <2>2 DEF PlacesOK
<1>2. PoolInv /\ PlacesOK /\ [Next]_vars => PlacesOK'
    BY NextPlacesOK
<1>3. PoolInv /\ PlacesOK => WorkInOnePlace
    BY PlacesCounted DEF PoolInv
<1> QED
    BY <1>1, <1>2, <1>3, PoolInvariant, PTL DEF SafetySpec

-----------------------------------------------------------------------------
(* The scheduler's sleep *)

\* The scheduler falls asleep in its locked section and nowhere else.
LEMMA FallsAsleep ==
    ASSUME PoolInv, [Next]_vars, ~SchedulerDispatch,
           pc'[Scheduler] = "waitFree", ~hasFree'
    PROVE  pc[Scheduler] = "waitFree" /\ ~hasFree
<1>a. /\ pc \in [Procs -> SchedulerLabels \cup ClientLabels]
      /\ Scheduler \in Procs
      /\ \A c \in Clients : c \in Procs /\ c # Scheduler
    BY PoolAssumption DEF PoolInv, TypeOK, Procs
<1>1. ASSUME NEW c \in Clients, NEW l, Goto(c, l)
      PROVE  pc'[Scheduler] = pc[Scheduler]
    BY <1>1, <1>a DEF Goto
<1>2. ASSUME NEW l, Goto(Scheduler, l)
      PROVE  l = "waitFree"
    BY <1>2, <1>a DEF Goto
<1>3. ASSUME NEW p \in Procs, NEW w, NEW s, NEW label \in JoinLabels, LetGo(p, w, s, label)
      PROVE  p \in Clients /\ pc'[Scheduler] = pc[Scheduler]
    <2>1. AfterJoin[label] # "waitFree" /\ label # "waitFree"
        BY AfterJoinIsElsewhere DEF JoinLabels
    <2>2. Goto(p, AfterJoin[label]) \/ Goto(p, label)
        BY <1>3 DEF LetGo
    <2>3. p # Scheduler
        BY <1>2, <2>1, <2>2
    <2> QED
        BY <1>1, <2>2, <2>3 DEF Procs
<1>4. ASSUME NEW p \in Procs, Join(p)
      PROVE  p \in Clients /\ pc'[Scheduler] = pc[Scheduler]
    <2>1. AfterJoin[pc[p]] # "waitFree" /\ Goto(p, AfterJoin[pc[p]])
        BY <1>4, AfterJoinValues, AfterJoinIsElsewhere DEF Join
    <2>2. p # Scheduler
        BY <1>2, <2>1
    <2> QED
        BY <1>1, <2>1, <2>2 DEF Procs
<1>5. ~hasFree
    <2>1. CASE UNCHANGED hasFree
        BY <2>1
    <2>2. ~SchedulerResetFree
        BY <1>2 DEF SchedulerResetFree
    <2>3. ASSUME NEW t \in Tasks, Submit(t) PROVE ~hasFree
        BY <2>1, <2>3 DEF Submit, StartThread
    <2>4. ASSUME NEW w \in Workers, WorkerStep(w) PROVE ~hasFree
        BY <2>1, <2>3, <2>4
           DEF WorkerStep, WorkerSubmit, implVars,
               WorkerWake, WorkerFinish, WorkerReset, WorkerFree, WorkerNotify
    <2>5. ASSUME NEW p \in Procs, Join(p) PROVE ~hasFree
        BY <2>1, <2>5 DEF Join, implVars
    <2>6. CASE SchedulerStep
        BY <2>1, <2>2, <2>5, <2>6, <1>a
           DEF SchedulerStep, SchedulerWaitQueue, SchedulerRelease, SchedulerWaitFree, implVars
    <2>7. ASSUME NEW c \in Clients, ClientStep(c) PROVE ~hasFree
        BY <2>1, <2>5, <2>7, <1>a
           DEF ClientStep, implVars, LockThreadCount, AdjustGrow, AddThread, StartThread,
               AdjustTrim, AdjustDone, WaitScan, WaitSpin, WaitFree, WaitReturn,
               StopScheduler, JoinScheduler, DestroyThread, DestroyDone
    <2>8. ASSUME NEW c \in Clients, ClientCall(c) PROVE ~hasFree
        BY <2>1, <2>3, <2>8
           DEF ClientCall, Run, implVars, SetThreadCount, SetMaxThreadCount, Wait,
               WaitExpire, Destroy
    <2> QED
        BY <2>1, <2>4, <2>6, <2>7, <2>8 DEF Next, Terminated, vars, implVars
<1>6. pc[Scheduler] = "waitFree"
    <2>1. CASE UNCHANGED pc
        BY <2>1
    <2>2. CASE \E c \in Clients, l \in SchedulerLabels \cup ClientLabels : Goto(c, l)
        BY <2>2, <1>1
    <2>3. CASE SchedulerStep
        <3>1. ~SchedulerWaitQueue /\ ~SchedulerResetFree /\ ~SchedulerWaitFree
            BY <1>2 DEF SchedulerWaitQueue, SchedulerResetFree, SchedulerWaitFree
        <3>2. ~SchedulerRelease
            BY <1>3, <1>a, PoolAssumption DEF SchedulerRelease, JoinLabels
        <3>3. ~Join(Scheduler)
            BY <1>4, <1>a
        <3> QED
            BY <2>3, <3>1, <3>2, <3>3 DEF SchedulerStep
    <2>4. ASSUME NEW c \in Clients, ClientStep(c) \/ ClientCall(c)
          PROVE  pc'[Scheduler] = pc[Scheduler]
        <3>1. CASE AdjustTrim(c) \/ WaitFree(c) \/ DestroyThread(c)
            BY <3>1, <1>3, <1>a DEF AdjustTrim, WaitFree, DestroyThread, JoinLabels
        <3>2. CASE WaitExpire(c)
            BY <3>2, <1>1, <1>3, <1>a DEF WaitExpire, JoinLabels
        <3>3. CASE Join(c)
            BY <3>3, <1>4, <1>a
        <3>4. CASE UNCHANGED pc
            BY <3>4
        <3>5. CASE \E t \in Tasks : Run(c, t)
            BY <3>5 DEF Run, Submit, callVars
        <3>6. CASE AdjustGrow(c)
            BY <3>6 DEF AdjustGrow, callVars
        <3>7. ASSUME NEW n, SetThreadCount(c, n) \/ SetMaxThreadCount(c, n)
              PROVE  pc'[Scheduler] = pc[Scheduler]
            BY <3>7, <1>1 DEF SetThreadCount, SetMaxThreadCount
        <3>8. CASE \/ LockThreadCount(c) \/ AdjustDone(c) \/ Wait(c) \/ WaitScan(c)
                   \/ WaitSpin(c) \/ WaitReturn(c) \/ Destroy(c) \/ StopScheduler(c)
                   \/ JoinScheduler(c) \/ DestroyDone(c)
            BY <3>8, <1>1
               DEF LockThreadCount, AdjustDone, Wait, WaitScan, WaitSpin, WaitReturn,
                   Destroy, StopScheduler, JoinScheduler, DestroyDone
        <3> QED
            BY <2>4, <3>1, <3>2, <3>3, <3>5, <3>6, <3>7, <3>8 DEF ClientStep, ClientCall
    <2> QED
        BY <2>1, <2>3, <2>4
           DEF Next, WorkerStep, Terminated, WorkerSubmit, Submit, vars, callVars,
               WorkerWake, WorkerFinish, WorkerReset, WorkerFree, WorkerNotify
<1> QED
    BY <1>5, <1>6

\* A thread that is let go while it rests was not the one to wake the scheduler.
LEMMA LetGoKeepsAwake ==
    ASSUME PoolInv, SchedulerNotStranded, pc[Scheduler] = "waitFree", ~hasFree,
           NEW p, NEW w \in Workers, NEW label, LetGo(p, w, threads', label),
           UNCHANGED << wpc, free >>,
           ToSet(threads') \subseteq ToSet(threads),
           free[w] \/ w \in ToSet(threads')
    PROVE  SchedulerNotStranded'
<1>1. \A v \in FreeThreads' : v \in FreeThreads
    BY DEF FreeThreads
<1>2. PICK v \in Workers : WillNotify(v)
    BY DEF SchedulerNotStranded
<1>3. WillNotify(v)'
    <2>1. CASE UNCHANGED << terminated, working >>
        BY <1>2, <2>1 DEF WillNotify
    <2>2. CASE free[w] /\ terminated' = [terminated EXCEPT ![w] = TRUE]
                       /\ working' = [working EXCEPT ![w] = TRUE]
        <3>1. CASE v = w
            <4>1. WorkerOK(w)
                BY DEF PoolInv, WorkersOK
            <4> QED
                BY <1>2, <2>2, <3>1, <4>1 DEF WillNotify, WorkerOK, Resting, Assigned
        <3>2. CASE v # w
            BY <1>2, <2>2, <3>2 DEF WillNotify, PoolInv, TypeOK
        <3> QED
            BY <3>1, <3>2
    <2> QED
        BY <2>1, <2>2 DEF LetGo, SharedBy
<1> QED
    BY <1>1, <1>3 DEF SchedulerNotStranded

\* While the scheduler is asleep no step takes its last waker away.
LEMMA NextNotStranded ==
    ASSUME PoolInv, SchedulerNotStranded, [Next]_vars
    PROVE  SchedulerNotStranded'
<1> SUFFICES ASSUME pc'[Scheduler] = "waitFree", ~hasFree'
             PROVE  SchedulerNotStranded'
    BY DEF SchedulerNotStranded
<1>a. TypeOK /\ WorkersOK /\ MembersOK
    BY DEF PoolInv
<1>b. threads \in Seq(Workers) /\ ToSet(threads) \subseteq Workers
    BY <1>a, PoolSequences
<1>1. CASE SchedulerDispatch
    <2>1. /\ FreeThreads = {} /\ Len(threads) >= maxCount
          /\ UNCHANGED << threads, workerVars >>
        <3>1. Scheduler \in Procs
            BY DEF Procs
        <3>2. \A l : Goto(Scheduler, l) => l = "waitFree"
            BY <3>1, <1>a DEF Goto, TypeOK
        <3> QED
            BY <1>1, <3>2 DEF SchedulerDispatch
    <2>2. 1 \in DOMAIN threads /\ threads[1] \in Workers
        <3>1. threads \in Seq(Workers) /\ Len(threads) >= 1
            BY <2>1, <1>a, PoolAssumption DEF TypeOK
        <3> QED
            BY <3>1
    <2>3. PICK w \in Workers : w \in ToSet(threads)
        BY <2>2 DEF ToSet
    <2>4. ~free[w] /\ wpc[w] # "absent" /\ ~terminated[w] /\ WorkerOK(w)
        BY <2>1, <2>3, <1>a DEF FreeThreads, MembersOK, WorkersOK
    <2>5. WillNotify(w)
        BY <2>3, <2>4, <1>a DEF WillNotify, WorkerOK, Resting, Assigned, TypeOK, WorkerLabels
    <2>6. WillNotify(w)'
        BY <2>1, <2>5 DEF WillNotify, workerVars
    <2>7. FreeThreads' = {}
        BY <2>1 DEF FreeThreads, workerVars
    <2> QED
        BY <2>6, <2>7 DEF SchedulerNotStranded
<1>2. CASE ~SchedulerDispatch
    <2>a. pc[Scheduler] = "waitFree" /\ ~hasFree
        BY <1>2, FallsAsleep
    <2>b. \A w \in FreeThreads : wpc[w] = "notify"
        BY <2>a DEF SchedulerNotStranded
    <2>c. PICK v \in Workers : WillNotify(v)
        BY <2>a DEF SchedulerNotStranded
    <2>1. CASE UNCHANGED << threads, wpc, terminated, working, free >>
        BY <2>1, <2>b, <2>c DEF SchedulerNotStranded, FreeThreads, WillNotify
    <2>2. ASSUME NEW t \in Tasks, Submit(t) PROVE SchedulerNotStranded'
        <3>1. CASE \E w \in FreeThreads : DoWork(w, t)
            <4>1. UNCHANGED << threads, wpc, terminated >>
                BY <2>2, <3>1 DEF Submit, StartThread
            <4>2. PICK w \in FreeThreads : DoWork(w, t)
                BY <3>1
            <4>3. FreeThreads' \subseteq FreeThreads
                BY <4>1, <4>2, <1>a, <1>b DEF FreeThreads, DoWork, TypeOK
            <4>4. WillNotify(v)'
                BY <2>c, <4>1, <4>2, <1>a DEF WillNotify, DoWork, TypeOK
            <4> QED
                BY <2>b, <4>1, <4>3, <4>4 DEF SchedulerNotStranded
        <3>2. CASE UNCHANGED << threads, hasFree, wpc, work, working, free >>
            BY <2>1, <2>2, <3>2 DEF Submit
        <3> QED
            BY <2>2, <3>1, <3>2 DEF Submit, StartThread
    <2>3. ASSUME NEW w \in Workers, WorkerWake(w) PROVE SchedulerNotStranded'
        <3>1. UNCHANGED << threads, terminated, working, free >>
            BY <2>3 DEF WorkerWake, implVars
        <3>2. w \notin FreeThreads
            BY <2>3, <2>b DEF WorkerWake
        <3>3. \A u \in Workers \ {w} : wpc'[u] = wpc[u]
            BY <2>3, <1>a DEF WorkerWake, TypeOK
        <3>4. \A u \in FreeThreads' : u \in FreeThreads /\ u \in Workers
            BY <3>1, <1>b DEF FreeThreads
        <3>5. WillNotify(v)'
            BY <2>3, <2>c, <3>1, <3>3, <1>a DEF WorkerWake, WillNotify, TypeOK
        <3> QED
            BY <2>b, <3>2, <3>3, <3>4, <3>5 DEF SchedulerNotStranded
    <2>4. ASSUME NEW w \in Workers, WorkerFinish(w) \/ WorkerReset(w) PROVE SchedulerNotStranded'
        <3>1. UNCHANGED << threads, terminated, free >>
            BY <2>4 DEF WorkerFinish, WorkerReset, implVars
        <3>2. \A u \in Workers \ {w} : wpc'[u] = wpc[u] /\ working'[u] = working[u]
            BY <2>4, <1>a DEF WorkerFinish, WorkerReset, TypeOK
        <3>3. wpc'[w] \in {"reset", "free"} /\ wpc[w] \in {"run", "reset"}
            BY <2>4, <1>a DEF WorkerFinish, WorkerReset, TypeOK
        <3>4. \A u \in FreeThreads' : u \in FreeThreads /\ u \in Workers /\ u # w
            BY <2>b, <3>1, <3>3, <1>b DEF FreeThreads
        <3>5. WillNotify(v)'
            BY <2>c, <3>1, <3>2, <3>3 DEF WillNotify
        <3> QED
            BY <2>b, <3>2, <3>4, <3>5 DEF SchedulerNotStranded
    <2>5. ASSUME NEW w \in Workers, WorkerFree(w) PROVE SchedulerNotStranded'
        <3>1. UNCHANGED << threads, terminated, working >>
            BY <2>5 DEF WorkerFree, implVars
        <3>2. \A u \in Workers \ {w} : wpc'[u] = wpc[u] /\ free'[u] = free[u]
            BY <2>5, <1>a DEF WorkerFree, TypeOK
        <3>3. wpc'[w] = "notify"
            BY <2>5, <1>a DEF WorkerFree, TypeOK
        <3>4. \A u \in FreeThreads' : u \in Workers /\ (u = w \/ u \in FreeThreads)
            BY <3>1, <3>2, <1>b DEF FreeThreads
        <3>5. WillNotify(v)'
            BY <2>c, <3>1, <3>2, <3>3 DEF WillNotify
        <3> QED
            BY <2>b, <3>2, <3>3, <3>4, <3>5 DEF SchedulerNotStranded
    <2>6. ASSUME NEW c \in Clients, AdjustTrim(c) PROVE SchedulerNotStranded'
        <3>0. pc[c] = "adjust" /\ target[c] < Len(threads) /\ target[c] \in Nat
            BY <2>6, <1>a, PoolAssumption DEF AdjustTrim, TypeOK
        <3>1. BusyThreads = {} /\ threads # << >>
            <4>1. BusyThreads = {}
                BY <3>0 DEF PoolInv, TrimOK
            <4> QED
                BY <3>0, <4>1, <1>b
        <3>2. Last(threads) \in ToSet(threads) /\ Last(threads) \in Workers
              /\ ToSet(Front(threads)) \subseteq ToSet(threads)
            <4>1. ToSet(threads) = ToSet(Front(threads)) \cup {Last(threads)}
                BY <3>1, <1>b, FrontSet
            <4>2. Last(threads) \in ToSet(threads) /\ ToSet(Front(threads)) \subseteq ToSet(threads)
                BY <4>1
            <4> QED
                BY <4>2, <1>b
        <3>3. free[Last(threads)]
            BY <3>1, <3>2 DEF BusyThreads
        <3> QED
            BY <2>6, <2>a, <3>2, <3>3, LetGoKeepsAwake DEF AdjustTrim
    <2>7. ASSUME NEW c \in Clients, DestroyThread(c) PROVE SchedulerNotStranded'
        <3>1. BusyThreads = {} /\ threads # << >>
            BY <2>7 DEF DestroyThread, PoolInv, DestroyOK, StopLabels
        <3>2. Head(threads) \in ToSet(threads) /\ Head(threads) \in Workers
              /\ ToSet(Tail(threads)) \subseteq ToSet(threads)
            <4>1. ToSet(threads) = ToSet(Tail(threads)) \cup {Head(threads)}
                BY <3>1, <1>b, TailSet
            <4>2. Head(threads) \in ToSet(threads) /\ ToSet(Tail(threads)) \subseteq ToSet(threads)
                BY <4>1
            <4> QED
                BY <4>2, <1>b
        <3>3. free[Head(threads)]
            BY <3>1, <3>2 DEF BusyThreads
        <3> QED
            BY <2>7, <2>a, <3>2, <3>3, LetGoKeepsAwake DEF DestroyThread
    <2>8. ASSUME NEW c \in Clients, ref[c] # None, NEW label, LetGo(c, ref[c], threads, label),
                 UNCHANGED << threads, wpc, free >>
          PROVE  SchedulerNotStranded'
        <3>1. ref[c] \in Workers /\ wpc[ref[c]] # "absent"
            BY <2>8, <1>a DEF PoolInv, RefsOK, TypeOK, Procs
        <3>2. free[ref[c]] \/ ref[c] \in ToSet(threads)
            BY <3>1, <1>a DEF MembersOK
        <3> QED
            BY <2>8, <2>a, <3>1, <3>2, LetGoKeepsAwake
    <2>9. ASSUME NEW p \in Procs, Join(p) PROVE SchedulerNotStranded'
        <3>1. /\ ref[p] \in Workers /\ ref[p] \notin ToSet(threads)
              /\ wpc[ref[p]] = "exited"
            BY <2>9, JoinedHasEnded
        <3>2. UNCHANGED threads
            BY <2>9 DEF Join, implVars
        <3>3. \A u \in Workers \ {ref[p]} : /\ wpc'[u] = wpc[u] /\ free'[u] = free[u]
                                            /\ terminated'[u] = terminated[u]
                                            /\ working'[u] = working[u]
            BY <2>9, <3>1, <1>a DEF Join, TypeOK
        <3>4. \A u \in FreeThreads' : u \in FreeThreads /\ u \in Workers /\ u # ref[p]
            BY <3>1, <3>2, <3>3, <1>b DEF FreeThreads
        <3>5. v # ref[p]
            BY <2>c, <3>1 DEF WillNotify
        <3>6. WillNotify(v)'
            BY <2>c, <3>3, <3>5 DEF WillNotify
        <3> QED
            BY <2>b, <3>3, <3>4, <3>6 DEF SchedulerNotStranded
    <2>10. ASSUME NEW c \in Clients, WaitFree(c) \/ WaitExpire(c) PROVE SchedulerNotStranded'
        BY <2>1, <2>8, <2>10 DEF WaitFree, WaitExpire, implVars
    <2>11. ASSUME NEW w \in Workers, WorkerNotify(w) PROVE FALSE
        BY <2>11 DEF WorkerNotify
    <2>12. ASSUME NEW c \in Clients, AdjustGrow(c) PROVE FALSE
        BY <2>12 DEF AdjustGrow, AddThread, StartThread
    <2>13. ~SchedulerWaitQueue /\ ~SchedulerResetFree /\ ~SchedulerRelease /\ ~SchedulerWaitFree
        BY <2>a DEF SchedulerWaitQueue, SchedulerResetFree, SchedulerRelease, SchedulerWaitFree
    <2> QED
        BY <1>2, <2>1, <2>2, <2>3, <2>4, <2>5, <2>6, <2>7, <2>9, <2>10, <2>11, <2>12, <2>13
           DEF Next, WorkerStep, SchedulerStep, ClientStep, ClientCall, Terminated,
               WorkerSubmit, Run, Procs, vars, implVars, workerVars,
               SetThreadCount, LockThreadCount, SetMaxThreadCount,
               AdjustDone, Wait, WaitScan, WaitSpin, WaitReturn,
               Destroy, StopScheduler, JoinScheduler, DestroyDone
<1> QED
    BY <1>1, <1>2

\* A scheduler that waits for a free thread has somebody to wake it: it does not
\* sleep through has_free_threads_.  (scheduler_loop, worker.)
THEOREM PoolWakesScheduler ==
    ShrinkWhenBusy = FALSE => (SafetySpec => []SchedulerNotStranded)
<1> SUFFICES ASSUME ShrinkWhenBusy = FALSE
             PROVE  SafetySpec => []SchedulerNotStranded
    OBVIOUS
<1>1. Init => SchedulerNotStranded
    BY DEF Init, SchedulerNotStranded, Procs
<1>2. PoolInv /\ SchedulerNotStranded /\ [Next]_vars => SchedulerNotStranded'
    BY NextNotStranded
<1> QED
    BY <1>1, <1>2, PoolInvariant, PTL DEF SafetySpec

-----------------------------------------------------------------------------
(* The limit *)

ResizeLabels == {"lockCount", "adjust", "trimJoin"}

\* One thread at most resizes the pool; two break the limit.
OneAdjuster == \A c, d \in Adjusters : c = d

\* What a client resizes to has been compared with the limit that holds.
BoundOK == /\ ThreadCountBounded
           /\ \A c \in Clients : pc[c] \in ResizeLabels => c \in Adjusters /\ target[c] <= maxCount

\* The limit is kept by a step that changes neither it nor the threads.
LEMMA BoundKept ==
    ASSUME PoolInv, BoundOK, UNCHANGED << lock, threads, maxCount, target >>,
           \A c \in Clients : pc'[c] \in ResizeLabels => pc[c] \in ResizeLabels
    PROVE  BoundOK'
BY DEF BoundOK, ThreadCountBounded

\* A process that goes elsewhere than to a resizing, or that is resizing.
LEMMA BoundGoto ==
    ASSUME PoolInv, BoundOK, UNCHANGED << lock, threads, maxCount, target >>,
           NEW p \in Procs, NEW l, Goto(p, l),
           l \in ResizeLabels => pc[p] \in ResizeLabels
    PROVE  BoundOK'
BY BoundKept DEF PoolInv, TypeOK, Goto, Procs

\* Only a resizing client goes on resizing after it let a thread go.
LEMMA LetGoGoes ==
    ASSUME NEW p, NEW w, NEW s, NEW label \in JoinLabels, LetGo(p, w, s, label)
    PROVE  \E l : Goto(p, l) /\ (l \in ResizeLabels <=> label = "trimJoin")
<1>1. AfterJoin[label] \in ResizeLabels <=> label = "trimJoin"
    BY AfterJoinValues DEF JoinLabels, ResizeLabels
<1>2. label \in ResizeLabels <=> label = "trimJoin"
    BY DEF JoinLabels, ResizeLabels
<1> QED
    BY <1>1, <1>2 DEF LetGo

\* Every step of a pool that one client resizes keeps the limit.
LEMMA NextBoundOK ==
    ASSUME OneAdjuster, PoolInv, BoundOK, [Next]_vars
    PROVE  BoundOK'
<1>a. TypeOK /\ LockOK
    BY DEF PoolInv
<1>b. \A c \in Clients : c \in Procs /\ c # Scheduler /\ c # None
    BY PoolAssumption DEF Procs
<1>c. Scheduler \in Procs /\ Scheduler \notin Clients
    BY PoolAssumption DEF Procs
<1>d. Len(threads) \in Nat /\ maxCount \in Nat /\ \A w \in Workers : Len(Append(threads, w)) = Len(threads) + 1
    BY <1>a, AppendSet, PoolSequences DEF TypeOK
<1>1. ASSUME UNCHANGED << lock, threads, maxCount, target, pc >> PROVE BoundOK'
    BY <1>1, BoundKept
<1>2. ASSUME UNCHANGED << lock, threads, maxCount, target >>,
             NEW c \in Clients, NEW l, Goto(c, l), l \notin ResizeLabels
      PROVE  BoundOK'
    BY <1>2, <1>b, BoundGoto
<1>3. ASSUME NEW t \in Tasks, Submit(t) PROVE BoundOK'
    <2>1. UNCHANGED << lock, maxCount, target, pc >>
        BY <1>3 DEF Submit, callVars
    <2>2. CASE UNCHANGED threads
        BY <2>1, <2>2, <1>1
    <2>3. CASE Len(threads) < maxCount /\ \E w \in Workers : threads' = Append(threads, w)
        BY <2>1, <2>3, <1>d DEF BoundOK, ThreadCountBounded
    <2> QED
        BY <1>3, <2>2, <2>3 DEF Submit, StartThread, Absent
<1>4. ASSUME SchedulerDispatch PROVE BoundOK'
    <2>1. /\ UNCHANGED << lock, maxCount, target >>
          /\ \A c \in Clients : pc'[c] = pc[c]
        BY <1>4, <1>a, <1>b DEF SchedulerDispatch, Goto, TypeOK
    <2>2. CASE UNCHANGED threads
        BY <2>1, <2>2, BoundKept
    <2>3. CASE Len(threads) < maxCount /\ \E w \in Workers : threads' = Append(threads, w)
        BY <2>1, <2>3, <1>d DEF BoundOK, ThreadCountBounded
    <2> QED
        BY <1>4, <2>2, <2>3 DEF SchedulerDispatch, StartThread, Absent
<1>5. CASE \/ SchedulerWaitQueue \/ SchedulerResetFree \/ SchedulerWaitFree
    BY <1>5, <1>c, BoundGoto
       DEF SchedulerWaitQueue, SchedulerResetFree, SchedulerWaitFree, implVars, ResizeLabels
<1>6. CASE SchedulerRelease
    BY <1>6, <1>c, LetGoGoes, BoundGoto DEF SchedulerRelease, implVars, JoinLabels
<1>7. ASSUME NEW p \in Procs, Join(p) PROVE BoundOK'
    <2>1. AfterJoin[pc[p]] \in ResizeLabels => pc[p] \in ResizeLabels
        BY <1>7, AfterJoinValues DEF Join, JoinLabels, ResizeLabels
    <2> QED
        BY <1>7, <2>1, BoundGoto DEF Join, implVars
<1>8. ASSUME NEW c \in Clients, NEW n \in 0..MaxLimit, SetThreadCount(c, n) PROVE BoundOK'
    <2>1. UNCHANGED << lock, threads, maxCount >> /\ n <= maxCount /\ c \in Adjusters
        BY <1>8 DEF SetThreadCount, implVars
    <2>2. target'[c] = n /\ \A d \in Clients \ {c} : target'[d] = target[d] /\ pc'[d] = pc[d]
        BY <1>8, <1>a, <1>b DEF SetThreadCount, Goto, TypeOK
    <2> QED
        BY <2>1, <2>2 DEF BoundOK, ThreadCountBounded
<1>9. ASSUME NEW c \in Clients, LockThreadCount(c) PROVE BoundOK'
    <2>1. UNCHANGED << threads, maxCount, target >> /\ lock' = c /\ pc[c] = "lockCount"
        BY <1>9 DEF LockThreadCount
    <2>2. \A d \in Clients \ {c} : pc'[d] = pc[d]
        BY <1>9, <1>a, <1>b DEF LockThreadCount, Goto, TypeOK
    <2> QED
        BY <2>1, <2>2, <1>b DEF BoundOK, ThreadCountBounded, ResizeLabels
<1>10. ASSUME NEW c \in Clients, NEW n \in 0..MaxLimit, SetMaxThreadCount(c, n) PROVE BoundOK'
    <2>1. /\ UNCHANGED threads /\ maxCount' = n /\ c \in Adjusters /\ pc[c] = "idle"
        BY <1>10 DEF SetMaxThreadCount
    <2>2. \A d \in Clients : pc[d] \notin ResizeLabels
        BY <2>1 DEF BoundOK, OneAdjuster, ResizeLabels
    <2>3. CASE n < Len(threads)
        <3>1. lock' = c /\ target'[c] = n /\ \A d \in Clients \ {c} : pc'[d] = pc[d]
            BY <1>10, <2>3, <1>a, <1>b DEF SetMaxThreadCount, Goto, TypeOK
        <3> QED
            BY <2>1, <2>2, <3>1, <1>b DEF BoundOK, ThreadCountBounded
    <2>4. CASE ~(n < Len(threads))
        <3>1. UNCHANGED << lock, target, pc >>
            BY <1>10, <2>4 DEF SetMaxThreadCount
        <3> QED
            BY <2>1, <2>2, <2>4, <3>1, <1>d DEF BoundOK, ThreadCountBounded
    <2> QED
        BY <2>3, <2>4
<1>11. ASSUME NEW c \in Clients, AdjustGrow(c) PROVE BoundOK'
    <2>1. UNCHANGED << lock, maxCount, target, pc >> /\ lock = c
        BY <1>11, <1>a DEF AdjustGrow, callVars, LockOK
    <2> QED
        BY <2>1, <1>b DEF BoundOK, ThreadCountBounded
<1>12. ASSUME NEW c \in Clients, AdjustTrim(c) PROVE BoundOK'
    <2>1. UNCHANGED << lock, maxCount, target >> /\ lock = c /\ pc[c] = "adjust"
        BY <1>12, <1>a DEF AdjustTrim, LockOK
    <2>2. \A d \in Clients \ {c} : pc'[d] = pc[d]
        BY <1>12, <1>a, <1>b, LetGoGoes DEF AdjustTrim, Goto, TypeOK, JoinLabels
    <2> QED
        BY <2>1, <2>2, <1>b DEF BoundOK, ThreadCountBounded, ResizeLabels
<1>13. ASSUME NEW c \in Clients, AdjustDone(c) PROVE BoundOK'
    <2>1. UNCHANGED << threads, maxCount, target >> /\ target[c] = Len(threads) /\ pc[c] = "adjust"
        BY <1>13 DEF AdjustDone
    <2>2. pc'[c] = "idle" /\ \A d \in Clients \ {c} : pc'[d] = pc[d]
        BY <1>13, <1>a, <1>b DEF AdjustDone, Goto, TypeOK
    <2> QED
        BY <2>1, <2>2 DEF BoundOK, ThreadCountBounded, ResizeLabels
<1>14. ASSUME NEW c \in Clients, WaitFree(c) \/ WaitExpire(c) PROVE BoundOK'
    <2>1. UNCHANGED << lock, threads, maxCount, target >>
        BY <1>14 DEF WaitFree, WaitExpire, implVars
    <2>2. \E l : Goto(c, l) /\ l \notin ResizeLabels
        BY <1>14, LetGoGoes DEF WaitFree, WaitExpire, JoinLabels, ResizeLabels
    <2> QED
        BY <2>1, <2>2, <1>2
<1>15. ASSUME NEW c \in Clients, DestroyThread(c) PROVE BoundOK'
    <2>1. UNCHANGED << lock, maxCount, target >> /\ Len(threads') = Len(threads) - 1
        BY <1>15, <1>a, TailSet, PoolSequences DEF DestroyThread
    <2>2. PICK l : Goto(c, l) /\ l \notin ResizeLabels
        BY <1>15, LetGoGoes DEF DestroyThread, JoinLabels
    <2>3. \A d \in Clients : pc'[d] \in ResizeLabels => pc[d] \in ResizeLabels
        BY <2>2, <1>a, <1>b DEF Goto, TypeOK
    <2> QED
        BY <2>1, <2>3, <1>d DEF BoundOK, ThreadCountBounded
<1>16. ASSUME NEW c \in Clients,
              \/ Wait(c) \/ WaitScan(c) \/ WaitSpin(c) \/ WaitReturn(c) \/ Destroy(c)
              \/ StopScheduler(c) \/ JoinScheduler(c) \/ DestroyDone(c)
       PROVE  BoundOK'
    BY <1>16, <1>2
       DEF Wait, WaitScan, WaitSpin, WaitReturn, Destroy, StopScheduler, JoinScheduler,
           DestroyDone, implVars, ResizeLabels
<1> QED
    BY <1>1, <1>3, <1>4, <1>5, <1>6, <1>7, <1>8, <1>9, <1>10, <1>11, <1>12, <1>13, <1>14, <1>15, <1>16
       DEF Next, WorkerStep, SchedulerStep, ClientStep, ClientCall, Terminated,
           WorkerSubmit, Run, Procs, vars, implVars, callVars,
           WorkerWake, WorkerFinish, WorkerReset, WorkerFree, WorkerNotify

\* A pool that one thread resizes never has more threads than its limit.
\* (run, scheduler_loop, set_thread_count, set_max_thread_count.)
THEOREM PoolKeepsLimit ==
    ShrinkWhenBusy = FALSE /\ OneAdjuster => (SafetySpec => []ThreadCountBounded)
<1> SUFFICES ASSUME ShrinkWhenBusy = FALSE, OneAdjuster
             PROVE  SafetySpec => []ThreadCountBounded
    OBVIOUS
<1>1. Init => BoundOK
    <2> SUFFICES ASSUME Init PROVE BoundOK
        OBVIOUS
    <2>1. Len(threads) <= maxCount
        BY PoolAssumption DEF Init
    <2>2. \A c \in Clients : pc[c] = "idle"
        BY PoolAssumption DEF Init, Procs
    <2> QED
        BY <2>1, <2>2 DEF BoundOK, ThreadCountBounded, ResizeLabels
<1>2. PoolInv /\ BoundOK /\ [Next]_vars => BoundOK'
    BY NextBoundOK
<1>3. BoundOK => ThreadCountBounded
    BY DEF BoundOK
<1> QED
    BY <1>1, <1>2, <1>3, PoolInvariant, PTL DEF SafetySpec
=============================================================================
