---------------------------- MODULE VTThreadPool ----------------------------
(***************************************************************************)
(* VT::ThreadPool of src/VTThreadPool.cpp: client threads that submit      *)
(* work, resize, wait for and destroy a pool; its scheduler thread, which  *)
(* hands queued work to free workers; and the worker threads.              *)
(*                                                                         *)
(* The Events are used as EventSpec describes them (VTEvent.tla is checked *)
(* and proved to implement it): signal, reset and the return of wait are   *)
(* atomic.  A section under Impl::lock_ that never blocks is one action,   *)
(* enabled while nobody holds the lock; adjust_thread_count, which joins   *)
(* threads, holds it over several steps.  Inside such a section the code   *)
(* scans the threads' free_ flags one by one.  Those flags only rise while *)
(* the lock is held by the scanner, so the scan is equivalent to a look at *)
(* one instant; which of several matching threads it takes is left open.   *)
(***************************************************************************)
EXTENDS Integers, SequencesExt

CONSTANTS Tasks,           \* the calls of run() there will be
          Children,        \* Children[t]: the tasks that task t itself submits
          Clients,         \* the threads that use the pool
          Adjusters,       \* those that call set_thread_count and set_max_thread_count
          Workers,         \* identities for WorkerThread objects
          Scheduler,       \* Impl::thread_
          ThreadCount,     \* the constructor's arguments
          MaxThreadCount,
          MaxLimit,        \* bound on the argument of set_max_thread_count
          AdjustBound,     \* bound on the number of resizing calls
          ShrinkWhenBusy,  \* may the pool be shrunk while it has work?
          None

Procs == Clients \cup {Scheduler}

ASSUME PoolAssumption ==
    /\ Children \in [Tasks -> SUBSET Tasks]
    /\ Adjusters \subseteq Clients
    /\ Scheduler \notin Clients
    /\ None \notin Tasks \cup Workers \cup Procs
    /\ ThreadCount \in Nat /\ MaxThreadCount \in Nat \ {0} /\ MaxLimit \in Nat
    /\ ThreadCount <= MaxThreadCount /\ MaxThreadCount <= MaxLimit
    /\ AdjustBound \in Nat
    /\ ShrinkWhenBusy \in BOOLEAN

VARIABLES
    queue, threads, maxCount, dead,  \* Impl's members
    lock,                            \* Impl::lock_: its holder or None
    hasQueue, hasFree,               \* has_queue_ and has_free_threads_
    wpc, work, terminated,           \* WorkerThread: position, work_data_, terminated_
    working, free,                   \* its events working_ and free_
    pc,                              \* where each client and the scheduler is
    ref,                             \* the shared_ptr<WorkerThread> it holds, or None
    target,                          \* the count a client passed to set_*_count
    destroyer,                       \* the client inside ~ThreadPool, or None
    status,                          \* what became of each task
    adjusts                          \* resizing calls so far

implVars == << queue, threads, maxCount, dead, lock, hasQueue, hasFree >>
workerVars == << wpc, work, terminated, working, free >>
callVars == << pc, ref, target, destroyer, adjusts >>
vars == << implVars, workerVars, callVars, status >>

WorkerLabels == {"absent", "idle", "run", "reset", "free", "notify", "exited"}
SchedulerLabels == {"waitQueue", "resetFree", "dispatch", "release",
                    "schedulerJoin", "waitFree", "exited"}
ClientLabels == {"idle", "lockCount", "adjust", "trimJoin", "wait", "blocked",
                 "waitJoin", "expiredJoin", "allDone", "stopScheduler",
                 "joinScheduler", "destroyThreads", "destroyJoin", "destroyed"}
Statuses == {"new", "accepted", "resolved", "broken"}

\* Where a process goes on after the join of a worker it let go last.
AfterJoin == [trimJoin |-> "adjust", waitJoin |-> "wait", expiredJoin |-> "idle",
              destroyJoin |-> "destroyThreads", schedulerJoin |-> "waitQueue"]

Roots == {t \in Tasks : \A u \in Tasks : t \notin Children[u]}

\* Every variable has its type; max_thread_count_ is never 0.
TypeOK ==
    /\ queue \in Seq(Tasks)
    /\ threads \in Seq(Workers)
    /\ maxCount \in 1..MaxLimit
    /\ dead \in BOOLEAN
    /\ lock \in Clients \cup {None}
    /\ hasQueue \in BOOLEAN /\ hasFree \in BOOLEAN
    /\ wpc \in [Workers -> WorkerLabels]
    /\ work \in [Workers -> Tasks \cup {None}]
    /\ terminated \in [Workers -> BOOLEAN]
    /\ working \in [Workers -> BOOLEAN]
    /\ free \in [Workers -> BOOLEAN]
    /\ pc \in [Procs -> SchedulerLabels \cup ClientLabels]
    /\ pc[Scheduler] \in SchedulerLabels
    /\ \A c \in Clients : pc[c] \in ClientLabels
    /\ ref \in [Procs -> Workers \cup {None}]
    /\ target \in [Clients -> 0..MaxLimit]
    /\ destroyer \in Clients \cup {None}
    /\ status \in [Tasks -> Statuses]
    /\ adjusts \in 0..AdjustBound

\* ThreadPool's constructor: Impl, then set_thread_count(ThreadCount).
Init ==
    /\ queue = << >>
    /\ threads \in {s \in [1..ThreadCount -> Workers] : IsInjective(s)}
    /\ maxCount = MaxThreadCount
    /\ dead = FALSE
    /\ lock = None
    /\ hasQueue = FALSE
    /\ hasFree = (threads # << >>)
    /\ wpc = [w \in Workers |-> IF w \in ToSet(threads) THEN "idle" ELSE "absent"]
    /\ work = [w \in Workers |-> None]
    /\ terminated = [w \in Workers |-> FALSE]
    /\ working = [w \in Workers |-> FALSE]
    /\ free = [w \in Workers |-> w \in ToSet(threads)]
    /\ pc = [p \in Procs |-> IF p = Scheduler THEN "waitQueue" ELSE "idle"]
    /\ ref = [p \in Procs |-> None]
    /\ target = [c \in Clients |-> 0]
    /\ destroyer = None
    /\ status = [t \in Tasks |-> "new"]
    /\ adjusts = 0

-----------------------------------------------------------------------------
(* WorkerThread as its owners use it *)

Goto(p, label) == pc' = [pc EXCEPT ![p] = label]

FreeThreads == {w \in ToSet(threads) : free[w]}
BusyThreads == {w \in ToSet(threads) : ~free[w]}
Absent == {w \in Workers : wpc[w] = "absent"}

\* do_work: leave the work, lower free_, raise working_.
DoWork(w, t) == /\ work' = [work EXCEPT ![w] = t]
                /\ free' = [free EXCEPT ![w] = FALSE]
                /\ working' = [working EXCEPT ![w] = TRUE]

\* add_thread with WorkerThread's constructor, free_ apart: see the callers.
StartThread(w) == /\ wpc[w] = "absent"
                  /\ threads' = Append(threads, w)
                  /\ wpc' = [wpc EXCEPT ![w] = "idle"]
                  /\ hasFree' = TRUE

AddThread(w) == /\ StartThread(w)
                /\ free' = [free EXCEPT ![w] = TRUE]
                /\ UNCHANGED << work, terminated, working >>

\* Some process other than p, or the vector threads_ holding s, shares w.
SharedBy(p, w, s) == w \in ToSet(s) \/ \E q \in Procs \ {p} : ref[q] = w

\* The callers' side of the bargain that is being checked.
MayShrinkTo(n) ==
    n < Len(threads) => ShrinkWhenBusy \/ (queue = << >> /\ BusyThreads = {})

-----------------------------------------------------------------------------
(* Faults the runs must catch; no specification uses them. *)

\* A shared_ptr whose count is ignored: whoever lets go destroys.
LetGoUnshared(p, w, s, label) ==
    /\ Goto(p, label)
    /\ ref' = [ref EXCEPT ![p] = w]
    /\ terminated' = [terminated EXCEPT ![w] = TRUE]
    /\ working' = [working EXCEPT ![w] = TRUE]

\* terminate() that does not signal working_.
LetGoSilent(p, w, s, label) ==
    IF SharedBy(p, w, s)
    THEN /\ Goto(p, AfterJoin[label])
         /\ ref' = [ref EXCEPT ![p] = None]
         /\ UNCHANGED << terminated, working >>
    ELSE /\ Goto(p, label)
         /\ ref' = [ref EXCEPT ![p] = w]
         /\ terminated' = [terminated EXCEPT ![w] = TRUE]
         /\ UNCHANGED working

\* The scheduler forgets pop_back().
TakeCopy(w) ==
    /\ DoWork(w, Last(queue))
    /\ UNCHANGED << queue, hasQueue >>

\* free_ is raised before working_ is reset.
WorkerFinishFreesEarly(w) ==
    /\ wpc[w] = "run"
    /\ \A t \in Children[work[w]] : status[t] # "new"
    /\ status' = [status EXCEPT ![work[w]] = "resolved"]
    /\ work' = [work EXCEPT ![w] = None]
    /\ free' = [free EXCEPT ![w] = TRUE]
    /\ wpc' = [wpc EXCEPT ![w] = "reset"]
    /\ UNCHANGED << implVars, terminated, working, callVars >>

\* The worker forgets free_notify_.signal().
WorkerFreeSilent(w) ==
    /\ wpc[w] = "free"
    /\ free' = [free EXCEPT ![w] = TRUE]
    /\ wpc' = [wpc EXCEPT ![w] = "idle"]
    /\ UNCHANGED << implVars, work, terminated, working, callVars, status >>

\* set_max_thread_count(0).
SetMaxThreadCountUnchecked(c, n) ==
    /\ c \in Adjusters /\ pc[c] = "idle" /\ destroyer = None
    /\ adjusts < AdjustBound
    /\ lock = None
    /\ MayShrinkTo(n)
    /\ maxCount' = n
    /\ adjusts' = adjusts + 1
    /\ UNCHANGED << queue, threads, dead, lock, hasQueue, hasFree, workerVars,
                    pc, ref, target, destroyer, status >>

\* set_max_thread_count that leaves the threads above the limit.
SetMaxThreadCountKeeps(c, n) == n >= 1 /\ SetMaxThreadCountUnchecked(c, n)

\* wait_for_all that looks at the threads and not at the queue.
WaitScanThreadsOnly(c) ==
    /\ pc[c] = "wait"
    /\ lock = None
    /\ \/ BusyThreads = {} /\ Goto(c, "allDone") /\ UNCHANGED ref
       \/ /\ \E w \in BusyThreads : ref' = [ref EXCEPT ![c] = w]
          /\ Goto(c, "blocked")
    /\ UNCHANGED << implVars, workerVars, target, destroyer, adjusts, status >>

\* A destructor that does not wait for the work.
DestroyAtOnce(c) ==
    /\ destroyer = None
    /\ \A d \in Clients : pc[d] = "idle"
    /\ destroyer' = c
    /\ Goto(c, "stopScheduler")
    /\ UNCHANGED << implVars, workerVars, ref, target, adjusts, status >>

\* ~Impl without has_queue_.signal().
StopSchedulerSilent(c) ==
    /\ pc[c] = "stopScheduler"
    /\ lock = None
    /\ dead' = TRUE
    /\ Goto(c, "joinScheduler")
    /\ UNCHANGED << queue, threads, maxCount, lock, hasQueue, hasFree,
                    workerVars, ref, target, destroyer, adjusts, status >>

-----------------------------------------------------------------------------
(* The end of a WorkerThread *)

\* p lets go of w; the last one to do so runs ~WorkerThread: terminate(), then
\* join() at label.  threads_ is s from now on.
LetGo(p, w, s, label) ==
    IF SharedBy(p, w, s)
    THEN /\ Goto(p, AfterJoin[label])
         /\ ref' = [ref EXCEPT ![p] = None]
         /\ UNCHANGED << terminated, working >>
    ELSE /\ Goto(p, label)
         /\ ref' = [ref EXCEPT ![p] = w]
         /\ terminated' = [terminated EXCEPT ![w] = TRUE]
         /\ working' = [working EXCEPT ![w] = TRUE]

\* thread_.join() returns and the object goes; a promise still in work_data_
\* is destroyed unsatisfied.
Join(p) ==
    /\ pc[p] \in DOMAIN AfterJoin
    /\ LET w == ref[p] IN
         /\ wpc[w] = "exited"
         /\ wpc' = [wpc EXCEPT ![w] = "absent"]
         /\ work' = [work EXCEPT ![w] = None]
         /\ terminated' = [terminated EXCEPT ![w] = FALSE]
         /\ working' = [working EXCEPT ![w] = FALSE]
         /\ free' = [free EXCEPT ![w] = FALSE]
         /\ status' = [t \in Tasks |-> IF work[w] = t THEN "broken" ELSE status[t]]
    /\ Goto(p, AfterJoin[pc[p]])
    /\ ref' = [ref EXCEPT ![p] = None]
    /\ UNCHANGED << implVars, target, destroyer, adjusts >>

-----------------------------------------------------------------------------
(* run() *)

\* A free thread takes the work; or a new one, while there is a free slot; or
\* it is queued.
Submit(t) ==
    /\ status[t] = "new"
    /\ lock = None
    /\ status' = [status EXCEPT ![t] = "accepted"]
    /\ \/ /\ \E w \in FreeThreads : DoWork(w, t)
          /\ UNCHANGED << queue, threads, hasQueue, hasFree, wpc >>
       \/ /\ FreeThreads = {}
          /\ Len(threads) < maxCount
          /\ \E w \in Absent : StartThread(w) /\ DoWork(w, t)
          /\ UNCHANGED << queue, hasQueue >>
       \/ /\ FreeThreads = {}
          /\ Len(threads) >= maxCount
          /\ queue' = Append(queue, t)
          /\ hasQueue' = TRUE
          /\ UNCHANGED << threads, hasFree, wpc, work, working, free >>
    /\ UNCHANGED << maxCount, dead, lock, terminated, callVars >>

Run(c, t) == /\ pc[c] = "idle"
             /\ destroyer = None
             /\ t \in Roots
             /\ Submit(t)

-----------------------------------------------------------------------------
(* The worker threads *)

\* working_.wait() returns and terminated_ is read.  terminate() writes it
\* without a lock; reading it before or after that write are the two outcomes
\* of the race.
WorkerWake(w) ==
    /\ wpc[w] = "idle"
    /\ working[w]
    /\ wpc' = [wpc EXCEPT ![w] = IF terminated[w] THEN "exited" ELSE "run"]
    /\ UNCHANGED << implVars, work, terminated, working, free, callVars, status >>

\* The work itself calls run().
WorkerSubmit(w, t) ==
    /\ wpc[w] = "run"
    /\ t \in Children[work[w]]
    /\ Submit(t)

\* The work is done, with a value or an exception; the future is ready.
WorkerFinish(w) ==
    /\ wpc[w] = "run"
    /\ \A t \in Children[work[w]] : status[t] # "new"
    /\ status' = [status EXCEPT ![work[w]] = "resolved"]
    /\ work' = [work EXCEPT ![w] = None]
    /\ wpc' = [wpc EXCEPT ![w] = "reset"]
    /\ UNCHANGED << implVars, terminated, working, free, callVars >>

WorkerReset(w) ==
    /\ wpc[w] = "reset"
    /\ working' = [working EXCEPT ![w] = FALSE]
    /\ wpc' = [wpc EXCEPT ![w] = "free"]
    /\ UNCHANGED << implVars, work, terminated, free, callVars, status >>

WorkerFree(w) ==
    /\ wpc[w] = "free"
    /\ free' = [free EXCEPT ![w] = TRUE]
    /\ wpc' = [wpc EXCEPT ![w] = "notify"]
    /\ UNCHANGED << implVars, work, terminated, working, callVars, status >>

WorkerNotify(w) ==
    /\ wpc[w] = "notify"
    /\ hasFree' = TRUE
    /\ wpc' = [wpc EXCEPT ![w] = "idle"]
    /\ UNCHANGED << queue, threads, maxCount, dead, lock, hasQueue,
                    work, terminated, working, free, callVars, status >>

-----------------------------------------------------------------------------
(* scheduler_loop() *)

SchedulerWaitQueue ==
    /\ pc[Scheduler] = "waitQueue"
    /\ hasQueue
    /\ Goto(Scheduler, "resetFree")
    /\ UNCHANGED << implVars, workerVars, ref, target, destroyer, adjusts, status >>

SchedulerResetFree ==
    /\ pc[Scheduler] = "resetFree"
    /\ hasFree' = FALSE
    /\ Goto(Scheduler, "dispatch")
    /\ UNCHANGED << queue, threads, maxCount, dead, lock, hasQueue,
                    workerVars, ref, target, destroyer, adjusts, status >>

\* The newest entry of the queue goes to thread w, if there is an entry.
Take(w) ==
    IF queue # << >>
    THEN /\ DoWork(w, Last(queue))
         /\ queue' = Front(queue)
         /\ hasQueue' = (hasQueue /\ Len(queue) > 1)
    ELSE /\ free' = [free EXCEPT ![w] = TRUE]
         /\ UNCHANGED << queue, hasQueue, work, working >>

\* The locked section of the loop.
SchedulerDispatch ==
    /\ pc[Scheduler] = "dispatch"
    /\ lock = None
    /\ \/ /\ dead
          /\ Goto(Scheduler, "exited")
          /\ UNCHANGED << queue, threads, hasQueue, hasFree, workerVars, ref >>
       \/ /\ ~dead
          /\ \E w \in FreeThreads : Take(w) /\ ref' = [ref EXCEPT ![Scheduler] = w]
          /\ Goto(Scheduler, "release")
          /\ UNCHANGED << threads, hasFree, wpc, terminated >>
       \/ /\ ~dead
          /\ FreeThreads = {}
          /\ Len(threads) < maxCount
          /\ \E w \in Absent : /\ StartThread(w)
                               /\ Take(w)
                               /\ ref' = [ref EXCEPT ![Scheduler] = w]
          /\ Goto(Scheduler, "release")
          /\ UNCHANGED terminated
       \/ /\ ~dead
          /\ FreeThreads = {}
          /\ Len(threads) >= maxCount
          /\ Goto(Scheduler, "waitFree")
          /\ UNCHANGED << queue, threads, hasQueue, hasFree, workerVars, ref >>
    /\ UNCHANGED << maxCount, dead, lock, target, destroyer, adjusts, status >>

\* The end of the loop's body destroys its shared_ptr.
SchedulerRelease ==
    /\ pc[Scheduler] = "release"
    /\ LetGo(Scheduler, ref[Scheduler], threads, "schedulerJoin")
    /\ UNCHANGED << implVars, wpc, work, free, target, destroyer, adjusts, status >>

SchedulerWaitFree ==
    /\ pc[Scheduler] = "waitFree"
    /\ hasFree
    /\ Goto(Scheduler, "waitQueue")
    /\ UNCHANGED << implVars, workerVars, ref, target, destroyer, adjusts, status >>

-----------------------------------------------------------------------------
(* set_thread_count() and set_max_thread_count() *)

\* set_thread_count's assertion reads max_thread_count_ without the lock.
SetThreadCount(c, n) ==
    /\ c \in Adjusters /\ pc[c] = "idle" /\ destroyer = None
    /\ adjusts < AdjustBound
    /\ n <= maxCount
    /\ target' = [target EXCEPT ![c] = n]
    /\ adjusts' = adjusts + 1
    /\ Goto(c, "lockCount")
    /\ UNCHANGED << implVars, workerVars, ref, destroyer, status >>

LockThreadCount(c) ==
    /\ pc[c] = "lockCount"
    /\ lock = None
    /\ MayShrinkTo(target[c])
    /\ lock' = c
    /\ Goto(c, "adjust")
    /\ UNCHANGED << queue, threads, maxCount, dead, hasQueue, hasFree,
                    workerVars, ref, target, destroyer, adjusts, status >>

SetMaxThreadCount(c, n) ==
    /\ c \in Adjusters /\ pc[c] = "idle" /\ destroyer = None
    /\ adjusts < AdjustBound
    /\ lock = None
    /\ n >= 1
    /\ MayShrinkTo(n)
    /\ maxCount' = n
    /\ adjusts' = adjusts + 1
    /\ IF n < Len(threads)
       THEN /\ lock' = c
            /\ target' = [target EXCEPT ![c] = n]
            /\ Goto(c, "adjust")
       ELSE UNCHANGED << lock, target, pc >>
    /\ UNCHANGED << queue, threads, dead, hasQueue, hasFree, workerVars,
                    ref, destroyer, status >>

\* The two loops of adjust_thread_count, one action per iteration.
AdjustGrow(c) ==
    /\ pc[c] = "adjust"
    /\ target[c] > Len(threads)
    /\ \E w \in Absent : AddThread(w)
    /\ UNCHANGED << queue, maxCount, dead, lock, hasQueue, callVars, status >>

AdjustTrim(c) ==
    /\ pc[c] = "adjust"
    /\ target[c] < Len(threads)
    /\ threads' = Front(threads)
    /\ LetGo(c, Last(threads), Front(threads), "trimJoin")
    /\ UNCHANGED << queue, maxCount, dead, lock, hasQueue, hasFree,
                    wpc, work, free, target, destroyer, adjusts, status >>

AdjustDone(c) ==
    /\ pc[c] = "adjust"
    /\ target[c] = Len(threads)
    /\ lock' = None
    /\ Goto(c, "idle")
    /\ UNCHANGED << queue, threads, maxCount, dead, hasQueue, hasFree,
                    workerVars, ref, target, destroyer, adjusts, status >>

-----------------------------------------------------------------------------
(* wait_for_all() *)

Wait(c) ==
    /\ pc[c] = "idle" /\ destroyer = None
    /\ Goto(c, "wait")
    /\ UNCHANGED << implVars, workerVars, ref, target, destroyer, adjusts, status >>

\* The locked section: is there a thread at work, is there work in the queue?
WaitScan(c) ==
    /\ pc[c] = "wait"
    /\ lock = None
    /\ \/ /\ BusyThreads = {} /\ queue = << >>
          /\ Goto(c, "allDone")
          /\ UNCHANGED ref
       \/ /\ BusyThreads = {} /\ queue # << >>
          /\ Goto(c, "blocked")
          /\ UNCHANGED ref
       \/ /\ \E w \in BusyThreads : ref' = [ref EXCEPT ![c] = w]
          /\ Goto(c, "blocked")
    /\ UNCHANGED << implVars, workerVars, target, destroyer, adjusts, status >>

\* With no thread at work there is nothing to block on: look again.
WaitSpin(c) ==
    /\ pc[c] = "blocked"
    /\ ref[c] = None
    /\ Goto(c, "wait")
    /\ UNCHANGED << implVars, workerVars, ref, target, destroyer, adjusts, status >>

\* thread->wait() returns true; the shared_ptr is dropped without the lock.
WaitFree(c) ==
    /\ pc[c] = "blocked"
    /\ ref[c] # None
    /\ free[ref[c]]
    /\ LetGo(c, ref[c], threads, "waitJoin")
    /\ UNCHANGED << implVars, wpc, work, free, target, destroyer, adjusts, status >>

\* The time is up, in wait_for_all or in thread->wait().  The destructor's
\* wait_for_all has no timeout.
WaitExpire(c) ==
    /\ pc[c] = "blocked"
    /\ c # destroyer
    /\ IF ref[c] = None
       THEN Goto(c, "idle") /\ UNCHANGED << ref, terminated, working >>
       ELSE LetGo(c, ref[c], threads, "expiredJoin")
    /\ UNCHANGED << implVars, wpc, work, free, target, destroyer, adjusts, status >>

WaitReturn(c) ==
    /\ pc[c] = "allDone"
    /\ Goto(c, IF c = destroyer THEN "stopScheduler" ELSE "idle")
    /\ UNCHANGED << implVars, workerVars, ref, target, destroyer, adjusts, status >>

-----------------------------------------------------------------------------
(* ~ThreadPool() and ~Impl() *)

\* The destructor, called as C++ requires it: no other client is inside the
\* pool or will enter it.  It first waits for all work.
Destroy(c) ==
    /\ destroyer = None
    /\ \A d \in Clients : pc[d] = "idle"
    /\ destroyer' = c
    /\ Goto(c, "wait")
    /\ UNCHANGED << implVars, workerVars, ref, target, adjusts, status >>

StopScheduler(c) ==
    /\ pc[c] = "stopScheduler"
    /\ lock = None
    /\ dead' = TRUE
    /\ hasQueue' = TRUE
    /\ Goto(c, "joinScheduler")
    /\ UNCHANGED << queue, threads, maxCount, lock, hasFree,
                    workerVars, ref, target, destroyer, adjusts, status >>

\* Impl's members go in reverse order of declaration: thread_, lock_, the two
\* events, the queue with the promises in it; the vector of threads is next.
JoinScheduler(c) ==
    /\ pc[c] = "joinScheduler"
    /\ pc[Scheduler] = "exited"
    /\ queue' = << >>
    /\ status' = [t \in Tasks |-> IF t \in ToSet(queue) THEN "broken" ELSE status[t]]
    /\ Goto(c, "destroyThreads")
    /\ UNCHANGED << threads, maxCount, dead, lock, hasQueue, hasFree,
                    workerVars, ref, target, destroyer, adjusts >>

DestroyThread(c) ==
    /\ pc[c] = "destroyThreads"
    /\ threads # << >>
    /\ threads' = Tail(threads)
    /\ LetGo(c, Head(threads), Tail(threads), "destroyJoin")
    /\ UNCHANGED << queue, maxCount, dead, lock, hasQueue, hasFree,
                    wpc, work, free, target, destroyer, adjusts, status >>

DestroyDone(c) ==
    /\ pc[c] = "destroyThreads"
    /\ threads = << >>
    /\ Goto(c, "destroyed")
    /\ UNCHANGED << implVars, workerVars, ref, target, destroyer, adjusts, status >>

-----------------------------------------------------------------------------
\* Steps threads take by themselves, inside the pool.
WorkerStep(w) ==
    \/ WorkerWake(w) \/ WorkerFinish(w) \/ WorkerReset(w) \/ WorkerFree(w)
    \/ WorkerNotify(w)
    \/ \E t \in Tasks : WorkerSubmit(w, t)

SchedulerStep ==
    \/ SchedulerWaitQueue \/ SchedulerResetFree \/ SchedulerDispatch
    \/ SchedulerRelease \/ SchedulerWaitFree \/ Join(Scheduler)

ClientStep(c) ==
    \/ LockThreadCount(c) \/ AdjustGrow(c) \/ AdjustTrim(c) \/ AdjustDone(c)
    \/ WaitScan(c) \/ WaitSpin(c) \/ WaitFree(c) \/ WaitReturn(c)
    \/ StopScheduler(c) \/ JoinScheduler(c) \/ DestroyThread(c) \/ DestroyDone(c)
    \/ Join(c)

\* What clients choose to do, and the clock.
ClientCall(c) ==
    \/ \E t \in Tasks : Run(c, t)
    \/ \E n \in 0..MaxLimit : SetThreadCount(c, n) \/ SetMaxThreadCount(c, n)
    \/ Wait(c)
    \/ WaitExpire(c)
    \/ Destroy(c)

\* The pool is gone and nothing is left to happen.
Terminated == /\ \E c \in Clients : pc[c] = "destroyed"
              /\ UNCHANGED vars

Next == \/ \E w \in Workers : WorkerStep(w)
        \/ SchedulerStep
        \/ \E c \in Clients : ClientStep(c) \/ ClientCall(c)
        \/ Terminated

\* Every thread that can take a step of its own eventually does; work ends.
Fairness == /\ \A w \in Workers : WF_vars(WorkerStep(w))
            /\ WF_vars(SchedulerStep)
            /\ \A c \in Clients : WF_vars(ClientStep(c))

SafetySpec == Init /\ [][Next]_vars

Spec == SafetySpec /\ Fairness

-----------------------------------------------------------------------------
(* Safety *)

\* No accepted work is lost or doubled: it is in the queue once or with one
\* worker, and only accepted work is.  (run, scheduler_loop, worker.)
WorkInOnePlace ==
    \A t \in Tasks :
        LET inQueue == {i \in DOMAIN queue : queue[i] = t}
            withWorker == {w \in Workers : work[w] = t}
        IN  Cardinality(inQueue) + Cardinality(withWorker)
              = IF status[t] = "accepted" THEN 1 ELSE 0

\* has_queue_ is up exactly while there is something for the scheduler to do.
\* (run, scheduler_loop, ~Impl.)
HasQueueOK == hasQueue <=> (queue # << >> \/ dead)

\* The scheduler does not sleep through a thread becoming free: while it waits
\* for has_free_threads_ and the event is down, every free thread of the pool
\* has yet to signal the event, and some worker has.  (scheduler_loop, worker.)
WillNotify(w) == \/ wpc[w] \in {"run", "reset", "free", "notify"}
                 \/ wpc[w] = "idle" /\ working[w] /\ ~terminated[w]

SchedulerNotStranded ==
    pc[Scheduler] = "waitFree" /\ ~hasFree =>
        /\ \A w \in FreeThreads : wpc[w] = "notify"
        /\ \E w \in Workers : WillNotify(w)

\* A parked worker that has work, or has been told to end, has working_ up:
\* neither do_work nor terminate is swallowed.  (worker, do_work, terminate.)
NoLostSignal ==
    \A w \in Workers :
        wpc[w] = "idle" /\ (work[w] # None \/ terminated[w]) => working[w]

\* Every future becomes ready by its work: no promise is destroyed first.
\* (~ThreadPool waits for all; trimming joins the worker.)
NoBrokenPromise == \A t \in Tasks : status[t] # "broken"

\* "thread count can't grow larger then max_thread_count" (VTThreadPool.h:18),
\* whenever the pool is unlocked.
ThreadCountBounded == lock = None => Len(threads) <= maxCount

\* A WorkerThread somebody can reach exists: shared by the pool, the scheduler
\* and waiting clients, it is destroyed once, by the last.
NoDanglingThread ==
    \A w \in ToSet(threads) \cup {ref[p] : p \in Procs} : w # None => wpc[w] # "absent"

\* has_free_threads_ is destroyed only after the last use of it by a worker.
NoUseAfterDestroy ==
    \A c \in Clients :
        pc[c] \in {"destroyThreads", "destroyJoin", "destroyed"} =>
            \A w \in Workers : wpc[w] \in {"absent", "idle", "exited"}

\* The number of threads grows when needed (VTThreadPool.h:17): the scheduler
\* does not sleep on queued work while there is a free slot.
GrowsWhenNeeded ==
    ~ /\ pc[Scheduler] = "waitFree" /\ ~hasFree
      /\ lock = None
      /\ Len(threads) < maxCount

\* wait_for_all returns true only if all work accepted so far has ended.
WaitForAllSound ==
    [][\A c \in Clients : pc[c] = "wait" /\ pc'[c] = "allDone" =>
           \A t \in Tasks : status[t] # "accepted"]_vars

-----------------------------------------------------------------------------
(* Liveness *)

\* Accepted work is done, queued or not.
WorkGetsDone == \A t \in Tasks : status[t] = "accepted" ~> status[t] = "resolved"

\* "this operation may cause a wait for threads to finish" (VTThreadPool.h:21):
\* a wait, which ends.
ResizingReturns == \A c \in Clients : pc[c] \in {"adjust", "trimJoin"} ~> pc[c] = "idle"

\* ~ThreadPool comes to its end.
DestructionEnds == \A c \in Clients : destroyer = c ~> pc[c] = "destroyed"
=============================================================================
