# Verification of vtutils

`vtutils` is a library of C++ utilities. Its parts are mostly independent; the
ones whose correctness depends on the order of events are built on one
another: `Executer` and `ThreadPool` on `Event`, `StopGuard` on `Cs`,
`VectorGraph` on `SortedVectorMap`. This directory holds TLA+ models of those
parts, the TLC runs that check them and the TLAPS proofs about them.
`PROJECT.json` lists the components, runs, theorems, findings and hazards, and
says for every definition which lines of the source it models.

## 1. Inventory

| Component | State | Operations | Interacts with | Hard parts | Correct when |
|---|---|---|---|---|---|
| `Event` (`VTEvent.hpp`) | atomic flag, mutex, condition variable | signal, reset, wait (with timeout) | any threads | unlocked reads and resets, deadlines, spurious wakeups | looks like one atomic flag; loses no wakeup |
| `ThreadPool` (`VTThreadPool.cpp`) | workers, queue, limit, two events and a lock; per worker two events, its work, `terminated_` | run, wait_for_all, set_thread_count, set_max_thread_count, destruction | Event, client threads | three kinds of threads, joins under a lock, shared ownership, order of destruction | every accepted work is done once; nothing sleeps through its signal; the limit holds; destruction ends |
| `ThreadSafeQueue` (`VTThreadSafeQueue.h`) | queue, mutex, condition variable | push, pop, empty | producers, consumers | notification after the unlock | atomic first-in first-out queue; no item stranded |
| `Executer` (`VTExecuter.cpp`) | thread, `stop_` event, interval, function | construction, destruction | Event | deadline against signal, exceptions | keeps calling; at most one call after the stop signal; destruction ends |
| `NtService` (`VTNtService.cpp`) | status, stopped event, command line, registry | ServiceMain, control handler, stop, watchdog; install, uninstall, start, stop; main | service control manager, several tools | three threads report status without a lock; polls of a state others change; a command line's way through the registry | a stop is reported, is not taken back and ends the process; exit codes tell the truth; options arrive |
| `Daemon` (`VTDaemonLin.cpp`) | processes, signal handlers, `g_quit` | main, daemonize, on_signal, wait_for_signal | kernel, init | signals against deadline, pid of a dead parent, handlers installed late | the parent's exit status tells whether the daemon runs |
| `GlobalVar` (`VTOSProcess*.cpp`) | Linux: file with a counter, flock; Windows: mapping, mutex | lock, unlock, reference, dereference, is_set | other users of the name | lock per open file, width of the counter, files of dead processes, handles left open | a lock that excludes and a counter that loses nothing |
| `Pool`, `SSAllocator`, `Allocator` (`VTAllocator.h`) | free list, chunks, count; blocks | alloc, free, grow, clear | containers | freeing all chunks at count zero | what a caller has is its own |
| `SortedVectorMap`, `Graph`, `VectorGraph` | map or vector of nodes, incidence lists | add_node, add_edge, get_edge_data, neighbors, sort | one another | a lookup that returns the lower bound, additions that double keys | both are the same directed graph, the vector for callers that keep what it needs |
| search (`VTSearch.h`) | queue or open set, closed set, scores | breadth first, depth first, A* | Graph | minimum search, nodes closed for good, edges to nodes never added | finds a way if there is one; the cheapest |
| `PTree`, `PList` (`VTPersistent*.hpp`) | immutable nodes | insert, member, forEach; insertAt, fmap, filter, folds ... | | rebalancing | red-black invariants, the set or sequence meant |
| `SafeSprintf`, string helpers | format split in pieces | split_format, worker, join; tsplit, trim | | doubled braces | the header's description |
| `Logger` (`VTCPPLogger.cpp`) | levels, streams, shared file, manager's table | log, set_stream, levels, copies, get_logger, set_logger | threads, static destruction | level and stream read one after the other, copies | no write to a closed file; messages arrive once, in order |
| XML wrapper (`VTrapidxml_wrap.hpp`) | document and who owns it, current node, iterator | read, use_document, find, create, get, set, append, `++` | rapidxml | failed parse, borrowed documents | what is set is found; a document goes once |
| Encoding conversion (`VTEncodeConvertLin.cpp`) | buffer, positions | convert_helper | iconv | growth by an estimate | all is converted, never past the buffer |
| File utilities (`VTFileUtilLin.cpp`) | file system, a descriptor | ensure_path_exist, delete_file_folder, Open, Create, Close | OS, other processes | races with other processes, `.` and `..` | answers are true; one descriptor is open |
| Win32 wrappers (`fn_win32.h`) | handles; critical section and its counter; count and event | attach, detach, close, copy; lock, try_lock, unlock; acquire, release | Windows | exchange of handles, a counter beside the section, count and event | each handle has one owner; the waiter is let through when all is released |

Timers, dynamic libraries, process information, assertions, the pretty printer
and the remaining string helpers keep no state across calls whose order
matters; they are left out as I/O, formatting or pure one-liners.

## 2. Modules

### EventSpec and VTEvent

`EventSpec` is what callers of an event rely on: a flag that `Raise` and
`Lower` change, and waits that return `true` at an instant at which the flag
is up and `false` (timed waits only) at one at which it is down.

`VTEvent` is the code, one action per step another thread can observe:
`signal()` is `SignalCheck` (the unlocked look), `SignalStore` (mutex taken,
flag set) and `SignalNotify` (notify_all, mutex released); `reset()` is one
unlocked store; `wait()` goes from `WaitCall` through `WaitEnter`,
`WaitPredicate`, `WaitBlock` and `WaitResume`, with `WaitExpire` and
`WaitGiveUp` for a deadline, and spurious wakeups. A `signal()` that finds the
flag up and returns at once changes nothing, and is no action.

### VTThreadPool (instances in MCVTThreadPool)

Clients, the scheduler and the workers each have a position (`pc`, `wpc`).
`queue`, `threads`, `maxCount`, `dead`, `lock`, `hasQueue`, `hasFree` are
Impl's members; `work`, `terminated`, `working`, `free` a worker's. `ref[p]` is
the `shared_ptr` a process holds outside the vector: `wait_for_all` and the
scheduler keep workers alive that way, and whoever drops the last one runs
`~WorkerThread` (`LetGo`, `Join`). Events are used as `EventSpec` allows.

* `run` is `Submit`, by a client (`Run`) or by running work (`WorkerSubmit`).
* A worker is `WorkerWake`, `WorkerFinish`, `WorkerReset`, `WorkerFree`,
  `WorkerNotify`: lines 99 to 119 of the source, one action per effect another
  thread can see. Work that throws differs from work that returns only in what
  its future holds, so both are `WorkerFinish`.
* The scheduler's loop is `SchedulerWaitQueue`, `SchedulerResetFree`,
  `SchedulerDispatch` (its locked section), `SchedulerRelease`,
  `SchedulerWaitFree`.
* `adjust_thread_count` holds the lock over the steps of its two loops:
  `AdjustGrow`, `AdjustTrim`, `Join`, `AdjustDone`.
* `wait_for_all` is `Wait`, `WaitScan`, then `WaitSpin`, `WaitFree`,
  `WaitExpire` or `WaitReturn`. Any wait of a client may time out; one with no
  timeout is one whose `WaitExpire` never happens.
* The destructor is `Destroy` (which waits for all), `StopScheduler`,
  `JoinScheduler`, `DestroyThread`, `DestroyDone`. As C++ demands, no other
  client is inside the pool, though running work may still submit work.

`ShrinkWhenBusy` says whether clients may shrink a pool that has work. The code
does not survive that (see the findings), so the runs that must pass keep to
pools whose workers are all free and whose queue is empty, a condition the
model tests when the lock is taken. The runs that must fail drop it.

Left out: the values of futures, `thread_count` and `max_thread_count` (reads),
exceptions thrown by thread creation, tasks that call the pool's
`wait_for_all` or resize it.

### QueueSpec and VTThreadSafeQueue

A queue with atomic operations, and the code's push (enqueue under the mutex,
`NotifyOne` without it) and pop (the loop round `cond_.wait`).

### VTExecuter

The Executer's worker and owner composed with `VTEvent` as its event `stop_`:
`WorkerWait` and `Delete` enter the event's operations and `InStop`, `Deadline`
and `Spurious` are the event's own steps, so the function's last call, the
deadline and the stop signal interleave as in the code.

### VTNtService, VTNtServiceControl and VTNtServiceArgs (instances in MCNtService)

`VTNtService` is a running service. `ServiceMain`, the control handler and each
watchdog are threads; all call `reportStatus`, which is four steps
(`ReportAccepted`, `ReportState`, `ReportEvent`, `ReportSend`) on the shared
`m_status` (`current`, `accepted`) and `m_stoppedEvent` (`stopped`), the last of
which hands the manager (`scm`) what `m_status` holds at that instant. The other
actions are the code between two reports. The manager, `run()` and `stop()` of
the derived class are the environment: the manager sends controls, `run()`
returns when it has been asked to, or on its own where `SelfEnding`.

`VTNtServiceControl` is `--install`, `--uninstall`, `--start` and `--stop` by
several tools at once. A call of the manager is one step and may fail;
`PollStart` and `PollStop` are the loops that wait for a state.
`VTNtServiceArgs` is a command line: `main` sorts it word by word, installation
stores it (in bytes) and `ServiceMain` reads it back (in characters), or does not
(`ServiceMainReadsNothing`: the key cannot be opened or the value not be read).

### VTDaemon

Parent and child of `daemonize`, each with its handlers and pending signals.
The parent is `Main`, `Daemonize`, `Fork`, `Alarm` (the call, and the pause that
follows), the child `GetParent`, `Detach`, `Tell`, and the process that runs on
`SetHandlers`, `RunEnds`, `OnSignal`, `WaitForSignal`. `Handle` delivers a
signal by whatever handler is in force, `AlarmRings` and `Terminate` are the
clock and a user. `MayBeSlow` says whether a child may outlast the alarm.

### GlobalVarSpec, VTOSProcessLin and VTOSProcessWin

`GlobalVarSpec` is what callers rely on: a lock that one thread holds, and a
counter. `VTOSProcessLin` has a file per process number, `flock` per open file,
and the conversion of the counter to bytes and back with the shifts of the code
(`ToBuf`, `FromBuf`; `Base` values to a byte, `IntBytes` bytes to an int).
`Restart` is a process that dies, at any point, and another that gets its
number. `VTOSProcessWin` has a mapping that lives as long as a handle on it, and
a mutex that nests. Both refine `GlobalVarSpec`.

### VTWin32Handle, VTWin32Cs and VTWin32StopGuard

`Handle`'s `attach`, `detach` and `close` exchange the handle atomically, its
assignment does not: `Duplicate`, `CloseOld`, `Store`. Threads do all of this with
the same objects at once. `crossed` records that a handle was put into an object
while another thread's assignment to it was between its close and its store; no
guard reads it. The system reuses the numbers of closed handles. `Cs` counts its locks beside the system's section and
its destructor leaves as often as that. `StopGuard` composes with `Cs`
(`Section`): `release` is `Enter`, `Locked`, `Add`, `Signal`, `Unlock`, `Leave`.
MCPlatform instantiates these, the daemon and both `GlobalVar`s.

### VTCPPLogger

Threads with a logger each, one shared logger that nobody changes (as the header
asks), and the manager's one entry. A message goes level by level and stream by
stream (`LogWorker` to `WriteStream`); copies share the file, which closes with
the last of them. `Joined` says whether threads end before static objects go.

### VTAllocator, VTPersistentTree, VTPersistentList, VTGraph, VTSearch, VTXmlDoc, VTEncodeConvert, VTSafeSprintf, VTFileUtilLin

One thread's data structures and algorithms, collected in `Library` and `MCLibrary`. `VTAllocator` has `Pool` as `SSAllocator` uses it and the older
`Allocator`. The persistent containers are values, their operations the
source's recursions as recursive functions, and every sequence of operations up
to a bound is taken. `VTGraph` is either graph against `GraphSpec` (a
set of nodes and a set of edges with their data), without any condition on the
calls: the vector takes a node twice, is searched before it is sorted, and answers
with whatever its lower bound comes to. `strayed` records that a caller once did what
the vector does not bear; no guard reads it. `VTSearch` runs each search step by step on
every graph, in either order of neighbours; an edge may lead to a node that was never
added (`absent`), whose neighbours cannot be had (`Throws`), and `Current` is the
code's search for a minimum, with the node of the turn before where no score is less
than `MaxInt`. `VTXmlDoc` keeps rapidxml's tree, who owns the document and what
points into it. `VTEncodeConvert` is the loop round `iconv` with the positions
in the buffer; a use of it is a hint and the characters that it may meet, each of
them its bytes before and after. `VTSafeSprintf` runs on every short string. `VTFileUtilLin` works
on a small tree, to which another process adds folders between the code's look
and its call.

The composing modules (`MCNtService`, `MCPlatform`, `Library`, `MCLibrary`)
choose a part with `part` and take steps of that part only. Their components
share no state in the code, so an interleaving of two of them would show nothing,
and the state spaces add up instead of multiplying. Their bounds are CONSTANTS,
given values in the configurations, so that the proofs speak of all values.
`Library` holds the parts that the proofs treat: allocators, loggers, graphs,
searches, documents, files and conversions. Their constants have assumptions: nodes of a graph are
numbers, and there are finitely many for a search to go through; a key is a path of
names, with or without an attribute; paths of files are written without `.` and `..`,
and the folders above each are among them; a character takes a byte at least, and seven
at most once it is converted. `MCLibrary` extends it with the containers and format
strings, whose RECURSIVE operators the proofs must not reach.

## 3. Runs

| Run | Shows | Bounds and why they suffice |
|---|---|---|
| `event` | no wakeup lost, refinement of `EventSpec` with its fairness | 3 threads: a signaller, a resetter and a waiter at once, or two waiters and a signaller |
| `event_auto_reset` (violation) | `Event(false)` never lets a waiter go | 2 threads |
| `pool_safety` | no lost, doubled or broken work; no lost signal; limit; shared ownership; soundness of wait_for_all | 3 tasks, one submitted by another, so that queue and workers are both in use with a limit of 1 or 2; 2 resizing calls by one client beside a second client; 4 worker objects, enough for two in the pool and two more kept alive by references |
| `pool_liveness` | all work done, resizing returns, destruction ends | the same tasks, one client, one resizing call, no symmetry |
| `pool_trim_hangs` (violation) | shrinking a busy pool never returns | one task, one worker |
| `queue` | no stranded item, refinement of `QueueSpec` | 3 threads that push and pop, two items, two queued before a new push |
| `executer` | at most one late call, destruction ends, calls go on | all kinds of interval, with and without a function |
| `nt_service` | a prompt stop ends the process; with watchdogs that time out, interrogations and a `run()` that may end by itself, no report takes a stop back, `run()` alone lets watchdogs go and `ServiceMain` ends; tools that return 0 tell the truth; command lines parse as the help says | 3 watchdogs (two stops of a busy service use two), 2 tools, each with every command, and command lines of up to 3 words, enough for an option, its value and a word behind it |
| `nt_slow_stop` (violation) | a watchdog's report overwrites the final one | one stop, one timeout |
| `platform` | the parent tells the truth and does not hang; signals reach `on_signal`; both `GlobalVar`s refine their specification; no handle is closed twice, those that are open have their owner unless an assignment was crossed, and sections are given back; `StopGuard` waits for all and lets go | two SIGTERMs; two threads with an object each, a death, bytes of two bits, so that the references of two processes pass the width of a byte; three handle values for two objects; a section locked three deep; two users, two acquisitions each |
| `library` | logger files open and messages delivered; memory its own; trees, lists and graphs sound; searches, conversions, documents and files | per part, in `MCLibrary`: two threads, two files; two chunks of three elements; trees of seven values (three levels and every rotation); graphs of 3 nodes and 2 edges, a vector of up to 3 elements, so that it can hold a node twice and another out of order; searches on all subgraphs of seven arcs over five nodes, of which two (the destination is one) may not have been added, with edges that cost 1 or 3 and estimates of 0 or such as take two nodes' scores to a `MaxInt` of 13, so that the code's minimum search comes to each of its ends; four XML nodes and one value (that `set` takes the place of another value is left to `SetIsKept`, which has no bound); five characters of text; strings of four characters, too short for an anchor with index and specifier, which the model has no format for either; paths of four names. One message per thread: enough for what one message meets (copies, new streams, the other thread, the end of the program); that several arrive in order is left to the theorem, which has no bound |
| `search_best` (violation) | A* misses the cheapest way | the instance of `library` |

Symmetry is used by `pool_safety` (worker objects) and `library` and
`search_best` (threads and files of the logger), which check no liveness.

Deadlock is checked in `event`, `pool_safety`, `pool_liveness`, `queue`,
`executer` and the violations that could meet it. `pool_trim_hangs`,
`nt_service`, `platform`, `library` and `search_best` do not check it: there the
system stops when the tool, the parent, the search or the program has ended, or
(`pool_trim_hangs`) the stop is the finding. Liveness properties say there what
has to happen before.

Fairness. `VTEvent`, `VTThreadPool`, `VTThreadSafeQueue`: weak fairness of the
steps each thread takes inside a call, for the operating system schedules
threads that can run. No client is obliged to call anything, no deadline to
pass, no wakeup to be spurious. Submitted work is assumed to end. Weak fairness
is enough for the locks since the number of submissions and resizing calls is
finite in the pool; for `EventSpec`'s promise because no operation holds the
mutex for long while the flag stays up; in the queue because a full queue stops
new pushes (the bound `MaxLength`). `VTExecuter` has strong fairness for the
deadline, an instant that spurious wakeups do not move, and for the owner's
share of the event's mutex. `VTNtService`: every thread's steps, and `run()`
returns once it has been asked to; controls and timeouts may or may not come.
`VTDaemon`: processes run, signals are delivered, the alarm rings, `run()` ends
when it is told to, and the polling thread keeps polling. `VTWin32StopGuard`:
users release what they hold, and the section goes in time to a thread that asks
for it (strong fairness, since others may take it in between).

Each property comes with a mutant of a mapped definition, a plausible slip in
that code, that the same run catches; the mutants' bodies stand in the modules
under "Faults", or beside the definition. Modules hold some further properties
and faults, used while the models were built and mentioned below by name; the
number of listed runs and properties is kept to those that say most.

## 4. Findings

Where the code differs from what its comments, documents or assertions say. Four
have a run of their own (named in brackets); the others name the configuration
and the property that show them.

Threads:

1. `Event(false)`: `signal()` never stores the flag, so no wait ever returns.
   (`VTEvent.hpp:32` against the comment at line 43; `event_auto_reset`.)
2. Shrinking a busy pool hangs: `terminate()` signals an event that is still up
   and that the worker then resets; `join` waits for ever, with the lock held.
   Even a client whose futures are all ready can meet this, for a future is
   ready (line 109) before `working_` is reset (line 117). (`pool_trim_hangs`.)
3. Shrinking a busy pool drops work that was handed to a worker which has not
   woken yet. (`ThreadPoolTrimHangs.cfg`, INVARIANT `NoBrokenPromise`.)
4. `~ThreadPool` destroys `has_free_threads_` before it joins workers that may
   have it still to signal. (`ThreadPoolGrow.cfg`, INVARIANT `NoUseAfterDestroy`.)
5. `set_thread_count` tests its argument outside the lock; with two resizing
   clients the pool grows above its limit. (`ThreadPoolTwoResizers.cfg`.)
6. Raising the limit does not wake a scheduler that waits for a free thread.
   (`ThreadPoolGrow.cfg`.) All of these are configurations of `MCVTThreadPool`.
7. `LogManager` reads `self_valid_` without its lock: a thread that outlives the
   static objects uses a destroyed mutex and map. (`Library.cfg` of `MCLibrary`
   with `Joined = FALSE`, INVARIANT `NotUsedWhenDestroyed`.)
8. `StopGuard`'s `release` signals before it leaves its section, so a waiter that
   destroys the guard deletes the section under it (`StopGuardDestroy.cfg` of
   `VTWin32StopGuard`), and the default constructor does not signal the event of
   a count of zero (`Default` TRUE, INVARIANT `SignalledByCount`).

Services and processes:

9. A watchdog that times out while `ServiceMain` reports `SERVICE_STOPPED` makes
   that report say `STOP_PENDING`: the manager never hears of the stop. An
   interrogation does the same (lines 376-380), for it reports a state that it has
   read before. (`nt_slow_stop`.)
10. An interrogation that read `START_PENDING` and reports after the service has
    come up takes the service's controls away. (`NtServiceInterrogate.cfg` of
    `VTNtService`.)
11. An uninstall that fails after the stop returns 0, and a stored command line
    comes back cut in half (bytes taken for characters, twice). (`NtService.cfg`
    with PROPERTY `UninstallRemoves`, or INVARIANT `RunGetsInstalledArgs`.)
12. A daemon's child slower than the parent's alarm signals process 1
    (`Daemon.cfg` of `VTDaemon`); a SIGTERM between the parent's success and
    the daemon's `signal()` calls kills it (the same, INVARIANT `TermIsGraceful`).
13. On Linux two threads that share a `GlobalVar` both get its lock
    (`VTOSProcessLin` with `Uses` mapping both threads to one object, INVARIANT
    `StaysLocked`), and a process that gets the number of a dead one begins with
    its references (`Platform.cfg`, INVARIANT `FileCounts`).
14. A copy of a `Handle` that holds `INVALID_HANDLE_VALUE` is a valid handle of
    the process. (`Win32HandleInvalid.cfg` of `VTWin32Handle`.) And `operator=`
    closes what the object holds and then stores the copy with a plain write
    (`fn_win32.h:162-163`): a handle that another thread attaches, or stores by an
    assignment of its own, in between is overwritten and never closed. (The same
    configuration with two threads, two handles and `NothingLeaks` as its INVARIANT.)

Data (`Library.cfg` of `MCLibrary`, with the named INVARIANT):

15. A* never lowers its minimum, so it takes the last open node, and the way it
    finds need not be the cheapest. (`search_best`, `FindsOptimal`.) When all open
    nodes score `INT_MAX` or more it takes a node that it has done with, again and
    again, and never ends (`GoesOn`); when that is so at first, `current` is read
    uninitialised (`VTSearch.h:125`, excluded by `SearchAssumption`).
16. `split_format` does not halve doubled braces. (`HalvesBraces`.)
17. After a failed parse `XmlDoc`'s current node points into the deleted
    document. (`HasCurrentNode`.)
18. `delete_folder` descends into `..`, deletes what lies beside the folder, and
    never returns true. (`DeletesOnlyBelow`.)
19. `VectorGraph` does not throw "Node does not exist" (`VTGraph.h:111`) for a node
    that does not exist and is not above all others: `SortedVectorMap::find` returns the
    lower bound and nobody compares its key (`VTSortedVectorMap.h:67-75`), so the call
    reads or changes another node's edges. `add_node` of a node that exists doubles it
    and returns true (lines 55-60), where the map returns false. (PROPERTY
    `ImplementsGraphAlways`.)

Seen while the models were written, and not shown by a property:
`VTPersistentTree.hpp:166` uses `R` unqualified and does not compile when it is
instantiated; an empty XML key does not throw `xml_key_error`; `has()` looks for
the node of a key with an attribute and not for the attribute;
`ensure_path_exist` does not create the last folder of a path, fails for
absolute ones, and returns true when the deepest of the folders is a plain file, for
it asks whether something exists and not what (`FoldersEnsured` says so much);
`ServiceMain` counts the terminators up to the last character but one and stores a
pointer behind each up to the last but two, and one for the beginning
(`VTNtService.cpp:503-528`), so a value whose last character but one is no terminator
overruns `argv` by one pointer; a list of paths separated by `\0` loses all but the first to
`delete_file_folder`; a moved-from `LogWorker` would meet the assertion in
`~LogWorker` if the compiler did not elide the copy; the queue of the pool is
served from its back (line 233), so the oldest entry waits for as long as newer
ones come; each `GlobalVar` call on Windows with a count above zero leaves a
handle open (line 38).

## 5. Proofs

`VTEventProofs`: for every set of threads, the invariants of `VTEvent` and that
its steps implement those of `EventSpec`. The inductive invariant `EventInv`
adds to the type invariant that positions and the mutex agree (`MutexOK`), that
a thread about to block saw the flag down and has kept signallers out since
(`BlockOnlyUnsignaled`), and that the flag is up with threads asleep only while
a `notify_all` is on its way (`NoLostWakeup`). `MutexOK` is what makes the
second inductive, the second what makes the third.

`VTThreadSafeQueueProofs`: for every finite set of threads and every bound.
`QueueInv` adds to the type invariant that positions and the mutex agree
(`MutexOK`), that a consumer about to block found the queue empty
(`BlockOnlyEmpty`) and that a push under way has an item (`ItemOK`).
`NoStrandedItem` compares the length of the queue with the number of threads
that are bound to look at it or to notify; four counting lemmas say what each
step does to that number. The refinement of `QueueSpec` follows from the same
invariant.

`VTThreadPoolProofs`: for every set of tasks, clients, workers and every number
of resizing calls. Type correctness holds without a hypothesis. The other
theorems assume `ShrinkWhenBusy = FALSE`, that is, that the pool is shrunk only
while it is idle; without it findings 2 and 3 refute them. They rest on one inductive invariant, `PoolInv`:

* `LockOK`: the lock is held by the client inside `adjust_thread_count`;
* `WorkersOK`: what a worker's position says of `work`, `working`, `free` and
  `terminated`. A parked worker either rests (`Resting`), with `working_` up
  only to end it, or has work and `working_` up (`Assigned`): `NoLostSignal`;
* `MembersOK`: threads of the pool exist and have not been told to end; a
  thread that has left the pool is free;
* `RefsOK`: references lead to existing threads, and a thread that is being
  joined is out of the pool and shared by nobody: `NoDanglingThread`;
* `TrimOK`, `DestroyOK`: no thread is busy while threads are trimmed, nor from
  the end of the destructor's `wait_for_all` on. The second holds although work
  may submit work, since only busy workers do (`NextWorkShrinks`);
* `HasQueueOK`, `AcceptedOK` and `NoBrokenPromise`.

`WorkersOK` needs `MembersOK` (a thread that is given work is the pool's, so it
has not been told to end), `MembersOK` needs `TrimOK` and `DestroyOK` (a thread
leaves the pool only at rest), and all need `RefsOK` for the joins. So
`NoBrokenPromise` follows: a worker that is joined has ended at rest, without
work, and the queue that goes with the scheduler is empty. `WaitForAllSound`
follows from `AcceptedOK` and from the fact that a worker with work is busy and
in the pool.

Three more invariants stand on top of `PoolInv`:

* `WorkInOnePlace` is a statement about cardinalities, which no step changes in
  an obvious way. `PlacesOK` says the same without counting: entries of the
  queue differ, workers have different work, no queued work is with a worker,
  and all of it is accepted. It is inductive with `PoolInv`, and with
  `AcceptedOK` it makes one of the two sets a singleton and the other empty
  (`PlacesCounted`).
* `SchedulerNotStranded` is inductive with `PoolInv`. The scheduler falls asleep
  only in its locked section, with no free thread and at least one thread
  (`FallsAsleep`; the limit is never 0), which `WorkersOK` makes a waker. A
  thread that is let go rests, so it was not the waker (`LetGoKeepsAwake`).
* `ThreadCountBounded` needs that what a client resizes to was compared with the
  limit that holds (`BoundOK`). That is inductive when at most one client
  resizes the pool, the hypothesis `OneAdjuster` of the theorem; with two,
  `ThreadPoolTwoResizers.cfg` refutes it (finding 5).

`VTExecuterProofs`: types, and `AtMostOneLateCall` for the composition with the
detailed event. `LateOK` says that before the signal no call is late, and that
afterwards a worker bound to call (`BoundToCall`: it has left a wait with
anything but `true`) has no late call behind it. A wait that returns while the
event is signaled returns `true` (`StopBindsNoCall`), so nothing binds the
worker again.

`NtServiceProofs`: for every set of watchdogs and of tools, every choice of
controls, and any number of stops, interrogations and timeouts.

* `WatchdogsGuard`. What lets a watchdog go is the event behind `m_stoppedEvent`,
  raised by a report of `SERVICE_STOPPED`. `StopIsOver` follows that word to where
  it can come from: until `run()` has ended it is not in `m_status`, in no
  argument of a report under way and not behind the event. `m_status` is in it
  since an interrogation copies it from there into a report of its own.
* `StopsAreNotTakenBack`, with all reports, interrogations and timeouts overlapping.
  `ReportersOK` says who reports what where it is; `EarlyOK` that nobody speaks of
  `SERVICE_RUNNING` before `ServiceMain` has stored it, and nobody stops the service
  till then; `StoppingOK` that from the stop's control on `m_status` says that the
  service stops, and so does every report that has still to store its state. A report
  that has stored `SERVICE_RUNNING` and not yet sent it may be late; it sends what
  `m_status` says by then, which is the stop. That the last report is
  `SERVICE_STOPPED` is not so (finding 9).
* `ToolsTellTruth`. What a tool has read is a state the service had during the call
  (`ToolOK`), and `Truthful` puts the property in terms of states witnessed, of
  which there are ever more.
* `LinesParseAsDocumented`, for lines of every length. The property speaks of the
  words that are no values (`Plain`), and whether a word is one depends on all
  before it. `Before` restricts `Plain` to the words looked at, and the invariant
  states each of the property's conjuncts of `Before` (`ActionOK`, `UsageOK`,
  `ArgsOK`, `OptionsOK`); `HeadOK` says that `main` never stops before a value. A
  step past a word adds that word to `Before` of its kind and no other
  (`BeforeGrows`), and at the end `Before` is `Plain`. That `IsValue`, a
  recursive function, exists and unfolds (`ValuesUnfold`) needs an induction; see
  below.

`PlatformProofs`: for every finite set of users, all sets of objects and handles,
every depth of nesting and any number of acquisitions, signals, references and deaths.

* `TellsTruth`: `SignalsOK` follows a pending signal to its cause, a child that
  has detached (`SIGUSR1`) or runs no more; the child is no slower than the alarm.
* `LetsNobodyThrough`: the count is minus the number of users counted in
  (`CountOK`), the section is held by whoever changes it (`InsideOK`), and the
  event is down from before an acquisition returns on (`EventOK`), so a waiter that
  sees it up sees nobody hold. `DestructionOK` is about the destroyed guard.
* `HandlesAndSectionsGivenBack`: no two of the objects, of the threads about to close
  or store it and of the program itself have one handle (`OneOwnerEach`), and what they
  have is open (`OwnedIsOpen`), so nothing is closed twice and nothing that the system
  gave out again is closed for another, whatever overlaps. Every open handle is somewhere
  (`OpenIsOwned`) while no assignment has been crossed: then the object that an assignment
  has emptied is still empty when it stores (`HandlePlaceOK`). From these follows the
  sum of cardinalities (`OwnersCounted`). The section's depth is its counter except
  between the two steps of a call (`DepthOK`).
* `OneLockOneCounter`: both implementations of `GlobalVar` refine `GlobalVarSpec`,
  step by step. On Windows the mapping exists as long as somebody has a reference,
  and holds their number (`WinCountOK`). On Linux the file holds the references of
  the living and at most those that the dead left (`LinFileOK`: the difference is
  between 0 and what as many processes as have died can have held), so the sum fits
  an int, and what was written is what is read (`Restored`): the digits that
  `val_to_buf` takes sum up to the number again (`SumOfDigits`), for every base
  and width. Two assumptions make this so: that twice the references of all
  processes fit an int's range (`GlobalVarAssumption`), and `PowersAssumption`, which
  only spells out what `^` means (`Base^0 = 1`, `Base^(k+1) = Base * Base^k`), for
  the provers know nothing of it.

`LibraryProofs`: the parts of `Library` but graphs and searches, whatever the values of
the constants. A step of one part leaves the variables of the others alone, so each
part has an invariant of its own.

* Allocators (`AllocatorGivesOwnMemory`, `AllocatorTypeCorrect`): for every finite set of
  addresses, chunks of any size and any number of blocks, provided that an `unsigned
  int` can count the elements (`AllocatorAssumption`) and that the pool's count begins
  with 0 (`StaticPool`: the constructor leaves it uninitialised, and `SSAllocator`'s
  pool is static). `OwnMemory` is not inductive: `free` gives all chunks back when the
  count says zero, so the invariant adds that the count is the number of live elements,
  and that the free list and the live elements are apart.
* `FilesAreOpen`: a logger's file is open, and one without a file lets no level through
  (`FilesOK`), which a shared file's last copy, `set_stream` and the manager's entry all
  keep. `MessagesAreDelivered`, for any number of messages: those of a thread follow each
  other in each stream (`OrderOK`), those that are done with are exactly where they were
  due (`DoneOK`), and the one under way is in `cout` alone so far, and its logger is still
  what it was when it began (`UnderWayOK`).
* `ReleasedOnce`: a File that is about to create has closed what it had (`FileInv`). The
  document in use belongs either to the wrapper, which deletes it when another takes its
  place, or to the caller (`DocInv`); new nodes only come behind the others, so what is
  known of earlier documents stays true.
* `FoldersAreEnsured`: while `ensure_path_exist` is under way there is something at each
  path up to where it is (`BehindOK`), for other processes only add folders; and what
  there is is in a folder (`InFolders`), so all of them but the deepest are folders. The
  deepest may be a file, as the code asks only whether it exists.
* `AllAreVisited`: an iterator at a node has visited, in order, exactly the nodes up to
  that (`IterInv`). New nodes come behind all others, so `++` steps over none.
* `SetIsKept`: parents stand before their children (`TreeInv`). What `find_node` and
  `create_or_find_node` do, a fold over the key's path, is a sequence of nodes each of
  which is the first child of its name (`Steps`). Such a sequence survives what is
  appended (`StepsStay`), and one that ends among the old nodes was there before
  (`StepsWere`); so two keys with different paths never come to one node, unless one of
  them led nowhere.
* `AllIsConverted`, for any input of any characters that take a byte at least and seven
  at most once they are converted (`ConvertAssumption`; the buffer grows by ten bytes at
  least, of which the rounding takes up to three back). The buffer's used part is what
  the characters taken so far come to, and `iconv` is only called again with room for
  one more (`Progress`), so it is called once more than there are characters at most.
  When no character grows by more than the hint says, neither does the text
  (`EnoughForAll`), and the first call converts all (`AtOnce`).

`GraphProofs`: graphs and searches.

* `SearchesFind`, for every finite graph, edges to nodes that were never added included,
  and all integer costs and estimates, of which the start's is less than `MaxInt`.
  Breadth first and depth first: what is in the queue are paths from the start without a
  repeated node, and nothing leads out of what was visited but from where a path of the
  queue ends (`QueueInv`), so an empty queue means that the destination is out of reach,
  and a node that throws is within it (`WayReaches`). `BreadthInv` adds that the
  lengths in the queue ascend and differ by one at most, that fewer edges do not lead to
  where each of its paths ends, and that what fewer edges lead to than to the queue's
  head was visited. A*: `came_from` leads from each known node to a closed
  one with the edge's cost less (`AStarInv`), and that one was closed before the node
  was (`Ranked`: there is a number for each node that is less for what it came from,
  whatever edges cost). So the way back comes to no node twice and ends at the start
  (`WalkIsTrail`). What A* takes is an open node, or one closed before when no score is
  less than `MaxInt` (`CurrentIsKnown`); then nothing changes, which is why the theorem
  speaks of searches that end. It says nothing of the cheapest way, which A* misses
  (finding 15).
* `GraphsAreGraphs`. The invariant is that a caller has strayed, or that the keys of the
  container differ (`GraphInv`). A vector that is sorted and has the key or none above
  it (`MayLook`) is searched right: the lower bound is the element with the key, or there
  is none (`SortedAscends`, `FindFinds`), and each call is the step of `GraphSpec` for
  either kind. One edge at most leads from a node to another, for `add_edge` looks before
  it appends (`EdgeToFinds`). Calls of a `std::map`'s graph never stray. The call that
  strays is excused, and all that follow; finding 19 says what happens then.

Lemmas named `UpTo` in three modules prove induction over an initial segment of the
numbers from the pigeonhole principle of the library (were a number missing, the
successor would map the members below it into themselves without 0): what holds of 0,
and of k + 1 if of k, holds up to n. The library's own induction theorems take an
operator, which the provers cannot instantiate; a set will do. `Recursion` in
`LibraryProofs` has from it that what is defined step by step exists, which unfolds the
folds and recursive functions of the models.

The properties were checked by TLC on the instances of the runs before they were
proved.

Only model-checked: all liveness (`SignalReleasesSleepers`, `WorkGetsDone` and its
like, `StopEnds`, `SignalsArrive`, `WaitEnds` and so on), for it needs fairness and
ENABLED, which the prover does not treat; `ValuesSound`, whose functions recur on
trees, lists and texts and call for induction over data; and the findings.

## 6. Not modelled

The pretty printer, timers, dynamic libraries, process information, assertions
and compiler support, and the tests: formatting, single system calls or build
matter. Inside modelled components: check points, wait hints and descriptions of
services; umask, `freopen` and the lock file of the daemon, which is opened and
never locked; failing system calls of `GlobalVar`; the calls of the classes
derived from `Handle`, which are one system call each, and the version of `Cs`
that the preprocessor disables; texts and formatting options of the logger;
format specifiers and the conversion of arguments in `safe_sprintf`; parsing,
printing and typed values of the XML wrapper; Windows encodings and files;
`count`, `reserve` and copying of `SortedVectorMap`.

## 7. What is left

The components with state are modelled, and of the safety properties that runs check
all are proved but `ValuesSound`. Worth adding next: the derived
classes of `Handle` as users of it; an abstract specification of the pool (a bag of
accepted work of which each is done once), which `WorkInOnePlace` and
`NoBrokenPromise` already state as invariants; the typed values of the XML
wrapper, if they are to be told apart from their texts.
