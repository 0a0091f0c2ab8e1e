----------------------------- MODULE VTCPPLogger -----------------------------
(***************************************************************************)
(* VT::Logger, its LogWorker and the LogManager of src/VTCPPLogger.cpp.    *)
(* Each thread has a logger of its own, which it may change, and all may   *)
(* log through Shared, which nobody changes: "logging functions should be  *)
(* thread-safe but anything that changes the logger is probably not".      *)
(* Entry is the logger that the manager keeps under the one name used.     *)
(* Loggers are copied, and copies share the file.  cerr is as cout is, and *)
(* texts and options are left out, and compilers elide the moves of a      *)
(* LogWorker.                                                              *)
(***************************************************************************)
EXTENDS Naturals, Sequences

CONSTANTS Threads, NoThread, Shared, Entry,
          Files, NoFile,
          SharedLevels,   \* what Shared may have for the level of its file
          MaxMessages,    \* bound on the messages of a thread
          Joined          \* are threads joined before static objects are destroyed?

LoggerAssumption ==
    /\ NoFile \notin Files /\ "cout" \notin Files /\ NoThread \notin Threads
    /\ Shared \notin Threads /\ Entry \notin Threads /\ Shared # Entry
    /\ SharedLevels \subseteq {0, 3} /\ MaxMessages \in Nat /\ Joined \in BOOLEAN

Debug == 0          \* LL_Debug; LL_Error stands for the levels above it
Error == 3
NoLogging == 5
Levels == {Debug, Error}

Slots == Threads \cup {Shared, Entry}
Sinks == Files \cup {"cout"}
Logger == [cout : Levels \cup {NoLogging}, level : Levels \cup {NoLogging}, file : Files \cup {NoFile}]

VARIABLES logger,      \* per slot: the logger, or none
          opened,      \* files that have been opened
          open,        \* those not yet closed
          pc,          \* per thread: where it is
          worker,      \* per thread: logger and level of its message
          sent,        \* per thread: (history) the streams due each message
          out,         \* per stream: the messages written to it
          self_valid,  \* LogManager::self_valid_
          lock,        \* LogManager::lock_
          destroyed    \* are the manager's members destroyed?

manager == << self_valid, lock, destroyed >>
files == << opened, open >>
vars == << logger, files, pc, worker, sent, out, manager >>

None == [cout |-> NoLogging, level |-> NoLogging, file |-> NoFile]

\* Every variable has its type.
TypeOK ==
    /\ \A s \in Slots : logger[s] \in Logger \/ (s = Entry /\ logger[s] = << >>)
    /\ open \subseteq opened /\ opened \subseteq Files
    /\ pc \in [Threads -> {"idle", "building", "cout", "stream", "file", "get", "set", "getting", "setting"}]
    /\ worker \in [Threads -> [slot : Slots, level : Levels]]
    /\ \A t \in Threads : \A n \in DOMAIN sent[t] : sent[t][n] \subseteq Sinks
    /\ \A s \in Sinks : \A n \in DOMAIN out[s] : out[s][n] \in Threads \X (1..MaxMessages)
    /\ self_valid \in BOOLEAN /\ destroyed \in BOOLEAN
    /\ lock \in Threads \cup {NoThread}

NoWorker(t) == [slot |-> t, level |-> Debug]

Init ==
    /\ \E f \in Files : \E level \in SharedLevels :
        /\ logger = [s \in Slots |-> CASE s = Shared -> [None EXCEPT !.level = level, !.file = f]
                                       [] s = Entry -> << >>
                                       [] OTHER -> None]
        /\ opened = {f} /\ open = {f}
    /\ pc = [t \in Threads |-> "idle"]
    /\ worker = [t \in Threads |-> NoWorker(t)]
    /\ sent = [t \in Threads |-> << >>]
    /\ out = [s \in Sinks |-> << >>]
    /\ self_valid = TRUE /\ lock = NoThread /\ destroyed = FALSE

-----------------------------------------------------------------------------
Go(t, from, to) ==
    /\ pc[t] = from
    /\ pc' = [pc EXCEPT ![t] = to]
    /\ to = "idle" => worker' = [worker EXCEPT ![t] = NoWorker(t)]
    /\ to \notin {"idle", "building"} => UNCHANGED worker

\* Loggers replaced.  A file is closed with the last copy that shares it.
Replace(new, add) ==
    /\ logger' = new
    /\ opened' = opened \cup add
    /\ open' = {f \in open \cup add : \E s \in Slots : new[s] # << >> /\ new[s].file = f}

\* The streams a message of that level goes to.
Due(l, level) ==
    {s \in Sinks : IF s = "cout" THEN level >= l.cout ELSE l.file = s /\ level >= l.level}

\* Faults the runs must catch; no specification uses them.

\* set_stream() that closes the file it replaces.
SetStreamCloses(t) ==
    /\ Go(t, "idle", "idle")
    /\ logger' = [logger EXCEPT ![t].level = NoLogging, ![t].file = NoFile]
    /\ open' = open \ {logger[t].file}
    /\ UNCHANGED << opened, sent, out, manager >>

\* A level that must be exceeded.
WriteStreamAbove(t) ==
    /\ LET l == logger[worker[t].slot]
       IN Go(t, "stream", IF worker[t].level > l.level THEN "file" ELSE "idle")
    /\ UNCHANGED << logger, files, sent, out, manager >>

-----------------------------------------------------------------------------
(* A thread's own logger *)

\* Logger(name), assigned; Logger::cout and cerr add a level.
Construct(t) ==
    /\ Go(t, "idle", "idle")
    /\ \E level \in {Error, NoLogging} :
        Replace([logger EXCEPT ![t] = [None EXCEPT !.cout = level]], {})
    /\ UNCHANGED << sent, out, manager >>

\* The copy constructor, and operator= by swap.
Copy(t) ==
    /\ Go(t, "idle", "idle")
    /\ Replace([logger EXCEPT ![t] = logger[Shared]], {})
    /\ UNCHANGED << sent, out, manager >>

\* set_stream(), with a file, with the name of one, which may fail to open, or
\* with nothing.
SetStream(t) ==
    /\ Go(t, "idle", "idle")
    /\ \/ \E f \in Files \ opened : \E level \in Levels :
            Replace([logger EXCEPT ![t].level = level, ![t].file = f], {f})
       \/ Replace([logger EXCEPT ![t].level = NoLogging, ![t].file = NoFile], {})
       \/ UNCHANGED << logger, files >>
    /\ UNCHANGED << sent, out, manager >>

-----------------------------------------------------------------------------
(* A message *)

\* log(level), debug() and the like: a LogWorker with the prelude in its stream.
Log(t) ==
    /\ Go(t, "idle", "building")
    /\ Len(sent[t]) < MaxMessages
    /\ \E s \in {t, Shared}, level \in Levels :
        /\ worker' = [worker EXCEPT ![t] = [slot |-> s, level |-> level]]
        /\ sent' = [sent EXCEPT ![t] = Append(@, Due(logger[s], level))]
    /\ UNCHANGED << logger, files, out, manager >>

\* ~LogWorker(), or the end of log(level, fmt, ...).
Finish(t) ==
    /\ Go(t, "building", "cout")
    /\ UNCHANGED << logger, files, sent, out, manager >>

\* log(level, fmt, ...) whose formatting throws: nothing is written.
FormatThrows(t) ==
    /\ Go(t, "building", "idle")
    /\ sent' = [sent EXCEPT ![t] = [@ EXCEPT ![Len(@)] = {}]]
    /\ UNCHANGED << logger, files, out, manager >>

Write(t, s) == out' = [out EXCEPT ![s] = Append(@, << t, Len(sent[t]) >>)]

WriteCout(t) ==
    /\ Go(t, "cout", "stream")
    /\ IF worker[t].level >= logger[worker[t].slot].cout THEN Write(t, "cout") ELSE UNCHANGED out
    /\ UNCHANGED << logger, files, sent, manager >>

\* The level is compared and the FILE fetched.
WriteStream(t) ==
    /\ LET l == logger[worker[t].slot]
       IN Go(t, "stream", IF worker[t].level >= l.level THEN "file" ELSE "idle")
    /\ UNCHANGED << logger, files, sent, out, manager >>

\* fprintf(), which locks the FILE, and fflush().
WriteFile(t) ==
    /\ Go(t, "file", "idle")
    /\ Write(t, logger[worker[t].slot].file)
    /\ UNCHANGED << logger, files, sent, manager >>

-----------------------------------------------------------------------------
(* The manager *)

\* get_logger() and set_logger() throw once the manager is gone.
CallManager(t) ==
    /\ \E call \in {"get", "set"} : Go(t, "idle", IF self_valid THEN call ELSE "idle")
    /\ UNCHANGED << logger, files, sent, out, manager >>

LockManager(t) ==
    /\ lock = NoThread /\ lock' = t
    /\ Go(t, "get", "getting") \/ Go(t, "set", "setting")
    /\ UNCHANGED << logger, files, sent, out, self_valid, destroyed >>

\* get_logger() makes a logger for cout if there is none, and returns a copy.
Getting(t) ==
    /\ Go(t, "getting", "idle")
    /\ LET entry == IF logger[Entry] = << >> THEN [None EXCEPT !.cout = Debug] ELSE logger[Entry]
       IN Replace([logger EXCEPT ![Entry] = entry, ![t] = entry], {})
    /\ lock' = NoThread
    /\ UNCHANGED << sent, out, self_valid, destroyed >>

Setting(t) ==
    /\ Go(t, "setting", "idle")
    /\ Replace([logger EXCEPT ![Entry] = logger[t]], {})
    /\ lock' = NoThread
    /\ UNCHANGED << sent, out, self_valid, destroyed >>

\* ~LogManager(), when static objects are destroyed.
Shutdown ==
    /\ Joined => \A t \in Threads : pc[t] = "idle"
    /\ \/ self_valid /\ self_valid' = FALSE /\ UNCHANGED << logger, files, destroyed >>
       \/ /\ ~self_valid /\ ~destroyed /\ destroyed' = TRUE /\ UNCHANGED self_valid
          /\ Replace([logger EXCEPT ![Entry] = << >>], {})
    /\ UNCHANGED << pc, worker, sent, out, lock >>

-----------------------------------------------------------------------------
\* Threads that are joined do no more.
Next ==
    \/ \E t \in {u \in Threads : Joined => self_valid} :
        \/ Construct(t) \/ Copy(t) \/ SetStream(t)
        \/ Log(t) \/ Finish(t) \/ FormatThrows(t)
        \/ WriteCout(t) \/ WriteStream(t) \/ WriteFile(t)
        \/ CallManager(t) \/ LockManager(t) \/ Getting(t) \/ Setting(t)
    \/ Shutdown

Spec == Init /\ [][Next]_vars

-----------------------------------------------------------------------------
(* Properties *)

\* Whoever is about to write to a file has one that is open: copies may be
\* destroyed, or get new streams, while another copy writes.  (set_stream,
\* write_to_streams; "closes it when all copies of this logger are destroyed or
\* have new stream set".)
WritesToOpenFile ==
    \A t \in Threads : pc[t] = "file" => logger[worker[t].slot].file \in open

Count(s, m) == {n \in DOMAIN out[s] : out[s][n] = m}

\* Between messages each of a thread's messages is in the streams that it was due,
\* once, in none other, and in the order of the thread.  (log, write_to_streams.)
Delivered ==
    \A t \in Threads : pc[t] \notin {"building", "cout", "stream", "file"} =>
        \A n \in DOMAIN sent[t] : \A s \in Sinks :
            LET at == Count(s, << t, n >>)
            IN /\ (at # {}) = (s \in sent[t][n])
               /\ \A i, j \in at : i = j
               /\ \A m \in 1..(n - 1) : \A i \in at : \A j \in Count(s, << t, m >>) : j < i

\* Nobody is inside the manager when it is destroyed.  (get_logger, "Trying to get
\* logger after LogManager destruction".)
NotUsedWhenDestroyed == destroyed => \A t \in Threads : pc[t] \notin {"get", "set", "getting", "setting"}
=============================================================================
