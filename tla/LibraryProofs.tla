--------------------------- MODULE LibraryProofs -----------------------------
(***************************************************************************)
(* Proofs about the parts of Library, each for every value of its          *)
(* constants.  Allocators give each block memory of its own.  Whoever      *)
(* writes a message has a file that is open, and messages arrive in the    *)
(* streams that they are due, once and in order.  Files and documents are  *)
(* released once, and folders that are ensured are there.  What is set is  *)
(* kept, and iterators visit all that they are asked for.  Text is         *)
(* converted in full and within its buffer.  GraphProofs goes on with      *)
(* graphs and searches.                                                    *)
(***************************************************************************)
EXTENDS Library, FiniteSetTheorems, SequenceTheorems, TLAPS

-----------------------------------------------------------------------------
(* Allocators *)

\* The pool is an object with static storage, such as SSAllocator::pool_.
StaticPool == Initial = {0}

\* The elements of a list lie in given chunks, are all different, and nobody in a
\* given set has one of them.
Spare(list, cs, users) ==
    /\ list \in Seq(Elements)
    /\ \A n \in DOMAIN list : list[n][1] \in cs /\ list[n] \notin users
    /\ \A m, n \in DOMAIN list : list[m] = list[n] => m = n

\* OwnMemory alone is not inductive: free() must know that the count it takes to
\* zero is the number of elements that are out.
PoolInv ==
    /\ chunks \subseteq Addresses
    /\ live \subseteq Elements
    /\ \A e \in live : e[1] \in chunks
    /\ Spare(free, chunks, live)
    /\ live = {} => chunks = {}
    /\ allocated = Cardinality(live)

\* Every block is at one place.
BlockInv ==
    /\ blocks \in Seq(1..Capacity)
    /\ taken \subseteq 1..Capacity
    /\ \A n \in DOMAIN blocks : blocks[n] \notin taken
    /\ \A m, n \in DOMAIN blocks : blocks[m] = blocks[n] => m = n

-----------------------------------------------------------------------------
(* Counting elements *)

\* There are fewer elements than an unsigned int has values.
LEMMA ElementsFit ==
    /\ IsFiniteSet(Elements)
    /\ Cardinality(Elements) \in Nat
    /\ Cardinality(Elements) < Width
<1>1. IsFiniteSet(1..PerChunk) /\ Cardinality(1..PerChunk) = PerChunk
    BY FS_Interval, AllocatorAssumption
<1>2. Cardinality(Addresses) \in Nat
    BY FS_CardinalityType, AllocatorAssumption
<1>3. /\ IsFiniteSet(Elements)
      /\ Cardinality(Elements) = Cardinality(Addresses) * PerChunk
    BY <1>1, FS_Product, AllocatorAssumption DEF Elements
<1>4. Cardinality(Addresses) * PerChunk = PerChunk * Cardinality(Addresses)
    BY <1>2, AllocatorAssumption
<1> QED
    BY <1>3, <1>4, FS_CardinalityType, AllocatorAssumption

\* A set of elements is counted without overflow.
LEMMA CountFits ==
    ASSUME NEW S \in SUBSET Elements
    PROVE  /\ IsFiniteSet(S)
           /\ Cardinality(S) \in 0..(Width - 1)
<1>1. IsFiniteSet(S) /\ Cardinality(S) <= Cardinality(Elements)
    BY ElementsFit, FS_Subset
<1>2. Cardinality(S) \in Nat
    BY <1>1, FS_CardinalityType
<1> QED
    BY <1>1, <1>2, ElementsFit, AllocatorAssumption

\* What is below the width is what it is modulo the width.
LEMMA BelowWidth ==
    ASSUME NEW n \in 0..(Width - 1)
    PROVE  n % Width = n
    BY AllocatorAssumption

-----------------------------------------------------------------------------
(* The pool *)

\* A new chunk's elements are spare.
LEMMA GrownIsSpare ==
    ASSUME PoolInv, NEW c \in Addresses \ chunks
    PROVE  Spare(Grown(c), chunks \cup {c}, live) /\ Grown(c) # << >>
<1>1. /\ DOMAIN Grown(c) = 1..PerChunk
      /\ \A n \in 1..PerChunk : Grown(c)[n] = << c, n >>
      /\ Grown(c) \in Seq(Elements)
    BY AllocatorAssumption DEF Grown, Elements
<1>2. \A n \in 1..PerChunk : << c, n >> \notin live
    BY DEF PoolInv
<1>3. Grown(c) # << >>
    BY <1>1, AllocatorAssumption
<1>4. \A n \in DOMAIN Grown(c) : Grown(c)[n][1] \in chunks \cup {c} /\ Grown(c)[n] \notin live
    <2> TAKE n \in DOMAIN Grown(c)
    <2>1. Grown(c)[n] = << c, n >> /\ n \in 1..PerChunk
        BY <1>1
    <2>2. Grown(c)[n][1] = c
        BY <2>1
    <2> QED
        BY <1>2, <2>1, <2>2
<1>5. \A m, n \in DOMAIN Grown(c) : Grown(c)[m] = Grown(c)[n] => m = n
    <2> TAKE m, n \in DOMAIN Grown(c)
    <2> HAVE Grown(c)[m] = Grown(c)[n]
    <2>1. << c, m >> = << c, n >>
        BY <1>1, Zenon
    <2> QED
        BY <2>1
<1> QED
    BY <1>1, <1>3, <1>4, <1>5 DEF Spare

\* Taking the first of a spare list leaves a pool that is sound.
LEMMA TakeKeepsInv ==
    ASSUME PoolInv, NEW list, NEW cs \in SUBSET Addresses, chunks \subseteq cs,
           Spare(list, cs, live), list # << >>,
           Take(list), chunks' = cs
    PROVE  PoolInv'
<1> DEFINE e == Head(list)
<1>1. /\ e \in Elements /\ e = list[1] /\ 1 \in DOMAIN list
      /\ e[1] \in cs /\ e \notin live
    BY DEF Spare
<1>2. live' = live \cup {e} /\ free' = Tail(list)
    BY DEF Take
<1>3. live' \in SUBSET Elements
    BY <1>1, <1>2 DEF PoolInv
<1>4. Cardinality(live') = Cardinality(live) + 1
    BY <1>1, <1>2, CountFits, FS_AddElement DEF PoolInv
<1>5. allocated' = Cardinality(live')
    BY <1>3, <1>4, CountFits, BelowWidth DEF PoolInv, Take
<1>6. Spare(free', cs, live')
    <2>1. /\ Tail(list) \in Seq(Elements)
          /\ \A n \in DOMAIN Tail(list) : n + 1 \in DOMAIN list /\ Tail(list)[n] = list[n + 1]
          /\ DOMAIN Tail(list) \subseteq Nat
        BY DEF Spare
    <2>2. \A n \in DOMAIN Tail(list) : Tail(list)[n] # e
        BY <1>1, <2>1 DEF Spare
    <2> QED
        BY <1>2, <2>1, <2>2 DEF Spare
<1>7. \A x \in live' : x[1] \in cs
    BY <1>1, <1>2 DEF PoolInv
<1>8. live' # {}
    BY <1>2
<1> QED
    BY <1>3, <1>5, <1>6, <1>7, <1>8 DEF PoolInv

\* alloc() leaves a sound pool sound.
LEMMA AllocKeepsInv ==
    ASSUME PoolInv, Alloc
    PROVE  PoolInv'
<1>1. CASE free # << >> /\ Take(free) /\ UNCHANGED chunks
    BY <1>1, TakeKeepsInv DEF PoolInv
<1>2. ASSUME NEW c \in Addresses \ chunks, Take(Grown(c)), chunks' = chunks \cup {c}
      PROVE  PoolInv'
    <2>1. chunks \cup {c} \in SUBSET Addresses
        BY DEF PoolInv
    <2> QED
        BY <1>2, <2>1, GrownIsSpare, TakeKeepsInv
<1> QED
    BY <1>1, <1>2 DEF Alloc

\* free() leaves a sound pool sound: when its count returns to zero nothing is out.
LEMMA FreeKeepsInv ==
    ASSUME PoolInv, NEW e \in Elements, Free(e)
    PROVE  PoolInv'
<1>1. e \in live /\ live' = live \ {e} /\ live' \in SUBSET Elements
    BY DEF Free, PoolInv
<1>2. IsFiniteSet(live) /\ Cardinality(live) \in Nat
    BY CountFits DEF PoolInv
<1>3. Cardinality(live') = Cardinality(live) - 1
    BY <1>1, <1>2, FS_RemoveElement
<1>4. allocated' = Cardinality(live')
    BY <1>3 DEF Free, PoolInv
<1>5. allocated' = 0 <=> live' = {}
    BY <1>1, <1>4, CountFits, FS_EmptySet
<1>6. CASE allocated' = 0
    <2>1. free' = << >> /\ chunks' = {} /\ live' = {}
        BY <1>5, <1>6 DEF Free
    <2>2. Spare(free', chunks', live')
        BY <2>1 DEF Spare
    <2> QED
        BY <1>4, <2>1, <2>2 DEF PoolInv
<1>7. CASE allocated' # 0
    <2>1. free' = << e >> \o free /\ chunks' = chunks /\ live' # {}
        BY <1>5, <1>7 DEF Free
    <2>2. /\ free' \in Seq(Elements)
          /\ 1 \in DOMAIN free' /\ free'[1] = e
          /\ DOMAIN free' \subseteq Nat \ {0}
          /\ \A n \in DOMAIN free' : n # 1 => n - 1 \in DOMAIN free /\ free'[n] = free[n - 1]
        BY <2>1 DEF PoolInv, Spare
    <2>3. \A n \in DOMAIN free : free[n] # e
        BY <1>1 DEF PoolInv, Spare
    <2>4. \A n \in DOMAIN free' : free'[n][1] \in chunks' /\ free'[n] \notin live'
        BY <1>1, <2>1, <2>2 DEF PoolInv, Spare
    <2>5. \A m, n \in DOMAIN free' : free'[m] = free'[n] => m = n
        BY <2>2, <2>3 DEF PoolInv, Spare
    <2> QED
        BY <1>1, <1>4, <2>1, <2>2, <2>4, <2>5 DEF PoolInv, Spare
<1> QED
    BY <1>6, <1>7

-----------------------------------------------------------------------------
(* The blocks *)

\* alloc() and free() of the older Allocator keep every block at one place.
LEMMA BlocksKeepInv ==
    ASSUME BlockInv, AllocBlock \/ \E b \in 1..Capacity : FreeBlock(b)
    PROVE  BlockInv'
<1>1. CASE AllocBlock
    <2>1. CASE blocks = << >>
        <3>1. blocks' = blocks /\ taken' = taken
            BY <1>1, <2>1 DEF AllocBlock, allocator
        <3> QED
            BY <3>1 DEF BlockInv
    <2>2. CASE blocks # << >>
        <3>1. taken' = taken \cup {blocks[1]} /\ blocks' = Tail(blocks)
            BY <1>1, <2>2 DEF AllocBlock, BlockInv
        <3> DEFINE B == 1..Capacity
        <3> HIDE DEF B
        <3>2. blocks \in Seq(B)
            BY DEF BlockInv, B
        <3>3. /\ Tail(blocks) \in Seq(B)
              /\ 1 \in DOMAIN blocks /\ blocks[1] \in B
              /\ DOMAIN Tail(blocks) \subseteq Nat \ {0}
              /\ \A n \in DOMAIN Tail(blocks) : n + 1 \in DOMAIN blocks /\ Tail(blocks)[n] = blocks[n + 1]
            BY <2>2, <3>2
        <3>4. taken' \subseteq B
            BY <3>1, <3>3 DEF BlockInv, B
        <3>5. \A n \in DOMAIN blocks' : blocks'[n] \notin taken'
            BY <3>1, <3>3 DEF BlockInv
        <3>6. \A m, n \in DOMAIN blocks' : blocks'[m] = blocks'[n] => m = n
            BY <3>1, <3>3 DEF BlockInv
        <3> QED
            BY <3>1, <3>3, <3>4, <3>5, <3>6 DEF BlockInv, B
    <2> QED
        BY <2>1, <2>2
<1>2. ASSUME NEW b \in 1..Capacity, FreeBlock(b)
      PROVE  BlockInv'
    <2>1. b \in taken /\ blocks' = Append(blocks, b) /\ taken' = taken \ {b}
        BY <1>2 DEF FreeBlock
    <2>2. /\ Append(blocks, b) \in Seq(1..Capacity)
          /\ \A n \in DOMAIN Append(blocks, b) :
                \/ n \in DOMAIN blocks /\ Append(blocks, b)[n] = blocks[n]
                \/ n = Len(blocks) + 1 /\ Append(blocks, b)[n] = b
        BY DEF BlockInv
    <2> QED
        BY <2>1, <2>2 DEF BlockInv
<1> QED
    BY <1>1, <1>2

-----------------------------------------------------------------------------
(* The specification *)

\* At the start nothing is out.
LEMMA InitKeepsInv ==
    ASSUME StaticPool, Init
    PROVE  PoolInv /\ BlockInv
<1>1. PoolInv
    BY FS_EmptySet DEF StaticPool, Init, PoolInv, Spare
<1>2. BlockInv
    <2>1. [k \in 1..Capacity |-> k] \in Seq(1..Capacity)
        BY AllocatorAssumption
    <2>2. CASE blocks = << >>
        BY <2>2 DEF Init, BlockInv
    <2>3. CASE blocks = [k \in 1..Capacity |-> k]
        BY <2>1, <2>3 DEF Init, BlockInv
    <2> QED
        BY <2>2, <2>3 DEF Init
<1> QED
    BY <1>1, <1>2

\* Every step keeps both invariants.
LEMMA NextKeepsInv ==
    ASSUME PoolInv, BlockInv, [Next]_vars
    PROVE  PoolInv' /\ BlockInv'
<1>1. CASE Alloc
    <2>1. BlockInv'
        BY <1>1 DEF Alloc, allocator, BlockInv
    <2> QED
        BY <1>1, <2>1, AllocKeepsInv
<1>2. ASSUME NEW e \in Elements, Free(e)
      PROVE  PoolInv' /\ BlockInv'
    <2>1. BlockInv'
        BY <1>2 DEF Free, allocator, BlockInv
    <2> QED
        BY <1>2, <2>1, FreeKeepsInv
<1>3. CASE AllocBlock \/ \E b \in 1..Capacity : FreeBlock(b)
    <2>1. PoolInv'
        BY <1>3 DEF AllocBlock, FreeBlock, pool, PoolInv, Spare
    <2> QED
        BY <1>3, <2>1, BlocksKeepInv
<1>4. CASE UNCHANGED vars
    BY <1>4 DEF vars, pool, allocator, PoolInv, BlockInv, Spare
<1> QED
    BY <1>1, <1>2, <1>3, <1>4 DEF Next

\* The invariants hold of every behaviour of a static pool.
LEMMA AllocatorInvariant ==
    ASSUME StaticPool
    PROVE  Spec => [](PoolInv /\ BlockInv)
<1>1. Init => PoolInv /\ BlockInv
    BY InitKeepsInv
<1>2. (PoolInv /\ BlockInv) /\ [Next]_vars => (PoolInv /\ BlockInv)'
    BY NextKeepsInv
<1> QED
    BY <1>1, <1>2, PTL DEF Spec

\* The allocators' variables keep their types: the count of a static pool neither
\* wraps round nor falls below zero, however many elements a chunk has.  (alloc,
\* free, grow.)
THEOREM AllocatorTypeCorrect ==
    ASSUME StaticPool
    PROVE  Spec => []TypeOK
<1>1. PoolInv /\ BlockInv => TypeOK
    BY CountFits DEF PoolInv, BlockInv, Spare, TypeOK
<1> QED
    BY <1>1, AllocatorInvariant, PTL

\* What a caller of a static pool or of an Allocator has is memory of its own, and a
\* pool of which nothing is used keeps no chunk.  (alloc, free, clear.)
THEOREM AllocatorGivesOwnMemory ==
    ASSUME StaticPool
    PROVE  /\ Spec => []OwnMemory
           /\ LibrarySpec => []OwnMemory
<1>1. PoolInv /\ BlockInv => OwnMemory
    BY DEF PoolInv, BlockInv, Spare, OwnMemory, Distinct
<1>2. LibraryInit => Init
    BY DEF LibraryInit
<1>3. [LibraryNext]_libraryVars => [Next]_vars
    BY DEF LibraryNext, libraryVars, allocatorVars, vars, pool, allocator
<1> QED
    BY <1>1, <1>2, <1>3, AllocatorInvariant, PTL DEF Spec, LibrarySpec

-----------------------------------------------------------------------------
(* Loggers *)

\* The names of slots, files and streams are told apart.
LEMMA Apart ==
    /\ NoFile \notin Files /\ "cout" \notin Files
    /\ Shared \notin Threads /\ Entry \notin Threads /\ Shared # Entry
    /\ SharedLevels \subseteq {0, 3} /\ MaxMessages \in Nat
BY LoggerInstance DEF Logger!LoggerAssumption

\* A logger is not the absence of one.
LEMMA LoggerIsSome == \A l \in Logger!Logger : l # << >>
<1> SUFFICES ASSUME NEW l \in Logger!Logger, l = << >>
             PROVE  FALSE
    OBVIOUS
<1>1. "cout" \in DOMAIN l
    BY DEF Logger!Logger
<1>2. DOMAIN << >> = {}
    OBVIOUS
<1> QED
    BY <1>1, <1>2

-----------------------------------------------------------------------------
(* The files of loggers *)

Stages == {"building", "cout", "stream", "file"}

LoggerTypes ==
    /\ logger \in [Logger!Slots -> Logger!Logger \cup {<< >>}]
    /\ \A s \in Logger!Slots \ {Entry} : logger[s] \in Logger!Logger
    /\ pc \in [Threads -> Stages \cup {"idle", "get", "set", "getting", "setting"}]
    /\ worker \in [Threads -> [slot : Logger!Slots, level : Logger!Levels]]
    /\ \A t \in Threads : worker[t].slot \in {t, Shared}

\* A logger's file is open, and one without a file lets no level through.
Sound(l, files_) ==
    IF l.file = NoFile THEN l.level = Logger!NoLogging ELSE l.file \in files_

FilesOK ==
    /\ \A s \in Logger!Slots : logger[s] # << >> => Sound(logger[s], open)
    /\ \A t \in Threads : pc[t] = "file" => worker[t].level >= logger[worker[t].slot].level

LoggerInv == LoggerTypes /\ FilesOK

\* What replaces a logger brings an open file, or one it adds; files in use stay open.
LEMMA ReplaceKeepsFiles ==
    ASSUME LoggerInv, NEW new \in [Logger!Slots -> Logger!Logger \cup {<< >>}], NEW add \in SUBSET Files,
           Logger!Replace(new, add), \A s \in Logger!Slots \ {Entry} : new[s] \in Logger!Logger,
           \A s \in Logger!Slots : new[s] # << >> => Sound(new[s], open \cup add)
    PROVE  /\ logger' \in [Logger!Slots -> Logger!Logger \cup {<< >>}]
           /\ \A s \in Logger!Slots \ {Entry} : logger'[s] \in Logger!Logger
           /\ \A s \in Logger!Slots : logger'[s] # << >> => Sound(logger'[s], open')
BY DEF Logger!Replace, Sound

\* Steps of a thread that is not at a message: its own logger and the manager's may
\* change, but no message that another thread is at.
Aside(t) ==
    /\ pc[t] \notin Stages /\ pc'[t] \notin Stages
    /\ pc' \in [Threads -> Stages \cup {"idle", "get", "set", "getting", "setting"}]
    /\ worker' \in [Threads -> [slot : Logger!Slots, level : Logger!Levels]]
    /\ worker'[t].slot \in {t, Shared}
    /\ \A u \in Threads \ {t} :
         pc'[u] = pc[u] /\ worker'[u] = worker[u] /\ logger'[u] = logger[u]
    /\ logger'[Shared] = logger[Shared]
    /\ UNCHANGED << sent, out >>

LEMMA GoAside ==
    ASSUME LoggerInv, NEW t \in Threads,
           NEW old \in {"idle", "get", "set", "getting", "setting"},
           NEW to \in {"idle", "get", "set", "getting", "setting"}, Logger!Go(t, old, to),
           \A u \in (Threads \cup {Shared}) \ {t} : logger'[u] = logger[u],
           UNCHANGED << sent, out >>
    PROVE  Aside(t)
<1>1. worker' = worker \/ worker' = [worker EXCEPT ![t] = Logger!NoWorker(t)]
    BY DEF Logger!Go
<1>2. Logger!NoWorker(t) \in [slot : Logger!Slots, level : Logger!Levels] /\ Logger!NoWorker(t).slot = t
    BY DEF Logger!NoWorker, Logger!Slots, Logger!Levels
<1>3. /\ worker' \in [Threads -> [slot : Logger!Slots, level : Logger!Levels]]
      /\ worker'[t].slot \in {t, Shared}
      /\ \A u \in Threads \ {t} : worker'[u] = worker[u]
    BY <1>1, <1>2 DEF LoggerInv, LoggerTypes
<1>4. /\ pc[t] \notin Stages /\ pc'[t] \notin Stages
      /\ pc' \in [Threads -> Stages \cup {"idle", "get", "set", "getting", "setting"}]
      /\ \A u \in Threads \ {t} : pc'[u] = pc[u]
    BY DEF Logger!Go, Stages, LoggerInv, LoggerTypes
<1> QED
    BY <1>3, <1>4, Apart DEF Aside

LEMMA AsideKeepsFiles ==
    ASSUME LoggerInv, NEW t \in Threads, Aside(t),
           NEW new \in [Logger!Slots -> Logger!Logger \cup {<< >>}], NEW add \in SUBSET Files,
           Logger!Replace(new, add), \A s \in Logger!Slots \ {Entry} : new[s] \in Logger!Logger,
           \A s \in Logger!Slots : new[s] # << >> => Sound(new[s], open \cup add)
    PROVE  LoggerInv'
<1>1. /\ logger' \in [Logger!Slots -> Logger!Logger \cup {<< >>}]
      /\ \A s \in Logger!Slots \ {Entry} : logger'[s] \in Logger!Logger
      /\ \A s \in Logger!Slots : logger'[s] # << >> => Sound(logger'[s], open')
    BY ReplaceKeepsFiles
<1>2. LoggerTypes'
    BY <1>1 DEF Aside, LoggerInv, LoggerTypes
<1>3. ASSUME NEW u \in Threads, pc'[u] = "file"
      PROVE  worker'[u].level >= logger'[worker'[u].slot].level
    <2>1. u # t /\ pc[u] = "file" /\ worker'[u] = worker[u] /\ worker[u].slot \in {u, Shared}
        BY <1>3 DEF Aside, Stages, LoggerInv, LoggerTypes
    <2>2. logger'[worker[u].slot] = logger[worker[u].slot]
        BY <2>1 DEF Aside
    <2> QED
        BY <2>1, <2>2 DEF LoggerInv, FilesOK
<1> QED
    BY <1>1, <1>2, <1>3 DEF LoggerInv, FilesOK

LEMMA Subsets == {} \in SUBSET Files /\ \A f \in Files : {f} \in SUBSET Files
OBVIOUS

LEMMA NoneIsSound ==
    ASSUME NEW level \in Logger!Levels \cup {Logger!NoLogging}
    PROVE  /\ [Logger!None EXCEPT !.cout = level] \in Logger!Logger
           /\ \A files_ : Sound([Logger!None EXCEPT !.cout = level], files_)
BY Apart DEF Logger!None, Logger!Logger, Sound

LEMMA AsideSteps ==
    ASSUME LoggerInv, NEW t \in Threads,
           Logger!Construct(t) \/ Logger!Copy(t) \/ Logger!SetStream(t) \/ Logger!CallManager(t) \/ Logger!LockManager(t)
             \/ Logger!Getting(t) \/ Logger!Setting(t)
    PROVE  Aside(t) /\ LoggerInv'
<1> USE Apart DEF Logger!Slots
<1>0. /\ logger \in [Logger!Slots -> Logger!Logger \cup {<< >>}]
      /\ \A s \in Logger!Slots \ {Entry} : logger[s] \in Logger!Logger
      /\ \A s \in Logger!Slots : logger[s] # << >> => Sound(logger[s], open)
    BY DEF LoggerInv, LoggerTypes, FilesOK
<1>1. CASE Logger!Construct(t)
    <2>1. PICK level \in {Logger!Error, Logger!NoLogging} :
            Logger!Replace([logger EXCEPT ![t] = [Logger!None EXCEPT !.cout = level]], {})
        BY <1>1 DEF Logger!Construct
    <2> DEFINE new == [logger EXCEPT ![t] = [Logger!None EXCEPT !.cout = level]]
    <2>2. /\ new \in [Logger!Slots -> Logger!Logger \cup {<< >>}]
          /\ \A s \in Logger!Slots \ {Entry} : new[s] \in Logger!Logger
          /\ \A s \in Logger!Slots : new[s] # << >> => Sound(new[s], open \cup {})
        BY <1>0, NoneIsSound DEF Logger!Levels
    <2>3. Aside(t)
        BY <1>0, <1>1, <2>1, GoAside DEF Logger!Construct, Logger!Replace
    <2>4. Logger!Replace(new, {})
        BY <2>1
    <2> HIDE DEF new
    <2> QED
        BY <2>2, <2>3, <2>4, AsideKeepsFiles, Subsets
<1>2. CASE Logger!Copy(t)
    <2> DEFINE new == [logger EXCEPT ![t] = logger[Shared]]
    <2>1. /\ new \in [Logger!Slots -> Logger!Logger \cup {<< >>}]
          /\ \A s \in Logger!Slots \ {Entry} : new[s] \in Logger!Logger
          /\ \A s \in Logger!Slots : new[s] # << >> => Sound(new[s], open \cup {})
        BY <1>0
    <2>2. Aside(t)
        BY <1>0, <1>2, GoAside DEF Logger!Copy, Logger!Replace
    <2>3. Logger!Replace(new, {})
        BY <1>2 DEF Logger!Copy
    <2> HIDE DEF new
    <2> QED
        BY <2>1, <2>2, <2>3, AsideKeepsFiles, Subsets
<1>3. CASE Logger!SetStream(t)
    <2>1. ASSUME NEW f \in Files, NEW level \in Logger!Levels,
                 Logger!Replace([logger EXCEPT ![t].level = level, ![t].file = f], {f})
          PROVE  Aside(t) /\ LoggerInv'
        <3> DEFINE new == [logger EXCEPT ![t].level = level, ![t].file = f]
        <3>1. new[t] \in Logger!Logger /\ new[t].file = f
            <4>1. logger[t] \in Logger!Logger /\ t \in DOMAIN logger
                BY <1>0
            <4>2. new[t] = [logger[t] EXCEPT !.level = level, !.file = f]
                BY <4>1
            <4> HIDE DEF new
            <4> QED
                BY <4>1, <4>2 DEF Logger!Logger
        <3>2. /\ new \in [Logger!Slots -> Logger!Logger \cup {<< >>}]
              /\ \A s \in Logger!Slots \ {t} : new[s] = logger[s]
            BY <1>0, <3>1
        <3>3. /\ \A s \in Logger!Slots \ {Entry} : new[s] \in Logger!Logger
              /\ \A s \in Logger!Slots : new[s] # << >> => Sound(new[s], open \cup {f})
            BY <1>0, <3>1, <3>2 DEF Sound
        <3>4. Aside(t)
            BY <1>0, <1>3, <2>1, <3>2, GoAside DEF Logger!SetStream, Logger!Replace
        <3>5. Logger!Replace(new, {f})
            BY <2>1
        <3> HIDE DEF new
        <3> QED
            BY <3>2, <3>3, <3>4, <3>5, AsideKeepsFiles, Subsets
    <2>2. CASE Logger!Replace([logger EXCEPT ![t].level = Logger!NoLogging, ![t].file = NoFile], {})
        <3> DEFINE new == [logger EXCEPT ![t].level = Logger!NoLogging, ![t].file = NoFile]
        <3>1. new[t] \in Logger!Logger /\ new[t].file = NoFile /\ new[t].level = Logger!NoLogging
            BY <1>0 DEF Logger!Logger
        <3>2. /\ new \in [Logger!Slots -> Logger!Logger \cup {<< >>}]
              /\ \A s \in Logger!Slots \ {t} : new[s] = logger[s]
            BY <1>0, <3>1
        <3>3. /\ \A s \in Logger!Slots \ {Entry} : new[s] \in Logger!Logger
              /\ \A s \in Logger!Slots : new[s] # << >> => Sound(new[s], open \cup {})
            BY <1>0, <3>1, <3>2 DEF Sound
        <3>4. Aside(t)
            BY <1>0, <1>3, <2>2, <3>2, GoAside DEF Logger!SetStream, Logger!Replace
        <3>5. Logger!Replace(new, {})
            BY <2>2
        <3> HIDE DEF new
        <3> QED
            BY <3>2, <3>3, <3>4, <3>5, AsideKeepsFiles, Subsets
    <2>3. CASE UNCHANGED << logger, Logger!files >>
        <3>1. Aside(t)
            BY <1>0, <1>3, <2>3, GoAside DEF Logger!SetStream
        <3> QED
            BY <1>0, <2>3, <3>1 DEF Logger!files, Aside, Stages, LoggerInv, LoggerTypes, FilesOK
    <2> QED
        BY <1>3, <2>1, <2>2, <2>3 DEF Logger!SetStream
<1>4. CASE Logger!CallManager(t) \/ Logger!LockManager(t)
    <2>1. Aside(t)
        BY <1>0, <1>4, GoAside DEF Logger!CallManager, Logger!LockManager
    <2> QED
        BY <1>0, <1>4, <2>1
        DEF Logger!CallManager, Logger!LockManager, Logger!files, Aside, Stages, LoggerInv, LoggerTypes, FilesOK
<1>5. CASE Logger!Getting(t)
    <2> DEFINE entry == IF logger[Entry] = << >> THEN [Logger!None EXCEPT !.cout = Logger!Debug] ELSE logger[Entry]
               new == [logger EXCEPT ![Entry] = entry, ![t] = entry]
    <2>1. entry \in Logger!Logger /\ Sound(entry, open)
        BY <1>0, NoneIsSound DEF Logger!Levels
    <2> HIDE DEF entry
    <2>2. /\ new \in [Logger!Slots -> Logger!Logger \cup {<< >>}]
          /\ \A s \in Logger!Slots \ {Entry} : new[s] \in Logger!Logger
          /\ \A s \in Logger!Slots : new[s] # << >> => Sound(new[s], open \cup {})
        BY <1>0, <2>1
    <2>3. Logger!Replace(new, {})
        BY <1>5 DEF Logger!Getting, entry
    <2>4. Aside(t)
        <3>1. \A u \in (Threads \cup {Shared}) \ {t} : logger'[u] = logger[u]
            BY <1>0, <2>3, Apart DEF Logger!Replace
        <3> HIDE DEF new
        <3> QED
            BY <1>0, <1>5, <3>1, GoAside DEF Logger!Getting
    <2> HIDE DEF new
    <2> QED
        BY <2>2, <2>3, <2>4, AsideKeepsFiles, Subsets
<1>6. CASE Logger!Setting(t)
    <2> DEFINE new == [logger EXCEPT ![Entry] = logger[t]]
    <2>1. /\ new \in [Logger!Slots -> Logger!Logger \cup {<< >>}]
          /\ \A s \in Logger!Slots \ {Entry} : new[s] \in Logger!Logger
          /\ \A s \in Logger!Slots : new[s] # << >> => Sound(new[s], open \cup {})
        BY <1>0, LoggerIsSome
    <2>2. Aside(t)
        BY <1>0, <1>6, GoAside DEF Logger!Setting, Logger!Replace
    <2>3. Logger!Replace(new, {})
        BY <1>6 DEF Logger!Setting
    <2> HIDE DEF new
    <2> QED
        BY <2>1, <2>2, <2>3, AsideKeepsFiles, Subsets
<1> QED
    BY <1>1, <1>2, <1>3, <1>4, <1>5, <1>6

\* Steps of a message leave all loggers as they are.
LEMMA MessageKeepsFiles ==
    ASSUME LoggerInv, NEW t \in Threads,
           Logger!Log(t) \/ Logger!Finish(t) \/ Logger!FormatThrows(t)
             \/ Logger!WriteCout(t) \/ Logger!WriteStream(t) \/ Logger!WriteFile(t)
    PROVE  LoggerInv'
<1> USE DEF LoggerInv, LoggerTypes, FilesOK, Stages, Logger!Go, Logger!files
<1>1. logger' = logger /\ open' = open
    BY DEF Logger!Log, Logger!Finish, Logger!FormatThrows, Logger!WriteCout, Logger!WriteStream,
           Logger!WriteFile
<1>2. Logger!NoWorker(t) \in [slot : Logger!Slots, level : Logger!Levels]
      /\ Logger!NoWorker(t).slot = t
    BY DEF Logger!NoWorker, Logger!Slots, Logger!Levels
<1> HIDE DEF Logger!Slots, Logger!Levels
<1>3. CASE Logger!Log(t)
    <2>1. PICK s \in {t, Shared}, level \in Logger!Levels :
            worker' = [worker EXCEPT ![t] = [slot |-> s, level |-> level]]
        BY <1>3 DEF Logger!Log
    <2>2. s \in Logger!Slots
        BY DEF Logger!Slots
    <2> QED
        BY <1>1, <1>3, <2>1, <2>2 DEF Logger!Log
<1>4. CASE Logger!Finish(t)
    BY <1>1, <1>4 DEF Logger!Finish
<1>5. CASE Logger!FormatThrows(t)
    BY <1>1, <1>2, <1>5 DEF Logger!FormatThrows
<1>6. CASE Logger!WriteCout(t)
    BY <1>1, <1>6 DEF Logger!WriteCout
<1>7. CASE Logger!WriteStream(t)
    BY <1>1, <1>2, <1>7, ZenonT(60) DEF Logger!WriteStream
<1>8. CASE Logger!WriteFile(t)
    BY <1>1, <1>2, <1>8 DEF Logger!WriteFile
<1> QED
    BY <1>3, <1>4, <1>5, <1>6, <1>7, <1>8

\* The manager goes with its logger.
LEMMA ShutdownKeepsFiles ==
    ASSUME LoggerInv, Logger!Shutdown
    PROVE  LoggerInv' /\ \A s \in Threads \cup {Shared} : logger'[s] = logger[s]
<1> USE Apart DEF LoggerInv, LoggerTypes, FilesOK
<1>1. CASE UNCHANGED << logger, open >>
    BY <1>1 DEF Logger!Shutdown
<1>2. CASE Logger!Replace([logger EXCEPT ![Entry] = << >>], {})
    <2> DEFINE new == [logger EXCEPT ![Entry] = << >>]
    <2>1. /\ new \in [Logger!Slots -> Logger!Logger \cup {<< >>}]
          /\ \A s \in Logger!Slots \ {Entry} : new[s] = logger[s]
          /\ \A s \in Logger!Slots : new[s] # << >> => Sound(new[s], open \cup {})
        BY DEF Logger!Slots
    <2>2. Logger!Replace(new, {}) /\ logger' = new
        BY <1>2 DEF Logger!Replace
    <2> HIDE DEF new
    <2>3. /\ logger' \in [Logger!Slots -> Logger!Logger \cup {<< >>}]
          /\ \A s \in Logger!Slots \ {Entry} : logger'[s] \in Logger!Logger
          /\ \A s \in Logger!Slots : logger'[s] # << >> => Sound(logger'[s], open')
        BY <2>1, <2>2, ReplaceKeepsFiles, Subsets
    <2>4. \A s \in Threads \cup {Shared} : logger'[s] = logger[s]
        BY <2>1, <2>2 DEF Logger!Slots
    <2> QED
        BY <2>3, <2>4 DEF Logger!Shutdown
<1> QED
    BY <1>1, <1>2 DEF Logger!Shutdown, Logger!files

LEMMA LoggerStepKeepsFiles == LoggerInv /\ Logger!Next => LoggerInv'
BY AsideSteps, MessageKeepsFiles, ShutdownKeepsFiles DEF Logger!Next

LEMMA FilesBegin == Logger!Init => LoggerInv
<1> SUFFICES ASSUME Logger!Init
             PROVE  LoggerInv
    OBVIOUS
<1> USE Apart DEF Logger!Init, Logger!Slots, Logger!Levels
<1>1. PICK f \in Files, level \in SharedLevels :
        /\ logger = [s \in Logger!Slots |->
                       CASE s = Shared -> [Logger!None EXCEPT !.level = level, !.file = f]
                         [] s = Entry -> << >>
                         [] OTHER -> Logger!None]
        /\ open = {f}
    OBVIOUS
<1>2. /\ logger[Shared] = [Logger!None EXCEPT !.level = level, !.file = f]
      /\ logger[Entry] = << >>
      /\ \A t \in Threads : logger[t] = Logger!None
    BY <1>1
<1>3. /\ [Logger!None EXCEPT !.level = level, !.file = f] \in Logger!Logger
      /\ Logger!None \in Logger!Logger
      /\ Sound([Logger!None EXCEPT !.level = level, !.file = f], open)
      /\ Sound(Logger!None, open)
    BY <1>1 DEF Logger!None, Logger!Logger, Logger!NoLogging, Logger!Debug, Logger!Error, Sound
<1>4. \A s \in Logger!Slots : logger[s] \in Logger!Logger \cup {<< >>}
    BY <1>2, <1>3
<1>5. logger \in [Logger!Slots -> Logger!Logger \cup {<< >>}]
    BY <1>1, <1>4
<1>6. \A s \in Logger!Slots : s # Entry => logger[s] \in Logger!Logger
    BY <1>2, <1>3
<1>7. \A s \in Logger!Slots : logger[s] # << >> => Sound(logger[s], open)
    BY <1>2, <1>3
<1>8. /\ pc = [t \in Threads |-> "idle"]
      /\ worker = [t \in Threads |-> [slot |-> t, level |-> Logger!Debug]]
    BY DEF Logger!NoWorker
<1>9. /\ pc \in [Threads -> Stages \cup {"idle", "get", "set", "getting", "setting"}]
      /\ worker \in [Threads -> [slot : Logger!Slots, level : Logger!Levels]]
      /\ \A t \in Threads : worker[t].slot \in {t, Shared} /\ pc[t] # "file"
    BY <1>8
<1> QED
    BY <1>5, <1>6, <1>7, <1>9 DEF LoggerInv, LoggerTypes, FilesOK

LEMMA WriterHasFile ==
    ASSUME LoggerInv, NEW t \in Threads, pc[t] = "file"
    PROVE  logger[worker[t].slot].file \in open /\ logger[worker[t].slot].file \in Files
<1> DEFINE l == logger[worker[t].slot]
<1>1. worker[t].slot \in Logger!Slots \ {Entry} /\ worker[t].level \in {0, 3}
    BY Apart DEF LoggerInv, LoggerTypes, Logger!Slots, Logger!Levels, Logger!Debug, Logger!Error
<1>2. l \in Logger!Logger /\ Sound(l, open) /\ worker[t].level >= l.level
    BY <1>1, LoggerIsSome DEF LoggerInv, LoggerTypes, FilesOK
<1>3. l.file # NoFile
    BY <1>1, <1>2 DEF Sound, Logger!NoLogging
<1> QED
    BY <1>2, <1>3 DEF Sound, Logger!Logger

-----------------------------------------------------------------------------
(* The messages of loggers *)

Last(t) == Len(sent[t])

DueTo(t) == Logger!Due(logger[worker[t].slot], worker[t].level)

\* Is t's n-th message in s?
Has(s, t, n) == \E i \in DOMAIN out[s] : out[s][i] = << t, n >>

MessageTypes ==
    /\ sent \in [Threads -> Seq(SUBSET Logger!Sinks)]
    /\ out \in [Logger!Sinks -> Seq(Threads \X Nat)]

\* A stream's messages have been sent, and those of one thread follow each other.
OrderOK ==
    \A s \in Logger!Sinks :
        /\ \A i \in DOMAIN out[s] : out[s][i][2] <= Last(out[s][i][1])
        /\ \A i, j \in DOMAIN out[s] :
             i < j /\ out[s][i][1] = out[s][j][1] => out[s][i][2] < out[s][j][2]

\* Messages that are done with are where they were due.
DoneOK ==
    \A t \in Threads : \A n \in DOMAIN sent[t] : n < Last(t) \/ pc[t] \notin Stages =>
        \A s \in Logger!Sinks : Has(s, t, n) <=> s \in sent[t][n]

\* The one under way goes to what its logger, which stays as it is, asks for, and is
\* in cout alone so far.
UnderWayOK ==
    \A t \in Threads : pc[t] \in Stages =>
        /\ Last(t) \in DOMAIN sent[t]
        /\ sent[t][Last(t)] = DueTo(t)
        /\ \A f \in Files : ~Has(f, t, Last(t))
        /\ Has("cout", t, Last(t)) <=> pc[t] \in {"stream", "file"} /\ "cout" \in DueTo(t)

MessageInv == LoggerInv /\ MessageTypes /\ OrderOK /\ DoneOK /\ UnderWayOK

LEMMA SentLast ==
    ASSUME MessageTypes, NEW t \in Threads
    PROVE  /\ Last(t) \in Nat /\ DOMAIN sent[t] = 1..Last(t)
           /\ sent[t] \in Seq(SUBSET Logger!Sinks)
BY DEF MessageTypes, Last

LEMMA AsideKeepsMessages ==
    ASSUME MessageInv, NEW t \in Threads, Aside(t), LoggerInv'
    PROVE  MessageInv'
<1> USE DEF MessageInv, Aside
<1>1. MessageTypes' /\ OrderOK'
    BY DEF MessageTypes, OrderOK, Last
<1>2. \A s, u, n : Has(s, u, n)' <=> Has(s, u, n)
    BY DEF Has
<1>3. DoneOK'
    BY <1>2 DEF DoneOK, Last
<1>4. UnderWayOK'
    <2> SUFFICES ASSUME NEW u \in Threads, pc'[u] \in Stages
                 PROVE  DueTo(u)' = DueTo(u) /\ pc'[u] = pc[u] /\ Last(u)' = Last(u) /\ sent'[u] = sent[u]
        BY <1>2 DEF UnderWayOK
    <2>1. u # t /\ worker'[u] = worker[u] /\ worker[u].slot \in {u, Shared}
        BY DEF LoggerInv, LoggerTypes
    <2> QED
        BY <2>1 DEF DueTo, Last, Logger!Due
<1> QED
    BY <1>1, <1>3, <1>4

LEMMA ShutdownKeepsMessages ==
    ASSUME MessageInv, Logger!Shutdown
    PROVE  MessageInv'
<1> USE DEF MessageInv
<1>1. /\ LoggerInv' /\ UNCHANGED << pc, worker, sent, out >>
      /\ \A s \in Threads \cup {Shared} : logger'[s] = logger[s]
    BY ShutdownKeepsFiles DEF Logger!Shutdown
<1>2. MessageTypes' /\ OrderOK' /\ DoneOK'
    BY <1>1, ZenonT(60) DEF MessageTypes, OrderOK, DoneOK, Last, Has
<1>3. \A u \in Threads : DueTo(u)' = DueTo(u)
    BY <1>1 DEF DueTo, Logger!Due, LoggerInv, LoggerTypes
<1>4. UnderWayOK'
    BY <1>1, <1>3 DEF UnderWayOK, Last, Has
<1> QED
    BY <1>1, <1>2, <1>4

\* A message is appended where it is not yet.
LEMMA WriteAppends ==
    ASSUME MessageInv, NEW t \in Threads, pc[t] \in Stages, NEW s \in Logger!Sinks,
           ~Has(s, t, Last(t)), Logger!Write(t, s), sent' = sent
    PROVE  /\ MessageTypes' /\ OrderOK'
           /\ \A r \in Logger!Sinks, u \in Threads, n \in Nat :
                Has(r, u, n)' <=> Has(r, u, n) \/ (r = s /\ u = t /\ n = Last(t))
<1> DEFINE m == << t, Last(t) >>
<1> USE DEF MessageInv
<1>1. Last(t) \in Nat /\ m \in Threads \X Nat
    BY SentLast
<1>2. out[s] \in Seq(Threads \X Nat) /\ out'[s] = Append(out[s], m)
    BY DEF MessageTypes, Logger!Write, Last
<1>3. /\ out' \in [Logger!Sinks -> Seq(Threads \X Nat)]
      /\ \A r \in Logger!Sinks \ {s} : out'[r] = out[r]
    BY <1>1, <1>2 DEF MessageTypes, Logger!Write, Last
<1>4. /\ DOMAIN out'[s] = 1..(Len(out[s]) + 1) /\ DOMAIN out[s] = 1..Len(out[s])
      /\ Len(out[s]) \in Nat
      /\ \A i \in 1..Len(out[s]) : out'[s][i] = out[s][i]
      /\ out'[s][Len(out[s]) + 1] = m
    BY <1>1, <1>2
<1>5. MessageTypes'
    BY <1>3 DEF MessageTypes
<1>6. \A i \in 1..Len(out[s]) : out[s][i] \in Threads \X Nat
    BY <1>2
<1>7. ASSUME NEW i \in 1..Len(out[s]), out[s][i][1] = t
      PROVE  out[s][i][2] < Last(t)
    <2>1. out[s][i] = << t, out[s][i][2] >> /\ out[s][i][2] \in Nat
        BY <1>6, <1>7
    <2>2. out[s][i][2] <= Last(t)
        BY <1>4, <1>7 DEF OrderOK
    <2>3. out[s][i][2] # Last(t)
        BY <1>4, <2>1 DEF Has
    <2> QED
        BY <1>1, <2>1, <2>2, <2>3
<1>8. OrderOK'
    <2> SUFFICES ASSUME NEW r \in Logger!Sinks
                 PROVE  /\ \A i \in DOMAIN out'[r] : out'[r][i][2] <= Last(out'[r][i][1])
                        /\ \A i, j \in DOMAIN out'[r] :
                             i < j /\ out'[r][i][1] = out'[r][j][1] => out'[r][i][2] < out'[r][j][2]
        BY DEF OrderOK, Last
    <2>1. CASE r # s
        BY <1>3, <2>1 DEF OrderOK
    <2>2. CASE r = s
        <3>1. \A i \in DOMAIN out'[s] : out'[s][i][2] <= Last(out'[s][i][1])
            <4> SUFFICES ASSUME NEW i \in 1..(Len(out[s]) + 1)
                         PROVE  out'[s][i][2] <= Last(out'[s][i][1])
                BY <1>4
            <4>1. CASE i = Len(out[s]) + 1
                BY <1>1, <1>4, <4>1
            <4>2. CASE i # Len(out[s]) + 1
                BY <1>4, <4>2, SMTT(30) DEF OrderOK
            <4> QED
                BY <4>1, <4>2
        <3>2. ASSUME NEW i \in DOMAIN out'[s], NEW j \in DOMAIN out'[s], i < j,
                     out'[s][i][1] = out'[s][j][1]
              PROVE  out'[s][i][2] < out'[s][j][2]
            <4>1. i \in 1..Len(out[s]) /\ j \in 1..(Len(out[s]) + 1)
                BY <1>4, <3>2
            <4>2. CASE j = Len(out[s]) + 1
                BY <1>4, <1>7, <3>2, <4>1, <4>2
            <4>3. CASE j # Len(out[s]) + 1
                BY <1>4, <3>2, <4>1, <4>3 DEF OrderOK
            <4> QED
                BY <4>2, <4>3
        <3> QED
            BY <2>2, <3>1, <3>2
    <2> QED
        BY <2>1, <2>2
<1>9. ASSUME NEW r \in Logger!Sinks, NEW u \in Threads, NEW n \in Nat
      PROVE  Has(r, u, n)' <=> Has(r, u, n) \/ (r = s /\ u = t /\ n = Last(t))
    <2>1. CASE r # s
        BY <1>3, <2>1 DEF Has
    <2>2. CASE r = s
        <3>1. Has(s, u, n) => Has(s, u, n)'
            BY <1>4 DEF Has
        <3>2. u = t /\ n = Last(t) => Has(s, u, n)'
            BY <1>4 DEF Has
        <3>3. Has(s, u, n)' => Has(s, u, n) \/ (u = t /\ n = Last(t))
            <4> SUFFICES ASSUME NEW i \in DOMAIN out'[s], out'[s][i] = << u, n >>
                         PROVE  Has(s, u, n) \/ (u = t /\ n = Last(t))
                BY DEF Has
            <4>1. CASE i = Len(out[s]) + 1
                BY <1>4, <4>1
            <4>2. CASE i # Len(out[s]) + 1
                BY <1>4, <4>2 DEF Has
            <4> QED
                BY <4>1, <4>2
        <3> QED
            BY <2>2, <3>1, <3>2, <3>3
    <2> QED
        BY <2>1, <2>2
<1> QED
    BY <1>5, <1>8, <1>9

\* Messages of other threads stay what they are while t is at one of its own.
Others(t) ==
    \A u \in Threads \ {t} :
        /\ pc'[u] = pc[u] /\ sent'[u] = sent[u] /\ DueTo(u)' = DueTo(u)
        /\ \A s \in Logger!Sinks, n \in Nat : Has(s, u, n)' <=> Has(s, u, n)

\* What is left to show of t itself.
LEMMA OthersKeepMessages ==
    ASSUME MessageInv, NEW t \in Threads, Others(t), LoggerInv', MessageTypes', OrderOK',
           \A n \in DOMAIN sent'[t] : n < Last(t)' \/ pc'[t] \notin Stages =>
               \A s \in Logger!Sinks : Has(s, t, n)' <=> s \in sent'[t][n],
           pc'[t] \in Stages =>
               /\ Last(t)' \in DOMAIN sent'[t]
               /\ sent'[t][Last(t)'] = DueTo(t)'
               /\ \A f \in Files : ~Has(f, t, Last(t))'
               /\ Has("cout", t, Last(t))' <=> pc'[t] \in {"stream", "file"} /\ "cout" \in DueTo(t)'
    PROVE  MessageInv'
<1> USE DEF MessageInv
<1>1. \A u \in Threads \ {t} : Last(u)' = Last(u) /\ Last(u) \in Nat /\ DOMAIN sent[u] = 1..Last(u)
    BY SentLast DEF Others, Last
<1>2. DoneOK'
    <2> SUFFICES ASSUME NEW u \in Threads, u # t, NEW n \in DOMAIN sent'[u],
                        n < Last(u)' \/ pc'[u] \notin Stages, NEW s \in Logger!Sinks
                 PROVE  Has(s, u, n)' <=> s \in sent'[u][n]
        BY DEF DoneOK
    <2>1. n \in Nat /\ n \in DOMAIN sent[u] /\ sent'[u] = sent[u] /\ pc'[u] = pc[u]
        BY <1>1 DEF Others
    <2> QED
        BY <1>1, <2>1 DEF Others, DoneOK
<1>3. UnderWayOK'
    <2> SUFFICES ASSUME NEW u \in Threads, u # t, pc'[u] \in Stages
                 PROVE  /\ Last(u)' \in DOMAIN sent'[u]
                        /\ sent'[u][Last(u)'] = DueTo(u)'
                        /\ \A f \in Files : ~Has(f, u, Last(u))'
                        /\ Has("cout", u, Last(u))' <=>
                             pc'[u] \in {"stream", "file"} /\ "cout" \in DueTo(u)'
        BY DEF UnderWayOK
    <2>0. PICK n \in Nat : n = Last(u)
        BY <1>1
    <2>1. \A s \in Logger!Sinks : Has(s, u, Last(u))' <=> Has(s, u, Last(u))
        <3>1. Last(u)' = n
            BY <1>1, <2>0
        <3>2. \A s \in Logger!Sinks : Has(s, u, n)' <=> Has(s, u, n)
            BY DEF Others
        <3> QED
            BY <2>0, <3>1, <3>2 DEF Has
    <2>2. "cout" \in Logger!Sinks /\ Files \subseteq Logger!Sinks
        BY DEF Logger!Sinks
    <2> QED
        BY <1>1, <2>1, <2>2 DEF Others, UnderWayOK
<1> QED
    BY <1>2, <1>3

\* Steps that write nothing and change the worker of their thread alone.
LEMMA SilentStep ==
    ASSUME MessageInv, NEW t \in Threads, out' = out, logger' = logger,
           NEW old, NEW to, Logger!Go(t, old, to), to # "building",
           \A u \in Threads \ {t} : sent'[u] = sent[u]
    PROVE  Others(t)
BY DEF MessageInv, LoggerInv, LoggerTypes, Others, Has, DueTo, Logger!Due, Logger!Go

LEMMA LogKeepsMessages ==
    ASSUME MessageInv, NEW t \in Threads, Logger!Log(t)
    PROVE  MessageInv'
<1> USE DEF MessageInv
<1>1. PICK s \in {t, Shared}, level \in Logger!Levels :
        /\ worker' = [worker EXCEPT ![t] = [slot |-> s, level |-> level]]
        /\ sent' = [sent EXCEPT ![t] = Append(@, Logger!Due(logger[s], level))]
    BY DEF Logger!Log
<1>2. /\ logger' = logger /\ out' = out
      /\ pc[t] = "idle" /\ pc' = [pc EXCEPT ![t] = "building"]
    BY DEF Logger!Log, Logger!Go
<1>3. /\ DueTo(t)' = Logger!Due(logger[s], level)
      /\ Logger!Due(logger[s], level) \in SUBSET Logger!Sinks
    BY <1>1, <1>2 DEF DueTo, Logger!Due, LoggerInv, LoggerTypes
<1>4. /\ sent[t] \in Seq(SUBSET Logger!Sinks) /\ Last(t) \in Nat /\ DOMAIN sent[t] = 1..Last(t)
      /\ sent'[t] = Append(sent[t], DueTo(t)')
    BY <1>1, <1>3, SentLast DEF MessageTypes
<1>5. /\ sent'[t] \in Seq(SUBSET Logger!Sinks)
      /\ Last(t)' = Last(t) + 1 /\ DOMAIN sent'[t] = 1..(Last(t) + 1)
      /\ \A n \in 1..Last(t) : sent'[t][n] = sent[t][n]
      /\ sent'[t][Last(t) + 1] = DueTo(t)'
    BY <1>3, <1>4 DEF Last
<1>6. \A u \in Threads \ {t} : sent'[u] = sent[u]
    BY <1>1 DEF MessageTypes
<1>7. MessageTypes'
    BY <1>1, <1>2, <1>5, <1>6 DEF MessageTypes
<1>8. OrderOK'
    <2> SUFFICES ASSUME NEW r \in Logger!Sinks, NEW i \in DOMAIN out[r]
                 PROVE  out[r][i][2] <= Len(sent'[out[r][i][1]])
        BY <1>2 DEF OrderOK, Last
    <2>1. out[r][i] \in Threads \X Nat
        BY DEF MessageTypes
    <2>2. out[r][i][2] <= Last(out[r][i][1])
        BY DEF OrderOK
    <2>3. CASE out[r][i][1] = t
        BY <1>4, <1>5, <2>1, <2>2, <2>3 DEF Last
    <2>4. CASE out[r][i][1] # t
        BY <1>6, <2>1, <2>2, <2>4 DEF Last
    <2> QED
        BY <2>3, <2>4
<1>9. \A r, u, n : Has(r, u, n)' <=> Has(r, u, n)
    BY <1>2 DEF Has
<1>10. Others(t)
    BY <1>1, <1>2, <1>6, <1>9 DEF Others, DueTo, Logger!Due, LoggerInv, LoggerTypes
<1>11. ASSUME NEW r \in Logger!Sinks, Has(r, t, Last(t) + 1)
       PROVE  FALSE
    <2>1. PICK i \in DOMAIN out[r] : out[r][i] = << t, Last(t) + 1 >>
        BY <1>11 DEF Has
    <2>2. Last(t) + 1 <= Last(t)
        BY <2>1 DEF OrderOK
    <2> QED
        BY <1>4, <2>2
<1>12. ASSUME NEW n \in 1..Last(t), NEW r \in Logger!Sinks
       PROVE  Has(r, t, n)' <=> r \in sent'[t][n]
    BY <1>2, <1>4, <1>5, <1>9 DEF DoneOK, Stages
<1>13. pc'[t] = "building"
    BY <1>2 DEF LoggerInv, LoggerTypes
<1>14. \A r \in Logger!Sinks : ~Has(r, t, Last(t))'
    BY <1>2, <1>5, <1>11 DEF Has, Last
<1>15. "cout" \in Logger!Sinks /\ Files \subseteq Logger!Sinks
    BY DEF Logger!Sinks
<1>16. LoggerInv'
    BY MessageKeepsFiles
<1>17. \A n \in DOMAIN sent'[t] : n < Last(t)' \/ pc'[t] \notin Stages =>
           \A r \in Logger!Sinks : Has(r, t, n)' <=> r \in sent'[t][n]
    BY <1>4, <1>5, <1>12, <1>13 DEF Stages
<1>18. /\ Last(t)' \in DOMAIN sent'[t] /\ sent'[t][Last(t)'] = DueTo(t)'
    BY <1>4, <1>5
<1> QED
    BY <1>7, <1>8, <1>10, <1>13, <1>14, <1>15, <1>16, <1>17, <1>18, OthersKeepMessages

\* Writing to cout or to the logger's file.
LEMMA WriteStep ==
    ASSUME MessageInv, NEW t \in Threads, NEW s \in Logger!Sinks, ~Has(s, t, Last(t)),
           Logger!Write(t, s), sent' = sent, logger' = logger, pc[t] \in Stages,
           NEW old, NEW to, Logger!Go(t, old, to), to # "building"
    PROVE  /\ Others(t) /\ MessageTypes' /\ OrderOK'
           /\ \A r \in Logger!Sinks, n \in Nat :
                Has(r, t, n)' <=> Has(r, t, n) \/ (r = s /\ n = Last(t))
<1>1. /\ MessageTypes' /\ OrderOK'
      /\ \A r \in Logger!Sinks, u \in Threads, n \in Nat :
           Has(r, u, n)' <=> Has(r, u, n) \/ (r = s /\ u = t /\ n = Last(t))
    BY WriteAppends
<1>2. \A u \in Threads \ {t} :
         pc'[u] = pc[u] /\ sent'[u] = sent[u] /\ DueTo(u)' = DueTo(u)
    BY DEF MessageInv, LoggerInv, LoggerTypes, DueTo, Logger!Due, Logger!Go
<1> QED
    BY <1>1, <1>2 DEF Others

LEMMA FinishKeepsMessages ==
    ASSUME MessageInv, NEW t \in Threads, Logger!Finish(t)
    PROVE  MessageInv'
<1> USE DEF MessageInv
<1>1. /\ pc[t] = "building" /\ pc'[t] = "cout"
      /\ UNCHANGED << logger, worker, sent, out >>
    BY DEF Logger!Finish, Logger!Go, LoggerInv, LoggerTypes
<1>2. Others(t)
    BY <1>1, SilentStep DEF Logger!Finish
<1>3. LoggerInv' /\ MessageTypes' /\ OrderOK'
    BY <1>1, MessageKeepsFiles DEF MessageTypes, OrderOK, Last
<1>4. \A n \in DOMAIN sent'[t] : n < Last(t)' \/ pc'[t] \notin Stages =>
          \A r \in Logger!Sinks : Has(r, t, n)' <=> r \in sent'[t][n]
    BY <1>1 DEF DoneOK, Has, Last, Stages
<1>5. /\ Last(t)' \in DOMAIN sent'[t] /\ sent'[t][Last(t)'] = DueTo(t)'
      /\ \A f \in Files : ~Has(f, t, Last(t))'
      /\ ~Has("cout", t, Last(t))'
    BY <1>1 DEF UnderWayOK, Stages, Has, Last, DueTo, Logger!Due
<1> QED
    BY <1>1, <1>2, <1>3, <1>4, <1>5, OthersKeepMessages

\* A message whose formatting throws is due nowhere, and is nowhere.
LEMMA FormatThrowsKeepsMessages ==
    ASSUME MessageInv, NEW t \in Threads, Logger!FormatThrows(t)
    PROVE  MessageInv'
<1> USE DEF MessageInv
<1>1. /\ pc[t] = "building" /\ pc'[t] = "idle" /\ logger' = logger /\ out' = out
      /\ sent' = [sent EXCEPT ![t] = [@ EXCEPT ![Len(@)] = {}]]
    BY DEF Logger!FormatThrows, Logger!Go, LoggerInv, LoggerTypes
<1>2. /\ sent[t] \in Seq(SUBSET Logger!Sinks) /\ Last(t) \in Nat /\ DOMAIN sent[t] = 1..Last(t)
      /\ Last(t) \in DOMAIN sent[t]
    BY <1>1, SentLast DEF UnderWayOK, Stages
<1>3. sent'[t] = [sent[t] EXCEPT ![Last(t)] = {}] /\ \A u \in Threads \ {t} : sent'[u] = sent[u]
    BY <1>1 DEF MessageTypes, Last
<1>4. /\ sent'[t] \in Seq(SUBSET Logger!Sinks)
      /\ Last(t)' = Last(t) /\ DOMAIN sent'[t] = 1..Last(t)
      /\ \A n \in 1..(Last(t) - 1) : sent'[t][n] = sent[t][n]
      /\ sent'[t][Last(t)] = {}
    BY <1>2, <1>3 DEF Last
<1>5. Others(t)
    BY <1>1, <1>3, SilentStep DEF Logger!FormatThrows
<1>6. LoggerInv'
    BY MessageKeepsFiles
<1>7. MessageTypes'
    BY <1>1, <1>3, <1>4 DEF MessageTypes
<1>8. \A u \in Threads : Last(u)' = Last(u)
    BY <1>3, <1>4 DEF Last
<1>9. OrderOK'
    <2> SUFFICES ASSUME NEW r \in Logger!Sinks, NEW i \in DOMAIN out[r]
                 PROVE  out[r][i][2] <= Len(sent'[out[r][i][1]])
        BY <1>1 DEF OrderOK, Last
    <2>1. out[r][i] \in Threads \X Nat /\ out[r][i][2] <= Last(out[r][i][1])
        BY DEF MessageTypes, OrderOK
    <2> QED
        BY <1>3, <1>4, <2>1 DEF Last
<1>10. \A r \in Logger!Sinks : ~Has(r, t, Last(t))
    BY <1>1 DEF UnderWayOK, Stages, Logger!Sinks
<1>11. ASSUME NEW n \in 1..Last(t), NEW r \in Logger!Sinks
       PROVE  Has(r, t, n)' <=> r \in sent'[t][n]
    <2>1. Has(r, t, n)' <=> Has(r, t, n)
        BY <1>1 DEF Has
    <2>2. CASE n = Last(t)
        BY <1>4, <1>10, <2>1, <2>2
    <2>3. CASE n # Last(t)
        BY <1>2, <1>4, <2>1, <2>3 DEF DoneOK
    <2> QED
        BY <2>2, <2>3
<1> QED
    BY <1>1, <1>4, <1>5, <1>6, <1>7, <1>9, <1>11, OthersKeepMessages DEF Stages

LEMMA WriteCoutKeepsMessages ==
    ASSUME MessageInv, NEW t \in Threads, Logger!WriteCout(t)
    PROVE  MessageInv'
<1> USE DEF MessageInv
<1>1. /\ pc[t] = "cout" /\ pc'[t] = "stream" /\ UNCHANGED << logger, worker, sent >>
      /\ Logger!Go(t, "cout", "stream")
    BY DEF Logger!WriteCout, Logger!Go, LoggerInv, LoggerTypes
<1>2. /\ Last(t) \in Nat /\ DOMAIN sent[t] = 1..Last(t) /\ Last(t) \in DOMAIN sent[t]
      /\ sent[t][Last(t)] = DueTo(t) /\ DueTo(t)' = DueTo(t) /\ Last(t)' = Last(t)
      /\ \A r \in Logger!Sinks : ~Has(r, t, Last(t))
    BY <1>1, SentLast DEF UnderWayOK, Stages, Logger!Sinks, DueTo, Logger!Due, Last
<1>3. LoggerInv'
    BY MessageKeepsFiles
<1>4. "cout" \in Logger!Sinks /\ "cout" \notin Files /\ Files \subseteq Logger!Sinks
    BY Apart DEF Logger!Sinks
<1>5. /\ Others(t) /\ MessageTypes' /\ OrderOK'
      /\ \A r \in Logger!Sinks, n \in Nat :
           Has(r, t, n)' <=> Has(r, t, n) \/ (r = "cout" /\ n = Last(t) /\ "cout" \in DueTo(t))
    <2>1. CASE worker[t].level >= logger[worker[t].slot].cout
        <3>1. "cout" \in DueTo(t)
            BY <1>4, <2>1 DEF DueTo, Logger!Due
        <3>2. Logger!Write(t, "cout")
            BY <2>1 DEF Logger!WriteCout
        <3>3. Stages = {"building", "cout", "stream", "file"}
            BY DEF Stages
        <3>4. /\ Others(t) /\ MessageTypes' /\ OrderOK'
              /\ \A r \in Logger!Sinks, n \in Nat :
                   Has(r, t, n)' <=> Has(r, t, n) \/ (r = "cout" /\ n = Last(t))
            BY <1>1, <1>2, <1>4, <3>2, <3>3, WriteStep
        <3> QED
            BY <3>1, <3>4
    <2>2. CASE ~(worker[t].level >= logger[worker[t].slot].cout)
        <3>1. "cout" \notin DueTo(t)
            BY <2>2 DEF DueTo, Logger!Due
        <3>2. out' = out
            BY <2>2 DEF Logger!WriteCout
        <3>3. Others(t)
            BY <1>1, <3>2, SilentStep
        <3> QED
            BY <1>1, <3>1, <3>2, <3>3 DEF MessageTypes, OrderOK, Last, Has
    <2> QED
        BY <2>1, <2>2
<1>6. \A n \in DOMAIN sent'[t] : n < Last(t)' \/ pc'[t] \notin Stages =>
          \A r \in Logger!Sinks : Has(r, t, n)' <=> r \in sent'[t][n]
    <2> SUFFICES ASSUME NEW n \in 1..Last(t), n < Last(t), NEW r \in Logger!Sinks
                 PROVE  Has(r, t, n)' <=> r \in sent[t][n]
        BY <1>1, <1>2 DEF Stages
    <2>1. n # Last(t) /\ n \in Nat
        BY <1>2
    <2> QED
        BY <1>2, <1>5, <2>1 DEF DoneOK
<1>7. PICK n \in Nat : n = Last(t)
    BY <1>2
<1>8. \A r \in Logger!Sinks : Has(r, t, Last(t))' <=> r = "cout" /\ "cout" \in DueTo(t)
    <2>1. \A r \in Logger!Sinks : Has(r, t, n)' <=> r = "cout" /\ "cout" \in DueTo(t)
        BY <1>2, <1>5, <1>7
    <2> QED
        BY <1>2, <1>7, <2>1 DEF Has
<1>9. /\ \A f \in Files : ~Has(f, t, Last(t))'
      /\ Has("cout", t, Last(t))' <=> pc'[t] \in {"stream", "file"} /\ "cout" \in DueTo(t)'
    BY <1>1, <1>2, <1>4, <1>8
<1>10. Last(t)' \in DOMAIN sent'[t] /\ sent'[t][Last(t)'] = DueTo(t)'
    BY <1>1, <1>2
<1> QED
    BY <1>3, <1>5, <1>6, <1>9, <1>10, OthersKeepMessages

LEMMA WriteStreamKeepsMessages ==
    ASSUME MessageInv, NEW t \in Threads, Logger!WriteStream(t)
    PROVE  MessageInv'
<1> USE DEF MessageInv
<1> DEFINE l == logger[worker[t].slot]
           next == IF worker[t].level >= l.level THEN "file" ELSE "idle"
<1>1. /\ pc[t] = "stream" /\ pc'[t] = next /\ UNCHANGED << logger, sent, out >>
      /\ Logger!Go(t, "stream", next)
      /\ next = "file" => worker' = worker
    BY DEF Logger!WriteStream, Logger!Go, LoggerInv, LoggerTypes
<1>2. Others(t)
    BY <1>1, SilentStep
<1>3. LoggerInv' /\ MessageTypes' /\ OrderOK'
    BY <1>1, MessageKeepsFiles DEF MessageTypes, OrderOK, Last
<1>4. /\ Last(t) \in Nat /\ DOMAIN sent[t] = 1..Last(t) /\ Last(t) \in DOMAIN sent[t]
      /\ sent[t][Last(t)] = DueTo(t) /\ Last(t)' = Last(t)
      /\ \A f \in Files : ~Has(f, t, Last(t))
      /\ Has("cout", t, Last(t)) <=> "cout" \in DueTo(t)
    BY <1>1, SentLast DEF UnderWayOK, Stages, Last
<1>5. \A r, u, n : Has(r, u, n)' <=> Has(r, u, n)
    BY <1>1 DEF Has
<1>6. next = "idle" => \A f \in Files : f \notin DueTo(t)
    BY Apart DEF DueTo, Logger!Due
<1>7. ASSUME NEW n \in 1..Last(t), n < Last(t) \/ next = "idle", NEW r \in Logger!Sinks
      PROVE  Has(r, t, n) <=> r \in sent[t][n]
    <2>1. CASE n < Last(t)
        BY <1>4, <2>1 DEF DoneOK
    <2>2. CASE ~(n < Last(t))
        <3>1. n = Last(t)
            BY <1>4, <2>2
        <3> QED
            BY <1>4, <1>6, <1>7, <2>2, <3>1 DEF Logger!Sinks
    <2> QED
        BY <2>1, <2>2
<1>8. \A n \in DOMAIN sent'[t] : n < Last(t)' \/ pc'[t] \notin Stages =>
          \A r \in Logger!Sinks : Has(r, t, n)' <=> r \in sent'[t][n]
    BY <1>1, <1>4, <1>5, <1>7 DEF Stages
<1>9. ASSUME pc'[t] \in Stages
      PROVE  /\ Last(t)' \in DOMAIN sent'[t] /\ sent'[t][Last(t)'] = DueTo(t)'
             /\ \A f \in Files : ~Has(f, t, Last(t))'
             /\ Has("cout", t, Last(t))' <=> pc'[t] \in {"stream", "file"} /\ "cout" \in DueTo(t)'
    <2>1. next = "file" /\ pc'[t] = "file" /\ worker' = worker
        BY <1>1, <1>9 DEF Stages
    <2>2. DueTo(t)' = DueTo(t)
        BY <1>1, <2>1 DEF DueTo, Logger!Due
    <2>3. \A r : Has(r, t, Last(t))' <=> Has(r, t, Last(t))
        BY <1>1 DEF Has, Last
    <2> QED
        BY <1>1, <1>4, <2>1, <2>2, <2>3
<1> HIDE DEF next, l
<1> QED
    BY <1>2, <1>3, <1>8, <1>9, OthersKeepMessages

LEMMA WriteFileKeepsMessages ==
    ASSUME MessageInv, NEW t \in Threads, Logger!WriteFile(t)
    PROVE  MessageInv'
<1> USE DEF MessageInv
<1>1. PICK f \in Files : f = logger[worker[t].slot].file
    BY WriterHasFile DEF Logger!WriteFile, Logger!Go
<1>2. /\ pc[t] = "file" /\ pc'[t] = "idle" /\ UNCHANGED << logger, sent >>
      /\ Logger!Go(t, "file", "idle") /\ Logger!Write(t, f)
    BY <1>1 DEF Logger!WriteFile, Logger!Go, LoggerInv, LoggerTypes
<1>3. LoggerInv'
    BY MessageKeepsFiles
<1>4. /\ Last(t) \in Nat /\ DOMAIN sent[t] = 1..Last(t) /\ Last(t)' = Last(t)
      /\ sent[t][Last(t)] = DueTo(t)
      /\ \A r \in Files : ~Has(r, t, Last(t))
      /\ Has("cout", t, Last(t)) <=> "cout" \in DueTo(t)
    BY <1>2, SentLast DEF UnderWayOK, Stages, Last
<1>5. f \in Logger!Sinks /\ "cout" \in Logger!Sinks /\ "cout" \notin Files /\ pc[t] \in Stages
    BY <1>2, Apart DEF Logger!Sinks, Stages
<1>6. /\ Others(t) /\ MessageTypes' /\ OrderOK'
      /\ \A r \in Logger!Sinks, n \in Nat :
           Has(r, t, n)' <=> Has(r, t, n) \/ (r = f /\ n = Last(t))
    BY <1>2, <1>4, <1>5, WriteStep
<1>7. \A r \in Files : r \in DueTo(t) <=> r = f
    <2>1. worker[t].level >= logger[worker[t].slot].level
        BY <1>2 DEF LoggerInv, FilesOK
    <2> QED
        BY <1>1, <1>5, <2>1 DEF DueTo, Logger!Due, Logger!Sinks
<1>8. ASSUME NEW n \in 1..Last(t), NEW r \in Logger!Sinks
      PROVE  Has(r, t, n)' <=> r \in sent[t][n]
    <2>1. CASE n = Last(t)
        <3>1. Has(r, t, n)' <=> Has(r, t, Last(t)) \/ r = f
            BY <1>4, <1>6, <2>1
        <3>2. CASE r \in Files
            BY <1>4, <1>7, <2>1, <3>1, <3>2
        <3>3. CASE r = "cout"
            BY <1>4, <1>5, <2>1, <3>1, <3>3
        <3> QED
            BY <3>2, <3>3 DEF Logger!Sinks
    <2>2. CASE n # Last(t)
        BY <1>4, <1>6, <2>2 DEF DoneOK
    <2> QED
        BY <2>1, <2>2
<1>9. \A n \in DOMAIN sent'[t] : n < Last(t)' \/ pc'[t] \notin Stages =>
          \A r \in Logger!Sinks : Has(r, t, n)' <=> r \in sent'[t][n]
    BY <1>2, <1>4, <1>8
<1>10. pc'[t] \notin Stages
    BY <1>2 DEF Stages
<1> QED
    BY <1>3, <1>6, <1>9, <1>10, OthersKeepMessages

LEMMA LoggerStepKeepsMessages == MessageInv /\ Logger!Next => MessageInv'
<1> SUFFICES ASSUME MessageInv, Logger!Next
             PROVE  MessageInv'
    OBVIOUS
<1>1. LoggerInv
    BY DEF MessageInv
<1>2. ASSUME NEW t \in Threads,
             Logger!Construct(t) \/ Logger!Copy(t) \/ Logger!SetStream(t) \/ Logger!CallManager(t)
               \/ Logger!LockManager(t) \/ Logger!Getting(t) \/ Logger!Setting(t)
      PROVE  MessageInv'
    BY <1>1, <1>2, AsideSteps, AsideKeepsMessages
<1> QED
    BY <1>2, LogKeepsMessages, FinishKeepsMessages, FormatThrowsKeepsMessages,
       WriteCoutKeepsMessages, WriteStreamKeepsMessages, WriteFileKeepsMessages,
       ShutdownKeepsMessages DEF Logger!Next

LEMMA MessagesBegin == Logger!Init => MessageInv
<1> SUFFICES ASSUME Logger!Init
             PROVE  MessageInv
    OBVIOUS
<1>1. /\ pc = [t \in Threads |-> "idle"]
      /\ sent = [t \in Threads |-> << >>] /\ out = [s \in Logger!Sinks |-> << >>]
    BY DEF Logger!Init
<1>2. MessageTypes
    BY <1>1 DEF MessageTypes
<1>3. OrderOK /\ DoneOK /\ UnderWayOK
    BY <1>1 DEF OrderOK, DoneOK, UnderWayOK, Stages
<1> QED
    BY <1>2, <1>3, FilesBegin DEF MessageInv

\* What was to be shown of messages, as Delivered puts it.
LEMMA DeliveredInOrder == MessageInv => Logger!Delivered
<1> SUFFICES ASSUME MessageInv, NEW t \in Threads, pc[t] \notin Stages,
                    NEW n \in DOMAIN sent[t], NEW s \in Logger!Sinks
             PROVE  LET places == Logger!Count(s, << t, n >>)
                    IN /\ (places # {}) = (s \in sent[t][n])
                       /\ \A i, j \in places : i = j
                       /\ \A m \in 1..(n - 1) : \A i \in places :
                            \A j \in Logger!Count(s, << t, m >>) : j < i
    BY DEF Logger!Delivered, Stages
<1> USE DEF MessageInv
<1> DEFINE At(m) == Logger!Count(s, << t, m >>)
<1>1. n \in Nat /\ DOMAIN out[s] \subseteq Nat
    BY SentLast DEF MessageTypes
<1>2. \A m : \A i \in At(m) : i \in DOMAIN out[s] /\ out[s][i][1] = t /\ out[s][i][2] = m
    BY DEF Logger!Count
<1>3. Has(s, t, n) <=> s \in sent[t][n]
    BY DEF DoneOK
<1>4. At(n) # {} <=> Has(s, t, n)
    BY DEF Logger!Count, Has
<1>5. ASSUME NEW i \in At(n), NEW j \in At(n)
      PROVE  i = j
    <2>1. i \in Nat /\ j \in Nat /\ ~(i < j) /\ ~(j < i)
        BY <1>1, <1>2 DEF OrderOK
    <2> QED
        BY <2>1
<1>6. ASSUME NEW m \in 1..(n - 1), NEW i \in At(n), NEW j \in At(m)
      PROVE  j < i
    <2>1. i \in Nat /\ j \in Nat /\ m \in Nat /\ m < n
        BY <1>1, <1>2
    <2>2. ~(i < j)
        BY <1>1, <1>2, <2>1 DEF OrderOK
    <2>3. i # j
        BY <1>2, <2>1
    <2> QED
        BY <2>1, <2>2, <2>3
<1> HIDE DEF At
<1>7. (At(n) # {}) = (s \in sent[t][n])
    BY <1>3, <1>4
<1>8. /\ (At(n) # {}) = (s \in sent[t][n])
      /\ \A i, j \in At(n) : i = j
      /\ \A m \in 1..(n - 1) : \A i \in At(n) : \A j \in At(m) : j < i
    BY <1>5, <1>6, <1>7
<1> QED
    BY <1>8 DEF At

-----------------------------------------------------------------------------
LoggerPart == part = "logger" => MessageInv

LEMMA LoggersBegin == LibraryInit => LoggerPart
BY MessagesBegin DEF LibraryInit, LoggerPart

LEMMA LoggersContinue == LoggerPart /\ [LibraryNext]_libraryVars => LoggerPart'
<1> SUFFICES ASSUME part = "logger", MessageInv, [LibraryNext]_libraryVars
             PROVE  MessageInv'
    BY DEF LibraryNext, libraryVars, LoggerPart
<1>1. CASE UNCHANGED loggerVars
    <2> USE <1>1 DEF loggerVars
    <2>1. LoggerInv'
        BY DEF MessageInv, LoggerInv, LoggerTypes, FilesOK
    <2>2. MessageTypes' /\ OrderOK'
        BY DEF MessageInv, MessageTypes, OrderOK, Last
    <2>3. DoneOK'
        BY DEF MessageInv, DoneOK, Last, Has
    <2>4. UnderWayOK'
        BY DEF MessageInv, UnderWayOK, Last, Has, DueTo, Logger!Due
    <2> QED
        BY <2>1, <2>2, <2>3, <2>4 DEF MessageInv
<1> QED
    BY <1>1, LoggerStepKeepsMessages DEF LibraryNext, libraryVars

\* Whoever is about to write to a file has one that is open: whatever its owner and
\* the manager do with other copies of the logger.  (set_stream, write_to_streams.)
THEOREM FilesAreOpen == LibrarySpec => []WritesToOpenFile
<1>1. LoggerPart => WritesToOpenFile
    BY WriterHasFile DEF LoggerPart, MessageInv, WritesToOpenFile, Logger!WritesToOpenFile
<1> QED
    BY <1>1, LoggersBegin, LoggersContinue, PTL DEF LibrarySpec

\* Between messages each of a thread's messages is in the streams that it was due,
\* once, in none other and in the order of the thread.  (log, write_to_streams.)
THEOREM MessagesAreDelivered == LibrarySpec => []Delivered
<1>1. LoggerPart => Delivered
    BY DeliveredInOrder DEF LoggerPart, Delivered
<1> QED
    BY <1>1, LoggersBegin, LoggersContinue, PTL DEF LibrarySpec

-----------------------------------------------------------------------------
(* Induction and recursion over 0..n *)

\* A set that contains 0 and with a number the next one contains all up to n: else
\* adding one would map its part below what it lacks into less than that.
LEMMA UpTo ==
    ASSUME NEW n \in Nat, NEW S, 0 \in S, \A k \in 0..(n - 1) : k \in S => k + 1 \in S
    PROVE  \A k \in 0..n : k \in S
<1> SUFFICES ASSUME NEW m \in 0..n, m \notin S
             PROVE  FALSE
    OBVIOUS
<1> DEFINE A == {k \in 0..m : k \in S}
           f == [k \in A |-> k + 1]
<1>1. \A k \in A : k + 1 \in A \ {0}
    OBVIOUS
<1>2. f \in [A -> A \ {0}] /\ 0 \in A
    BY <1>1
<1>3. A \in SUBSET (0..m) /\ IsFiniteSet(0..m)
    BY FS_Interval
<1> HIDE DEF A
<1>4. IsFiniteSet(A)
    BY <1>3, FS_Subset
<1>5. IsFiniteSet(A \ {0}) /\ Cardinality(A \ {0}) < Cardinality(A)
    <2>1. Cardinality(A) \in Nat
        BY <1>4, FS_CardinalityType
    <2>2. /\ IsFiniteSet(A \ {0})
          /\ Cardinality(A \ {0}) = IF 0 \in A THEN Cardinality(A) - 1 ELSE Cardinality(A)
        BY <1>4, FS_RemoveElement, Zenon
    <2> QED
        BY <1>2, <2>1, <2>2
<1>6. PICK x \in A, y \in A : x # y /\ f[x] = f[y]
    <2> HIDE DEF f
    <2> QED
        BY <1>2, <1>4, <1>5, FS_PigeonHole
<1> QED
    BY <1>3, <1>6

\* The values f[0] to f[N] in S that step leads to from base, one after the other.
Iterates(f, N, S, base, step) ==
    f \in [0..N -> S] /\ f[0] = base /\ \A k \in 1..N : f[k] = step[k][f[k - 1]]

\* What is defined step by step exists.
LEMMA Recursion ==
    ASSUME NEW N \in Nat, NEW S, NEW base \in S, NEW step \in [1..N -> [S -> S]]
    PROVE  \E f : Iterates(f, N, S, base, step)
<1> USE DEF Iterates
<1> DEFINE Is(f, n) == Iterates(f, n, S, base, step)
           T == {n \in 0..N : \E f : Is(f, n)}
<1>1. 0 \in T
    <2>1. Is([k \in 0..0 |-> base], 0)
        OBVIOUS
    <2> HIDE DEF Is
    <2> QED
        BY <2>1
<1>2. ASSUME NEW n \in 0..(N - 1), n \in T
      PROVE  n + 1 \in T
    <2>1. PICK f : Is(f, n)
        BY <1>2
    <2> DEFINE last == step[n + 1][f[n]]
               g == [k \in 0..(n + 1) |-> IF k = n + 1 THEN last ELSE f[k]]
    <2>2. last \in S
        BY <2>1
    <2>3. g \in [0..(n + 1) -> S] /\ g[0] = base
        BY <2>1, <2>2
    <2>4. ASSUME NEW k \in 1..(n + 1)
          PROVE  g[k] = step[k][g[k - 1]]
        <3>1. g[k - 1] = f[k - 1]
            OBVIOUS
        <3>2. CASE k = n + 1
            <4>1. g[k] = last /\ k - 1 = n
                BY <3>2
            <4> QED
                BY <3>1, <3>2, <4>1
        <3>3. CASE k # n + 1
            <4>1. k \in 1..n /\ g[k] = f[k]
                BY <3>3
            <4> QED
                BY <2>1, <3>1, <4>1
        <3> QED
            BY <3>2, <3>3
    <2> HIDE DEF g
    <2> QED
        BY <2>3, <2>4
<1>3. \A n \in 0..N : n \in T
    <2> HIDE DEF T, Is
    <2> QED
        BY <1>1, <1>2, UpTo
<1>4. N \in 0..N
    OBVIOUS
<1> QED
    BY <1>3, <1>4

-----------------------------------------------------------------------------
(* Files *)

\* A File has closed what it had before it creates.
FileInv ==
    /\ descriptors = {hFile} \ {-1}
    /\ call \in {"create", "creat"} => hFile = -1

LEMMA FileBegins == File!Init \/ FileIdle => FileInv
BY DEF File!Init, FileIdle, FileInv

LEMMA FileContinues == FileInv /\ File!Next => FileInv'
<1> SUFFICES ASSUME FileInv, File!Next
             PROVE  FileInv'
    OBVIOUS
<1> USE DEF FileInv
<1>1. File!Cardinality({}) = 0
    BY FS_EmptySet DEF File!Cardinality
<1>2. CASE File!LookForFolder \/ File!MakeFolder \/ File!EnsureEnds
    BY <1>2 DEF File!LookForFolder, File!MakeFolder, File!EnsureEnds, File!Ends, File!Looking
<1>3. CASE File!Create
    <2>1. descriptors = {}
        BY <1>3 DEF File!Create
    <2> QED
        BY <1>1, <1>3, <2>1 DEF File!Create, File!Ends
<1>4. CASE File!Close
    BY <1>4 DEF File!Close
<1>5. CASE File!DeleteEntry
    BY <1>5 DEF File!DeleteEntry, File!Ends
<1>6. ASSUME NEW t \in Targets, File!Open(t)
      PROVE  FileInv'
    <2>1. descriptors \ {hFile} = {}
        OBVIOUS
    <2> QED
        BY <1>1, <1>6, <2>1 DEF File!Open
<1>7. ASSUME NEW t \in Targets, File!DeleteFileFolder(t)
      PROVE  FileInv'
    BY <1>7 DEF File!DeleteFileFolder, File!Ends
<1>8. ASSUME NEW t \in Targets, NEW create \in BOOLEAN, File!EnsurePathExist(t, create)
      PROVE  FileInv'
    BY <1>8 DEF File!EnsurePathExist
<1>9. ASSUME NEW p \in Paths, File!OtherMakes(p)
      PROVE  FileInv'
    BY <1>9 DEF File!OtherMakes
<1> QED
    BY <1>2, <1>3, <1>4, <1>5, <1>6, <1>7, <1>8, <1>9 DEF File!Next

-----------------------------------------------------------------------------
(* Folders that are made *)

\* A call has an argument and has told nothing yet.
CallTypes ==
    /\ call \in {"none", "ensure", "create", "creat", "delete"}
    /\ prefix \in Nat
    /\ part = "file" => fs \in [Paths -> {"none", "folder", "file"}]
    /\ call # "none" => part = "file" /\ target \in Targets /\ told = "none"

There == {p \in Paths : fs[p] # "none"}

\* What there is is in a folder.
InFolders == part = "file" => \A p \in There \ {<< >>} : fs[File!Front(p)] = "folder"

\* What ensure_path_exist() has left behind it is there.
BehindOK ==
    call \in {"ensure", "create"} =>
        /\ missing => prefix <= Len(target.path) - 2
        /\ \A k \in 1..(prefix - 1) : SubSeq(target.path, 1, k) \in There

ToldInv == CallTypes /\ InFolders /\ BehindOK

LEMMA FileConstants ==
    /\ \A p \in Paths : /\ p \in Seq(STRING) /\ Len(p) \in Nat /\ File!Walk(p) = p /\ Len(p) <= MaxPath
                        /\ \A k \in 0..Len(p) : SubSeq(p, 1, k) \in Paths
    /\ \A t \in Targets : t.path \in Paths
<1> USE FileInstance DEF File!FileAssumption
<1>1. \A p \in Paths : p \in Seq(STRING) /\ Len(p) \in Nat
    BY LenProperties
<1>2. \A t \in Targets : t.path \in Paths
    OBVIOUS
<1>3. \A p \in Paths : /\ File!Walk(p) = p /\ Len(p) <= MaxPath
                       /\ \A k \in 0..Len(p) : SubSeq(p, 1, k) \in Paths
    OBVIOUS
<1> QED
    BY <1>1, <1>2, <1>3

\* The system knows of what there is where a file may be.
LEMMA KindOfPath == \A p \in Paths : File!Kind(p) = fs[p]
BY FileConstants DEF File!Kind

\* A path that a call is at is above its target.
LEMMA AbovePath ==
    ASSUME target \in Targets, NEW k \in 1..(Len(target.path) - 2)
    PROVE  SubSeq(target.path, 1, k) \in Paths
<1>1. target.path \in Paths /\ Len(target.path) \in Nat
    BY FileConstants
<1>2. k \in 0..Len(target.path)
    BY <1>1
<1> QED
    BY <1>1, <1>2, FileConstants

LEMMA BehindStays ==
    ASSUME BehindOK, There \subseteq There', UNCHANGED << call, target, prefix, missing >>
    PROVE  BehindOK'
BY DEF BehindOK

\* One more folder is behind when the one that the call has been at is there.
LEMMA BehindGrows ==
    ASSUME BehindOK, call \in {"ensure", "create"}, prefix \in Nat, prefix' = prefix + 1, missing' = FALSE,
           UNCHANGED target, There \subseteq There', SubSeq(target.path, 1, prefix) \in There'
    PROVE  BehindOK'
<1>1. ASSUME NEW k \in 1..(prefix' - 1)
      PROVE  SubSeq(target.path, 1, k) \in There'
    <2>1. CASE k = prefix
        BY <2>1
    <2>2. CASE k # prefix
        <3>1. k \in 1..(prefix - 1)
            BY <2>2
        <3> QED
            BY <3>1 DEF BehindOK
    <2> QED
        BY <2>1, <2>2
<1> QED
    BY <1>1 DEF BehindOK

\* The folder of a path is where the path was before its last name.
LEMMA FrontIs ==
    /\ \A p \in Paths \ {<< >>} : File!Front(p) = SubSeq(p, 1, Len(p) - 1) /\ File!Front(p) \in Paths
    /\ \A p \in Paths : \A k \in 1..(Len(p) - 1) : File!Front(SubSeq(p, 1, k + 1)) = SubSeq(p, 1, k)
<1>1. ASSUME NEW p \in Paths \ {<< >>}
      PROVE  File!Front(p) = SubSeq(p, 1, Len(p) - 1) /\ File!Front(p) \in Paths
    <2>1. p \in Seq(STRING) /\ Len(p) \in Nat
        BY FileConstants
    <2>2. Len(p) # 0
        BY <2>1, EmptySeq
    <2>3. Len(p) - 1 \in 0..Len(p)
        BY <2>1, <2>2
    <2>4. SubSeq(p, 1, Len(p) - 1) \in Paths
        BY <2>3, FileConstants
    <2>5. File!Front(p) = SubSeq(p, 1, Len(p) - 1)
        BY DEF File!Front
    <2> QED
        BY <2>4, <2>5
<1>2. ASSUME NEW p \in Paths, NEW k \in 1..(Len(p) - 1)
      PROVE  File!Front(SubSeq(p, 1, k + 1)) = SubSeq(p, 1, k)
    <2> DEFINE q == SubSeq(p, 1, k + 1)
    <2>1. p \in Seq(STRING) /\ Len(p) \in Nat /\ k \in Nat \ {0}
        BY FileConstants
    <2>2. k + 1 \in 1..Len(p) /\ k \in 1..Len(p)
        BY <2>1
    <2>3. p = [i \in 1..Len(p) |-> p[i]]
        BY <2>1, LenProperties
    <2>4. \A n \in 1..Len(p) : SubSeq(p, 1, n) = [i \in 1..n |-> p[i]] /\ Len(SubSeq(p, 1, n)) = n
        <3> SUFFICES ASSUME NEW n \in 1..Len(p)
                     PROVE  SubSeq(p, 1, n) = [i \in 1..n |-> p[i]] /\ Len(SubSeq(p, 1, n)) = n
            OBVIOUS
        <3>1. \A i \in 1..n : p[i] \in STRING
            BY <2>1, LenProperties
        <3>2. SubSeq(p, 1, n) \in Seq(STRING) /\ Len(SubSeq(p, 1, n)) = n
              /\ \A i \in 1..n : SubSeq(p, 1, n)[i] = p[i]
            BY <2>1, <3>1, SubSeqProperties
        <3>3. SubSeq(p, 1, n) = [i \in 1..n |-> SubSeq(p, 1, n)[i]]
            BY <3>2, LenProperties
        <3> QED
            BY <3>2, <3>3
    <2>5. Len(q) = k + 1 /\ q = [i \in 1..(k + 1) |-> p[i]]
        BY <2>2, <2>4
    <2>6. File!Front(q) = SubSeq(q, 1, k)
        BY <2>1, <2>5 DEF File!Front
    <2>7. q \in Seq(STRING)
        BY <2>1, <2>2, <2>5, LenProperties
    <2>8. SubSeq(q, 1, k) = [i \in 1..k |-> p[i]]
        <3> HIDE DEF q
        <3>1. k \in 1..Len(q) /\ \A i \in 1..k : q[i] = p[i] /\ q[i] \in STRING
            BY <2>1, <2>5, <2>7, LenProperties
        <3>2. SubSeq(q, 1, k) \in Seq(STRING) /\ Len(SubSeq(q, 1, k)) = k
              /\ \A i \in 1..k : SubSeq(q, 1, k)[i] = q[i]
            BY <2>1, <2>7, <3>1, SubSeqProperties
        <3>3. SubSeq(q, 1, k) = [i \in 1..k |-> SubSeq(q, 1, k)[i]]
            BY <3>2, LenProperties
        <3> QED
            BY <3>1, <3>2, <3>3
    <2> QED
        BY <2>2, <2>4, <2>6, <2>8
<1> QED
    BY <1>1, <1>2

\* What is made in a folder in the place of no folder is there, and nothing else has gone.
LEMMA MadeInFolder ==
    ASSUME fs \in [Paths -> {"none", "folder", "file"}], InFolders, part = "file", part' = part,
           NEW p \in Paths, File!HasParent(p), fs[p] # "folder", NEW kind_ \in {"folder", "file"},
           fs' = [fs EXCEPT ![p] = kind_]
    PROVE  /\ fs' \in [Paths -> {"none", "folder", "file"}] /\ InFolders'
           /\ There \subseteq There' /\ p \in There'
<1>1. p # << >> /\ File!Front(p) \in Paths /\ fs[File!Front(p)] = "folder"
    BY FrontIs, KindOfPath DEF File!HasParent
<1>2. fs' \in [Paths -> {"none", "folder", "file"}] /\ \A q \in Paths \ {p} : fs'[q] = fs[q]
    OBVIOUS
<1>3. There \subseteq There' /\ p \in There'
    BY DEF There
<1>4. ASSUME NEW q \in There' \ {<< >>}
      PROVE  fs'[File!Front(q)] = "folder"
    <2>1. q \in Paths /\ File!Front(q) \in Paths
        BY FrontIs DEF There
    <2>2. CASE q = p
        BY <1>1, <1>2, <2>2
    <2>3. CASE q # p
        <3>1. q \in There
            BY <1>2, <2>1, <2>3 DEF There
        <3>2. fs[File!Front(q)] = "folder"
            BY <3>1 DEF InFolders
        <3> QED
            BY <1>2, <2>1, <3>2
    <2> QED
        BY <2>2, <2>3
<1> QED
    BY <1>2, <1>3, <1>4 DEF InFolders

\* Nothing is left without a folder if what goes had nothing in it.
LEMMA GoneIsEmpty ==
    ASSUME fs \in [Paths -> {"none", "folder", "file"}], InFolders, part = "file", part' = part,
           NEW w, fs' = [fs EXCEPT ![w] = "none"], \A q \in There \ {<< >>} : File!Front(q) # w
    PROVE  fs' \in [Paths -> {"none", "folder", "file"}] /\ InFolders'
<1>1. fs' \in [Paths -> {"none", "folder", "file"}] /\ \A q \in Paths : q # w => fs'[q] = fs[q]
    OBVIOUS
<1>2. ASSUME NEW q \in There' \ {<< >>}
      PROVE  fs'[File!Front(q)] = "folder"
    <2>1. q \in Paths /\ File!Front(q) \in Paths /\ fs'[q] # "none"
        BY FrontIs DEF There
    <2>2. q # w
        BY <2>1
    <2>3. q \in There
        BY <1>1, <2>1, <2>2 DEF There
    <2>4. fs[File!Front(q)] = "folder" /\ File!Front(q) # w
        BY <2>3 DEF InFolders
    <2> QED
        BY <1>1, <2>1, <2>4
<1> QED
    BY <1>1, <1>2 DEF InFolders

LEMMA FileIsEmpty ==
    ASSUME InFolders, part = "file", NEW w, fs[w] = "file"
    PROVE  \A q \in There \ {<< >>} : File!Front(q) # w
BY DEF InFolders

LEMMA LookKeepsTold ==
    ASSUME ToldInv, part = "file", part' = part, File!LookForFolder
    PROVE  ToldInv' /\ File!Ensured
<1>1. /\ call \in {"ensure", "create"} /\ ~missing /\ prefix <= Len(target.path) - 2
      /\ UNCHANGED << fs, call, target, told >>
      /\ \/ prefix # 0 /\ File!Kind(SubSeq(target.path, 1, prefix)) # "none" /\ prefix' = prefix + 1
            /\ missing' = FALSE
         \/ missing' = TRUE /\ UNCHANGED prefix
    BY DEF File!LookForFolder, File!Looking, File!LastPrefix
<1>2. prefix \in Nat /\ told = "none" /\ target \in Targets /\ fs \in [Paths -> {"none", "folder", "file"}]
      /\ Len(target.path) \in Nat
    BY <1>1, FileConstants DEF ToldInv, CallTypes
<1>3. CallTypes' /\ InFolders'
    BY <1>1, <1>2 DEF CallTypes, ToldInv, InFolders, There
<1>4. There' = There
    BY <1>1 DEF There
<1>5. BehindOK'
    <2>1. CASE missing' = TRUE /\ UNCHANGED prefix
        BY <1>1, <1>4, <2>1 DEF BehindOK, ToldInv
    <2>2. CASE /\ prefix # 0 /\ File!Kind(SubSeq(target.path, 1, prefix)) # "none" /\ prefix' = prefix + 1
               /\ missing' = FALSE
        <3>1. SubSeq(target.path, 1, prefix) \in Paths
            BY <1>1, <1>2, <2>2, AbovePath
        <3>2. SubSeq(target.path, 1, prefix) \in There
            BY <2>2, <3>1, KindOfPath DEF There
        <3> QED
            BY <1>1, <1>2, <1>4, <2>2, <3>2, BehindGrows DEF ToldInv
    <2> QED
        BY <1>1, <2>1, <2>2
<1>6. File!Ensured
    BY <1>1, <1>2 DEF File!Ensured
<1> QED
    BY <1>3, <1>5, <1>6 DEF ToldInv

LEMMA MakeKeepsTold ==
    ASSUME ToldInv, part = "file", part' = part, File!MakeFolder
    PROVE  ToldInv' /\ File!Ensured
<1> DEFINE p == SubSeq(target.path, 1, prefix)
<1>1. /\ call \in {"ensure", "create"} /\ missing /\ missing' = FALSE /\ UNCHANGED target
      /\ \/ /\ prefix # 0 /\ File!HasParent(p) /\ File!Kind(p) = "none" /\ fs' = [fs EXCEPT ![p] = "folder"]
            /\ prefix' = prefix + 1 /\ UNCHANGED << call, told >>
         \/ /\ prefix # 0 /\ File!Kind(p) # "none" /\ prefix' = prefix + 1 /\ UNCHANGED << fs, call, told >>
         \/ /\ \/ call = "ensure" /\ call' = "none" /\ told' = "false"
               \/ call' = "creat" /\ UNCHANGED told
            /\ UNCHANGED << fs, prefix >>
    BY DEF File!MakeFolder, File!Ends
<1>2. prefix \in Nat /\ told = "none" /\ target \in Targets /\ fs \in [Paths -> {"none", "folder", "file"}]
    BY <1>1 DEF ToldInv, CallTypes
<1>3. prefix # 0 => p \in Paths
    <2>1. prefix <= Len(target.path) - 2 /\ Len(target.path) \in Nat
        BY <1>1, <1>2, FileConstants DEF ToldInv, BehindOK
    <2> QED
        BY <1>2, <2>1, AbovePath
<1>4. CASE /\ prefix # 0 /\ File!HasParent(p) /\ File!Kind(p) = "none" /\ fs' = [fs EXCEPT ![p] = "folder"]
           /\ prefix' = prefix + 1 /\ UNCHANGED << call, told >>
    <2>1. /\ fs' \in [Paths -> {"none", "folder", "file"}] /\ InFolders'
          /\ There \subseteq There' /\ p \in There'
        <3>1. p \in Paths /\ fs[p] # "folder" /\ File!HasParent(p)
            BY <1>3, <1>4, KindOfPath
        <3> HIDE DEF p
        <3> QED
            BY <1>2, <1>4, <3>1, MadeInFolder DEF ToldInv
    <2>2. BehindOK'
        BY <1>1, <1>2, <1>4, <2>1, BehindGrows DEF ToldInv
    <2>3. CallTypes' /\ File!Ensured
        <3> HIDE DEF p
        <3> QED
            BY <1>1, <1>2, <1>4, <2>1 DEF CallTypes, File!Ensured
    <2> QED
        BY <2>1, <2>2, <2>3 DEF ToldInv
<1>5. CASE prefix # 0 /\ File!Kind(p) # "none" /\ prefix' = prefix + 1 /\ UNCHANGED << fs, call, told >>
    <2>1. There' = There /\ p \in There
        BY <1>3, <1>5, KindOfPath DEF There
    <2>2. BehindOK'
        BY <1>1, <1>2, <1>5, <2>1, BehindGrows DEF ToldInv
    <2>3. CallTypes' /\ InFolders' /\ File!Ensured
        BY <1>1, <1>2, <1>5, <2>1 DEF ToldInv, CallTypes, InFolders, File!Ensured
    <2> QED
        BY <2>2, <2>3 DEF ToldInv
<1>6. CASE /\ \/ call = "ensure" /\ call' = "none" /\ told' = "false"
              \/ call' = "creat" /\ UNCHANGED told
           /\ UNCHANGED << fs, prefix >>
    BY <1>1, <1>2, <1>6 DEF ToldInv, CallTypes, InFolders, There, BehindOK, File!Ensured
<1> QED
    BY <1>1, <1>4, <1>5, <1>6

\* All that ensure_path_exist() has left behind is there, and what is not the last of
\* it has the next in it.
LEMMA EnsureEndsKeepsTold ==
    ASSUME ToldInv, part = "file", part' = part, File!EnsureEnds
    PROVE  ToldInv' /\ File!Ensured
<1> DEFINE last == Len(target.path) - 2
<1>1. /\ call \in {"ensure", "create"} /\ prefix > last /\ UNCHANGED << fs, target, prefix >>
      /\ call' \in {"none", "creat"} /\ (call' = "creat" => UNCHANGED told)
    BY DEF File!EnsureEnds, File!Ends, File!LastPrefix
<1>2. prefix \in Nat /\ told = "none" /\ target \in Targets /\ fs \in [Paths -> {"none", "folder", "file"}]
      /\ Len(target.path) \in Nat /\ target.path \in Paths
    BY <1>1, FileConstants DEF ToldInv, CallTypes
<1>3. ToldInv'
    BY <1>1, <1>2 DEF ToldInv, CallTypes, InFolders, There, BehindOK
<1>4. \A k \in 1..last : SubSeq(target.path, 1, k) \in There /\ SubSeq(target.path, 1, k) \in Paths
    <2> SUFFICES ASSUME NEW k \in 1..last
                 PROVE  SubSeq(target.path, 1, k) \in There
        BY DEF There
    <2>1. k \in 1..(prefix - 1)
        BY <1>1, <1>2
    <2> QED
        BY <1>1, <2>1 DEF ToldInv, BehindOK
<1>5. ASSUME NEW k \in 1..last, k # last
      PROVE  fs[SubSeq(target.path, 1, k)] = "folder"
    <2>1. k + 1 \in 1..last /\ k \in 1..(Len(target.path) - 1)
        BY <1>2, <1>5
    <2>2. SubSeq(target.path, 1, k + 1) \in There
        BY <1>4, <2>1
    <2>3. File!Front(SubSeq(target.path, 1, k + 1)) = SubSeq(target.path, 1, k)
        BY <1>2, <2>1, FrontIs
    <2>4. SubSeq(target.path, 1, k + 1) # << >>
        <3>1. k + 1 \in 1..Len(target.path) /\ target.path \in Seq(STRING)
            BY <1>2, <2>1, FileConstants
        <3>2. Len(SubSeq(target.path, 1, k + 1)) = k + 1
            <4>1. \A i \in 1..(k + 1) : target.path[i] \in STRING
                BY <1>2, <3>1, LenProperties
            <4> QED
                BY <3>1, <4>1, SubSeqProperties
        <3> QED
            BY <2>1, <3>2, EmptySeq
    <2> QED
        BY <2>2, <2>3, <2>4 DEF ToldInv, InFolders
<1>6. ASSUME NEW k \in 1..last
      PROVE  LET kind_ == File!Kind(SubSeq(target.path, 1, k))
             IN kind_ = "folder" \/ (k = last /\ kind_ = "file")
    <2>1. File!Kind(SubSeq(target.path, 1, k)) = fs[SubSeq(target.path, 1, k)]
        BY <1>4, KindOfPath
    <2>2. fs[SubSeq(target.path, 1, k)] \in {"folder", "file"}
        BY <1>2, <1>4 DEF There
    <2> QED
        BY <1>5, <2>1, <2>2
<1> QED
    BY <1>3, <1>6 DEF File!Ensured, File!LastPrefix

LEMMA BeginKeepsTold ==
    ASSUME ToldInv, part = "file", part' = part, NEW t \in Targets,
           \/ File!Open(t) \/ File!DeleteFileFolder(t)
           \/ \E create \in BOOLEAN : File!EnsurePathExist(t, create)
    PROVE  ToldInv' /\ File!Ensured
<1>1. t.path \in Paths
    BY FileConstants
<1>2. call = "none" /\ prefix \in Nat /\ fs \in [Paths -> {"none", "folder", "file"}] /\ target' = t
    BY DEF ToldInv, CallTypes, File!Open, File!DeleteFileFolder, File!EnsurePathExist
<1>3. CASE File!Open(t)
    BY <1>2, <1>3 DEF ToldInv, CallTypes, InFolders, There, BehindOK, File!Ensured, File!Open
<1>4. CASE File!DeleteFileFolder(t)
    <2>1. /\ UNCHANGED << prefix, missing >> /\ call' \in {"none", "delete"} /\ (call' = "delete" => told' = "none")
          /\ UNCHANGED fs \/ (File!Kind(t.path) = "file" /\ fs' = [fs EXCEPT ![t.path] = "none"])
        BY <1>2, <1>4 DEF File!DeleteFileFolder, File!Ends
    <2>2. fs' \in [Paths -> {"none", "folder", "file"}] /\ InFolders'
        <3>1. CASE UNCHANGED fs
            BY <1>2, <3>1 DEF ToldInv, InFolders, There
        <3>2. CASE File!Kind(t.path) = "file" /\ fs' = [fs EXCEPT ![t.path] = "none"]
            <4>1. fs[t.path] = "file"
                BY <1>1, <3>2, KindOfPath
            <4> QED
                BY <1>2, <3>2, <4>1, FileIsEmpty, GoneIsEmpty DEF ToldInv
        <3> QED
            BY <2>1, <3>1, <3>2
    <2> QED
        BY <1>2, <2>1, <2>2 DEF ToldInv, CallTypes, BehindOK, File!Ensured
<1>5. CASE \E create \in BOOLEAN : File!EnsurePathExist(t, create)
    <2>1. /\ call' \in {"ensure", "create"} /\ missing' = FALSE /\ prefix' \in {0, 1} /\ told' = "none"
          /\ UNCHANGED fs
        BY <1>5 DEF File!EnsurePathExist
    <2>2. \A n \in {0, 1} : 1..(n - 1) = {} /\ n \in Nat
        OBVIOUS
    <2>3. 1..(prefix' - 1) = {} /\ prefix' \in Nat
        BY <2>1, <2>2, Zenon
    <2>4. BehindOK'
        BY <2>1, <2>3 DEF BehindOK
    <2>5. CallTypes' /\ InFolders'
        BY <1>2, <2>1, <2>3 DEF ToldInv, CallTypes, InFolders, There
    <2>6. File!Ensured
        BY <1>2 DEF File!Ensured
    <2> QED
        BY <2>4, <2>5, <2>6 DEF ToldInv
<1> QED
    BY <1>3, <1>4, <1>5

LEMMA OtherKeepsTold ==
    ASSUME ToldInv, part = "file", part' = part,
           File!Create \/ File!Close \/ \E p \in Paths : File!OtherMakes(p)
    PROVE  ToldInv' /\ File!Ensured
<1>1. prefix \in Nat /\ fs \in [Paths -> {"none", "folder", "file"}]
    BY DEF ToldInv, CallTypes
<1>2. CASE File!Create
    <2>1. call = "creat" /\ call' = "none" /\ UNCHANGED prefix
          /\ \/ UNCHANGED fs
             \/ /\ File!HasParent(target.path) /\ File!Kind(target.path) # "folder"
                /\ fs' = [fs EXCEPT ![target.path] = "file"]
        BY <1>2 DEF File!Create, File!Ends
    <2>2. fs' \in [Paths -> {"none", "folder", "file"}] /\ InFolders'
        <3>1. CASE UNCHANGED fs
            BY <1>1, <3>1 DEF ToldInv, InFolders, There
        <3>2. CASE /\ File!HasParent(target.path) /\ File!Kind(target.path) # "folder"
                   /\ fs' = [fs EXCEPT ![target.path] = "file"]
            <4>1. target.path \in Paths
                BY <2>1, FileConstants DEF ToldInv, CallTypes
            <4>2. fs[target.path] # "folder"
                BY <3>2, <4>1, KindOfPath
            <4> QED
                BY <1>1, <3>2, <4>1, <4>2, MadeInFolder DEF ToldInv
        <3> QED
            BY <2>1, <3>1, <3>2
    <2> QED
        BY <1>1, <2>1, <2>2 DEF ToldInv, CallTypes, BehindOK, File!Ensured
<1>3. CASE File!Close
    BY <1>1, <1>3 DEF ToldInv, CallTypes, InFolders, There, BehindOK, File!Ensured, File!Close
<1>4. ASSUME NEW p \in Paths, File!OtherMakes(p)
      PROVE  ToldInv' /\ File!Ensured
    <2>1. /\ fs[p] = "none" /\ File!HasParent(p) /\ fs' = [fs EXCEPT ![p] = "folder"]
          /\ UNCHANGED << call, target, prefix, missing, told >>
        BY <1>4 DEF File!OtherMakes
    <2>2. fs' \in [Paths -> {"none", "folder", "file"}] /\ InFolders' /\ There \subseteq There'
        BY <1>1, <2>1, MadeInFolder DEF ToldInv
    <2>3. BehindOK'
        BY <2>1, <2>2, BehindStays DEF ToldInv
    <2>4. CallTypes'
        BY <2>1, <2>2 DEF ToldInv, CallTypes
    <2>5. File!Ensured
        BY <2>1 DEF ToldInv, CallTypes, File!Ensured
    <2> QED
        BY <2>2, <2>3, <2>4, <2>5 DEF ToldInv
<1> QED
    BY <1>2, <1>3, <1>4

LEMMA DeleteKeepsTold ==
    ASSUME ToldInv, part = "file", part' = part, File!DeleteEntry
    PROVE  ToldInv' /\ File!Ensured
<1>1. /\ call = "delete" /\ UNCHANGED << target, prefix, missing >>
      /\ (call' = "none" \/ UNCHANGED << call, told >>)
      /\ \/ UNCHANGED fs
         \/ \E p : File!Inside(p) = {} /\ fs' = [fs EXCEPT ![File!Walk(p)] = "none"]
         \/ \E p : File!Kind(p) = "file" /\ fs' = [fs EXCEPT ![File!Walk(p)] = "none"]
    <2> DEFINE folder == File!Last(stack)
               left == File!Entries(folder.path) \ folder.seen
    <2>1. call = "delete" /\ UNCHANGED << target, prefix, missing >>
        BY DEF File!DeleteEntry
    <2>2. CASE left = {}
        BY <2>1, <2>2 DEF File!DeleteEntry, File!Ends
    <2>3. CASE left # {}
        <3>1. PICK e \in left :
                 \/ call' = "none" /\ UNCHANGED fs
                 \/ /\ File!Kind(Append(folder.path, e)) = "file"
                    /\ fs' = [fs EXCEPT ![File!Walk(Append(folder.path, e))] = "none"]
                    /\ UNCHANGED << call, told >>
                 \/ UNCHANGED << fs, call, told >>
            BY <2>3 DEF File!DeleteEntry, File!Ends
        <3> HIDE DEF left, folder
        <3> QED
            BY <2>1, <3>1
    <2> QED
        BY <2>2, <2>3
<1>2. prefix \in Nat /\ told = "none" /\ target \in Targets /\ fs \in [Paths -> {"none", "folder", "file"}]
    BY <1>1 DEF ToldInv, CallTypes
<1>3. fs' \in [Paths -> {"none", "folder", "file"}] /\ InFolders'
    <2>1. CASE UNCHANGED fs
        BY <1>2, <2>1 DEF ToldInv, InFolders, There
    <2>2. ASSUME NEW p, File!Inside(p) = {}, fs' = [fs EXCEPT ![File!Walk(p)] = "none"]
          PROVE  fs' \in [Paths -> {"none", "folder", "file"}] /\ InFolders'
        <3>1. \A q \in There \ {<< >>} : File!Front(q) # File!Walk(p)
            BY <2>2 DEF File!Inside, There
        <3> QED
            BY <1>2, <2>2, <3>1, GoneIsEmpty DEF ToldInv
    <2>3. ASSUME NEW p, File!Kind(p) = "file", fs' = [fs EXCEPT ![File!Walk(p)] = "none"]
          PROVE  fs' \in [Paths -> {"none", "folder", "file"}] /\ InFolders'
        <3>1. fs[File!Walk(p)] = "file"
            BY <2>3 DEF File!Kind
        <3> QED
            BY <1>2, <2>3, <3>1, FileIsEmpty, GoneIsEmpty DEF ToldInv
    <2> QED
        BY <1>1, <2>1, <2>2, <2>3
<1> QED
    BY <1>1, <1>2, <1>3 DEF ToldInv, CallTypes, BehindOK, File!Ensured

\* For any tree of files, and whatever folders another process makes in the meantime:
\* when ensure_path_exist() returns true the folders above the target but the last are
\* there, except that the deepest of them may be a plain file.
THEOREM FoldersAreEnsured == LibrarySpec => FoldersEnsured
<1>1. LibraryInit => ToldInv
    <2>1. FileIdle => call = "none" /\ prefix = 0
        BY DEF FileIdle
    <2>2. File!Init => /\ call = "none" /\ prefix = 0 /\ fs \in [Paths -> {"none", "folder", "file"}]
                       /\ \A p \in Paths \ {<< >>} : fs[p] # "none" => fs[File!Front(p)] = "folder"
        BY DEF File!Init
    <2> QED
        BY <2>1, <2>2 DEF LibraryInit, ToldInv, CallTypes, InFolders, There, BehindOK
<1>2. ToldInv /\ [LibraryNext]_libraryVars => ToldInv' /\ [File!Ensured]_fileVars
    <2> SUFFICES ASSUME ToldInv, [LibraryNext]_libraryVars
                 PROVE  ToldInv' /\ [File!Ensured]_fileVars
        OBVIOUS
    <2>1. part' = part /\ (UNCHANGED fileVars \/ (part = "file" /\ File!Next))
        BY DEF LibraryNext, libraryVars
    <2>2. CASE UNCHANGED fileVars
        BY <2>1, <2>2 DEF ToldInv, CallTypes, InFolders, BehindOK, There, fileVars
    <2>3. CASE part = "file" /\ File!Next
        BY <2>1, <2>3, LookKeepsTold, MakeKeepsTold, EnsureEndsKeepsTold, BeginKeepsTold, OtherKeepsTold,
           DeleteKeepsTold DEF File!Next
    <2> QED
        BY <2>1, <2>2, <2>3
<1> QED
    BY <1>1, <1>2, PTL DEF LibrarySpec, FoldersEnsured, File!FoldersEnsured, File!vars, fileVars

-----------------------------------------------------------------------------
(* Documents *)

\* (The provers do not know that a string is in STRING.)
Names == STRING \cup {"document"}
NodeType == [parent : Nat, name : Names, value : Values \cup {EmptyText}, attr : Values \cup {Absent}]
Made == [nodes : Seq(NodeType), node : Nat]

\* A set of numbers that is not empty has a least one.
LEMMA HasLeast ==
    ASSUME NEW S \in SUBSET Nat, NEW s \in S
    PROVE  \E x \in S : \A y \in S : x <= y
<1> SUFFICES ASSUME \A x \in S : \E y \in S : y < x
             PROVE  FALSE
    OBVIOUS
<1> DEFINE T == {k \in 0..s : \A j \in 0..k : j \notin S}
<1>1. 0 \in T
    OBVIOUS
<1>2. ASSUME NEW k \in 0..(s - 1), k \in T
      PROVE  k + 1 \in T
    <2>1. k + 1 \notin S
        BY <1>2
    <2> QED
        BY <1>2, <2>1
<1>3. \A k \in 0..s : k \in T
    <2> HIDE DEF T
    <2> QED
        BY <1>1, <1>2, UpTo
<1>4. s \in 0..s
    OBVIOUS
<1> QED
    BY <1>3, <1>4

\* first_node(): a child that no other one precedes, 0 if there is none.
LEMMA FirstNodeIsLeast ==
    ASSUME NEW ns, DOMAIN ns \subseteq Nat, NEW n, NEW name
    PROVE  LET first == Xml!FirstNode(ns, n, name)
               children == Xml!Children(ns, n, name)
           IN IF children = {} THEN first = 0
              ELSE first \in children /\ \A k \in children : first <= k
<1> DEFINE children == Xml!Children(ns, n, name)
<1>1. children \in SUBSET Nat
    BY DEF Xml!Children
<1>2. ASSUME NEW s \in children
      PROVE  \E x \in children : \A y \in children : x <= y
    <2> HIDE DEF children
    <2> QED
        BY <1>1, HasLeast
<1> QED
    BY <1>2 DEF Xml!FirstNode, Xml!Min

\* One turn of the loop of create_or_find_node().
Turn(made, key, always_create, k) ==
    LET m == Xml!FirstNode(made.nodes, made.node, << key.path[k] >>)
    IN IF m # 0 /\ ~(k = Len(key.path) /\ always_create) THEN [made EXCEPT !.node = m]
       ELSE Xml!Created(made, key.path[k])

LEMMA KeyTypes == \A key \in XmlKeys : key.path \in Seq(STRING) /\ key.is_attribute \in BOOLEAN
BY XmlInstance DEF Xml!XmlAssumption

LEMMA KeysDiffer ==
    ASSUME NEW key \in XmlKeys, NEW other \in XmlKeys \ {key}, key.path = other.path
    PROVE  other.is_attribute = ~key.is_attribute
<1>1. key \in [path : Seq(STRING), is_attribute : BOOLEAN] /\ other \in [path : Seq(STRING), is_attribute : BOOLEAN]
    BY XmlInstance DEF Xml!XmlAssumption
<1>2. key = [path |-> key.path, is_attribute |-> key.is_attribute]
    BY <1>1
<1>3. other = [path |-> other.path, is_attribute |-> other.is_attribute]
    BY <1>1
<1>4. other.is_attribute # key.is_attribute
    BY <1>2, <1>3
<1> QED
    BY <1>1, <1>4

LEMMA TurnType ==
    ASSUME NEW made \in Made, NEW key \in XmlKeys, NEW always_create \in BOOLEAN,
           NEW k \in 1..Len(key.path)
    PROVE  Turn(made, key, always_create, k) \in Made
<1>1. key.path \in Seq(STRING)
    BY KeyTypes
<1>2. key.path[k] \in Names
    BY <1>1 DEF Names
<1> DEFINE m == Xml!FirstNode(made.nodes, made.node, << key.path[k] >>)
<1>3. made.nodes \in Seq(NodeType) /\ made.node \in Nat
    BY DEF Made
<1>4. DOMAIN made.nodes \subseteq Nat
    BY <1>3
<1>5. m \in Nat
    BY <1>4, FirstNodeIsLeast DEF Xml!Children
<1> HIDE DEF m
<1>6. [made EXCEPT !.node = m] \in Made
    BY <1>5 DEF Made
<1>7. Xml!Node(made.node, key.path[k]) \in NodeType
    BY <1>2, <1>3 DEF Xml!Node, NodeType
<1>8. Append(made.nodes, Xml!Node(made.node, key.path[k])) \in Seq(NodeType) /\ Len(made.nodes) + 1 \in Nat
    BY <1>3, <1>7
<1>9. Xml!Created(made, key.path[k]) \in Made
    BY <1>8 DEF Made, Xml!Created
<1> QED
    BY <1>6, <1>9 DEF Turn, m

\* The loop as the sequence of what its turns leave.
LEMMA CreateOrFindTurns ==
    ASSUME nodes \in Seq(NodeType), NEW n \in DOMAIN nodes, NEW key \in XmlKeys,
           NEW always_create \in BOOLEAN
    PROVE  \E down \in [0..Len(key.path) -> Made] :
             /\ down[0] = [nodes |-> nodes, node |-> n]
             /\ \A k \in 1..Len(key.path) : down[k] = Turn(down[k - 1], key, always_create, k)
             /\ Xml!CreateOrFind(n, key, always_create) = down[Len(key.path)]
<1> DEFINE N == Len(key.path)
           base == [nodes |-> nodes, node |-> n]
           step == [k \in 1..N |-> [made \in Made |-> Turn(made, key, always_create, k)]]
           Says(f) == f = [k \in 0..N |-> IF k = 0 THEN base
                                          ELSE LET made == f[k - 1]
                                                   m == Xml!FirstNode(made.nodes, made.node, << key.path[k] >>)
                                               IN IF m # 0 /\ ~(k = N /\ always_create)
                                                  THEN [made EXCEPT !.node = m]
                                                  ELSE Xml!Created(made, key.path[k])]
           the == CHOOSE f : Says(f)
<1>1. N \in Nat /\ base \in Made
    BY KeyTypes DEF Made
<1>2. step \in [1..N -> [Made -> Made]]
    BY TurnType
<1>3. PICK f : Iterates(f, N, Made, base, step)
    <2> HIDE DEF N, base, step, Says, the
    <2>1. N \in Nat /\ base \in Made /\ step \in [1..N -> [Made -> Made]]
        BY <1>1, <1>2
    <2> QED
        BY <2>1, Recursion
<1>4. /\ f \in [0..N -> Made] /\ f[0] = base
      /\ \A k \in 1..N : f[k] = Turn(f[k - 1], key, always_create, k)
    <2> SUFFICES ASSUME NEW k \in 1..N
                 PROVE  f[k] = Turn(f[k - 1], key, always_create, k)
        BY <1>3 DEF Iterates
    <2>1. f[k - 1] \in Made
        BY <1>1, <1>3 DEF Iterates
    <2> QED
        BY <1>3, <2>1 DEF Iterates
<1>5. Says(f)
    <2>1. f = [k \in 0..N |-> f[k]]
        BY <1>4
    <2>2. ASSUME NEW k \in 0..N
          PROVE  f[k] = IF k = 0 THEN base ELSE Turn(f[k - 1], key, always_create, k)
        <3>1. k = 0 \/ k \in 1..N
            BY <1>1
        <3> HIDE DEF base, N, step, Says, the
        <3> QED
            BY <1>1, <1>4, <3>1
    <2> HIDE DEF base, N, step, the
    <2> QED
        BY <2>1, <2>2 DEF Turn, N
<1>6. Says(the)
    BY <1>5
<1>7. Xml!CreateOrFind(n, key, always_create) = the[N]
    BY DEF Xml!CreateOrFind
<1> HIDE DEF the
<1>8. /\ the[0] = base
      /\ \A k \in 1..N : the[k] = Turn(the[k - 1], key, always_create, k)
    <2> HIDE DEF base, step
    <2>1. 0 \in 0..N /\ \A k \in 1..N : k \in 0..N /\ k # 0
        BY <1>1
    <2>2. \A k \in 0..N : the[k] = IF k = 0 THEN base ELSE Turn(the[k - 1], key, always_create, k)
        BY <1>6 DEF Turn
    <2> HIDE DEF N, Says
    <2> QED
        BY <2>1, <2>2
<1>9. the \in [0..N -> Made]
    <2> DEFINE T == {k \in 0..N : the[k] \in Made}
    <2>1. 0 \in T
        BY <1>1, <1>8
    <2>2. ASSUME NEW k \in 0..(N - 1), k \in T
          PROVE  k + 1 \in T
        <3>1. k + 1 \in 1..N /\ (k + 1) - 1 = k
            BY <1>1
        <3> QED
            BY <1>8, <2>2, <3>1, TurnType
    <2>3. \A k \in 0..N : k \in T
        <3> HIDE DEF T, N
        <3> QED
            BY <1>1, <2>1, <2>2, UpTo
    <2>4. the = [k \in 0..N |-> the[k]]
        BY <1>6
    <2> QED
        BY <2>3, <2>4
<1> HIDE DEF base, Says
<1> QED
    BY <1>7, <1>8, <1>9 DEF base

\* create_or_find_node() adds nodes that belong to others and hold nothing, and changes none.
Extends(new, old) ==
    /\ new \in Seq(NodeType) /\ Len(old) <= Len(new)
    /\ \A k \in 1..Len(old) : new[k] = old[k]
    /\ \A k \in (Len(old) + 1)..Len(new) :
         new[k].parent \in 1..(k - 1) /\ new[k].value = EmptyText /\ new[k].attr = Absent

LEMMA CreateOrFindExtends ==
    ASSUME nodes \in Seq(NodeType), NEW n \in DOMAIN nodes, NEW key \in XmlKeys,
           NEW always_create \in BOOLEAN
    PROVE  LET made == Xml!CreateOrFind(n, key, always_create)
           IN made \in Made /\ Extends(made.nodes, nodes) /\ made.node \in DOMAIN made.nodes
<1> DEFINE N == Len(key.path)
<1>1. PICK down \in [0..N -> Made] :
             /\ down[0] = [nodes |-> nodes, node |-> n]
             /\ \A k \in 1..N : down[k] = Turn(down[k - 1], key, always_create, k)
             /\ Xml!CreateOrFind(n, key, always_create) = down[N]
    BY CreateOrFindTurns
<1> DEFINE Good(made) == Extends(made.nodes, nodes) /\ made.node \in DOMAIN made.nodes
           T == {k \in 0..N : Good(down[k])}
<1>2. N \in Nat
    BY KeyTypes
<1>3. 0 \in T
    BY <1>1, <1>2 DEF Extends
<1>4. ASSUME NEW k \in 0..(N - 1), k \in T
      PROVE  k + 1 \in T
    <2> DEFINE made == down[k]
               m == Xml!FirstNode(made.nodes, made.node, << key.path[k + 1] >>)
    <2>1. k + 1 \in 1..N /\ (k + 1) - 1 = k /\ k \in 0..N
        BY <1>2
    <2>2. down[k + 1] = Turn(made, key, always_create, k + 1) /\ made \in Made /\ down[k + 1] \in Made
        <3>1. down[k] \in Made /\ down[k + 1] \in Made
            <4>1. k \in 0..N /\ k + 1 \in 0..N
                BY <1>2
            <4> QED
                BY <1>1, <4>1, Zenon
        <3>2. down[k + 1] = Turn(down[k], key, always_create, k + 1)
            BY <1>1, <2>1
        <3> QED
            BY <3>1, <3>2
    <2>3. Good(made)
        BY <1>4
    <2> HIDE DEF made
    <2>4. made.nodes \in Seq(NodeType) /\ made.node \in Nat
        BY <2>2 DEF Made
    <2>5. m # 0 => m \in DOMAIN made.nodes
        <3>1. DOMAIN made.nodes \subseteq Nat
            BY <2>4
        <3> QED
            BY <3>1, FirstNodeIsLeast DEF Xml!Children
    <2>6. CASE m # 0 /\ ~(k + 1 = N /\ always_create)
        <3>1. down[k + 1] = [made EXCEPT !.node = m]
            BY <2>2, <2>6 DEF Turn
        <3>2. down[k + 1].nodes = made.nodes /\ down[k + 1].node = m
            BY <2>2, <3>1 DEF Made
        <3> HIDE DEF m
        <3> QED
            BY <2>1, <2>3, <2>5, <2>6, <3>2
    <2>7. CASE ~(m # 0 /\ ~(k + 1 = N /\ always_create))
        <3> DEFINE new == Xml!Node(made.node, key.path[k + 1])
        <3>1. down[k + 1] = Xml!Created(made, key.path[k + 1])
            BY <2>2, <2>7 DEF Turn
        <3>2. down[k + 1].nodes = Append(made.nodes, new) /\ down[k + 1].node = Len(made.nodes) + 1
            BY <3>1 DEF Xml!Created
        <3>3. /\ new.parent = made.node /\ new.value = EmptyText /\ new.attr = Absent
              /\ down[k + 1].nodes \in Seq(NodeType)
            BY <2>2 DEF Xml!Node, Made
        <3> HIDE DEF new
        <3>4. Extends(Append(made.nodes, new), nodes)
            <4> DEFINE old == made.nodes
                       ns == Append(old, new)
            <4>1. ns \in Seq(NodeType) /\ new.parent = made.node /\ new.value = EmptyText /\ new.attr = Absent
                BY <3>2, <3>3
            <4>2. /\ Len(ns) = Len(old) + 1 /\ Len(old) \in Nat /\ ns[Len(old) + 1] = new
                  /\ \A j \in 1..Len(old) : ns[j] = old[j]
                BY <2>4
            <4>3. Extends(old, nodes) /\ made.node \in 1..Len(old) /\ Len(nodes) \in Nat
                BY <2>3, <2>4, LenProperties
            <4> HIDE DEF ns, old
            <4>4. ASSUME NEW j \in 1..Len(nodes)
                  PROVE  ns[j] = nodes[j]
                BY <4>2, <4>3 DEF Extends
            <4>5. ASSUME NEW j \in (Len(nodes) + 1)..Len(ns)
                  PROVE  ns[j].parent \in 1..(j - 1) /\ ns[j].value = EmptyText /\ ns[j].attr = Absent
                <5>1. CASE j = Len(old) + 1
                    BY <4>1, <4>2, <4>3, <5>1
                <5>2. CASE j # Len(old) + 1
                    <6>1. j \in (Len(nodes) + 1)..Len(old) /\ ns[j] = old[j]
                        BY <4>2, <4>3, <5>2
                    <6> QED
                        BY <4>3, <6>1 DEF Extends
                <5> QED
                    BY <5>1, <5>2
            <4>6. Len(nodes) <= Len(ns)
                BY <4>2, <4>3 DEF Extends
            <4>7. Extends(ns, nodes)
                BY <4>1, <4>4, <4>5, <4>6 DEF Extends
            <4> QED
                BY <4>7 DEF ns, old
        <3>5. Len(made.nodes) + 1 \in DOMAIN Append(made.nodes, new)
            BY <2>4
        <3>6. Good(down[k + 1])
            BY <3>2, <3>4, <3>5
        <3> QED
            BY <2>1, <3>6
    <2> QED
        BY <2>6, <2>7
<1>5. \A k \in 0..N : k \in T
    <2> HIDE DEF T, N
    <2> QED
        BY <1>2, <1>3, <1>4, UpTo
<1>6. N \in 0..N
    BY <1>2
<1> QED
    BY <1>1, <1>5, <1>6

\* Nodes stay where they are, and the new ones but one, if any, have parents.
Grows(new, old) ==
    /\ new \in Seq(NodeType) /\ Len(old) <= Len(new)
    /\ \A k \in 1..Len(old) : new[k].parent = old[k].parent /\ new[k].name = old[k].name
    /\ \A k \in (Len(old) + 1)..Len(new) : new[k].parent \in 1..(k - 1)

\* A node whose value or attribute has changed is where it was.
LEMMA NodeWithValue ==
    ASSUME NEW x \in NodeType, NEW v \in Values
    PROVE  /\ [x EXCEPT !.value = v] \in NodeType /\ [x EXCEPT !.attr = v] \in NodeType
           /\ [x EXCEPT !.value = v].parent = x.parent /\ [x EXCEPT !.value = v].name = x.name
           /\ [x EXCEPT !.attr = v].parent = x.parent /\ [x EXCEPT !.attr = v].name = x.name
BY DEF NodeType

LEMMA ExtendedGrows ==
    ASSUME nodes \in Seq(NodeType), NEW ns, Extends(ns, nodes), NEW m \in DOMAIN ns, NEW x \in NodeType,
           x.parent = ns[m].parent, x.name = ns[m].name
    PROVE  Grows([ns EXCEPT ![m] = x], nodes)
<1> DEFINE new == [ns EXCEPT ![m] = x]
<1>1. ns \in Seq(NodeType) /\ DOMAIN ns = 1..Len(ns) /\ Len(ns) \in Nat /\ Len(nodes) \in Nat
    BY LenProperties DEF Extends
<1>2. /\ new \in Seq(NodeType) /\ Len(new) = Len(ns)
      /\ \A k \in 1..Len(ns) : new[k] = IF k = m THEN x ELSE ns[k]
    BY <1>1, ExceptSeq
<1> HIDE DEF new
<1>3. \A k \in 1..Len(ns) : new[k].parent = ns[k].parent /\ new[k].name = ns[k].name
    BY <1>2
<1>4. \A k \in 1..Len(nodes) : new[k].parent = nodes[k].parent /\ new[k].name = nodes[k].name
    BY <1>1, <1>3 DEF Extends
<1>5. \A k \in (Len(nodes) + 1)..Len(ns) : new[k].parent \in 1..(k - 1)
    <2>1. \A k \in (Len(nodes) + 1)..Len(ns) : k \in 1..Len(ns) /\ ns[k].parent \in 1..(k - 1)
        BY <1>1 DEF Extends
    <2> QED
        BY <1>3, <2>1
<1>6. Grows(new, nodes)
    BY <1>1, <1>2, <1>4, <1>5 DEF Extends, Grows
<1> QED
    BY <1>6 DEF new

LEMMA SetValueGrows ==
    ASSUME nodes \in Seq(NodeType), NEW n \in DOMAIN nodes, NEW key \in XmlKeys, NEW v \in Values,
           Xml!SetValue(n, key, v)
    PROVE  Grows(nodes', nodes)
<1> DEFINE made == Xml!CreateOrFind(n, key, FALSE)
           x == made.nodes[made.node]
<1>1. made \in Made /\ Extends(made.nodes, nodes) /\ made.node \in DOMAIN made.nodes
    BY CreateOrFindExtends
<1>2. nodes' = IF key.is_attribute
               THEN [made.nodes EXCEPT ![made.node] = [x EXCEPT !.attr = v]]
               ELSE [made.nodes EXCEPT ![made.node] = [x EXCEPT !.value = v]]
    BY DEF Xml!SetValue
<1> HIDE DEF made
<1>3. made.nodes \in Seq(NodeType) /\ x \in NodeType
    BY <1>1 DEF Made
<1> HIDE DEF x
<1>4. /\ [x EXCEPT !.value = v] \in NodeType /\ [x EXCEPT !.attr = v] \in NodeType
      /\ [x EXCEPT !.value = v].parent = x.parent /\ [x EXCEPT !.value = v].name = x.name
      /\ [x EXCEPT !.attr = v].parent = x.parent /\ [x EXCEPT !.attr = v].name = x.name
    BY <1>3, NodeWithValue
<1>5. Grows([made.nodes EXCEPT ![made.node] = [x EXCEPT !.attr = v]], nodes)
    BY <1>1, <1>4, ExtendedGrows DEF x
<1>6. Grows([made.nodes EXCEPT ![made.node] = [x EXCEPT !.value = v]], nodes)
    BY <1>1, <1>4, ExtendedGrows DEF x
<1> QED
    BY <1>2, <1>5, <1>6

LEMMA AppendNodeGrows ==
    ASSUME nodes \in Seq(NodeType), NEW n \in DOMAIN nodes, NEW key \in XmlKeys, Xml!AppendNode(n, key)
    PROVE  Grows(nodes', nodes)
BY CreateOrFindExtends DEF Xml!AppendNode, Extends, Grows

LEMMA ContentTypes ==
    /\ Content \in Seq(NodeType) /\ << >> \in Seq(NodeType) /\ DOMAIN << >> = {}
    /\ \A k \in DOMAIN Content : Content[k].parent < k
<1> DEFINE T == [parent : Nat, name : STRING, value : Values, attr : Values \cup {Absent}]
<1>1. T \subseteq NodeType
    BY DEF NodeType, Names
<1>2. Content \in Seq(T) /\ \A k \in DOMAIN Content : Content[k].parent < k
    BY XmlInstance DEF Xml!XmlAssumption
<1> HIDE DEF T
<1>3. Content \in Seq(NodeType) /\ << >> \in Seq(NodeType)
    BY <1>1, <1>2, SeqMonotonic, EmptySeq
<1> QED
    BY <1>2, <1>3

LEMMA NewNode ==
    ASSUME NEW s \in Names
    PROVE  Xml!Node(0, s) \in NodeType /\ Xml!Node(0, s).parent = 0
<1>1. Xml!Node(0, s) = [parent |-> 0, name |-> s, value |-> EmptyText, attr |-> Absent]
    BY DEF Xml!Node
<1>2. Xml!Node(0, s).parent = 0
    BY <1>1
<1>3. EmptyText \in Values \cup {EmptyText} /\ Absent \in Values \cup {Absent} /\ 0 \in Nat
    OBVIOUS
<1> QED
    BY <1>1, <1>2, <1>3 DEF NodeType

LEMMA NodeMoved ==
    ASSUME NEW x \in NodeType, NEW p \in Nat
    PROVE  [x EXCEPT !.parent = p] \in NodeType /\ [x EXCEPT !.parent = p].parent = p
BY DEF NodeType

\* A document comes with its nodes behind it, each with its parent.
LEMMA ReplaceNodes ==
    ASSUME nodes \in Seq(NodeType), NEW ns \in Seq(NodeType),
           \A k \in DOMAIN ns : ns[k].parent < k, NEW owned, Xml!Replace(ns, owned)
    PROVE  /\ nodes' \in Seq(NodeType) /\ Len(nodes) < Len(nodes') /\ doc' = Len(nodes) + 1
           /\ \A k \in 1..Len(nodes) : nodes'[k] = nodes[k]
           /\ nodes'[doc'].parent = 0
           /\ \A k \in (doc' + 1)..Len(nodes') : nodes'[k].parent \in 1..(k - 1)
<1> DEFINE new == Xml!Node(0, "document")
           head == Append(nodes, new)
           moved == [k \in DOMAIN ns |-> [ns[k] EXCEPT !.parent = @ + Len(nodes) + 1]]
<1>1. nodes' = head \o moved /\ doc' = Len(nodes) + 1
    BY DEF Xml!Replace
<1>2. DOMAIN ns = 1..Len(ns) /\ Len(ns) \in Nat /\ Len(nodes) \in Nat
    BY LenProperties
<1>3. new \in NodeType /\ new.parent = 0
    BY NewNode DEF Names
<1> HIDE DEF new
<1>6. /\ head \in Seq(NodeType) /\ Len(head) = Len(nodes) + 1
      /\ \A k \in 1..Len(nodes) : head[k] = nodes[k]
      /\ head[Len(nodes) + 1] = new
    BY <1>3, AppendProperties
<1> HIDE DEF head
<1>4. \A k \in DOMAIN ns : moved[k] \in NodeType /\ moved[k].parent = ns[k].parent + Len(nodes) + 1
    <2> SUFFICES ASSUME NEW k \in DOMAIN ns
                 PROVE  moved[k] \in NodeType /\ moved[k].parent = ns[k].parent + Len(nodes) + 1
        OBVIOUS
    <2> DEFINE p == ns[k].parent + Len(nodes) + 1
    <2>1. ns[k] \in NodeType
        BY <1>2
    <2>2. p \in Nat
        BY <1>2, <2>1 DEF NodeType
    <2>3. moved[k] = [ns[k] EXCEPT !.parent = p]
        OBVIOUS
    <2> HIDE DEF moved, p
    <2>4. moved[k] \in NodeType /\ moved[k].parent = p
        BY <2>1, <2>2, <2>3, NodeMoved
    <2> QED
        BY <2>4 DEF p
<1>10. moved = [k \in 1..Len(ns) |-> moved[k]]
    BY <1>2
<1> HIDE DEF moved
<1>5. moved \in Seq(NodeType) /\ Len(moved) = Len(ns)
    BY <1>2, <1>4, <1>10
<1>7. /\ head \o moved \in Seq(NodeType) /\ Len(head \o moved) = Len(head) + Len(moved)
      /\ \A k \in 1..(Len(head) + Len(moved)) :
           (head \o moved)[k] = IF k <= Len(head) THEN head[k] ELSE moved[k - Len(head)]
    BY <1>5, <1>6, ConcatProperties
<1>8. ASSUME NEW k \in (doc' + 1)..Len(nodes')
      PROVE  nodes'[k].parent \in 1..(k - 1)
    <2> DEFINE j == k - Len(head)
    <2>1. j \in DOMAIN ns /\ nodes'[k] = moved[j]
        BY <1>1, <1>2, <1>5, <1>6, <1>7, <1>8
    <2>2. ns[j] \in NodeType
        BY <1>2, <2>1
    <2>3. /\ moved[j].parent = ns[j].parent + Len(nodes) + 1
          /\ ns[j].parent < j /\ ns[j].parent \in Nat
        BY <1>4, <2>1, <2>2 DEF NodeType
    <2> QED
        BY <1>2, <1>6, <2>1, <2>3
<1>9. /\ \A k \in 1..Len(nodes) : nodes'[k] = nodes[k]
      /\ nodes'[doc'].parent = 0
    BY <1>1, <1>2, <1>3, <1>5, <1>6, <1>7
<1> QED
    BY <1>1, <1>2, <1>5, <1>6, <1>7, <1>8, <1>9

Documents(ns) == {n \in DOMAIN ns : ns[n].parent = 0}

\* The document is the caller's, or the next one will delete it.
DocInv ==
    /\ nodes \in Seq(NodeType) /\ own \in BOOLEAN
    /\ IF doc = 0 THEN ~own ELSE doc \in Documents(nodes) /\ (own <=> doc \notin lent)
    /\ lent \subseteq Documents(nodes)
    /\ Xml!DeletesItsOwn

LEMMA DocBegins == Xml!Init => DocInv
BY ContentTypes DEF Xml!Init, DocInv, Documents, Xml!DeletesItsOwn

LEMMA GrowsKeepsDoc ==
    ASSUME DocInv, Grows(nodes', nodes), UNCHANGED << doc, own, deleted, lent >>
    PROVE  DocInv'
<1>1. /\ nodes \in Seq(NodeType) /\ nodes' \in Seq(NodeType)
      /\ DOMAIN nodes = 1..Len(nodes) /\ DOMAIN nodes' = 1..Len(nodes')
      /\ Len(nodes) \in Nat /\ Len(nodes') \in Nat
    BY LenProperties DEF DocInv, Grows
<1>2. \A k \in DOMAIN nodes' : nodes'[k].parent = 0 => k \in DOMAIN nodes
    BY <1>1 DEF Grows
<1>3. \A k \in DOMAIN nodes : k \in DOMAIN nodes' /\ nodes'[k].parent = nodes[k].parent
    BY <1>1 DEF Grows
<1>4. Documents(nodes') = Documents(nodes)
    BY <1>2, <1>3 DEF Documents
<1> QED
    BY <1>1, <1>4 DEF DocInv, Documents, Xml!DeletesItsOwn

LEMMA ReplaceKeepsDoc ==
    ASSUME DocInv, NEW ns \in Seq(NodeType), \A k \in DOMAIN ns : ns[k].parent < k,
           NEW owned \in BOOLEAN, Xml!Replace(ns, owned)
    PROVE  DocInv'
<1>1. /\ own' = owned /\ deleted' = IF own THEN deleted \cup {doc} ELSE deleted
      /\ lent' = IF owned THEN lent ELSE lent \cup {doc'}
    BY DEF Xml!Replace
<1>2. /\ nodes' \in Seq(NodeType) /\ Len(nodes) < Len(nodes') /\ doc' = Len(nodes) + 1
      /\ Documents(nodes') = Documents(nodes) \cup {doc'}
      /\ doc' \notin Documents(nodes)
    <2>1. nodes \in Seq(NodeType)
        BY DEF DocInv
    <2>2. /\ nodes' \in Seq(NodeType) /\ Len(nodes) < Len(nodes') /\ doc' = Len(nodes) + 1
          /\ \A k \in 1..Len(nodes) : nodes'[k] = nodes[k]
          /\ nodes'[doc'].parent = 0
          /\ \A k \in (doc' + 1)..Len(nodes') : nodes'[k].parent \in 1..(k - 1)
        BY <2>1, ReplaceNodes
    <2>3. /\ DOMAIN nodes = 1..Len(nodes) /\ DOMAIN nodes' = 1..Len(nodes')
          /\ Len(nodes) \in Nat /\ Len(nodes') \in Nat
        BY <2>1, <2>2, LenProperties
    <2>4. \A k \in DOMAIN nodes' : nodes'[k].parent = 0 => k \in DOMAIN nodes \/ k = doc'
        BY <2>2, <2>3
    <2>5. \A k \in DOMAIN nodes : k \in DOMAIN nodes' /\ nodes'[k] = nodes[k]
        BY <2>2, <2>3
    <2>6. doc' \in DOMAIN nodes' /\ doc' \notin DOMAIN nodes
        BY <2>2, <2>3
    <2> QED
        BY <2>2, <2>4, <2>5, <2>6 DEF Documents
<1>3. doc' # 0 /\ doc' \notin lent
    BY <1>2 DEF DocInv
<1>4. deleted = Documents(nodes) \ (lent \cup {doc})
    BY DEF DocInv, Xml!DeletesItsOwn, Documents
<1>5. deleted' = Documents(nodes') \ (lent' \cup {doc'})
    <2>1. CASE own
        BY <1>1, <1>2, <1>3, <1>4, <2>1 DEF DocInv
    <2>2. CASE ~own
        <3>1. doc = 0 \/ doc \in lent
            BY <2>2 DEF DocInv
        <3>2. 0 \notin Documents(nodes)
            BY DEF Documents, DocInv
        <3> QED
            BY <1>1, <1>2, <1>3, <1>4, <2>2, <3>1, <3>2
    <2> QED
        BY <2>1, <2>2 DEF DocInv
<1> QED
    BY <1>1, <1>2, <1>3, <1>5 DEF DocInv, Xml!DeletesItsOwn, Documents

LEMMA DocContinues == DocInv /\ Xml!Next => DocInv'
<1> SUFFICES ASSUME DocInv, Xml!Next
             PROVE  DocInv'
    OBVIOUS
<1>1. CASE Xml!CreateDocument \/ Xml!Read \/ Xml!ReadFails
    BY <1>1, ContentTypes, ReplaceKeepsDoc DEF Xml!CreateDocument, Xml!Read, Xml!ReadFails
<1>2. ASSUME NEW owned \in BOOLEAN, Xml!UseDocument(owned)
      PROVE  DocInv'
    BY <1>2, ContentTypes, ReplaceKeepsDoc DEF Xml!UseDocument
<1>3. ASSUME UNCHANGED << nodes, doc, own, deleted, lent >>
      PROVE  DocInv'
    BY <1>3 DEF DocInv, Documents, Xml!DeletesItsOwn
<1>4. ASSUME NEW n \in DOMAIN nodes, NEW key \in XmlKeys, Xml!AppendNode(n, key)
      PROVE  DocInv'
    BY <1>4, AppendNodeGrows, GrowsKeepsDoc DEF Xml!AppendNode, DocInv
<1>5. ASSUME NEW n \in DOMAIN nodes, NEW key \in XmlKeys, NEW v \in Values, Xml!SetValue(n, key, v)
      PROVE  DocInv'
    BY <1>5, SetValueGrows, GrowsKeepsDoc DEF Xml!SetValue, DocInv
<1>6. ASSUME NEW n \in DOMAIN nodes, NEW key \in XmlKeys,
             Xml!AllChildrenOf(n, key) \/ Xml!AllNodesNamed(n, key)
      PROVE  DocInv'
    BY <1>3, <1>6 DEF Xml!AllChildrenOf, Xml!AllNodesNamed, Xml!Begin
<1>7. CASE Xml!Advance
    BY <1>3, <1>7 DEF Xml!Advance
<1> QED
    BY <1>1, <1>2, <1>4, <1>5, <1>6, <1>7 DEF Xml!Next

ReleaseInv == FileInv /\ DocInv

LEMMA ReleasesContinue == ReleaseInv /\ [LibraryNext]_libraryVars => ReleaseInv'
<1> SUFFICES ASSUME ReleaseInv, [LibraryNext]_libraryVars
             PROVE  ReleaseInv'
    OBVIOUS
<1>1. UNCHANGED fileVars => FileInv'
    BY DEF ReleaseInv, FileInv, fileVars
<1>2. UNCHANGED xmlVars => DocInv'
    BY DEF ReleaseInv, DocInv, Documents, Xml!DeletesItsOwn, xmlVars
<1>3. UNCHANGED fileVars \/ File!Next
    BY DEF LibraryNext, libraryVars
<1>4. UNCHANGED xmlVars \/ Xml!Next
    BY DEF LibraryNext, libraryVars
<1> QED
    BY <1>1, <1>2, <1>3, <1>4, FileContinues, DocContinues DEF ReleaseInv

\* A File has one open descriptor at most, its own; and each document is deleted when
\* another takes its place, unless it is the caller's.  (Open, Create, use_document.)
THEOREM ReleasedOnce == LibrarySpec => []ReleasesOnce
<1>1. LibraryInit => ReleaseInv
    BY FileBegins, DocBegins DEF LibraryInit, ReleaseInv
<1>2. ReleaseInv => ReleasesOnce
    BY DEF ReleaseInv, FileInv, DocInv, ReleasesOnce, File!OneDescriptor
<1> QED
    BY <1>1, <1>2, ReleasesContinue, PTL DEF LibrarySpec

-----------------------------------------------------------------------------
(* Iterators *)

Ascending(s) == \A j \in DOMAIN s, k \in DOMAIN s : j < k => s[j] < s[k]

\* An iterator at a node has visited that and all before it.
IterInv ==
    at # 0 =>
        /\ at \in Nat /\ iterated \in Seq(Nat) /\ Ascending(iterated)
        /\ at \in Xml!ToSet(iterated)
        /\ Xml!ToSet(iterated) = {k \in Xml!Children(nodes, from, name_) : k <= at}

LEMMA AppendAscends ==
    ASSUME NEW s \in Seq(Nat), Ascending(s), NEW x \in Nat, \A y \in Xml!ToSet(s) : y < x
    PROVE  /\ Append(s, x) \in Seq(Nat) /\ Ascending(Append(s, x))
           /\ Xml!ToSet(Append(s, x)) = Xml!ToSet(s) \cup {x}
<1> DEFINE t == Append(s, x)
<1>1. DOMAIN s = 1..Len(s) /\ Len(s) \in Nat
    BY LenProperties
<1>2. /\ t \in Seq(Nat) /\ DOMAIN t = 1..(Len(s) + 1)
      /\ \A k \in 1..Len(s) : t[k] = s[k]
      /\ t[Len(s) + 1] = x
    BY <1>1, AppendProperties
<1> HIDE DEF t
<1>3. \A k \in DOMAIN s : s[k] < x
    BY DEF Xml!ToSet
<1>4. Ascending(t)
    <2> SUFFICES ASSUME NEW j \in 1..(Len(s) + 1), NEW k \in 1..(Len(s) + 1), j < k
                 PROVE  t[j] < t[k]
        BY <1>2 DEF Ascending
    <2>1. j \in DOMAIN s /\ t[j] = s[j]
        BY <1>1, <1>2
    <2>2. CASE k = Len(s) + 1
        BY <1>2, <1>3, <2>1, <2>2
    <2>3. CASE k # Len(s) + 1
        <3>1. k \in 1..Len(s)
            BY <1>1, <2>3
        <3>2. k \in DOMAIN s /\ t[k] = s[k]
            BY <1>1, <1>2, <3>1
        <3> QED
            BY <2>1, <3>2 DEF Ascending
    <2> QED
        BY <2>2, <2>3
<1>5. Xml!ToSet(t) = Xml!ToSet(s) \cup {x}
    <2>1. Xml!ToSet(t) = {t[k] : k \in 1..(Len(s) + 1)} /\ Xml!ToSet(s) = {s[k] : k \in 1..Len(s)}
        BY <1>1, <1>2 DEF Xml!ToSet
    <2>2. ASSUME NEW y \in Xml!ToSet(t)
          PROVE  y \in Xml!ToSet(s) \cup {x}
        <3>1. PICK k \in 1..(Len(s) + 1) : y = t[k]
            BY <2>1, <2>2
        <3>2. k = Len(s) + 1 \/ k \in 1..Len(s)
            BY <1>1
        <3> QED
            BY <1>2, <2>1, <3>1, <3>2
    <2>3. ASSUME NEW y \in Xml!ToSet(s)
          PROVE  y \in Xml!ToSet(t)
        <3>1. PICK k \in 1..Len(s) : y = s[k]
            BY <2>1, <2>3
        <3>2. k \in 1..(Len(s) + 1)
            BY <1>1
        <3> QED
            BY <1>2, <2>1, <3>1, <3>2
    <2>4. x \in Xml!ToSet(t)
        <3>1. Len(s) + 1 \in 1..(Len(s) + 1)
            BY <1>1
        <3> QED
            BY <1>2, <2>1, <3>1
    <2> QED
        BY <2>2, <2>3, <2>4
<1> QED
    BY <1>2, <1>4, <1>5 DEF t

LEMMA OneAscends ==
    ASSUME NEW x \in Nat
    PROVE  << x >> \in Seq(Nat) /\ Ascending(<< x >>) /\ Xml!ToSet(<< x >>) = {x}
<1>1. << x >> \in Seq(Nat) /\ DOMAIN << x >> = {1} /\ << x >>[1] = x
    OBVIOUS
<1> QED
    BY <1>1 DEF Ascending, Xml!ToSet

\* As nodes are added behind those that there are, an iterator has missed none.
LEMMA GrownChildren ==
    ASSUME nodes \in Seq(NodeType), nodes' \in Seq(NodeType), Len(nodes) <= Len(nodes'),
           \A k \in 1..Len(nodes) : nodes'[k].parent = nodes[k].parent /\ nodes'[k].name = nodes[k].name,
           NEW last \in 1..Len(nodes)
    PROVE  {k \in Xml!Children(nodes', from, name_) : k <= last}
               = {k \in Xml!Children(nodes, from, name_) : k <= last}
<1>1. /\ DOMAIN nodes = 1..Len(nodes) /\ DOMAIN nodes' = 1..Len(nodes')
      /\ Len(nodes) \in Nat /\ Len(nodes') \in Nat
    BY LenProperties
<1> QED
    BY <1>1 DEF Xml!Children

LEMMA GrowsKeepsIter ==
    ASSUME nodes \in Seq(NodeType), IterInv, nodes' \in Seq(NodeType), Len(nodes) <= Len(nodes'),
           \A k \in 1..Len(nodes) : nodes'[k].parent = nodes[k].parent /\ nodes'[k].name = nodes[k].name,
           UNCHANGED << name_, at, from, iterated >>
    PROVE  IterInv'
<1>1. at # 0 => at \in 1..Len(nodes)
    BY LenProperties DEF IterInv, Xml!Children
<1>2. at # 0 => {k \in Xml!Children(nodes', from, name_) : k <= at}
                   = {k \in Xml!Children(nodes, from, name_) : k <= at}
    BY <1>1, GrownChildren
<1> QED
    BY <1>2 DEF IterInv

\* One turn of the loop of find_node().
Down(ns, prev, key, k) == IF prev = 0 THEN 0 ELSE Xml!FirstNode(ns, prev, << key.path[k] >>)

LEMMA FindNodeTurns ==
    ASSUME NEW ns \in Seq(NodeType), NEW n \in Nat, NEW key \in XmlKeys
    PROVE  \E down \in [0..Len(key.path) -> Nat] :
             /\ down[0] = n
             /\ \A k \in 1..Len(key.path) : down[k] = Down(ns, down[k - 1], key, k)
             /\ Xml!FindNode(ns, n, key) = down[Len(key.path)]
<1> DEFINE N == Len(key.path)
           step == [k \in 1..N |-> [prev \in Nat |-> Down(ns, prev, key, k)]]
           Says(f) == f = [k \in 0..N |-> IF k = 0 THEN n
                                          ELSE IF f[k - 1] = 0 THEN 0
                                               ELSE Xml!FirstNode(ns, f[k - 1], << key.path[k] >>)]
           the == CHOOSE f : Says(f)
<1>1. N \in Nat
    BY KeyTypes
<1>2. step \in [1..N -> [Nat -> Nat]]
    <2>1. DOMAIN ns \subseteq Nat
        BY LenProperties
    <2>2. \A prev \in Nat, k \in 1..N : Down(ns, prev, key, k) \in Nat
        BY <2>1, FirstNodeIsLeast DEF Xml!Children, Down
    <2> QED
        BY <2>2
<1>3. PICK f : Iterates(f, N, Nat, n, step)
    <2> HIDE DEF N, step, Says, the
    <2> QED
        BY <1>1, <1>2, Recursion
<1>4. f \in [0..N -> Nat] /\ f[0] = n /\ \A k \in 1..N : f[k] = Down(ns, f[k - 1], key, k)
    <2> SUFFICES ASSUME NEW k \in 1..N
                 PROVE  f[k] = Down(ns, f[k - 1], key, k)
        BY <1>3 DEF Iterates
    <2>1. f[k - 1] \in Nat
        BY <1>1, <1>3 DEF Iterates
    <2> QED
        BY <1>3, <2>1 DEF Iterates
<1>5. Says(f)
    <2>1. f = [k \in 0..N |-> f[k]]
        BY <1>4
    <2>2. ASSUME NEW k \in 0..N
          PROVE  f[k] = IF k = 0 THEN n ELSE Down(ns, f[k - 1], key, k)
        <3>1. k = 0 \/ k \in 1..N
            BY <1>1
        <3> HIDE DEF N, step, Says, the
        <3> QED
            BY <1>1, <1>4, <3>1
    <2> HIDE DEF N, step, the
    <2> QED
        BY <2>1, <2>2 DEF Down, N
<1>6. Says(the)
    BY <1>5
<1>7. Xml!FindNode(ns, n, key) = the[N]
    BY DEF Xml!FindNode
<1> HIDE DEF the
<1>8. the[0] = n /\ \A k \in 1..N : the[k] = Down(ns, the[k - 1], key, k)
    <2> HIDE DEF step
    <2>1. 0 \in 0..N /\ \A k \in 1..N : k \in 0..N /\ k # 0
        BY <1>1
    <2>2. \A k \in 0..N : the[k] = IF k = 0 THEN n ELSE Down(ns, the[k - 1], key, k)
        BY <1>6 DEF Down
    <2> HIDE DEF Says
    <2> QED
        BY <2>1, <2>2
<1>9. the \in [0..N -> Nat]
    <2> DEFINE T == {k \in 0..N : the[k] = f[k]}
    <2>1. 0 \in T
        BY <1>1, <1>4, <1>8
    <2>2. ASSUME NEW k \in 0..(N - 1), k \in T
          PROVE  k + 1 \in T
        <3>1. k + 1 \in 1..N /\ (k + 1) - 1 = k
            BY <1>1
        <3> HIDE DEF N
        <3> QED
            BY <1>4, <1>8, <2>2, <3>1
    <2>3. \A k \in 0..N : k \in T
        <3> HIDE DEF T, N
        <3> QED
            BY <1>1, <2>1, <2>2, UpTo
    <2>4. the = [k \in 0..N |-> the[k]]
        BY <1>6
    <2> HIDE DEF N, Says
    <2> QED
        BY <1>4, <2>3, <2>4
<1> QED
    BY <1>7, <1>8, <1>9

\* A node that was found under a key is the first of its name among its siblings.
LEMMA FoundIsFirst ==
    ASSUME NEW ns \in Seq(NodeType), NEW n \in Nat, NEW key \in XmlKeys, key.path # << >>,
           Xml!FindNode(ns, n, key) # 0
    PROVE  LET m == Xml!FindNode(ns, n, key)
               name == << Xml!Last(key.path) >>
           IN m = Xml!FirstNode(ns, ns[m].parent, name)
<1> DEFINE N == Len(key.path)
           m == Xml!FindNode(ns, n, key)
<1>1. N \in Nat \ {0} /\ Xml!Last(key.path) = key.path[N]
    BY KeyTypes, EmptySeq, LenProperties DEF Xml!Last
<1>2. PICK down \in [0..N -> Nat] :
             /\ down[0] = n
             /\ \A k \in 1..N : down[k] = Down(ns, down[k - 1], key, k)
             /\ m = down[N]
    BY FindNodeTurns
<1>3. m = Down(ns, down[N - 1], key, N) /\ m # 0
    BY <1>1, <1>2
<1>4. m = Xml!FirstNode(ns, down[N - 1], << key.path[N] >>)
    BY <1>3 DEF Down
<1>5. ns[m].parent = down[N - 1]
    BY <1>3, <1>4, FirstNodeIsLeast, LenProperties DEF Xml!Children
<1> HIDE DEF m
<1> QED
    BY <1>1, <1>4, <1>5 DEF m

LEMMA FirstBegins ==
    ASSUME nodes \in Seq(NodeType), NEW name, NEW parent,
           Xml!Begin(name, Xml!FirstNode(nodes, parent, name), parent)
    PROVE  IterInv' /\ (at' = 0 => Xml!ToSet(iterated') = Xml!Children(nodes', from', name_') /\ Ascending(iterated'))
<1> DEFINE first == Xml!FirstNode(nodes, parent, name)
           children == Xml!Children(nodes, parent, name)
<1>1. /\ DOMAIN nodes \subseteq Nat \ {0}
      /\ IF children = {} THEN first = 0 ELSE first \in children /\ \A k \in children : first <= k
    BY FirstNodeIsLeast, LenProperties
<1>2. /\ at' = first /\ iterated' = IF first = 0 THEN << >> ELSE << first >>
      /\ Xml!Children(nodes', from', name_') = children
    BY DEF Xml!Begin, Xml!Children
<1>3. children \subseteq Nat \ {0}
    BY <1>1 DEF Xml!Children
<1> HIDE DEF first, children
<1>4. CASE first = 0
    <2>1. children = {} /\ iterated' = << >> /\ at' = 0
        BY <1>1, <1>2, <1>3, <1>4
    <2>2. Xml!ToSet(<< >>) = {} /\ Ascending(<< >>)
        BY DEF Xml!ToSet, Ascending
    <2> QED
        BY <1>2, <2>1, <2>2 DEF IterInv
<1>5. CASE first # 0
    <2>1. first \in children /\ first \in Nat /\ at' = first /\ iterated' = << first >>
        BY <1>1, <1>2, <1>3, <1>5
    <2>2. {k \in children : k <= first} = {first}
        <3>1. \A k \in children : k \in Nat /\ first <= k
            BY <1>1, <1>3, <2>1
        <3>2. \A k \in children : k <= first <=> k = first
            BY <2>1, <3>1
        <3> QED
            BY <2>1, <3>2
    <2>3. << first >> \in Seq(Nat) /\ Ascending(<< first >>) /\ Xml!ToSet(<< first >>) = {first}
        BY <2>1, OneAscends
    <2> QED
        BY <1>2, <1>5, <2>1, <2>2, <2>3 DEF IterInv
<1> QED
    BY <1>4, <1>5

LEMMA AdvanceKeepsIter ==
    ASSUME nodes \in Seq(NodeType), IterInv, Xml!Advance
    PROVE  IterInv' /\ (at' = 0 => Xml!ToSet(iterated') = Xml!Children(nodes', from', name_') /\ Ascending(iterated'))
<1> DEFINE children == Xml!Children(nodes, from, name_)
           after == {k \in children : k > at}
<1>1. /\ at # 0 /\ at' = (IF after = {} THEN 0 ELSE Xml!Min(after))
      /\ iterated' = IF at' = 0 THEN iterated ELSE Append(iterated, at')
      /\ Xml!Children(nodes', from', name_') = children
    BY DEF Xml!Advance, Xml!Children
<1>2. children \subseteq Nat \ {0}
    BY LenProperties DEF Xml!Children
<1>3. /\ at \in Nat /\ iterated \in Seq(Nat) /\ Ascending(iterated)
      /\ at \in Xml!ToSet(iterated)
      /\ Xml!ToSet(iterated) = {k \in children : k <= at}
    BY <1>1 DEF IterInv
<1> HIDE DEF children
<1>4. CASE after = {}
    <2>1. at' = 0 /\ iterated' = iterated
        BY <1>1, <1>4
    <2>2. {k \in children : k <= at} = children
        <3>1. \A k \in children : k \in Nat /\ ~(k > at)
            BY <1>2, <1>4
        <3>2. \A k \in children : k <= at
            BY <1>3, <3>1
        <3> QED
            BY <3>2
    <2> QED
        BY <1>1, <1>3, <2>1, <2>2 DEF IterInv
<1>5. CASE after # {}
    <2>1. at' = Xml!Min(after)
        BY <1>1, <1>5
    <2>2. after \in SUBSET Nat
        BY <1>2
    <2>3. at' \in after /\ \A k \in after : at' <= k
        <3> HIDE DEF after
        <3>1. \E x \in after : \A y \in after : x <= y
            BY <1>5, <2>2, HasLeast
        <3>2. at' = CHOOSE x \in after : \A y \in after : x <= y
            BY <2>1 DEF Xml!Min
        <3> QED
            BY <3>1, <3>2
    <2>4. at' \in Nat \ {0} /\ at' > at /\ at' \in children /\ iterated' = Append(iterated, at')
        BY <1>1, <1>2, <2>3
    <2>5. /\ iterated' \in Seq(Nat) /\ Ascending(iterated')
          /\ Xml!ToSet(iterated') = Xml!ToSet(iterated) \cup {at'}
        <3>1. \A y \in Xml!ToSet(iterated) : y < at'
            BY <1>2, <1>3, <2>4
        <3> QED
            BY <1>3, <2>4, <3>1, AppendAscends
    <2>6. {k \in children : k <= at'} = {k \in children : k <= at} \cup {at'}
        <3>1. \A k \in children : k \in Nat /\ (k > at => at' <= k)
            BY <1>2, <2>3
        <3>2. \A k \in children : k <= at' <=> k <= at \/ k = at'
            BY <1>3, <2>4, <3>1
        <3> QED
            BY <2>4, <3>2
    <2> QED
        BY <1>1, <1>3, <2>4, <2>5, <2>6 DEF IterInv
<1> QED
    BY <1>4, <1>5

IterEnds == at # 0 /\ at' = 0 => Xml!ToSet(iterated') = Xml!Children(nodes', from', name_') /\ Ascending(iterated')

LEMMA ReplaceKeepsIter ==
    ASSUME nodes \in Seq(NodeType), IterInv, NEW ns \in {<< >>, Content}, NEW owned \in BOOLEAN,
           Xml!Replace(ns, owned)
    PROVE  IterInv' /\ IterEnds
<1>1. ns \in Seq(NodeType) /\ \A k \in DOMAIN ns : ns[k].parent < k
    BY ContentTypes
<1>2. nodes' \in Seq(NodeType) /\ Len(nodes) < Len(nodes') /\ \A k \in 1..Len(nodes) : nodes'[k] = nodes[k]
    BY <1>1, ReplaceNodes
<1>3. UNCHANGED << name_, at, from, iterated >>
    BY DEF Xml!Replace
<1> QED
    BY <1>2, <1>3, GrowsKeepsIter, LenProperties DEF IterEnds

LEMMA IterContinues == DocInv /\ IterInv /\ Xml!Next => IterInv' /\ IterEnds
<1> SUFFICES ASSUME DocInv, IterInv, Xml!Next
             PROVE  IterInv' /\ IterEnds
    OBVIOUS
<1>1. nodes \in Seq(NodeType)
    BY DEF DocInv
<1>2. CASE Xml!CreateDocument \/ Xml!Read \/ Xml!ReadFails
    BY <1>1, <1>2, ReplaceKeepsIter DEF Xml!CreateDocument, Xml!Read, Xml!ReadFails
<1>3. ASSUME NEW owned \in BOOLEAN, Xml!UseDocument(owned)
      PROVE  IterInv' /\ IterEnds
    BY <1>1, <1>3, ReplaceKeepsIter DEF Xml!UseDocument
<1>4. ASSUME Grows(nodes', nodes), UNCHANGED << name_, at, from, iterated >>
      PROVE  IterInv' /\ IterEnds
    BY <1>1, <1>4, GrowsKeepsIter DEF Grows, IterEnds
<1>5. ASSUME NEW n \in DOMAIN nodes, NEW key \in XmlKeys, Xml!AppendNode(n, key)
      PROVE  IterInv' /\ IterEnds
    BY <1>1, <1>4, <1>5, AppendNodeGrows DEF Xml!AppendNode
<1>6. ASSUME NEW n \in DOMAIN nodes, NEW key \in XmlKeys, NEW v \in Values, Xml!SetValue(n, key, v)
      PROVE  IterInv' /\ IterEnds
    BY <1>1, <1>4, <1>6, SetValueGrows DEF Xml!SetValue
<1>7. ASSUME NEW n \in DOMAIN nodes, NEW key \in XmlKeys, Xml!AllChildrenOf(n, key)
      PROVE  IterInv' /\ IterEnds
    BY <1>1, <1>7, FirstBegins DEF Xml!AllChildrenOf, IterEnds
<1>8. ASSUME NEW n \in DOMAIN nodes, NEW key \in XmlKeys, Xml!AllNodesNamed(n, key)
      PROVE  IterInv' /\ IterEnds
    <2> DEFINE m == Xml!FindNode(nodes, n, key)
               name == << Xml!Last(key.path) >>
    <2>1. Xml!Begin(name, m, nodes[m].parent) /\ key.path # << >> /\ m # 0
        BY <1>8 DEF Xml!AllNodesNamed
    <2>2. m = Xml!FirstNode(nodes, nodes[m].parent, name)
        BY <1>1, <2>1, FoundIsFirst, LenProperties
    <2> HIDE DEF m, name
    <2> QED
        BY <1>1, <2>1, <2>2, FirstBegins DEF IterEnds
<1>9. CASE Xml!Advance
    BY <1>1, <1>9, AdvanceKeepsIter DEF IterEnds
<1> QED
    BY <1>2, <1>3, <1>5, <1>6, <1>7, <1>8, <1>9 DEF Xml!Next

\* An iterator that comes to its end has visited all nodes that there are, those too
\* that were appended on its way, once and in order.  (operator++, all_nodes_named.)
THEOREM AllAreVisited == LibrarySpec => VisitsAll
<1> DEFINE Inv == DocInv /\ IterInv
<1>1. LibraryInit => Inv
    BY DocBegins DEF LibraryInit, Xml!Init, IterInv
<1>2. Inv /\ [LibraryNext]_libraryVars => Inv' /\ (UNCHANGED xmlVars \/ IterEnds)
    <2> SUFFICES ASSUME DocInv, IterInv, [LibraryNext]_libraryVars
                 PROVE  Inv' /\ (UNCHANGED xmlVars \/ IterEnds)
        OBVIOUS
    <2>1. UNCHANGED xmlVars => Inv'
        BY DEF DocInv, IterInv, Documents, Xml!DeletesItsOwn, Xml!Children, Xml!ToSet, Ascending, xmlVars
    <2>2. UNCHANGED xmlVars \/ Xml!Next
        BY DEF LibraryNext, libraryVars
    <2> QED
        BY <2>1, <2>2, DocContinues, IterContinues
<1>3. UNCHANGED xmlVars \/ IterEnds
        => [at # 0 /\ at' = 0 =>
              /\ Xml!ToSet(iterated') = Xml!Children(nodes', from', name_')
              /\ \A j \in DOMAIN iterated', k \in DOMAIN iterated' :
                    j < k => iterated'[j] < iterated'[k]]_xmlVars
    BY DEF IterEnds, Ascending
<1> QED
    BY <1>1, <1>2, <1>3, PTL DEF LibrarySpec, VisitsAll, Xml!VisitsAll, Xml!vars, xmlVars

-----------------------------------------------------------------------------
(* What set() stores *)

TreeInv == nodes \in Seq(NodeType) /\ \A k \in DOMAIN nodes : nodes[k].parent < k

\* The first K names of path lead from n over the nodes of f, each the first of its name.
Steps(ns, n, path, f, K) ==
    /\ f[0] = n /\ n \in DOMAIN ns
    /\ \A k \in 1..K : f[k] \in DOMAIN ns /\ f[k] = Xml!FirstNode(ns, f[k - 1], << path[k] >>)

LEMMA FirstNodeIs ==
    ASSUME NEW ns \in Seq(NodeType), NEW n, NEW s, NEW m \in DOMAIN ns
    PROVE  m = Xml!FirstNode(ns, n, << s >>) <=>
             /\ ns[m].parent = n /\ ns[m].name = s
             /\ \A k \in DOMAIN ns : ns[k].parent = n /\ ns[k].name = s => m <= k
<1> DEFINE children == Xml!Children(ns, n, << s >>)
           first == Xml!FirstNode(ns, n, << s >>)
<1>1. DOMAIN ns \subseteq Nat /\ 0 \notin DOMAIN ns
    BY LenProperties
<1>2. \A k : k \in children <=> k \in DOMAIN ns /\ ns[k].parent = n /\ ns[k].name = s
    <2>1. << s >> # << >> /\ \A x : << x >> = << s >> <=> x = s
        OBVIOUS
    <2> QED
        BY <2>1 DEF Xml!Children
<1>3. IF children = {} THEN first = 0 ELSE first \in children /\ \A k \in children : first <= k
    BY <1>1, FirstNodeIsLeast
<1> HIDE DEF children, first
<1>4. ASSUME m = first
      PROVE  m \in children /\ \A k \in children : m <= k
    BY <1>1, <1>3, <1>4
<1>5. ASSUME m \in children, \A k \in children : m <= k
      PROVE  m = first
    <2>1. first \in children /\ first <= m /\ m <= first
        BY <1>3, <1>5
    <2>2. first \in Nat /\ m \in Nat
        BY <1>1, <1>2, <2>1
    <2> QED
        BY <2>1, <2>2
<1>6. m = first <=> m \in children /\ \A k \in children : m <= k
    BY <1>4, <1>5
<1> QED
    BY <1>2, <1>6 DEF first

\* find_node() takes these steps.
LEMMA FindNodeSteps ==
    ASSUME NEW ns \in Seq(NodeType), NEW n \in DOMAIN ns, NEW key \in XmlKeys, Xml!FindNode(ns, n, key) # 0
    PROVE  \E f : Steps(ns, n, key.path, f, Len(key.path)) /\ f[Len(key.path)] = Xml!FindNode(ns, n, key)
<1> DEFINE N == Len(key.path)
<1>1. N \in Nat /\ n \in Nat /\ DOMAIN ns \subseteq Nat
    BY KeyTypes, LenProperties
<1>2. PICK down \in [0..N -> Nat] :
             /\ down[0] = n
             /\ \A k \in 1..N : down[k] = Down(ns, down[k - 1], key, k)
             /\ Xml!FindNode(ns, n, key) = down[N]
    BY <1>1, FindNodeTurns
<1> DEFINE T == {i \in 0..N : down[N - i] # 0}
<1> HIDE DEF N
<1>3. 0 \in T
    BY <1>1, <1>2
<1>4. ASSUME NEW i \in 0..(N - 1), i \in T
      PROVE  i + 1 \in T
    <2>1. N - i \in 1..N /\ (N - i) - 1 = N - (i + 1) /\ i + 1 \in 0..N
        BY <1>1
    <2>2. down[N - i] = Down(ns, down[N - (i + 1)], key, N - i) /\ down[N - i] # 0
        BY <1>2, <1>4, <2>1
    <2> QED
        BY <2>1, <2>2 DEF Down
<1>5. \A i \in 0..N : i \in T
    <2> HIDE DEF T
    <2> QED
        BY <1>1, <1>3, <1>4, UpTo
<1>6. ASSUME NEW k \in 1..N
      PROVE  down[k] \in DOMAIN ns /\ down[k] = Xml!FirstNode(ns, down[k - 1], << key.path[k] >>)
    <2>1. N - k \in 0..N /\ N - (k - 1) \in 0..N /\ N - (N - k) = k /\ N - (N - (k - 1)) = k - 1
        BY <1>1
    <2>2. down[k] # 0 /\ down[k - 1] # 0
        BY <1>5, <2>1
    <2>3. down[k] = Xml!FirstNode(ns, down[k - 1], << key.path[k] >>)
        BY <1>2, <2>2 DEF Down
    <2>4. down[k] \in DOMAIN ns
        <3>1. down[k] \in Xml!Children(ns, down[k - 1], << key.path[k] >>)
            BY <1>1, <2>2, <2>3, FirstNodeIsLeast
        <3> QED
            BY <3>1 DEF Xml!Children
    <2> QED
        BY <2>3, <2>4
<1>7. Steps(ns, n, key.path, down, N)
    BY <1>2, <1>6 DEF Steps
<1> QED
    BY <1>2, <1>7 DEF N

LEMMA StepsFindNode ==
    ASSUME NEW ns \in Seq(NodeType), NEW n, NEW key \in XmlKeys, NEW f,
           Steps(ns, n, key.path, f, Len(key.path))
    PROVE  Xml!FindNode(ns, n, key) = f[Len(key.path)]
<1> DEFINE N == Len(key.path)
<1>1. N \in Nat /\ n \in Nat /\ DOMAIN ns \subseteq Nat /\ 0 \notin DOMAIN ns
    BY KeyTypes, LenProperties DEF Steps
<1>2. PICK down \in [0..N -> Nat] :
             /\ down[0] = n
             /\ \A k \in 1..N : down[k] = Down(ns, down[k - 1], key, k)
             /\ Xml!FindNode(ns, n, key) = down[N]
    BY <1>1, FindNodeTurns
<1> DEFINE T == {k \in 0..N : down[k] = f[k] /\ f[k] # 0}
<1> HIDE DEF N
<1>3. 0 \in T
    BY <1>1, <1>2 DEF Steps
<1>4. ASSUME NEW k \in 0..(N - 1), k \in T
      PROVE  k + 1 \in T
    <2>1. k + 1 \in 1..N /\ (k + 1) - 1 = k /\ k + 1 \in 0..N
        BY <1>1
    <2>2. f[k + 1] \in DOMAIN ns /\ f[k + 1] = Xml!FirstNode(ns, f[k], << key.path[k + 1] >>)
        BY <2>1 DEF Steps, N
    <2>3. down[k + 1] = Down(ns, f[k], key, k + 1) /\ f[k] # 0
        BY <1>2, <1>4, <2>1
    <2> QED
        BY <1>1, <2>1, <2>2, <2>3 DEF Down
<1>5. \A k \in 0..N : k \in T
    <2> HIDE DEF T
    <2> QED
        BY <1>1, <1>3, <1>4, UpTo
<1>6. N \in 0..N
    BY <1>1
<1> QED
    BY <1>2, <1>5, <1>6 DEF N

\* New nodes come behind, so that what was first is.
LEMMA StepsStay ==
    ASSUME NEW old \in Seq(NodeType), NEW new, Extends(new, old), NEW n, NEW path, NEW f, NEW K \in Nat,
           Steps(old, n, path, f, K)
    PROVE  Steps(new, n, path, f, K)
<1>1. /\ Len(old) \in Nat /\ Len(new) \in Nat /\ DOMAIN old = 1..Len(old) /\ DOMAIN new = 1..Len(new)
      /\ new \in Seq(NodeType) /\ Len(old) <= Len(new)
    BY LenProperties DEF Extends
<1>2. \A k \in DOMAIN old : k \in DOMAIN new /\ new[k] = old[k]
    BY <1>1 DEF Extends
<1>3. ASSUME NEW k \in 1..K
      PROVE  f[k] \in DOMAIN new /\ f[k] = Xml!FirstNode(new, f[k - 1], << path[k] >>)
    <2>1. f[k] \in DOMAIN old /\ f[k] = Xml!FirstNode(old, f[k - 1], << path[k] >>)
        BY DEF Steps
    <2>2. /\ old[f[k]].parent = f[k - 1] /\ old[f[k]].name = path[k]
          /\ \A j \in DOMAIN old : old[j].parent = f[k - 1] /\ old[j].name = path[k] => f[k] <= j
        BY <2>1, FirstNodeIs
    <2>3. \A j \in DOMAIN new : j \in DOMAIN old \/ f[k] <= j
        BY <1>1, <2>1
    <2>4. /\ f[k] \in DOMAIN new /\ new[f[k]].parent = f[k - 1] /\ new[f[k]].name = path[k]
          /\ \A j \in DOMAIN new : new[j].parent = f[k - 1] /\ new[j].name = path[k] => f[k] <= j
        BY <1>2, <2>1, <2>2, <2>3
    <2> QED
        <3> DEFINE m == f[k]
        <3>1. m \in DOMAIN new
            BY <2>4
        <3> HIDE DEF m
        <3>2. m = Xml!FirstNode(new, f[k - 1], << path[k] >>)
            BY <1>1, <2>4, <3>1, FirstNodeIs DEF m
        <3> QED
            BY <3>1, <3>2 DEF m
<1> QED
    BY <1>2, <1>3 DEF Steps

\* Parents stand before their children: on the way to an old node there is no new one.
LEMMA StepsWere ==
    ASSUME NEW old \in Seq(NodeType), NEW new, Extends(new, old), NEW n, NEW path, NEW f, NEW K \in Nat,
           Steps(new, n, path, f, K), f[K] \in DOMAIN old, \A k \in DOMAIN new : new[k].parent < k
    PROVE  Steps(old, n, path, f, K)
<1>1. /\ Len(old) \in Nat /\ Len(new) \in Nat /\ DOMAIN old = 1..Len(old) /\ DOMAIN new = 1..Len(new)
      /\ new \in Seq(NodeType) /\ Len(old) <= Len(new)
    BY LenProperties DEF Extends
<1>2. \A k \in DOMAIN old : k \in DOMAIN new /\ new[k] = old[k]
    BY <1>1 DEF Extends
<1>3. \A k \in 1..K : /\ f[k] \in DOMAIN new /\ new[f[k]].parent = f[k - 1] /\ new[f[k]].name = path[k]
                      /\ \A j \in DOMAIN new : new[j].parent = f[k - 1] /\ new[j].name = path[k] => f[k] <= j
    <2> SUFFICES ASSUME NEW k \in 1..K
                 PROVE  /\ f[k] \in DOMAIN new /\ new[f[k]].parent = f[k - 1] /\ new[f[k]].name = path[k]
                        /\ \A j \in DOMAIN new :
                             new[j].parent = f[k - 1] /\ new[j].name = path[k] => f[k] <= j
        OBVIOUS
    <2>1. f[k] \in DOMAIN new /\ f[k] = Xml!FirstNode(new, f[k - 1], << path[k] >>)
        BY DEF Steps
    <2> QED
        BY <1>1, <2>1, FirstNodeIs
<1>4. \A k \in 0..K : f[k] \in DOMAIN new
    <2>1. \A k \in 0..K : k = 0 \/ k \in 1..K
        OBVIOUS
    <2> QED
        BY <1>3, <2>1 DEF Steps
<1> DEFINE T == {i \in 0..K : f[K - i] \in DOMAIN old}
<1>5. 0 \in T
    OBVIOUS
<1>6. ASSUME NEW i \in 0..(K - 1), i \in T
      PROVE  i + 1 \in T
    <2>1. K - i \in 1..K /\ (K - i) - 1 = K - (i + 1) /\ i + 1 \in 0..K /\ K - (i + 1) \in 0..K
        OBVIOUS
    <2>2. new[f[K - i]].parent = f[K - (i + 1)] /\ f[K - i] \in DOMAIN new
        BY <1>3, <2>1
    <2>3. f[K - (i + 1)] < f[K - i]
        BY <2>2
    <2>4. f[K - i] \in DOMAIN old /\ f[K - (i + 1)] \in DOMAIN new
        BY <1>4, <1>6, <2>1
    <2>5. f[K - (i + 1)] \in DOMAIN old
        BY <1>1, <2>3, <2>4
    <2> QED
        BY <2>1, <2>5
<1>7. \A i \in 0..K : i \in T
    <2> HIDE DEF T
    <2> QED
        BY <1>5, <1>6, UpTo
<1>8. \A k \in 0..K : f[k] \in DOMAIN old
    <2> SUFFICES ASSUME NEW k \in 0..K
                 PROVE  f[k] \in DOMAIN old
        OBVIOUS
    <2>1. K - k \in 0..K /\ K - (K - k) = k
        OBVIOUS
    <2> QED
        BY <1>7, <2>1
<1>9. ASSUME NEW k \in 1..K
      PROVE  f[k] \in DOMAIN old /\ f[k] = Xml!FirstNode(old, f[k - 1], << path[k] >>)
    <2>1. f[k] \in DOMAIN old
        BY <1>8
    <2>2. /\ old[f[k]].parent = f[k - 1] /\ old[f[k]].name = path[k]
          /\ \A j \in DOMAIN old : old[j].parent = f[k - 1] /\ old[j].name = path[k] => f[k] <= j
        <3>1. new[f[k]] = old[f[k]] /\ \A j \in DOMAIN old : j \in DOMAIN new /\ new[j] = old[j]
            BY <1>2, <2>1
        <3>2. new[f[k]].parent = f[k - 1] /\ new[f[k]].name = path[k]
            BY <1>3
        <3>3. \A j \in DOMAIN new : new[j].parent = f[k - 1] /\ new[j].name = path[k] => f[k] <= j
            BY <1>3
        <3> QED
            BY <3>1, <3>2, <3>3
    <2> QED
        BY <2>1, <2>2, FirstNodeIs
<1>10. f[0] \in DOMAIN old
    BY <1>8
<1> QED
    BY <1>9, <1>10 DEF Steps

\* Parents stand before their children.
Earlier(ns) == \A k \in DOMAIN ns : ns[k].parent < k

LEMMA StepsGoOn ==
    ASSUME NEW ns \in Seq(NodeType), Earlier(ns), NEW n, NEW path, NEW f, NEW K \in Nat,
           Steps(ns, n, path, f, K)
    PROVE  /\ n \in Nat
           /\ \A k \in 1..K : /\ ns[f[k]].parent = f[k - 1] /\ ns[f[k]].name = path[k]
                              /\ f[k] \in Nat /\ n < f[k]
<1>1. DOMAIN ns \subseteq Nat /\ n \in Nat
    BY LenProperties DEF Steps
<1>2. ASSUME NEW k \in 1..K
      PROVE  f[k] \in DOMAIN ns /\ ns[f[k]].parent = f[k - 1] /\ ns[f[k]].name = path[k]
    <2>1. f[k] \in DOMAIN ns /\ f[k] = Xml!FirstNode(ns, f[k - 1], << path[k] >>)
        BY DEF Steps
    <2> QED
        BY <2>1, FirstNodeIs
<1> DEFINE T == {k \in 0..K : f[k] \in Nat /\ n <= f[k]}
<1>3. 0 \in T
    BY <1>1 DEF Steps
<1>4. ASSUME NEW k \in 1..K, f[k - 1] \in Nat, n <= f[k - 1]
      PROVE  f[k] \in Nat /\ n < f[k]
    <2>1. f[k] \in Nat /\ f[k - 1] < f[k]
        BY <1>1, <1>2 DEF Earlier
    <2> QED
        BY <1>1, <1>4, <2>1
<1>5. ASSUME NEW k \in 0..(K - 1), k \in T
      PROVE  k + 1 \in T
    <2>1. k + 1 \in 1..K /\ (k + 1) - 1 = k /\ k + 1 \in 0..K
        OBVIOUS
    <2>2. f[k + 1] \in Nat /\ n < f[k + 1]
        BY <1>4, <1>5, <2>1
    <2> QED
        BY <1>1, <2>1, <2>2
<1>6. \A k \in 0..K : k \in T
    <2> HIDE DEF T
    <2> QED
        BY <1>3, <1>5, UpTo
<1>7. \A k \in 1..K : f[k] \in Nat /\ n < f[k]
    <2> SUFFICES ASSUME NEW k \in 1..K
                 PROVE  f[k] \in Nat /\ n < f[k]
        OBVIOUS
    <2>1. k - 1 \in T
        BY <1>6
    <2> QED
        BY <1>4, <2>1
<1> QED
    BY <1>1, <1>2, <1>7

\* A node is in its place once: two ways that end at one node are one.
LEMMA OneWay ==
    ASSUME NEW ns \in Seq(NodeType), Earlier(ns), NEW n, NEW p, NEW q, NEW f, NEW g,
           NEW K \in Nat, NEW L \in Nat, Steps(ns, n, p, f, K), Steps(ns, n, q, g, L), f[K] = g[L]
    PROVE  K = L /\ \A k \in 1..K : p[k] = q[k]
<1>1. n \in Nat /\ \A k \in 1..K : /\ ns[f[k]].parent = f[k - 1] /\ ns[f[k]].name = p[k]
                                   /\ f[k] \in Nat /\ n < f[k]
    BY StepsGoOn
<1>2. \A k \in 1..L : /\ ns[g[k]].parent = g[k - 1] /\ ns[g[k]].name = q[k]
                      /\ g[k] \in Nat /\ n < g[k]
    BY StepsGoOn
<1>3. f[0] = n /\ g[0] = n
    BY DEF Steps
<1> DEFINE T == {i \in 0..K : i <= L => f[K - i] = g[L - i]}
<1>4. \A i \in 0..K : i \in T
    <2>1. 0 \in T
        OBVIOUS
    <2>2. ASSUME NEW i \in 0..(K - 1), i \in T
          PROVE  i + 1 \in T
        <3> SUFFICES ASSUME i + 1 <= L
                     PROVE  f[K - (i + 1)] = g[L - (i + 1)]
            OBVIOUS
        <3>1. /\ K - i \in 1..K /\ (K - i) - 1 = K - (i + 1)
              /\ L - i \in 1..L /\ (L - i) - 1 = L - (i + 1) /\ i <= L
            OBVIOUS
        <3>2. ns[f[K - i]].parent = f[K - (i + 1)] /\ ns[g[L - i]].parent = g[L - (i + 1)]
            BY <1>1, <1>2, <3>1
        <3> QED
            BY <2>2, <3>1, <3>2
    <2> HIDE DEF T
    <2> QED
        BY <2>1, <2>2, UpTo
<1>5. ~(K < L)
    <2> SUFFICES ASSUME K < L
                 PROVE  FALSE
        OBVIOUS
    <2>1. L - K \in 1..L /\ K - K = 0 /\ K \in 0..K /\ K <= L
        OBVIOUS
    <2>2. f[0] = g[L - K]
        BY <1>4, <2>1
    <2> QED
        BY <1>1, <1>2, <1>3, <2>1, <2>2
<1>6. ~(L < K)
    <2> SUFFICES ASSUME L < K
                 PROVE  FALSE
        OBVIOUS
    <2>1. K - L \in 1..K /\ L - L = 0 /\ L \in 0..K
        OBVIOUS
    <2>2. f[K - L] = g[0]
        BY <1>4, <2>1
    <2> QED
        BY <1>1, <1>3, <2>1, <2>2
<1>7. K = L
    BY <1>5, <1>6
<1>8. ASSUME NEW k \in 1..K
      PROVE  p[k] = q[k]
    <2>1. K - k \in 0..K /\ K - k <= L /\ K - (K - k) = k /\ L - (K - k) = k
        BY <1>7
    <2>2. f[k] = g[k]
        BY <1>4, <2>1
    <2> QED
        BY <1>1, <1>2, <1>7, <2>2
<1> QED
    BY <1>7, <1>8

\* create_or_find_node() returns the node to which the key leads from then on.
LEMMA CreateOrFindSteps ==
    ASSUME nodes \in Seq(NodeType), NEW n \in DOMAIN nodes, NEW key \in XmlKeys
    PROVE  LET made == Xml!CreateOrFind(n, key, FALSE) IN
           \E f : Steps(made.nodes, n, key.path, f, Len(key.path)) /\ f[Len(key.path)] = made.node
<1> DEFINE N == Len(key.path)
<1>1. PICK down \in [0..N -> Made] :
             /\ down[0] = [nodes |-> nodes, node |-> n]
             /\ \A k \in 1..N : down[k] = Turn(down[k - 1], key, FALSE, k)
             /\ Xml!CreateOrFind(n, key, FALSE) = down[N]
    BY CreateOrFindTurns
<1> DEFINE f == [k \in 0..N |-> down[k].node]
           T == {k \in 0..N : Steps(down[k].nodes, n, key.path, f, k) /\ down[k].node \in DOMAIN down[k].nodes}
<1>2. N \in Nat
    BY KeyTypes
<1>3. 0 \in T
    BY <1>1, <1>2 DEF Steps
<1>4. ASSUME NEW k \in 0..(N - 1), k \in T
      PROVE  k + 1 \in T
    <2> DEFINE made == down[k]
               name == key.path[k + 1]
               m == Xml!FirstNode(made.nodes, made.node, << name >>)
               next == down[k + 1]
    <2>1. k + 1 \in 1..N /\ (k + 1) - 1 = k /\ k \in 0..N /\ k + 1 \in 0..N
        BY <1>2
    <2>2. next = Turn(made, key, FALSE, k + 1) /\ made \in Made /\ next \in Made
        BY <1>1, <2>1, TurnType
    <2>3. made.nodes \in Seq(NodeType) /\ made.node \in Nat /\ next.nodes \in Seq(NodeType)
        BY <2>2 DEF Made
    <2>4. Steps(made.nodes, n, key.path, f, k) /\ made.node \in DOMAIN made.nodes
        BY <1>4
    <2>5. f[k] = made.node /\ f[k + 1] = next.node
        BY <2>1
    <2>6. DOMAIN made.nodes = 1..Len(made.nodes) /\ Len(made.nodes) \in Nat
        BY <2>3, LenProperties
    <2> HIDE DEF f, name, N
    <2>7. ASSUME Steps(next.nodes, n, key.path, f, k), next.node \in DOMAIN next.nodes,
                 next.node = Xml!FirstNode(next.nodes, made.node, << name >>)
          PROVE  k + 1 \in T
        <3>1. \A j \in 1..(k + 1) : j \in 1..k \/ j = k + 1
            BY <2>1
        <3>2. Steps(next.nodes, n, key.path, f, k + 1)
            BY <2>1, <2>5, <2>7, <3>1 DEF Steps, name
        <3> QED
            BY <2>1, <2>7, <3>2
    <2> HIDE DEF made, next, T
    <2>8. CASE m # 0
        <3>1. next = [made EXCEPT !.node = m]
            BY <2>2, <2>8 DEF Turn, name
        <3>2. next.nodes = made.nodes /\ next.node = m
            BY <2>2, <3>1 DEF Made
        <3>3. m \in DOMAIN made.nodes
            BY <2>6, <2>8, FirstNodeIsLeast DEF Xml!Children
        <3> QED
            BY <2>4, <2>7, <3>2, <3>3
    <2>9. CASE m = 0
        <3> DEFINE new == Xml!Node(made.node, name)
                   last == Len(made.nodes) + 1
        <3>1. next.nodes = Append(made.nodes, new) /\ next.node = last
            BY <2>2, <2>9 DEF Turn, Xml!Created, name
        <3>2. new.parent = made.node /\ new.name = name /\ new.value = EmptyText /\ new.attr = Absent
            BY DEF Xml!Node
        <3> HIDE DEF new
        <3>3. /\ Len(next.nodes) = last /\ DOMAIN next.nodes = 1..last
              /\ \A j \in 1..Len(made.nodes) : next.nodes[j] = made.nodes[j]
              /\ next.nodes[last] = new
            BY <2>3, <2>6, <3>1, LenProperties
        <3>4. Extends(next.nodes, made.nodes)
            <4>1. \A j \in last..last : j = last
                BY <2>6
            <4>2. made.node \in 1..(last - 1) /\ Len(made.nodes) <= last
                BY <2>4, <2>6
            <4>3. \A j \in last..last : next.nodes[j].parent \in 1..(j - 1)
                                      /\ next.nodes[j].value = EmptyText /\ next.nodes[j].attr = Absent
                BY <3>2, <3>3, <4>1, <4>2
            <4> QED
                BY <2>3, <3>3, <4>2, <4>3 DEF Extends
        <3>5. Steps(next.nodes, n, key.path, f, k)
            BY <2>1, <2>3, <2>4, <3>4, StepsStay
        <3>6. \A j \in DOMAIN made.nodes : ~(made.nodes[j].parent = made.node /\ made.nodes[j].name = name)
            <4>1. 0 \notin DOMAIN made.nodes
                BY <2>6
            <4>2. Xml!Children(made.nodes, made.node, << name >>) = {}
                BY <2>6, <2>9, <4>1, FirstNodeIsLeast DEF Xml!Children
            <4> QED
                BY <4>2 DEF Xml!Children
        <3>7. last \in DOMAIN next.nodes /\ next.nodes[last].parent = made.node /\ next.nodes[last].name = name
            BY <2>6, <3>2, <3>3
        <3>8. \A j \in DOMAIN next.nodes :
                next.nodes[j].parent = made.node /\ next.nodes[j].name = name => last <= j
            <4>1. \A j \in DOMAIN next.nodes : j \in 1..Len(made.nodes) \/ j = last
                BY <2>6, <3>3
            <4> QED
                BY <2>6, <3>3, <3>6, <4>1
        <3>9. last = Xml!FirstNode(next.nodes, made.node, << name >>)
            <4> DEFINE ns == next.nodes
                       p == made.node
            <4>1. /\ ns \in Seq(NodeType) /\ last \in DOMAIN ns
                  /\ ns[last].parent = p /\ ns[last].name = name
                  /\ \A j \in DOMAIN ns : ns[j].parent = p /\ ns[j].name = name => last <= j
                BY <2>3, <3>7, <3>8
            <4> HIDE DEF last, ns, p
            <4>2. last = Xml!FirstNode(ns, p, << name >>)
                BY <4>1, FirstNodeIs
            <4> QED
                BY <4>2 DEF ns, p
        <3> QED
            BY <2>7, <3>1, <3>5, <3>7, <3>9
    <2> QED
        BY <2>8, <2>9
<1>5. \A k \in 0..N : k \in T
    <2> HIDE DEF T, N
    <2> QED
        BY <1>2, <1>3, <1>4, UpTo
<1>6. N \in 0..N
    BY <1>2
<1>7. Steps(down[N].nodes, n, key.path, f, N) /\ f[N] = down[N].node
    BY <1>5, <1>6
<1> HIDE DEF f
<1> QED
    BY <1>1, <1>7

\* A value or an attribute makes no difference to where names lead.
LEMMA StepsSame ==
    ASSUME NEW old \in Seq(NodeType), NEW new \in Seq(NodeType), Len(new) = Len(old),
           \A k \in DOMAIN old : new[k].parent = old[k].parent /\ new[k].name = old[k].name,
           NEW n, NEW path, NEW f, NEW K \in Nat
    PROVE  Steps(new, n, path, f, K) <=> Steps(old, n, path, f, K)
<1>1. DOMAIN old = 1..Len(old) /\ DOMAIN new = DOMAIN old
    BY LenProperties
<1>2. \A p, s : Xml!Children(new, p, s) = Xml!Children(old, p, s)
    BY <1>1 DEF Xml!Children
<1>3. \A p, s : Xml!FirstNode(new, p, s) = Xml!FirstNode(old, p, s)
    BY <1>2 DEF Xml!FirstNode
<1> QED
    BY <1>1, <1>3 DEF Steps

\* What set() has made of the nodes: the key leads to the one that it gave a value.
LEMMA SetValueMakes ==
    ASSUME TreeInv, NEW n \in DOMAIN nodes, NEW key \in XmlKeys, NEW v \in Values, Xml!SetValue(n, key, v)
    PROVE  LET made == Xml!CreateOrFind(n, key, FALSE)
               M == made.node
           IN /\ nodes' \in Seq(NodeType) /\ Extends(made.nodes, nodes) /\ M \in DOMAIN made.nodes
              /\ Len(nodes') = Len(made.nodes)
              /\ \A k \in DOMAIN made.nodes :
                   nodes'[k] = IF k # M THEN made.nodes[k]
                               ELSE IF key.is_attribute THEN [made.nodes[M] EXCEPT !.attr = v]
                                                        ELSE [made.nodes[M] EXCEPT !.value = v]
              /\ \A k \in DOMAIN made.nodes : /\ nodes'[k].parent = made.nodes[k].parent
                                              /\ nodes'[k].name = made.nodes[k].name
                                              /\ made.nodes[k].parent < k
<1> DEFINE made == Xml!CreateOrFind(n, key, FALSE)
           M == made.node
           x == made.nodes[M]
           given == IF key.is_attribute THEN [x EXCEPT !.attr = v] ELSE [x EXCEPT !.value = v]
<1>1. nodes \in Seq(NodeType) /\ made \in Made /\ Extends(made.nodes, nodes) /\ M \in DOMAIN made.nodes
    BY CreateOrFindExtends DEF TreeInv
<1>2. nodes' = [made.nodes EXCEPT ![M] = given]
    BY DEF Xml!SetValue
<1> HIDE DEF made
<1>3. made.nodes \in Seq(NodeType) /\ DOMAIN made.nodes = 1..Len(made.nodes) /\ x \in NodeType
      /\ Len(made.nodes) \in Nat /\ DOMAIN nodes = 1..Len(nodes) /\ Len(nodes) \in Nat
    BY <1>1, LenProperties DEF Made
<1> HIDE DEF x
<1>4. given \in NodeType /\ given.parent = x.parent /\ given.name = x.name
    BY <1>3, NodeWithValue
<1> HIDE DEF given, M
<1>5. /\ nodes' \in Seq(NodeType) /\ Len(nodes') = Len(made.nodes)
      /\ \A k \in DOMAIN made.nodes : nodes'[k] = IF k = M THEN given ELSE made.nodes[k]
    BY <1>1, <1>2, <1>3, <1>4, ExceptSeq
<1>6. \A k \in DOMAIN made.nodes : made.nodes[k].parent < k
    <2> SUFFICES ASSUME NEW k \in DOMAIN made.nodes
                 PROVE  made.nodes[k].parent < k
        OBVIOUS
    <2>1. CASE k <= Len(nodes)
        <3>1. k \in DOMAIN nodes /\ made.nodes[k] = nodes[k]
            BY <1>1, <1>3, <2>1 DEF Extends
        <3> QED
            BY <3>1 DEF TreeInv
    <2>2. CASE k > Len(nodes)
        <3>1. made.nodes[k].parent \in 1..(k - 1)
            BY <1>1, <1>3, <2>2 DEF Extends
        <3> QED
            BY <1>3, <3>1
    <2> QED
        BY <1>3, <2>1, <2>2
<1>7. \A k \in DOMAIN made.nodes : nodes'[k].parent = made.nodes[k].parent /\ nodes'[k].name = made.nodes[k].name
    BY <1>4, <1>5 DEF x
<1>8. \A k \in DOMAIN made.nodes :
         nodes'[k] = IF k # M THEN made.nodes[k]
                     ELSE IF key.is_attribute THEN [made.nodes[M] EXCEPT !.attr = v]
                                              ELSE [made.nodes[M] EXCEPT !.value = v]
    BY <1>5 DEF given, x
<1> QED
    BY <1>1, <1>5, <1>6, <1>7, <1>8 DEF made, M

LEMMA SetIsTaken ==
    ASSUME TreeInv, NEW n \in DOMAIN nodes, NEW key \in XmlKeys, NEW v \in Values, Xml!SetValue(n, key, v)
    PROVE  /\ Xml!FindValue(nodes', n, key) = v
           /\ \A other \in XmlKeys \ {key} :
                \/ Xml!FindValue(nodes', n, other) = Xml!FindValue(nodes, n, other)
                \/ /\ Xml!FindNode(nodes, n, other) = 0
                   /\ Xml!FindValue(nodes', n, other) \in {EmptyText, Absent}
<1> DEFINE made == Xml!CreateOrFind(n, key, FALSE)
           M == made.node
           mid == made.nodes
           N == Len(key.path)
<1>1. nodes \in Seq(NodeType) /\ nodes' \in Seq(NodeType) /\ Extends(mid, nodes) /\ M \in DOMAIN mid
      /\ Len(nodes') = Len(mid)
      /\ \A k \in DOMAIN mid :
           nodes'[k] = IF k # M THEN mid[k]
                       ELSE IF key.is_attribute THEN [mid[M] EXCEPT !.attr = v]
                                                ELSE [mid[M] EXCEPT !.value = v]
    BY SetValueMakes DEF TreeInv
<1>2. \A k \in DOMAIN mid : nodes'[k].parent = mid[k].parent /\ nodes'[k].name = mid[k].name /\ mid[k].parent < k
    BY SetValueMakes
<1>3. PICK f : Steps(mid, n, key.path, f, N) /\ f[N] = M
    BY CreateOrFindSteps DEF TreeInv
<1> HIDE DEF made, M, mid
<1>4. mid \in Seq(NodeType) /\ DOMAIN mid = 1..Len(mid) /\ DOMAIN nodes' = DOMAIN mid /\ Len(mid) \in Nat
      /\ DOMAIN nodes = 1..Len(nodes) /\ Len(nodes) \in Nat /\ 0 \notin DOMAIN mid /\ n \in DOMAIN nodes'
      /\ Len(nodes) <= Len(mid)
    BY <1>1, LenProperties DEF Extends
<1>5. \A k \in XmlKeys : Len(k.path) \in Nat
    BY KeyTypes
<1>6. Xml!FindNode(nodes', n, key) = M /\ M # 0
    <2>1. Steps(nodes', n, key.path, f, N)
        BY <1>1, <1>2, <1>3, <1>4, <1>5, StepsSame
    <2> QED
        BY <1>1, <1>3, <1>4, <2>1, StepsFindNode
<1>7. mid[M] \in NodeType
    BY <1>1, <1>4
<1>8. nodes'[M].attr = (IF key.is_attribute THEN v ELSE mid[M].attr)
      /\ nodes'[M].value = (IF key.is_attribute THEN mid[M].value ELSE v)
    BY <1>1, <1>7 DEF NodeType
<1>9. Xml!FindValue(nodes', n, key) = v
    BY <1>6, <1>8 DEF Xml!FindValue
<1>10. ASSUME NEW other \in XmlKeys \ {key}
       PROVE  \/ Xml!FindValue(nodes', n, other) = Xml!FindValue(nodes, n, other)
              \/ /\ Xml!FindNode(nodes, n, other) = 0
                 /\ Xml!FindValue(nodes', n, other) \in {EmptyText, Absent}
    <2> DEFINE L == Len(other.path)
               was == Xml!FindNode(nodes, n, other)
               is == Xml!FindNode(nodes', n, other)
    <2>1. L \in Nat /\ N \in Nat
        BY <1>5
    <2>2. is = M => other.is_attribute = ~key.is_attribute
        <3> SUFFICES ASSUME is = M
                     PROVE  other.is_attribute = ~key.is_attribute
            OBVIOUS
        <3>1. PICK g : Steps(nodes', n, other.path, g, L) /\ g[L] = M
            <4>1. is # 0
                BY <1>6
            <4>2. \E g : Steps(nodes', n, other.path, g, L) /\ g[L] = is
                BY <1>1, <1>4, <4>1, FindNodeSteps
            <4> QED
                BY <4>2
        <3>2. Steps(mid, n, other.path, g, L)
            BY <1>1, <1>2, <1>4, <2>1, <3>1, StepsSame
        <3>3. N = L /\ \A k \in 1..N : key.path[k] = other.path[k]
            <4>1. mid \in Seq(NodeType) /\ f[N] = g[L] /\ Earlier(mid)
                BY <1>2, <1>3, <1>4, <3>1 DEF Earlier
            <4> HIDE DEF N, L, is
            <4> QED
                BY <1>3, <2>1, <3>2, <4>1, OneWay
        <3>4. key.path = other.path
            <4>1. key.path \in Seq(STRING) /\ other.path \in Seq(STRING)
                BY KeyTypes
            <4> QED
                BY <3>3, <4>1, SeqEqual
        <3> HIDE DEF is, L, N
        <3> QED
            BY <3>4, KeysDiffer
    <2>3. CASE was # 0
        <3>1. PICK g : Steps(nodes, n, other.path, g, L) /\ g[L] = was
            BY <1>1, <2>3, FindNodeSteps
        <3>2. Steps(mid, n, other.path, g, L)
            BY <1>1, <2>1, <3>1, StepsStay
        <3>3. Steps(nodes', n, other.path, g, L)
            BY <1>1, <1>2, <1>4, <2>1, <3>2, StepsSame
        <3>4. is = was
            BY <1>1, <3>1, <3>3, StepsFindNode
        <3>5. was \in DOMAIN nodes
            <4>1. L = 0 \/ L \in 1..L
                BY <2>1
            <4> QED
                BY <3>1, <4>1 DEF Steps
        <3>6. was \in DOMAIN mid /\ mid[was] = nodes[was]
            BY <1>1, <1>4, <3>5 DEF Extends
        <3> HIDE DEF was, is
        <3>7. CASE was # M
            <4>1. nodes'[was] = nodes[was]
                BY <1>1, <3>6, <3>7
            <4> QED
                BY <2>3, <3>4, <4>1 DEF Xml!FindValue, was, is
        <3>8. CASE was = M
            <4>1. IF other.is_attribute THEN nodes'[M].attr = nodes[M].attr ELSE nodes'[M].value = nodes[M].value
                BY <1>8, <2>2, <3>4, <3>6, <3>8
            <4> QED
                BY <2>3, <3>4, <3>8, <4>1 DEF Xml!FindValue, was, is
        <3> QED
            BY <3>7, <3>8
    <2>4. CASE was = 0 /\ is = 0
        BY <2>4 DEF Xml!FindValue
    <2>5. CASE was = 0 /\ is # 0
        <3>1. PICK g : Steps(nodes', n, other.path, g, L) /\ g[L] = is
            BY <1>1, <1>4, <2>5, FindNodeSteps
        <3>2. Steps(mid, n, other.path, g, L)
            BY <1>1, <1>2, <1>4, <2>1, <3>1, StepsSame
        <3>3. is \notin DOMAIN nodes
            <4> SUFFICES ASSUME is \in DOMAIN nodes
                         PROVE  FALSE
                OBVIOUS
            <4>1. Steps(nodes, n, other.path, g, L)
                BY <1>1, <1>2, <2>1, <3>1, <3>2, StepsWere
            <4>2. was = is
                BY <1>1, <3>1, <4>1, StepsFindNode
            <4> QED
                BY <2>5, <4>2
        <3>4. is \in DOMAIN mid
            <4>1. L = 0 \/ L \in 1..L
                BY <2>1
            <4> QED
                BY <3>1, <3>2, <4>1 DEF Steps
        <3> HIDE DEF is
        <3>5. is \in (Len(nodes) + 1)..Len(mid)
            BY <1>4, <3>3, <3>4
        <3>6. mid[is].value = EmptyText /\ mid[is].attr = Absent
            BY <1>1, <3>5 DEF Extends
        <3>7. CASE is # M
            <4>1. nodes'[is] = mid[is]
                BY <1>1, <3>4, <3>7
            <4> QED
                BY <2>5, <3>6, <4>1 DEF Xml!FindValue, is
        <3>8. CASE is = M
            <4>1. IF other.is_attribute THEN nodes'[M].attr = Absent ELSE nodes'[M].value = EmptyText
                BY <1>8, <2>2, <3>6, <3>8
            <4> QED
                BY <2>5, <3>8, <4>1 DEF Xml!FindValue, is
        <3> QED
            BY <3>7, <3>8
    <2> QED
        BY <2>3, <2>4, <2>5
<1> QED
    BY <1>9, <1>10

LEMMA GrowsKeepsTree ==
    ASSUME TreeInv, Grows(nodes', nodes)
    PROVE  TreeInv'
<1>1. /\ nodes \in Seq(NodeType) /\ nodes' \in Seq(NodeType)
      /\ DOMAIN nodes = 1..Len(nodes) /\ DOMAIN nodes' = 1..Len(nodes')
      /\ Len(nodes) \in Nat /\ Len(nodes') \in Nat
    BY LenProperties DEF TreeInv, Grows
<1>2. ASSUME NEW k \in DOMAIN nodes'
      PROVE  nodes'[k].parent < k
    <2>1. CASE k <= Len(nodes)
        BY <1>1, <2>1 DEF Grows, TreeInv
    <2>2. CASE k > Len(nodes)
        <3>1. nodes'[k].parent \in 1..(k - 1)
            BY <1>1, <2>2 DEF Grows
        <3> QED
            BY <1>1, <3>1
    <2> QED
        BY <1>1, <2>1, <2>2
<1> QED
    BY <1>1, <1>2 DEF TreeInv

LEMMA ReplaceKeepsTree ==
    ASSUME TreeInv, NEW ns \in Seq(NodeType), \A k \in DOMAIN ns : ns[k].parent < k,
           NEW owned, Xml!Replace(ns, owned)
    PROVE  TreeInv'
<1>1. /\ nodes' \in Seq(NodeType) /\ Len(nodes) < Len(nodes') /\ doc' = Len(nodes) + 1
      /\ \A k \in 1..Len(nodes) : nodes'[k] = nodes[k]
      /\ nodes'[doc'].parent = 0
      /\ \A k \in (doc' + 1)..Len(nodes') : nodes'[k].parent \in 1..(k - 1)
    BY ReplaceNodes DEF TreeInv
<1>2. /\ DOMAIN nodes = 1..Len(nodes) /\ DOMAIN nodes' = 1..Len(nodes')
      /\ Len(nodes) \in Nat /\ Len(nodes') \in Nat
    BY <1>1, LenProperties DEF TreeInv
<1>3. ASSUME NEW k \in DOMAIN nodes'
      PROVE  nodes'[k].parent < k
    <2>1. CASE k <= Len(nodes)
        BY <1>1, <1>2, <2>1 DEF TreeInv
    <2>2. CASE k = doc'
        BY <1>1, <1>2, <2>2
    <2>3. CASE k > doc'
        <3>1. nodes'[k].parent \in 1..(k - 1)
            BY <1>1, <1>2, <2>3
        <3> QED
            BY <1>2, <3>1
    <2> QED
        BY <1>1, <1>2, <2>1, <2>2, <2>3
<1> QED
    BY <1>1, <1>3 DEF TreeInv

LEMMA TreeContinues == TreeInv /\ Xml!Next => TreeInv'
<1> SUFFICES ASSUME TreeInv, Xml!Next
             PROVE  TreeInv'
    OBVIOUS
<1>1. CASE Xml!CreateDocument \/ Xml!Read \/ Xml!ReadFails
    BY <1>1, ContentTypes, ReplaceKeepsTree DEF Xml!CreateDocument, Xml!Read, Xml!ReadFails
<1>2. ASSUME NEW owned \in BOOLEAN, Xml!UseDocument(owned)
      PROVE  TreeInv'
    BY <1>2, ContentTypes, ReplaceKeepsTree DEF Xml!UseDocument
<1>3. UNCHANGED nodes => TreeInv'
    BY DEF TreeInv
<1>4. ASSUME NEW n \in DOMAIN nodes, NEW key \in XmlKeys, Xml!AppendNode(n, key)
      PROVE  TreeInv'
    BY <1>4, AppendNodeGrows, GrowsKeepsTree DEF TreeInv
<1>5. ASSUME NEW n \in DOMAIN nodes, NEW key \in XmlKeys, NEW v \in Values, Xml!SetValue(n, key, v)
      PROVE  TreeInv'
    BY <1>5, SetValueGrows, GrowsKeepsTree DEF TreeInv
<1>6. ASSUME NEW n \in DOMAIN nodes, NEW key \in XmlKeys,
             Xml!AllChildrenOf(n, key) \/ Xml!AllNodesNamed(n, key)
      PROVE  TreeInv'
    BY <1>3, <1>6 DEF Xml!AllChildrenOf, Xml!AllNodesNamed, Xml!Begin
<1>7. CASE Xml!Advance
    BY <1>3, <1>7 DEF Xml!Advance
<1> QED
    BY <1>1, <1>2, <1>4, <1>5, <1>6, <1>7 DEF Xml!Next

\* For any keys, values and documents: what set() stores get() finds under its key,
\* and under every other key what it found before, or nothing yet, as a node that
\* appears has no value.  (create_or_find_node, find_node, create_value, get_helper.)
THEOREM SetIsKept == LibrarySpec => SetTakes
<1>1. LibraryInit => TreeInv
    BY ContentTypes DEF LibraryInit, Xml!Init, TreeInv
<1>2. TreeInv /\ [LibraryNext]_libraryVars => TreeInv'
    <2> SUFFICES ASSUME TreeInv, [LibraryNext]_libraryVars
                 PROVE  TreeInv'
        OBVIOUS
    <2>1. UNCHANGED xmlVars \/ Xml!Next
        BY DEF LibraryNext, libraryVars
    <2>2. UNCHANGED xmlVars => TreeInv'
        BY DEF TreeInv, xmlVars
    <2> QED
        BY <2>1, <2>2, TreeContinues
<1>3. TreeInv => [Xml!Takes]_xmlVars
    BY SetIsTaken DEF Xml!Takes
<1> QED
    BY <1>1, <1>2, <1>3, PTL DEF LibrarySpec, SetTakes, Xml!SetTakes, Xml!vars, xmlVars

-----------------------------------------------------------------------------
(* Conversions *)

\* The bytes of the first k characters, before ("in") or after ("out").
Bytes(f, k) == Convert!Total(f, 1, k)

Characters == [in : Nat \ {0}, out : 0..7]

\* What Total() adds up.
LEMMA BytesAdd ==
    ASSUME input \in Seq(Characters), NEW f \in {"in", "out"}
    PROVE  /\ Bytes(f, 0) = 0 /\ \A k \in 0..Len(input) : Bytes(f, k) \in Nat
           /\ \A k \in 1..Len(input) : Bytes(f, k) = Bytes(f, k - 1) + input[k][f]
           /\ \A a \in 1..(Len(input) + 1), b \in 0..Len(input) :
                Convert!Total(f, a, b) = Bytes(f, b) - Bytes(f, a - 1)
<1> DEFINE N == Len(input)
           adds(k) == input[k][f]
           Says(s) == s = [k \in 0..N |-> IF k = 0 THEN 0 ELSE s[k - 1] + adds(k)]
           the == CHOOSE s : Says(s)
           step == [k \in 1..N |-> [n \in Nat |-> n + adds(k)]]
<1>1. N \in Nat /\ 0 \in Nat /\ \A k \in 1..N : adds(k) \in Nat
    <2>1. ASSUME NEW k \in 1..N
          PROVE  adds(k) \in Nat
        <3>1. input[k] \in Characters
            BY LenProperties
        <3>2. input[k].in \in Nat /\ input[k].out \in Nat
            BY <3>1 DEF Characters
        <3>3. CASE f = "in"
            BY <3>2, <3>3
        <3>4. CASE f = "out"
            BY <3>2, <3>4
        <3> QED
            BY <3>3, <3>4
    <2> QED
        BY <2>1, LenProperties
<1>2. \A a, b : Convert!Total(f, a, b) = the[b] - the[a - 1]
    BY DEF Convert!Total
<1> HIDE DEF adds, N
<1>3. step \in [1..N -> [Nat -> Nat]]
    BY <1>1
<1>4. PICK s : Iterates(s, N, Nat, 0, step)
    <2> HIDE DEF step, Says, the
    <2> QED
        BY <1>1, <1>3, Recursion
<1>5. s \in [0..N -> Nat] /\ s[0] = 0 /\ \A k \in 1..N : s[k] = s[k - 1] + adds(k)
    <2> SUFFICES ASSUME NEW k \in 1..N
                 PROVE  s[k] = s[k - 1] + adds(k)
        BY <1>4 DEF Iterates
    <2>1. s[k - 1] \in Nat
        BY <1>1, <1>4 DEF Iterates
    <2> QED
        BY <1>4, <2>1 DEF Iterates
<1>6. Says(s)
    <2>1. s = [k \in 0..N |-> s[k]]
        BY <1>5
    <2>2. \A k \in 0..N : s[k] = IF k = 0 THEN 0 ELSE s[k - 1] + adds(k)
        <3>1. \A k \in 0..N : k = 0 \/ k \in 1..N
            BY <1>1
        <3> QED
            BY <1>5, <3>1
    <2> HIDE DEF the
    <2> QED
        BY <2>1, <2>2
<1>7. Says(the)
    <2> HIDE DEF Says
    <2> QED
        BY <1>6
<1> HIDE DEF the
<1>8. the[0] = 0 /\ \A k \in 1..N : the[k] = the[k - 1] + adds(k)
    <2>1. 0 \in 0..N /\ \A k \in 1..N : k \in 0..N /\ k # 0
        BY <1>1
    <2>2. \A k \in 0..N : the[k] = IF k = 0 THEN 0 ELSE the[k - 1] + adds(k)
        BY <1>7
    <2> QED
        BY <2>1, <2>2
<1> HIDE DEF Says
<1> DEFINE T == {k \in 0..N : the[k] \in Nat}
<1>9. 0 \in T
    BY <1>1, <1>8
<1>10. ASSUME NEW k \in 0..(N - 1), k \in T
       PROVE  k + 1 \in T
    <2>1. k + 1 \in 1..N /\ (k + 1) - 1 = k /\ k + 1 \in 0..N
        BY <1>1
    <2> QED
        BY <1>1, <1>8, <1>10, <2>1
<1>11. \A k \in 0..N : k \in T
    <2> HIDE DEF T
    <2> QED
        BY <1>1, <1>9, <1>10, UpTo
<1>12. \A k \in 0..N : the[k] \in Nat
    BY <1>11
<1>13. \A k \in 0..N : Bytes(f, k) = the[k]
    <2> SUFFICES ASSUME NEW k \in 0..N
                 PROVE  Bytes(f, k) = the[k]
        OBVIOUS
    <2>1. Bytes(f, k) = the[k] - the[1 - 1]
        BY <1>2 DEF Bytes
    <2> QED
        BY <1>8, <1>12, <2>1
<1>14. 0 \in 0..N /\ (\A k \in 1..N : k \in 0..N /\ k - 1 \in 0..N) /\ \A a \in 1..(N + 1) : a - 1 \in 0..N
    BY <1>1
<1>15. \A k \in 1..N : Bytes(f, k) = Bytes(f, k - 1) + adds(k)
    BY <1>8, <1>13, <1>14
<1>16. \A a \in 1..(N + 1), b \in 0..N : Convert!Total(f, a, b) = Bytes(f, b) - Bytes(f, a - 1)
    BY <1>2, <1>13, <1>14
<1> QED
    BY <1>8, <1>12, <1>13, <1>14, <1>15, <1>16 DEF adds, N

\* More characters are not fewer bytes.
LEMMA BytesGrow ==
    ASSUME input \in Seq(Characters), NEW f \in {"in", "out"}, NEW j \in 0..Len(input)
    PROVE  \A k \in j..Len(input) : Bytes(f, j) <= Bytes(f, k)
<1> DEFINE N == Len(input)
           T == {k \in 0..(N - j) : Bytes(f, j) <= Bytes(f, j + k)}
<1>1. N \in Nat /\ N - j \in Nat
    BY LenProperties
<1>2. \A k \in 0..N : Bytes(f, k) \in Nat
    BY BytesAdd
<1>3. \A k \in 1..N : Bytes(f, k) >= Bytes(f, k - 1)
    <2> SUFFICES ASSUME NEW k \in 1..N
                 PROVE  Bytes(f, k) >= Bytes(f, k - 1)
        OBVIOUS
    <2>1. input[k] \in Characters
        BY LenProperties
    <2>2. input[k].in \in Nat /\ input[k].out \in Nat
        BY <2>1 DEF Characters
    <2>3. input[k][f] \in Nat
        <3>1. CASE f = "in"
            BY <2>2, <3>1
        <3>2. CASE f = "out"
            BY <2>2, <3>2
        <3> QED
            BY <3>1, <3>2
    <2>4. Bytes(f, k) = Bytes(f, k - 1) + input[k][f] /\ k - 1 \in 0..N /\ k \in 0..N
        BY <1>1, BytesAdd
    <2>5. Bytes(f, k) \in Nat /\ Bytes(f, k - 1) \in Nat
        BY <1>2, <2>4
    <2> QED
        BY <2>3, <2>4, <2>5
<1> HIDE DEF N
<1>4. 0 \in T
    BY <1>1, <1>2
<1>5. ASSUME NEW k \in 0..((N - j) - 1), k \in T
      PROVE  k + 1 \in T
    <2>1. /\ j + k + 1 \in 1..N /\ (j + k + 1) - 1 = j + k /\ k + 1 \in 0..(N - j)
          /\ j + (k + 1) = j + k + 1 /\ j + k \in 0..N /\ j + k + 1 \in 0..N /\ j \in 0..N
        BY <1>1
    <2>2. Bytes(f, j) <= Bytes(f, j + k) /\ Bytes(f, j + k + 1) >= Bytes(f, j + k)
        BY <1>3, <1>5, <2>1
    <2>3. Bytes(f, j) \in Nat /\ Bytes(f, j + k) \in Nat /\ Bytes(f, j + k + 1) \in Nat
        BY <1>2, <2>1
    <2>4. Bytes(f, j) <= Bytes(f, j + (k + 1))
        BY <2>1, <2>2, <2>3
    <2> QED
        BY <2>1, <2>4
<1>6. \A k \in 0..(N - j) : k \in T
    <2> HIDE DEF T
    <2> DEFINE m == N - j
    <2>1. m \in Nat /\ \A k \in 0..(m - 1) : k \in T => k + 1 \in T
        BY <1>1, <1>5
    <2> HIDE DEF m
    <2>2. \A k \in 0..m : k \in T
        BY <1>4, <2>1, UpTo
    <2> QED
        BY <2>2 DEF m
<1>7. \A k \in j..N : k - j \in 0..(N - j) /\ j + (k - j) = k
    BY <1>1
<1>8. \A k \in j..N : Bytes(f, j) <= Bytes(f, j + (k - j))
    BY <1>6, <1>7
<1> QED
    BY <1>7, <1>8 DEF N

\* What is known of a use of the conversion.
LEMMA UseTypes ==
    ASSUME NEW u \in Uses
    PROVE  /\ u.chars \subseteq Characters /\ Convert!Modifier(u) \in {1, 2, 3, 4}
           /\ u \in Enough => \A c \in u.chars : c.out <= c.in * Convert!Modifier(u)
BY ConvertInstance DEF Convert!ConvertAssumption, Convert!Modifier, Characters

\* A hint that is enough for each character is enough for all of them.
LEMMA EnoughForAll ==
    ASSUME use \in Enough, input \in Seq(use.chars)
    PROVE  Bytes("out", Len(input)) <= Bytes("in", Len(input)) * Convert!Modifier(use)
<1> DEFINE N == Len(input)
           M == Convert!Modifier(use)
           T == {k \in 0..N : Bytes("out", k) <= Bytes("in", k) * M}
<1>1. use \in Uses
    BY ConvertInstance DEF Convert!ConvertAssumption
<1>2. /\ input \in Seq(Characters) /\ N \in Nat /\ M \in {1, 2, 3, 4}
      /\ \A k \in 1..N : input[k] \in use.chars
    <2>1. use.chars \subseteq Characters /\ M \in {1, 2, 3, 4}
        BY <1>1, UseTypes
    <2>2. N \in Nat /\ \A k \in 1..N : input[k] \in use.chars
        BY LenProperties
    <2> QED
        BY <2>1, <2>2
<1>3. \A k \in 1..N : input[k].in \in Nat /\ input[k].out \in Nat /\ input[k].out <= input[k].in * M
    <2>1. \A k \in 1..N : input[k] \in Characters
        BY <1>1, <1>2, UseTypes
    <2>2. \A k \in 1..N : input[k].out <= input[k].in * M
        BY <1>1, <1>2, UseTypes
    <2> QED
        BY <2>1, <2>2 DEF Characters
<1>4. \A k \in 0..N : Bytes("in", k) \in Nat /\ Bytes("out", k) \in Nat
    BY <1>2, BytesAdd
<1>5. 0 \in T
    <2>1. Bytes("in", 0) = 0 /\ Bytes("out", 0) = 0
        BY <1>2, BytesAdd
    <2> HIDE DEF M
    <2> QED
        BY <1>2, <2>1
<1>6. ASSUME NEW k \in 0..(N - 1), k \in T
      PROVE  k + 1 \in T
    <2>1. k + 1 \in 1..N /\ (k + 1) - 1 = k /\ k \in 0..N /\ k + 1 \in 0..N
        BY <1>2
    <2> DEFINE a == Bytes("in", k)
               b == Bytes("out", k)
               c == input[k + 1].in
               d == input[k + 1].out
    <2>2. Bytes("in", k + 1) = a + c /\ Bytes("out", k + 1) = b + d
        <3>1. /\ Bytes("in", k + 1) = Bytes("in", (k + 1) - 1) + input[k + 1]["in"]
              /\ Bytes("out", k + 1) = Bytes("out", (k + 1) - 1) + input[k + 1]["out"]
            BY <1>2, <2>1, BytesAdd
        <3> QED
            BY <2>1, <3>1
    <2>3. a \in Nat /\ b \in Nat /\ c \in Nat /\ d \in Nat /\ b <= a * M /\ d <= c * M
        BY <1>3, <1>4, <1>6, <2>1
    <2> HIDE DEF a, b, c, d, M
    <2>4. b + d <= (a + c) * M
        <3>1. CASE M = 1
            BY <2>3, <3>1
        <3>2. CASE M = 2
            BY <2>3, <3>2
        <3>3. CASE M = 3
            BY <2>3, <3>3
        <3>4. CASE M = 4
            BY <2>3, <3>4
        <3> QED
            BY <1>2, <3>1, <3>2, <3>3, <3>4
    <2> QED
        BY <2>1, <2>2, <2>4
<1>7. \A k \in 0..N : k \in T
    <2> HIDE DEF T, N
    <2> QED
        BY <1>2, <1>5, <1>6, UpTo
<1>8. N \in 0..N
    BY <1>2
<1> QED
    BY <1>7, <1>8

\* How far a conversion has come: each time that iconv() is called there is room for
\* one more character than it was called for, or it is the first time.
Progress ==
    LET N == Len(input)
    IN /\ convPc \in {"allocate", "convert", "grow", "done", "thrown"}
       /\ outlen \in Nat /\ calls \in Nat /\ convTaken \in 0..N
       /\ written = Bytes("out", convTaken) /\ written <= outlen
       /\ convPc = "allocate" => convTaken = 0 /\ calls = 0
       /\ convPc = "convert" => \/ calls <= convTaken
                                \/ /\ convTaken < N /\ calls <= convTaken + 1
                                   /\ Bytes("out", convTaken + 1) <= outlen
       /\ convPc = "grow" => convTaken < N /\ calls <= convTaken + 1
       /\ convPc \in {"done", "thrown"} => convTaken = N /\ calls <= N + 1

\* A hint that is enough makes room for all at once.
AtOnce ==
    /\ convPc # "grow" /\ calls <= 1
    /\ convPc \in {"allocate", "convert"} => calls = 0
    /\ convPc = "convert" => Bytes("out", Len(input)) <= outlen

ConvertInv ==
    /\ use \in Uses /\ input \in Seq(use.chars) /\ ending \in {"nothing", "truncated", "invalid"}
    /\ Progress
    /\ use \in Enough => AtOnce

LEMMA ConvertBegins == Convert!Init => ConvertInv
<1> SUFFICES ASSUME Convert!Init
             PROVE  ConvertInv
    OBVIOUS
<1>1. /\ use \in Uses /\ ending \in {"nothing", "truncated", "invalid"} /\ convPc = "allocate"
      /\ outlen = 0 /\ written = 0 /\ convTaken = 0 /\ calls = 0
    BY DEF Convert!Init
<1>2. input \in Seq(use.chars)
    <2>1. PICK m \in 0..MaxChars : input \in [1..m -> use.chars]
        BY DEF Convert!Init, Convert!BoundedSeq, Convert!SeqOf
    <2>2. m \in Nat
        BY ConvertInstance DEF Convert!ConvertAssumption
    <2> QED
        BY <2>1, <2>2
<1>3. input \in Seq(Characters) /\ Len(input) \in Nat
    <2>1. use.chars \subseteq Characters
        BY <1>1, UseTypes
    <2> QED
        BY <1>2, <2>1, LenProperties
<1>4. Bytes("out", 0) = 0
    BY <1>3, BytesAdd
<1>5. Progress
    BY <1>1, <1>3, <1>4 DEF Progress
<1>6. AtOnce
    BY <1>1 DEF AtOnce
<1> QED
    BY <1>1, <1>2, <1>5, <1>6 DEF ConvertInv

\* What is left of the input, a byte for each character at least.
LEMMA LeftOver ==
    ASSUME ConvertInv
    PROVE  /\ input \in Seq(Characters) /\ Len(input) \in Nat
           /\ Convert!InputSize \in Nat /\ Bytes("in", Len(input)) <= Convert!InputSize
           /\ Convert!InLeft \in Nat /\ (convTaken < Len(input) => Convert!InLeft >= 1)
<1> DEFINE N == Len(input)
           e == IF ending = "nothing" THEN 0 ELSE 1
<1>1. input \in Seq(Characters) /\ N \in Nat /\ convTaken \in 0..N
    <2>1. use.chars \subseteq Characters
        BY UseTypes DEF ConvertInv
    <2> QED
        BY <2>1, LenProperties DEF ConvertInv, Progress
<1>2. /\ \A k \in 0..N : Bytes("in", k) \in Nat
      /\ Bytes("in", 0) = 0
    BY <1>1, BytesAdd
<1>3. Convert!InputSize = Bytes("in", N) + e /\ e \in {0, 1}
    BY DEF Convert!InputSize, Bytes
<1>4. Convert!InLeft = (Bytes("in", N) - Bytes("in", convTaken)) + e
    <2>1. convTaken + 1 \in 1..(N + 1) /\ N \in 0..N /\ (convTaken + 1) - 1 = convTaken
        BY <1>1
    <2>2. Convert!Total("in", convTaken + 1, N) = Bytes("in", N) - Bytes("in", convTaken)
        BY <1>1, <2>1, BytesAdd
    <2> QED
        BY <2>2 DEF Convert!InLeft
<1> HIDE DEF e
<1>5. Bytes("in", convTaken) <= Bytes("in", N)
    <2>1. N \in convTaken..N
        BY <1>1
    <2> QED
        BY <1>1, <2>1, BytesGrow
<1>6. ASSUME convTaken < N
      PROVE  Bytes("in", convTaken) + 1 <= Bytes("in", N)
    <2> DEFINE k == convTaken + 1
    <2>1. k \in 1..N /\ k - 1 = convTaken /\ k \in 0..N /\ N \in k..N
        BY <1>1, <1>6
    <2>2. input[k] \in Characters
        BY <1>1, <2>1, LenProperties
    <2>3. input[k]["in"] \in Nat \ {0}
        BY <2>2 DEF Characters
    <2>4. Bytes("in", k) = Bytes("in", k - 1) + input[k]["in"]
        BY <1>1, <2>1, BytesAdd
    <2>5. Bytes("in", k) <= Bytes("in", N)
        BY <1>1, <2>1, BytesGrow
    <2> HIDE DEF k
    <2> QED
        BY <1>1, <1>2, <2>1, <2>3, <2>4, <2>5
<1>7. Bytes("in", N) \in Nat /\ Bytes("in", convTaken) \in Nat
    BY <1>1, <1>2
<1> HIDE DEF N
<1>8. Convert!InputSize \in Nat /\ Bytes("in", N) <= Convert!InputSize
    BY <1>3, <1>7
<1>9. Convert!InLeft \in Nat
    BY <1>3, <1>4, <1>5, <1>7
<1>10. convTaken < N => Convert!InLeft >= 1
    BY <1>3, <1>4, <1>6, <1>7
<1> QED
    BY <1>1, <1>8, <1>9, <1>10 DEF N

\* The bytes of the characters stay the same.
LEMMA BytesStay ==
    ASSUME input' = input
    PROVE  \A f, k : Bytes(f, k)' = Bytes(f, k)
BY DEF Bytes, Convert!Total

\* More room is made: for one character, of seven bytes, at least.
LEMMA GrowContinues == ConvertInv /\ Convert!Grow => ConvertInv'
<1> SUFFICES ASSUME ConvertInv, Convert!Grow
             PROVE  ConvertInv'
    OBVIOUS
<1> DEFINE N == Len(input)
           n == convTaken
           left == Convert!InLeft
           more == outlen + left * Convert!Shift + 8
<1>1. /\ convPc = "grow" /\ convPc' = "convert" /\ use' = use /\ input' = input /\ ending' = ending
      /\ written' = written /\ convTaken' = convTaken /\ calls' = calls
      /\ outlen' = more - (more % 4)
    BY DEF Convert!Grow
<1>2. /\ n \in 0..N /\ n < N /\ calls \in Nat /\ calls <= n + 1 /\ outlen \in Nat
      /\ written = Bytes("out", n) /\ written <= outlen
    BY <1>1 DEF ConvertInv, Progress
<1>3. N \in Nat /\ input \in Seq(Characters) /\ left \in Nat /\ left >= 1
    BY <1>2, LeftOver
<1>4. outlen' \in Nat /\ outlen' >= outlen + 7
    <2>1. Convert!Shift \in {2, 4, 8}
        BY DEF Convert!Shift
    <2> HIDE DEF left
    <2>2. left * Convert!Shift \in Nat /\ left * Convert!Shift >= 2
        <3>1. CASE Convert!Shift = 2
            BY <1>3, <3>1
        <3>2. CASE Convert!Shift = 4
            BY <1>3, <3>2
        <3>3. CASE Convert!Shift = 8
            BY <1>3, <3>3
        <3> QED
            BY <2>1, <3>1, <3>2, <3>3
    <2>3. more \in Nat /\ more >= outlen + 10
        BY <1>2, <2>2
    <2> HIDE DEF more
    <2> QED
        BY <1>1, <1>2, <2>3
<1> HIDE DEF more, left
<1>5. Bytes("out", n + 1) <= outlen'
    <2>1. n + 1 \in 1..N /\ (n + 1) - 1 = n /\ n \in 0..N
        BY <1>2, <1>3
    <2>2. input[n + 1] \in Characters
        BY <1>3, <2>1, LenProperties
    <2>3. input[n + 1]["out"] \in 0..7
        BY <2>2 DEF Characters
    <2>4. Bytes("out", n + 1) = Bytes("out", (n + 1) - 1) + input[n + 1]["out"]
        BY <1>3, <2>1, BytesAdd
    <2>5. Bytes("out", n) \in Nat
        BY <1>3, <2>1, BytesAdd
    <2> QED
        BY <1>2, <1>4, <2>1, <2>3, <2>4, <2>5
<1>6. Bytes("out", n)' = Bytes("out", n) /\ \A k : Bytes("out", k)' = Bytes("out", k)
    BY <1>1, BytesStay
<1>7. Progress'
    <2>1. /\ convPc' = "convert" /\ outlen' \in Nat /\ calls' \in Nat /\ convTaken' \in 0..Len(input)'
          /\ written' = Bytes("out", convTaken)' /\ written' <= outlen'
        <3>1. convPc' = "convert" /\ outlen' \in Nat /\ calls' \in Nat /\ convTaken' \in 0..Len(input)'
            BY <1>1, <1>2, <1>4
        <3>2. written' = Bytes("out", convTaken)'
            BY <1>1, <1>2, <1>6
        <3>3. written' <= outlen'
            <4>1. Bytes("out", n) \in Nat
                BY <1>2, <1>3, BytesAdd
            <4> QED
                BY <1>1, <1>2, <1>4, <4>1
        <3> QED
            BY <3>1, <3>2, <3>3
    <2>2. /\ convTaken' < Len(input)' /\ calls' <= convTaken' + 1
          /\ Bytes("out", convTaken + 1)' <= outlen'
        BY <1>1, <1>2, <1>5, <1>6
    <2> QED
        BY <2>1, <2>2 DEF Progress
<1>8. use \notin Enough
    BY <1>1 DEF ConvertInv, AtOnce
<1> QED
    BY <1>1, <1>7, <1>8 DEF ConvertInv

LEMMA AllocateContinues == ConvertInv /\ Convert!Allocate => ConvertInv'
<1> SUFFICES ASSUME ConvertInv, Convert!Allocate
             PROVE  ConvertInv'
    OBVIOUS
<1> DEFINE N == Len(input)
           M == Convert!Modifier(use)
           size == Convert!InputSize
<1>1. /\ convPc = "allocate" /\ convPc' = "convert" /\ use' = use /\ input' = input /\ ending' = ending
      /\ written' = written /\ convTaken' = convTaken /\ calls' = calls
      /\ outlen' = size * M
    BY DEF Convert!Allocate
<1>2. convTaken = 0 /\ calls = 0 /\ written = Bytes("out", 0)
    BY <1>1 DEF ConvertInv, Progress
<1>3. /\ N \in Nat /\ input \in Seq(Characters) /\ size \in Nat /\ Bytes("in", N) <= size
      /\ N \in 0..N
    <2>1. N \in Nat /\ input \in Seq(Characters) /\ size \in Nat /\ Bytes("in", N) <= size
        BY LeftOver
    <2> QED
        BY <2>1
<1>4. M \in {1, 2, 3, 4}
    BY UseTypes DEF ConvertInv
<1>5. Bytes("out", 0) = 0 /\ Bytes("in", N) \in Nat
    BY <1>3, BytesAdd
<1> HIDE DEF size, M
<1>6. outlen' \in Nat /\ Bytes("in", N) * M <= outlen'
    <2>1. CASE M = 1
        BY <1>1, <1>3, <1>5, <2>1
    <2>2. CASE M = 2
        BY <1>1, <1>3, <1>5, <2>2
    <2>3. CASE M = 3
        BY <1>1, <1>3, <1>5, <2>3
    <2>4. CASE M = 4
        BY <1>1, <1>3, <1>5, <2>4
    <2> QED
        BY <1>4, <2>1, <2>2, <2>3, <2>4
<1>7. \A k : Bytes("out", k)' = Bytes("out", k)
    BY <1>1, BytesStay
<1>8. Progress'
    <2>1. /\ convPc' = "convert" /\ outlen' \in Nat /\ calls' \in Nat /\ convTaken' \in 0..Len(input)'
          /\ written' = Bytes("out", convTaken)' /\ written' <= outlen' /\ calls' <= convTaken'
        <3>1. Bytes("out", convTaken)' = Bytes("out", 0)
            BY <1>1, <1>2, <1>7
        <3> QED
            BY <1>1, <1>2, <1>3, <1>5, <1>6, <3>1
    <2> QED
        BY <2>1 DEF Progress
<1>9. use \in Enough => AtOnce'
    <2> SUFFICES ASSUME use \in Enough
                 PROVE  AtOnce'
        OBVIOUS
    <2>1. Bytes("out", N) <= Bytes("in", N) * M
        BY EnoughForAll DEF ConvertInv, M
    <2>2. Bytes("out", N) \in Nat /\ Bytes("in", N) * M \in Nat
        <3>1. Bytes("out", N) \in Nat
            BY <1>3, BytesAdd
        <3>2. M \in Nat
            BY <1>4
        <3> QED
            BY <1>5, <3>1, <3>2
    <2>3. Bytes("out", Len(input))' <= outlen'
        <3>1. Bytes("out", Len(input))' = Bytes("out", N)
            BY <1>1, <1>7
        <3> DEFINE x == Bytes("in", N) * M
        <3>2. x \in Nat /\ Bytes("out", N) <= x /\ x <= outlen'
            BY <1>6, <2>1, <2>2
        <3> HIDE DEF x
        <3> QED
            BY <1>6, <2>2, <3>1, <3>2
    <2> QED
        BY <1>1, <1>2, <2>3 DEF AtOnce
<1> QED
    BY <1>1, <1>8, <1>9 DEF ConvertInv

\* iconv() converts all that there is room for.
LEMMA AllThatFits ==
    ASSUME ConvertInv, Convert!Convert
    PROVE  /\ convTaken' \in convTaken..Len(input) /\ written' = Bytes("out", convTaken')
           /\ written' <= outlen
           /\ \A n \in convTaken..Len(input) : Bytes("out", n) <= outlen => n <= convTaken'
<1> DEFINE N == Len(input)
           Fit == {n \in convTaken..N : written + Convert!Total("out", convTaken + 1, n) <= outlen}
           Rest == {N - n : n \in Fit}
<1>1. /\ input \in Seq(Characters) /\ N \in Nat /\ convTaken \in 0..N /\ outlen \in Nat
      /\ written = Bytes("out", convTaken) /\ written <= outlen
    BY LeftOver DEF ConvertInv, Progress
<1>2. \A k \in 0..N : Bytes("out", k) \in Nat
    BY <1>1, BytesAdd
<1>3. \A n \in convTaken..N : written + Convert!Total("out", convTaken + 1, n) = Bytes("out", n)
    <2> SUFFICES ASSUME NEW n \in convTaken..N
                 PROVE  written + Convert!Total("out", convTaken + 1, n) = Bytes("out", n)
        OBVIOUS
    <2>1. convTaken + 1 \in 1..(N + 1) /\ (convTaken + 1) - 1 = convTaken /\ n \in 0..N
        BY <1>1
    <2>2. Convert!Total("out", convTaken + 1, n) = Bytes("out", n) - Bytes("out", convTaken)
        BY <1>1, <2>1, BytesAdd
    <2>3. Bytes("out", n) \in Nat /\ Bytes("out", convTaken) \in Nat
        BY <1>1, <1>2, <2>1
    <2> QED
        BY <1>1, <2>2, <2>3
<1>4. Fit = {n \in convTaken..N : Bytes("out", n) <= outlen}
    BY <1>3
<1>5. convTaken' = Convert!Max(Fit) /\ written' = written + Convert!Total("out", convTaken + 1, convTaken')
    BY DEF Convert!Convert
<1> HIDE DEF Fit
<1>6. PICK x \in Rest : \A y \in Rest : x <= y
    <2>1. convTaken \in Fit
        BY <1>1, <1>4
    <2>2. Rest \in SUBSET Nat
        BY <1>1, <1>4
    <2>3. N - convTaken \in Rest
        BY <2>1
    <2> HIDE DEF Rest
    <2> QED
        BY <2>2, <2>3, HasLeast
<1>7. PICK m \in Fit : \A n \in Fit : m >= n
    <2>1. PICK m \in Fit : x = N - m
        OBVIOUS
    <2>2. ASSUME NEW n \in Fit
          PROVE  m >= n
        <3>1. N - m <= N - n
            BY <1>6, <2>1
        <3>2. m \in Nat /\ n \in Nat
            BY <1>1, <1>4
        <3> QED
            BY <1>1, <3>1, <3>2
    <2> QED
        BY <2>2
<1>8. convTaken' \in Fit /\ \A n \in Fit : convTaken' >= n
    BY <1>5, <1>7 DEF Convert!Max
<1>9. convTaken' \in convTaken..N /\ Bytes("out", convTaken') <= outlen
    BY <1>4, <1>8
<1>10. written' = Bytes("out", convTaken')
    BY <1>3, <1>5, <1>9
<1>11. ASSUME NEW n \in convTaken..N, Bytes("out", n) <= outlen
       PROVE  n <= convTaken'
    <2>1. n \in Fit
        BY <1>4, <1>11
    <2>2. convTaken' >= n /\ n \in Nat /\ convTaken' \in Nat
        BY <1>1, <1>8, <1>9, <2>1
    <2> QED
        BY <2>2
<1> QED
    BY <1>9, <1>10, <1>11

LEMMA IconvContinues == ConvertInv /\ Convert!Convert => ConvertInv'
<1> SUFFICES ASSUME ConvertInv, Convert!Convert
             PROVE  ConvertInv'
    OBVIOUS
<1> DEFINE N == Len(input)
           n == convTaken'
<1>1. /\ convPc = "convert" /\ use' = use /\ input' = input /\ ending' = ending
      /\ outlen' = outlen /\ calls' = calls + 1
      /\ convPc' = IF n < N THEN "grow" ELSE IF ending = "invalid" THEN "thrown" ELSE "done"
    BY DEF Convert!Convert
<1>2. /\ input \in Seq(Characters) /\ N \in Nat /\ convTaken \in 0..N /\ outlen \in Nat /\ calls \in Nat
    BY LeftOver DEF ConvertInv, Progress
<1>3. /\ n \in convTaken..N /\ written' = Bytes("out", n) /\ written' <= outlen
      /\ \A k \in convTaken..N : Bytes("out", k) <= outlen => k <= n
    BY AllThatFits
<1> HIDE DEF n, N
<1>4. calls' <= n + 1 /\ n \in 0..N
    <2> n \in 0..N /\ n >= convTaken /\ calls' = calls + 1
        BY <1>1, <1>2, <1>3
    <2>1. CASE calls <= convTaken
        BY <1>2, <2>1
    <2>2. CASE convTaken < N /\ calls <= convTaken + 1 /\ Bytes("out", convTaken + 1) <= outlen
        <3>1. convTaken + 1 \in convTaken..N
            BY <1>2, <2>2
        <3>2. convTaken + 1 <= n
            BY <1>3, <2>2, <3>1
        <3> QED
            BY <1>2, <2>2, <3>2
    <2> QED
        BY <1>1, <2>1, <2>2 DEF ConvertInv, Progress, N
<1>5. Bytes("out", convTaken)' = Bytes("out", n)
    BY <1>1 DEF Bytes, Convert!Total, n
<1>6. n < N \/ n = N
    BY <1>2, <1>4
<1>7. Progress'
    <2>1. /\ outlen' \in Nat /\ calls' \in Nat /\ n \in 0..Len(input)'
          /\ written' = Bytes("out", convTaken)' /\ written' <= outlen'
        BY <1>1, <1>2, <1>3, <1>4, <1>5 DEF N
    <2>2. CASE n < N
        <3>1. convPc' = "grow" /\ n < Len(input)'
            BY <1>1, <2>2 DEF N
        <3> QED
            BY <1>4, <2>1, <3>1 DEF Progress, n
    <2>3. CASE n = N
        <3>1. convPc' \in {"done", "thrown"} /\ n = Len(input)' /\ calls' <= Len(input)' + 1
            BY <1>1, <1>2, <1>4, <2>3 DEF N
        <3> QED
            BY <2>1, <3>1 DEF Progress, n
    <2> QED
        BY <1>6, <2>2, <2>3
<1>8. ASSUME use \in Enough
      PROVE  AtOnce'
    <2>1. calls = 0 /\ Bytes("out", N) <= outlen
        BY <1>1, <1>8 DEF ConvertInv, AtOnce, N
    <2>2. N \in convTaken..N
        BY <1>2
    <2>3. n = N
        BY <1>2, <1>3, <1>4, <2>1, <2>2
    <2>4. convPc' \in {"done", "thrown"} /\ calls' = 1
        BY <1>1, <1>2, <2>1, <2>3
    <2> QED
        BY <2>4 DEF AtOnce
<1> QED
    BY <1>1, <1>7, <1>8 DEF ConvertInv

LEMMA ConvertContinues == ConvertInv /\ Convert!Next => ConvertInv'
BY AllocateContinues, IconvContinues, GrowContinues DEF Convert!Next

LEMMA ConvertStutters == ConvertInv /\ UNCHANGED convertVars => ConvertInv'
<1> SUFFICES ASSUME ConvertInv, UNCHANGED convertVars
             PROVE  ConvertInv'
    OBVIOUS
<1>1. \A f, k : Bytes(f, k)' = Bytes(f, k)
    BY BytesStay DEF convertVars
<1> QED
    BY <1>1 DEF ConvertInv, Progress, AtOnce, convertVars

\* For any use of the conversion, with characters of up to seven bytes, and for any
\* input: nothing is written beyond the buffer, the loop takes one turn more than
\* there are characters at most, and ends with all converted; if each character
\* grows no more than the hint says, the first turn is the only one.
\* (convert_helper, UTF8ToWstring, WstringToUTF8.)
THEOREM AllIsConverted == LibrarySpec => []TextConverts
<1> DEFINE Inv == part = "convert" => ConvertInv
<1>1. LibraryInit => Inv
    BY ConvertBegins DEF LibraryInit
<1>2. Inv /\ [LibraryNext]_libraryVars => Inv'
    <2> SUFFICES ASSUME Inv, [LibraryNext]_libraryVars, part' = "convert"
                 PROVE  ConvertInv'
        OBVIOUS
    <2>1. part' = part
        BY DEF LibraryNext, libraryVars
    <2>2. UNCHANGED convertVars \/ Convert!Next
        BY DEF LibraryNext, libraryVars
    <2> QED
        BY <2>1, <2>2, ConvertContinues, ConvertStutters
<1>3. Inv => TextConverts
    <2> SUFFICES ASSUME ConvertInv
                 PROVE  Convert!ConvertsAll
        BY DEF TextConverts
    <2>1. Len(input) \in Nat
        BY LeftOver
    <2>2. calls <= Len(input) + 1
        BY <2>1 DEF ConvertInv, Progress
    <2> QED
        BY <2>2 DEF ConvertInv, Progress, AtOnce, Convert!ConvertsAll
<1> QED
    BY <1>1, <1>2, <1>3, PTL DEF LibrarySpec
=============================================================================
