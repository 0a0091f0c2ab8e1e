----------------------------- MODULE VTAllocator -----------------------------
(***************************************************************************)
(* Pool and the older Allocator of src/VTAllocator.h.  A Pool carves       *)
(* elements out of chunks, keeps the free ones on a list, and gives all    *)
(* chunks back to the system when its count says that no element is out.   *)
(* An Allocator hands out the blocks of one buffer.  Callers are one       *)
(* thread that frees what it was given, once.                              *)
(***************************************************************************)
EXTENDS Naturals, Sequences, FiniteSets

CONSTANTS Addresses,   \* where the system may put a chunk
          PerChunk,    \* elements of a chunk, Chunk::size / esize
          Width,       \* values of an unsigned int
          Initial,     \* what allocated_ may begin with
          Capacity     \* blocks of the Allocator

\* allocated_ is not initialised (line 122): it begins with 0 in a static Pool,
\* such as SSAllocator::pool_, and with anything elsewhere.
ASSUME AllocatorAssumption ==
    /\ IsFiniteSet(Addresses)
    /\ PerChunk \in Nat \ {0} /\ Width \in Nat /\ Capacity \in Nat
    /\ Initial \subseteq 0..(Width - 1)
    /\ PerChunk * Cardinality(Addresses) < Width

VARIABLES free,        \* the list that begins at head
          chunks,      \* the chunks it has
          allocated,   \* allocated_
          live,        \* elements that callers have
          blocks,      \* free_blocks_
          taken        \* blocks that callers have

pool == << free, chunks, allocated, live >>
allocator == << blocks, taken >>
vars == << pool, allocator >>

Elements == Addresses \X (1..PerChunk)

\* Every variable has its type.
TypeOK ==
    /\ free \in Seq(Elements)
    /\ chunks \subseteq Addresses
    /\ allocated \in 0..(Width - 1)
    /\ live \subseteq Elements
    /\ blocks \in Seq(1..Capacity)
    /\ taken \subseteq 1..Capacity

\* Pool's constructor, and Allocator's: if malloc() fails there are no blocks.
Init ==
    /\ free = << >> /\ chunks = {} /\ live = {}
    /\ allocated \in Initial
    /\ blocks \in {<< >>, [k \in 1..Capacity |-> k]}
    /\ taken = {}

-----------------------------------------------------------------------------
\* grow(): the elements of a chunk, linked in order.
Grown(c) == [k \in 1..PerChunk |-> << c, k >>]

\* The first element of a list goes to the caller.
Take(list) ==
    /\ live' = live \cup {Head(list)}
    /\ free' = Tail(list)
    /\ allocated' = (allocated + 1) % Width

\* Faults the runs must catch; no specification uses them.

\* free() that clears when one element is still out.
FreeEarly(e) ==
    /\ e \in live /\ allocated > 0
    /\ live' = live \ {e}
    /\ allocated' = allocated - 1
    /\ IF allocated' <= 1
       THEN free' = << >> /\ chunks' = {}
       ELSE free' = << e >> \o free /\ UNCHANGED chunks
    /\ UNCHANGED allocator

\* free() that leaves the block with the caller's pointer at the front too.
FreeBlockTwice(b) ==
    /\ b \in taken
    /\ blocks' = << b >> \o Append(blocks, b)
    /\ taken' = taken \ {b}
    /\ UNCHANGED pool

-----------------------------------------------------------------------------
\* SSAllocator::allocate(), one element at a time.
Alloc ==
    /\ \/ /\ free # << >>
          /\ Take(free)
          /\ UNCHANGED chunks
       \/ /\ free = << >>
          /\ \E c \in Addresses \ chunks : Take(Grown(c)) /\ chunks' = chunks \cup {c}
    /\ UNCHANGED allocator

\* SSAllocator::deallocate(); with the last element go all chunks (clear()).
Free(e) ==
    /\ e \in live /\ allocated > 0
    /\ live' = live \ {e}
    /\ allocated' = allocated - 1
    /\ IF allocated' = 0
       THEN free' = << >> /\ chunks' = {}
       ELSE free' = << e >> \o free /\ UNCHANGED chunks
    /\ UNCHANGED allocator

\* Allocator::alloc() returns NULL when it has no block.
AllocBlock ==
    /\ IF blocks = << >>
       THEN UNCHANGED allocator
       ELSE taken' = taken \cup {Head(blocks)} /\ blocks' = Tail(blocks)
    /\ UNCHANGED pool

FreeBlock(b) ==
    /\ b \in taken
    /\ blocks' = Append(blocks, b)
    /\ taken' = taken \ {b}
    /\ UNCHANGED pool

Next ==
    \/ Alloc \/ AllocBlock
    \/ \E e \in Elements : Free(e)
    \/ \E b \in 1..Capacity : FreeBlock(b)

Spec == Init /\ [][Next]_vars

-----------------------------------------------------------------------------
(* Properties *)

Distinct(s) == \A m, n \in DOMAIN s : s[m] = s[n] => m = n

\* What a caller has is memory of its own: it lies in a chunk that has not been
\* given back, and is not on the list of what is handed out next, which holds
\* nothing twice; the same goes for blocks.  A pool of which nothing is used keeps
\* no chunk.  (alloc, free, grow, clear.)
OwnMemory ==
    /\ \A e \in live : e[1] \in chunks /\ \A n \in DOMAIN free : free[n] # e
    /\ \A n \in DOMAIN free : free[n][1] \in chunks
    /\ Distinct(free)
    /\ live = {} => chunks = {}
    /\ \A b \in taken : \A n \in DOMAIN blocks : blocks[n] # b
    /\ Distinct(blocks)
=============================================================================
