---------------------------- MODULE GraphProofs ------------------------------
(***************************************************************************)
(* Proofs about the graphs and searches of Library, for every value of     *)
(* their constants.  Searches find the paths that they promise.  Both      *)
(* kinds of graph are the graph of GraphSpec, a VectorGraph as long as its *)
(* callers keep what it demands.                                           *)
(***************************************************************************)
EXTENDS LibraryProofs

-----------------------------------------------------------------------------
(* Lists of the elements of a set *)

InOrder(list, S) ==
    /\ list \in [1..Cardinality(S) -> S]
    /\ \A j \in 1..Cardinality(S), k \in 1..Cardinality(S) : j < k => list[j] < list[k]

\* A finite set of numbers can be listed in order: the least one, then the others.
LEMMA HasOrder ==
    ASSUME NEW S \in SUBSET Nat, IsFiniteSet(S)
    PROVE  \E list : InOrder(list, S)
<1> DEFINE N == Cardinality(S)
           T == {n \in 0..N : \A U \in SUBSET S : Cardinality(U) = n => \E list : InOrder(list, U)}
<1>1. N \in Nat
    BY FS_CardinalityType
<1>2. 0 \in T
    <2> SUFFICES ASSUME NEW U \in SUBSET S, Cardinality(U) = 0
                 PROVE  \E list : InOrder(list, U)
        BY <1>1
    <2>1. U = {}
        BY FS_EmptySet, FS_Subset
    <2>2. << >> \in [1..0 -> U]
        OBVIOUS
    <2>3. InOrder(<< >>, U)
        BY <2>2 DEF InOrder
    <2> QED
        BY <2>3
<1>3. ASSUME NEW n \in 0..(N - 1), n \in T
      PROVE  n + 1 \in T
    <2> SUFFICES ASSUME NEW U \in SUBSET S, Cardinality(U) = n + 1
                 PROVE  \E list : InOrder(list, U)
        BY <1>1
    <2>1. IsFiniteSet(U) /\ U # {} /\ U \in SUBSET Nat
        <3>1. n + 1 # 0
            BY <1>1
        <3>2. IsFiniteSet(U)
            <4> HIDE DEF T, N
            <4> QED
                BY FS_Subset
        <3> QED
            BY <3>1, <3>2, FS_EmptySet
    <2>2. PICK least \in U : \A y \in U : least <= y
        BY <2>1, HasLeast
    <2> DEFINE V == U \ {least}
    <2>3. V \in SUBSET S /\ Cardinality(V) = n
        <3>1. V \in SUBSET S
            OBVIOUS
        <3>2. Cardinality(U \ {least}) = IF least \in U THEN Cardinality(U) - 1 ELSE Cardinality(U)
            BY <2>1, FS_RemoveElement, Zenon
        <3> HIDE DEF T
        <3> QED
            BY <1>1, <2>2, <3>1, <3>2
    <2>4. PICK others : InOrder(others, V)
        BY <1>3, <2>3
    <2> DEFINE list == [k \in 1..(n + 1) |-> IF k = 1 THEN least ELSE others[k - 1]]
    <2>5. \A k \in 2..(n + 1) : list[k] = others[k - 1] /\ k - 1 \in 1..n
        BY <1>1
    <2>6. others \in [1..n -> V] /\ \A j \in 1..n, k \in 1..n : j < k => others[j] < others[k]
        BY <2>3, <2>4 DEF InOrder
    <2>7. list[1] = least /\ \A k \in 1..(n + 1) : k = 1 \/ k \in 2..(n + 1)
        BY <1>1
    <2> HIDE DEF list
    <2>8. \A k \in 1..(n + 1) : list[k] \in U
        BY <2>5, <2>6, <2>7
    <2>9. \A k \in 2..(n + 1) : least < list[k]
        <3>1. \A x \in V : x \in Nat /\ least < x
            BY <2>1, <2>2
        <3> HIDE DEF V
        <3> QED
            BY <2>5, <2>6, <3>1
    <2>10. list = [k \in 1..(n + 1) |-> list[k]]
        BY DEF list
    <2>11. \A j \in 1..(n + 1), k \in 1..(n + 1) : j < k => list[j] < list[k]
        BY <2>5, <2>6, <2>7, <2>9
    <2>12. InOrder(list, U)
        BY <2>8, <2>10, <2>11 DEF InOrder
    <2> QED
        BY <2>12
<1>4. \A n \in 0..N : n \in T
    <2> HIDE DEF T, N
    <2> QED
        BY <1>1, <1>2, <1>3, UpTo
<1>5. N \in 0..N
    BY <1>1
<1> QED
    BY <1>4, <1>5

\* It leaves none out.
LEMMA OrderIsAll ==
    ASSUME NEW S \in SUBSET Nat, IsFiniteSet(S), NEW list, InOrder(list, S), NEW x \in S
    PROVE  \E k \in 1..Cardinality(S) : list[k] = x
<1> SUFFICES ASSUME \A k \in 1..Cardinality(S) : list[k] # x
             PROVE  FALSE
    OBVIOUS
<1> DEFINE N == Cardinality(S)
<1>1. N \in Nat
    BY FS_CardinalityType
<1>2. IsFiniteSet(S \ {x}) /\ Cardinality(S \ {x}) = N - 1
    BY FS_RemoveElement
<1>3. IsFiniteSet(1..N) /\ Cardinality(1..N) = N
    BY <1>1, FS_Interval
<1>4. list \in [1..N -> S \ {x}]
    BY DEF InOrder
<1>5. PICK j \in 1..N, k \in 1..N : j # k /\ list[j] = list[k]
    BY <1>1, <1>2, <1>3, <1>4, FS_PigeonHole
<1>6. list[j] \in Nat /\ list[k] \in Nat /\ (j < k => list[j] < list[k]) /\ (k < j => list[k] < list[j])
    BY DEF InOrder
<1>7. j < k \/ k < j
    BY <1>1, <1>5
<1> QED
    BY <1>5, <1>6, <1>7

LEMMA HasGreatest ==
    ASSUME NEW S \in SUBSET Nat, IsFiniteSet(S), S # {}
    PROVE  \E x \in S : \A y \in S : x >= y
<1> DEFINE N == Cardinality(S)
<1>1. N \in Nat \ {0}
    BY FS_CardinalityType, FS_EmptySet
<1>2. PICK list : InOrder(list, S)
    BY HasOrder
<1>3. \A y \in S : \E k \in 1..N : list[k] = y
    BY <1>2, OrderIsAll
<1>4. list[N] \in S /\ \A k \in 1..N : list[k] \in Nat /\ list[k] <= list[N]
    <2>1. \A k \in 1..N : list[k] \in S /\ list[k] \in Nat /\ (k < N => list[k] < list[N])
        <3>1. N \in 1..N
            BY <1>1
        <3>2. list \in [1..N -> S] /\ \A j \in 1..N, k \in 1..N : j < k => list[j] < list[k]
            BY <1>2 DEF InOrder
        <3> HIDE DEF N
        <3> QED
            BY <3>1, <3>2
    <2>2. \A k \in 1..N : k = N \/ k < N
        BY <1>1
    <2>3. N \in 1..N
        BY <1>1
    <2> HIDE DEF N
    <2> QED
        BY <2>1, <2>2, <2>3
<1>5. \A y \in S : y \in Nat /\ y <= list[N]
    BY <1>3, <1>4
<1>6. list[N] \in S /\ list[N] \in Nat
    BY <1>1, <1>4
<1>7. \A y \in S : list[N] >= y
    BY <1>5, <1>6
<1> QED
    BY <1>6, <1>7

\* A list without repetitions has as many elements as their set.
LEMMA DistinctCounts ==
    ASSUME NEW S, NEW p \in Seq(S), \A j \in 1..Len(p), k \in 1..Len(p) : p[j] = p[k] => j = k
    PROVE  /\ Cardinality(Search!ToSet(p)) = Len(p)
           /\ IsFiniteSet(S) => Len(p) <= Cardinality(S)
<1> DEFINE R == Search!ToSet(p)
<1>1. Len(p) \in Nat /\ DOMAIN p = 1..Len(p) /\ p \in [1..Len(p) -> S]
    BY LenProperties
<1>2. IsFiniteSet(1..Len(p)) /\ Cardinality(1..Len(p)) = Len(p)
    BY <1>1, FS_Interval
<1>3. p \in Surjection(1..Len(p), R) /\ p \in Injection(1..Len(p), R)
    BY <1>1 DEF Surjection, Injection, IsInjective, Search!ToSet
<1>4. IsFiniteSet(R) /\ Cardinality(R) = Len(p)
    BY <1>2, <1>3, FS_Surjection
<1>5. R \in SUBSET S
    BY <1>1 DEF Search!ToSet
<1> QED
    BY <1>4, <1>5, FS_Subset

-----------------------------------------------------------------------------
(* Graphs and queues *)

Size == Cardinality(SearchNodes)

LEMMA SearchConstants ==
    /\ SearchNodes \subseteq Nat \ {0} /\ IsFiniteSet(SearchNodes)
    /\ Start \in SearchNodes /\ Dest \in SearchNodes
    /\ Costs \subseteq Int /\ MaxInt \in Int /\ Arcs \subseteq SearchNodes \X SearchNodes
    /\ \A heuristic \in Heuristics : heuristic \in [SearchNodes -> Int] /\ heuristic[Start] < MaxInt
    /\ Size \in Nat \ {0} /\ Search!Cardinality(SearchNodes) = Size
<1>1. /\ SearchNodes \subseteq Nat \ {0} /\ IsFiniteSet(SearchNodes)
      /\ Start \in SearchNodes /\ Dest \in SearchNodes
      /\ Costs \subseteq Int /\ MaxInt \in Int /\ Arcs \subseteq SearchNodes \X SearchNodes
      /\ \A heuristic \in Heuristics : heuristic \in [SearchNodes -> Int] /\ heuristic[Start] < MaxInt
    BY SearchInstance DEF Search!SearchAssumption, Search!IsFiniteSet, IsFiniteSet
<1>2. Size \in Nat \ {0}
    BY <1>1, FS_CardinalityType, FS_EmptySet DEF Size
<1>3. Search!Cardinality(SearchNodes) = Size
    BY DEF Size, Search!Cardinality, Cardinality
<1> QED
    BY <1>1, <1>2, <1>3

Ends(S) == {e \in SearchNodes : \E s \in S : Search!Edge(s, e)}

\* What k edges lead to is what one edge leads to from what k - 1 edges lead to.
LEMMA ReachedTurns ==
    /\ Search!Reached[0] = {Start}
    /\ \A k \in 1..Size : Search!Reached[k] = Search!Reached[k - 1] \cup Ends(Search!Reached[k - 1])
<1> DEFINE N == Size
           Wider(S) == S \cup {e \in SearchNodes : \E s \in S : Search!Edge(s, e)}
           step == [k \in 1..N |-> [S \in SUBSET SearchNodes |-> Wider(S)]]
           Says(f) == f = [k \in 0..N |-> IF k = 0 THEN {Start} ELSE Wider(f[k - 1])]
           the == CHOOSE f : Says(f)
<1>1. N \in Nat /\ {Start} \in SUBSET SearchNodes
    BY SearchConstants
<1>2. step \in [1..N -> [SUBSET SearchNodes -> SUBSET SearchNodes]]
    OBVIOUS
<1>3. PICK f : Iterates(f, N, SUBSET SearchNodes, {Start}, step)
    <2> HIDE DEF N, step, Says, the
    <2> QED
        BY <1>1, <1>2, Recursion
<1>4. f \in [0..N -> SUBSET SearchNodes] /\ f[0] = {Start} /\ \A k \in 1..N : f[k] = Wider(f[k - 1])
    <2> SUFFICES ASSUME NEW k \in 1..N
                 PROVE  f[k] = Wider(f[k - 1])
        BY <1>3 DEF Iterates
    <2>1. f[k - 1] \in SUBSET SearchNodes
        BY <1>1, <1>3 DEF Iterates
    <2>2. f[k] = step[k][f[k - 1]]
        BY <1>3 DEF Iterates
    <2> HIDE DEF N, Wider
    <2> QED
        BY <2>1, <2>2
<1>5. Says(f)
    <2>1. f = [k \in 0..N |-> f[k]]
        BY <1>4
    <2>2. ASSUME NEW k \in 0..N
          PROVE  f[k] = IF k = 0 THEN {Start} ELSE Wider(f[k - 1])
        <3>1. k = 0 \/ k \in 1..N
            BY <1>1
        <3> HIDE DEF N, step, Says, the, Wider
        <3> QED
            BY <1>1, <1>4, <3>1
    <2> HIDE DEF N, step, the, Wider
    <2> QED
        BY <2>1, <2>2
<1>6. Says(the)
    BY <1>5
<1>7. Search!Reached = the
    BY SearchConstants DEF Search!Reached
<1> HIDE DEF the
<1>8. the[0] = {Start} /\ \A k \in 1..N : the[k] = Wider(the[k - 1])
    <2> HIDE DEF step, Wider
    <2>1. 0 \in 0..N /\ \A k \in 1..N : k \in 0..N /\ k # 0
        BY <1>1
    <2>2. \A k \in 0..N : the[k] = IF k = 0 THEN {Start} ELSE Wider(the[k - 1])
        BY <1>6
    <2> HIDE DEF Says
    <2> QED
        BY <2>1, <2>2
<1> QED
    BY <1>7, <1>8 DEF Ends

\* Who has the start, and with a node all that its edges lead to, has what is reached.
LEMMA ReachedWithin ==
    ASSUME NEW V, Start \in V, Ends(V) \subseteq V
    PROVE  \A k \in 0..Size : Search!Reached[k] \subseteq V
<1> DEFINE T == {k \in 0..Size : Search!Reached[k] \subseteq V}
<1>1. Size \in Nat
    BY SearchConstants
<1>2. 0 \in T
    BY <1>1, ReachedTurns
<1>3. ASSUME NEW k \in 0..(Size - 1), k \in T
      PROVE  k + 1 \in T
    <2>1. k + 1 \in 1..Size /\ (k + 1) - 1 = k /\ k + 1 \in 0..Size
        BY <1>1
    <2>2. Search!Reached[k + 1] = Search!Reached[k] \cup Ends(Search!Reached[k])
        BY <2>1, ReachedTurns
    <2>3. Search!Reached[k] \subseteq V
        BY <1>3
    <2> QED
        BY <2>1, <2>2, <2>3 DEF Ends
<1>4. \A k \in 0..Size : k \in T
    <2> HIDE DEF T
    <2> QED
        BY <1>1, <1>2, <1>3, UpTo
<1> QED
    BY <1>4

\* More edges reach no less.
LEMMA ReachedGrows ==
    ASSUME NEW n \in 0..Size
    PROVE  \A k \in 0..n : Search!Reached[k] \subseteq Search!Reached[n]
<1> DEFINE T == {j \in 0..n : Search!Reached[n - j] \subseteq Search!Reached[n]}
<1>1. Size \in Nat /\ n \in Nat
    BY SearchConstants
<1>2. 0 \in T
    BY <1>1
<1>3. ASSUME NEW j \in 0..(n - 1), j \in T
      PROVE  j + 1 \in T
    <2>1. n - j \in 1..Size /\ (n - j) - 1 = n - (j + 1) /\ j + 1 \in 0..n
        BY <1>1
    <2>2. Search!Reached[n - (j + 1)] \subseteq Search!Reached[n - j]
        BY <2>1, ReachedTurns
    <2> QED
        BY <1>3, <2>1, <2>2
<1>4. \A j \in 0..n : j \in T
    <2> HIDE DEF T
    <2> QED
        BY <1>1, <1>2, <1>3, UpTo
<1> SUFFICES ASSUME NEW k \in 0..n
             PROVE  Search!Reached[k] \subseteq Search!Reached[n]
    OBVIOUS
<1>5. n - k \in 0..n /\ n - (n - k) = k
    BY <1>1
<1> QED
    BY <1>4, <1>5

LEMMA ReverseProperties ==
    ASSUME NEW S, NEW s \in Seq(S)
    PROVE  /\ Search!Reverse(s) \in Seq(S) /\ Len(Search!Reverse(s)) = Len(s)
           /\ \A k \in 1..Len(s) : Search!Reverse(s)[k] = s[Len(s) - k + 1]
<1>1. Len(s) \in Nat /\ \A k \in 1..Len(s) : s[k] \in S /\ Len(s) - k + 1 \in 1..Len(s)
    BY LenProperties
<1>2. Search!Reverse(s) = [k \in 1..Len(s) |-> s[Len(s) - k + 1]]
    BY <1>1 DEF Search!Reverse
<1> QED
    BY <1>1, <1>2

\* A list of neighbors has all that were not left out, in whichever order.
LEMMA NeighborsAreAll ==
    ASSUME NEW n, NEW skipped
    PROVE  LET new == Search!Neighbors(n, skipped) IN
           /\ new \in Seq(SearchNodes)
           /\ Search!ToSet(new) = Ends({n}) \ skipped
<1> DEFINE ends == {e \in SearchNodes : Search!Edge(n, e)} \ skipped
           N == Cardinality(ends)
           IsUp(list) == \A j \in DOMAIN list, k \in DOMAIN list : j < k => list[j] < list[k]
           up == CHOOSE list \in [1..N -> ends] : IsUp(list)
           new == Search!Neighbors(n, skipped)
<1>1. ends \in SUBSET Nat /\ IsFiniteSet(ends) /\ ends \subseteq SearchNodes
    BY SearchConstants, FS_Subset
<1>2. new = IF order = "up" THEN up ELSE Search!Reverse(up)
    BY DEF Search!Neighbors, Search!Cardinality, Cardinality
<1>3. ends = Ends({n}) \ skipped
    BY DEF Ends
<1> HIDE DEF ends, new
<1>4. N \in Nat
    BY <1>1, FS_CardinalityType
<1>5. up \in [1..N -> ends] /\ IsUp(up)
    <2>1. PICK list : InOrder(list, ends)
        BY <1>1, HasOrder
    <2>2. list \in [1..N -> ends] /\ IsUp(list)
        BY <2>1 DEF InOrder
    <2> HIDE DEF IsUp, N
    <2> QED
        BY <2>2
<1> HIDE DEF up
<1>6. InOrder(up, ends)
    BY <1>5 DEF InOrder
<1> HIDE DEF IsUp
<1>7. \A e \in ends : \E k \in 1..N : up[k] = e
    BY <1>1, <1>6, OrderIsAll
<1> HIDE DEF N
<1>8. up \in Seq(SearchNodes) /\ Len(up) = N /\ DOMAIN up = 1..N /\ \A k \in 1..N : up[k] \in ends
    <2>1. /\ DOMAIN up = 1..N /\ up = [k \in 1..N |-> up[k]]
          /\ \A k \in 1..N : up[k] \in ends /\ up[k] \in SearchNodes
        BY <1>1, <1>5
    <2> QED
        BY <1>4, <2>1
<1>9. Search!ToSet(up) = ends
    BY <1>7, <1>8 DEF Search!ToSet
<1>10. /\ Search!Reverse(up) \in Seq(SearchNodes) /\ Len(Search!Reverse(up)) = N
       /\ \A k \in 1..N : Search!Reverse(up)[k] = up[N - k + 1]
    BY <1>8, ReverseProperties
<1>11. Search!ToSet(Search!Reverse(up)) = ends
    <2>1. DOMAIN Search!Reverse(up) = 1..N
        BY <1>10, LenProperties
    <2>2. \A k \in 1..N : N - k + 1 \in 1..N /\ N - (N - k + 1) + 1 = k
        BY <1>4
    <2> QED
        BY <1>7, <1>8, <1>10, <2>1, <2>2 DEF Search!ToSet
<1> QED
    BY <1>2, <1>3, <1>8, <1>9, <1>10, <1>11 DEF new

-----------------------------------------------------------------------------
(* Breadth first and depth first *)

Goal(p) == p[Len(p)]

\* A way from the start through what was seen, that comes to no node twice.
Way(p, seen) ==
    /\ p \in Seq(SearchNodes) /\ Len(p) >= 1 /\ p[1] = Start
    /\ \A k \in 1..(Len(p) - 1) : Search!Edge(p[k], p[k + 1])
    /\ \A j \in 1..Len(p), k \in 1..Len(p) : p[j] = p[k] => j = k
    /\ \A k \in 1..Len(p) : p[k] \in seen

\* Nothing leads out of what was visited, but from where the queue goes on.
QueueInv ==
    /\ queue \in Seq(Seq(SearchNodes)) /\ \A k \in 1..Len(queue) : Way(queue[k], visited)
    /\ visited \subseteq SearchNodes /\ Start \in visited
    /\ \A v \in visited :
          \/ \E k \in 1..Len(queue) : Goal(queue[k]) = v
          \/ v # Dest /\ Ends({v}) \subseteq visited

\* The queue that a step leaves, element by element.
LEMMA PushedHas ==
    ASSUME queue \in Seq(Seq(SearchNodes)), queue # << >>, NEW paths \in Seq(Seq(SearchNodes))
    PROVE  LET new == Search!Pushed(paths) IN
           /\ new \in Seq(Seq(SearchNodes)) /\ Len(new) = Len(queue) - 1 + Len(paths)
           /\ \A k \in 1..Len(new) : \/ \E j \in 2..Len(queue) : new[k] = queue[j]
                                     \/ \E i \in 1..Len(paths) : new[k] = paths[i]
           /\ \A j \in 2..Len(queue) : \E k \in 1..Len(new) : new[k] = queue[j]
           /\ \A i \in 1..Len(paths) : \E k \in 1..Len(new) : new[k] = paths[i]
           /\ search = "breadth" =>
                \A k \in 1..Len(new) :
                    new[k] = IF k < Len(queue) THEN queue[k + 1] ELSE paths[k - Len(queue) + 1]
<1> DEFINE S == Seq(SearchNodes)
           rest == Tail(queue)
           back == Search!Reverse(paths)
           new == Search!Pushed(paths)
           m == Len(queue)
           n == Len(paths)
<1>1. m \in Nat \ {0} /\ n \in Nat
    BY EmptySeq, LenProperties
<1>2. /\ rest \in Seq(S) /\ Len(rest) = m - 1
      /\ \A k \in 1..(m - 1) : rest[k] = queue[k + 1]
    BY HeadTailProperties
<1>3. /\ back \in Seq(S) /\ Len(back) = n
      /\ \A k \in 1..n : back[k] = paths[n - k + 1]
    <2> HIDE DEF S
    <2> QED
        BY ReverseProperties DEF S
<1>4. new = IF search = "breadth" THEN rest \o paths ELSE back \o rest
    BY DEF Search!Pushed
<1> HIDE DEF S, rest, back, new, m, n
<1>5. CASE search = "breadth"
    <2>1. /\ new \in Seq(S) /\ Len(new) = m - 1 + n
          /\ \A k \in 1..(m - 1 + n) : new[k] = IF k <= m - 1 THEN rest[k] ELSE paths[k - (m - 1)]
        BY <1>1, <1>2, <1>4, <1>5, ConcatProperties DEF S, n
    <2>2. \A k \in 1..(m - 1 + n) : k <= m - 1 => new[k] = queue[k + 1] /\ k + 1 \in 2..m
        BY <1>1, <1>2, <2>1
    <2>3. \A k \in 1..(m - 1 + n) : k > m - 1 => new[k] = paths[k - m + 1] /\ k - m + 1 \in 1..n
        <3>1. \A k \in 1..(m - 1 + n) : k > m - 1 =>
                ~(k <= m - 1) /\ k - (m - 1) = k - m + 1 /\ k - m + 1 \in 1..n
            BY <1>1
        <3>2. \A k \in 1..(m - 1 + n) : ~(k <= m - 1) => new[k] = paths[k - (m - 1)]
            BY <2>1, Zenon
        <3> QED
            BY <3>1, <3>2
    <2>4. \A j \in 2..m : j - 1 \in 1..(m - 1 + n) /\ new[j - 1] = queue[j]
        <3> SUFFICES ASSUME NEW j \in 2..m
                     PROVE  j - 1 \in 1..(m - 1 + n) /\ new[j - 1] = queue[j]
            OBVIOUS
        <3>1. j - 1 \in 1..(m - 1 + n) /\ j - 1 <= m - 1 /\ (j - 1) + 1 = j
            BY <1>1
        <3> QED
            BY <2>2, <3>1
    <2>5. \A i \in 1..n : i + m - 1 \in 1..(m - 1 + n) /\ new[i + m - 1] = paths[i]
        <3> SUFFICES ASSUME NEW i \in 1..n
                     PROVE  i + m - 1 \in 1..(m - 1 + n) /\ new[i + m - 1] = paths[i]
            OBVIOUS
        <3>1. i + m - 1 \in 1..(m - 1 + n) /\ i + m - 1 > m - 1 /\ (i + m - 1) - m + 1 = i
            BY <1>1
        <3> QED
            BY <2>3, <3>1
    <2>6. \A k \in 1..Len(new) : k <= m - 1 \/ k > m - 1
        BY <1>1, <2>1
    <2>7. \A k \in 1..Len(new) : new[k] = IF k < m THEN queue[k + 1] ELSE paths[k - m + 1]
        <3> SUFFICES ASSUME NEW k \in 1..Len(new)
                     PROVE  new[k] = IF k < m THEN queue[k + 1] ELSE paths[k - m + 1]
            OBVIOUS
        <3>1. k \in 1..(m - 1 + n)
            BY <2>1
        <3>2. CASE k <= m - 1
            <4>1. k < m
                BY <1>1, <3>1, <3>2
            <4> QED
                BY <2>2, <3>1, <3>2, <4>1
        <3>3. CASE k > m - 1
            <4>1. ~(k < m)
                BY <1>1, <3>1, <3>3
            <4> QED
                BY <2>3, <3>1, <3>3, <4>1
        <3> QED
            BY <2>6, <3>2, <3>3
    <2> QED
        BY <2>1, <2>2, <2>3, <2>4, <2>5, <2>6, <2>7 DEF S, new, m, n
<1>6. CASE search # "breadth"
    <2>1. /\ new \in Seq(S) /\ Len(new) = n + (m - 1)
          /\ \A k \in 1..(n + (m - 1)) : new[k] = IF k <= n THEN back[k] ELSE rest[k - n]
        <3>1. /\ back \o rest \in Seq(S) /\ Len(back \o rest) = Len(back) + Len(rest)
              /\ \A k \in 1..(Len(back) + Len(rest)) :
                    (back \o rest)[k] = IF k <= Len(back) THEN back[k] ELSE rest[k - Len(back)]
            BY <1>2, <1>3, ConcatProperties
        <3>2. new = back \o rest /\ Len(back) = n /\ Len(rest) = m - 1
            BY <1>2, <1>3, <1>4, <1>6
        <3> QED
            BY <3>1, <3>2
    <2>2. \A k \in 1..(n + (m - 1)) : k <= n => new[k] = paths[n - k + 1] /\ n - k + 1 \in 1..n
        BY <1>1, <1>3, <2>1
    <2>3. \A k \in 1..(n + (m - 1)) : k > n => new[k] = queue[k - n + 1] /\ k - n + 1 \in 2..m
        BY <1>1, <1>2, <2>1
    <2>4. \A j \in 2..m : n + j - 1 \in 1..(n + (m - 1)) /\ new[n + j - 1] = queue[j]
        <3> SUFFICES ASSUME NEW j \in 2..m
                     PROVE  n + j - 1 \in 1..(n + (m - 1)) /\ new[n + j - 1] = queue[j]
            OBVIOUS
        <3>1. n + j - 1 \in 1..(n + (m - 1)) /\ n + j - 1 > n /\ (n + j - 1) - n + 1 = j
            BY <1>1
        <3> QED
            BY <2>3, <3>1
    <2>5. \A i \in 1..n : n - i + 1 \in 1..(n + (m - 1)) /\ new[n - i + 1] = paths[i]
        <3> SUFFICES ASSUME NEW i \in 1..n
                     PROVE  n - i + 1 \in 1..(n + (m - 1)) /\ new[n - i + 1] = paths[i]
            OBVIOUS
        <3>1. n - i + 1 \in 1..(n + (m - 1)) /\ n - i + 1 <= n /\ n - (n - i + 1) + 1 = i
            BY <1>1
        <3> QED
            BY <2>2, <3>1
    <2>6. \A k \in 1..Len(new) : k <= n \/ k > n
        BY <1>1, <2>1
    <2>7. Len(new) = m - 1 + n
        BY <1>1, <2>1
    <2> QED
        BY <1>6, <2>1, <2>2, <2>3, <2>4, <2>5, <2>6, <2>7 DEF S, new, m, n
<1> QED
    BY <1>5, <1>6

\* What a step pushes: the way at the head, longer by each of the new nodes.
StepPushes(way, new, paths) ==
    /\ new \in Seq(SearchNodes) /\ Search!ToSet(new) = Ends({Goal(way)}) \ visited
    /\ paths \in Seq(Seq(SearchNodes)) /\ Len(paths) = Len(new)
    /\ \A k \in 1..Len(new) : paths[k] = Append(way, new[k])
    /\ queue' = Search!Pushed(paths) /\ visited' = visited \cup Search!ToSet(new)

LEMMA StepDoes ==
    ASSUME QueueInv, Search!Step
    PROVE  /\ queue # << >> /\ Goal(queue[1]) # Dest /\ UNCHANGED << search, cost, result >>
           /\ \E new, paths : StepPushes(queue[1], new, paths)
<1> DEFINE way == queue[1]
           new == Search!Neighbors(Goal(way), visited)
           paths == [k \in DOMAIN new |-> Append(way, new[k])]
<1>1. queue # << >> /\ Head(queue) = way /\ Search!Last(way) = Goal(way)
    BY DEF Search!Step, Search!Last, Goal, QueueInv
<1>2. way \in Seq(SearchNodes)
    BY <1>1, EmptySeq, ElementOfSeq DEF QueueInv
<1>3. /\ Goal(way) # Dest /\ UNCHANGED << search, cost, result >>
      /\ queue' = Search!Pushed(paths) /\ visited' = visited \cup Search!ToSet(new)
    BY <1>1 DEF Search!Step, Search!given
<1>4. new \in Seq(SearchNodes) /\ Search!ToSet(new) = Ends({Goal(way)}) \ visited
    BY NeighborsAreAll
<1>5. DOMAIN new = 1..Len(new) /\ Len(new) \in Nat
    BY <1>4, LenProperties
<1>6. \A k \in 1..Len(new) : Append(way, new[k]) \in Seq(SearchNodes)
    BY <1>2, <1>4, ElementOfSeq, AppendProperties
<1>7. paths = [k \in 1..Len(new) |-> Append(way, new[k])]
    BY <1>5
<1> HIDE DEF new
<1>8. paths \in Seq(Seq(SearchNodes)) /\ Len(paths) = Len(new)
    BY <1>5, <1>6, <1>7
<1>9. \A k \in 1..Len(new) : paths[k] = Append(way, new[k])
    BY <1>7
<1> HIDE DEF paths, way
<1>10. StepPushes(way, new, paths)
    BY <1>3, <1>4, <1>8, <1>9 DEF StepPushes
<1> QED
    BY <1>1, <1>3, <1>10 DEF way

LEMMA QueueHead ==
    ASSUME QueueInv, queue # << >>
    PROVE  /\ Len(queue) \in Nat \ {0} /\ Way(queue[1], visited) /\ queue[1] \in Seq(SearchNodes)
           /\ Len(queue[1]) \in Nat \ {0}
<1>1. Len(queue) \in Nat \ {0}
    BY EmptySeq DEF QueueInv
<1>2. Way(queue[1], visited)
    BY <1>1 DEF QueueInv
<1>3. queue[1] \in Seq(SearchNodes) /\ Len(queue[1]) >= 1
    BY <1>2 DEF Way
<1>4. Len(queue[1]) \in Nat
    BY <1>3, LenProperties
<1> QED
    BY <1>1, <1>2, <1>3, <1>4

LEMMA PushedAreWays ==
    ASSUME QueueInv, queue # << >>, NEW new, NEW paths, StepPushes(queue[1], new, paths),
           UNCHANGED cost, NEW i \in 1..Len(new)
    PROVE  /\ Way(paths[i], visited') /\ Goal(paths[i]) = new[i] /\ new[i] \notin visited
           /\ Len(paths[i]) = Len(queue[1]) + 1
<1> DEFINE way == queue[1]
           n == Len(way)
           p == paths[i]
           e == new[i]
<1>1. Way(way, visited) /\ way \in Seq(SearchNodes) /\ n \in Nat \ {0}
    BY QueueHead
<1>2. e \in SearchNodes /\ e \in Search!ToSet(new) /\ e \in Ends({Goal(way)}) /\ e \notin visited
    <2>1. i \in DOMAIN new /\ e \in SearchNodes
        BY LenProperties DEF StepPushes
    <2>2. e \in Search!ToSet(new)
        BY <2>1 DEF Search!ToSet
    <2> QED
        BY <2>1, <2>2 DEF StepPushes
<1>3. p = Append(way, e)
    BY DEF StepPushes
<1> HIDE DEF p, e, way
<1>4. /\ p \in Seq(SearchNodes) /\ Len(p) = n + 1 /\ p[n + 1] = e
      /\ \A k \in 1..n : p[k] = way[k]
    BY <1>1, <1>2, <1>3, AppendProperties
<1>5. Search!Edge(way[n], e)
    BY <1>2 DEF Ends, Goal
<1>6. e \in visited' /\ visited \subseteq visited'
    BY <1>2 DEF StepPushes
<1> HIDE DEF n
<1>7. \A k \in 1..n : p[k] \in visited
    BY <1>1, <1>4 DEF Way, n
<1>8. \A k \in 1..(n + 1) : k = n + 1 \/ k \in 1..n
    BY <1>1
<1>9. \A k \in 1..(n + 1) : p[k] \in visited'
    BY <1>4, <1>6, <1>7, <1>8
<1>10. \A j \in 1..(n + 1), k \in 1..(n + 1) : p[j] = p[k] => j = k
    <2>1. \A j \in 1..n, k \in 1..n : p[j] = p[k] => j = k
        BY <1>1, <1>4 DEF Way, n
    <2>2. \A k \in 1..n : p[k] # p[n + 1]
        BY <1>2, <1>4, <1>7
    <2> QED
        BY <1>8, <2>1, <2>2
<1>11. \A k \in 1..n : Search!Edge(p[k], p[k + 1])
    <2> SUFFICES ASSUME NEW k \in 1..n
                 PROVE  Search!Edge(p[k], p[k + 1])
        OBVIOUS
    <2>1. CASE k = n
        BY <1>1, <1>4, <1>5, <2>1
    <2>2. CASE k # n
        <3>1. k \in 1..(n - 1) /\ k + 1 \in 1..n
            BY <1>1, <2>2
        <3>2. Search!Edge(way[k], way[k + 1])
            BY <1>1, <3>1 DEF Way, n
        <3> QED
            BY <1>4, <3>1, <3>2
    <2> QED
        BY <2>1, <2>2
<1>13. p[1] = Start /\ Len(p) >= 1 /\ Len(p) - 1 = n
    <2>1. 1 \in 1..n /\ way[1] = Start
        BY <1>1 DEF Way
    <2> QED
        BY <1>1, <1>4, <2>1
<1>14. Way(p, visited')
    BY <1>4, <1>9, <1>10, <1>11, <1>13 DEF Way
<1>15. Goal(p) = e
    BY <1>4 DEF Goal
<1> QED
    BY <1>2, <1>4, <1>14, <1>15 DEF p, e, n, way

LEMMA WaysStay ==
    ASSUME NEW p, NEW S, NEW T, S \subseteq T, Way(p, S)
    PROVE  Way(p, T)
BY DEF Way

LEMMA WaysAreShort ==
    ASSUME NEW p, NEW S, Way(p, S)
    PROVE  Len(p) \in 1..Size
<1>1. Len(p) \in Nat /\ Len(p) >= 1
    BY LenProperties DEF Way
<1>2. Len(p) <= Size
    BY SearchConstants, DistinctCounts DEF Way, Size
<1> QED
    BY <1>1, <1>2, SearchConstants

\* Its nodes are reached, each by an edge more than the one before it.
LEMMA WayReaches ==
    ASSUME NEW p, NEW S, Way(p, S)
    PROVE  Goal(p) \in Search!Reached[Size]
<1> DEFINE n == Len(p)
           T == {k \in 0..(n - 1) : p[k + 1] \in Search!Reached[k]}
<1>1. n \in 1..Size /\ Size \in Nat
    BY WaysAreShort, SearchConstants
<1>2. 0 \in T
    <2>1. p[0 + 1] = Start /\ 0 \in 0..(n - 1)
        BY <1>1 DEF Way
    <2> QED
        BY <2>1, ReachedTurns
<1>3. ASSUME NEW k \in 0..((n - 1) - 1), k \in T
      PROVE  k + 1 \in T
    <2>1. k + 1 \in 1..(n - 1) /\ k + 1 \in 1..Size /\ k + 1 \in 0..(n - 1) /\ (k + 1) - 1 = k
          /\ k + 2 \in 1..n /\ (k + 1) + 1 = k + 2
        BY <1>1
    <2>2. Search!Edge(p[k + 1], p[k + 2]) /\ p[k + 2] \in SearchNodes
        <3>1. Search!Edge(p[k + 1], p[(k + 1) + 1]) /\ p \in Seq(SearchNodes)
            BY <2>1 DEF Way
        <3> QED
            BY <2>1, <3>1, LenProperties
    <2>3. Search!Reached[k + 1] = Search!Reached[k] \cup Ends(Search!Reached[k])
        BY <2>1, ReachedTurns
    <2> QED
        BY <1>3, <2>1, <2>2, <2>3 DEF Ends
<1>4. \A k \in 0..(n - 1) : k \in T
    <2>1. n - 1 \in Nat
        BY <1>1
    <2> HIDE DEF T, n
    <2> QED
        BY <1>2, <1>3, <2>1, UpTo
<1>5. n - 1 \in 0..(n - 1) /\ (n - 1) + 1 = n /\ n - 1 \in 0..Size /\ Size \in 0..Size
    BY <1>1
<1>6. Goal(p) \in Search!Reached[n - 1]
    BY <1>4, <1>5 DEF Goal
<1> QED
    BY <1>5, <1>6, ReachedGrows

LEMMA StepKeepsQueue ==
    ASSUME QueueInv, Search!Step
    PROVE  QueueInv'
<1>1. queue # << >> /\ Goal(queue[1]) # Dest /\ UNCHANGED cost
    BY StepDoes
<1>2. PICK new, paths : StepPushes(queue[1], new, paths)
    BY StepDoes
<1> DEFINE n == Len(queue)
           m == Len(new)
<1>3. n \in Nat \ {0} /\ m \in Nat /\ Len(paths) = m
    BY <1>1, <1>2, QueueHead, LenProperties DEF StepPushes
<1>4. /\ queue' \in Seq(Seq(SearchNodes))
      /\ \A k \in 1..Len(queue') : \/ \E j \in 2..n : queue'[k] = queue[j]
                                   \/ \E i \in 1..m : queue'[k] = paths[i]
      /\ \A j \in 2..n : \E k \in 1..Len(queue') : queue'[k] = queue[j]
      /\ \A i \in 1..m : \E k \in 1..Len(queue') : queue'[k] = paths[i]
    <2>1. queue' = Search!Pushed(paths) /\ paths \in Seq(Seq(SearchNodes))
        BY <1>2 DEF StepPushes
    <2> QED
        <3>1. queue \in Seq(Seq(SearchNodes))
            BY DEF QueueInv
        <3>2. LET pushed == Search!Pushed(paths) IN
              /\ pushed \in Seq(Seq(SearchNodes)) /\ Len(pushed) = Len(queue) - 1 + Len(paths)
              /\ \A k \in 1..Len(pushed) : \/ \E j \in 2..Len(queue) : pushed[k] = queue[j]
                                           \/ \E i \in 1..Len(paths) : pushed[k] = paths[i]
              /\ \A j \in 2..Len(queue) : \E k \in 1..Len(pushed) : pushed[k] = queue[j]
              /\ \A i \in 1..Len(paths) : \E k \in 1..Len(pushed) : pushed[k] = paths[i]
            BY <1>1, <2>1, <3>1, PushedHas
        <3> QED
            BY <1>3, <2>1, <3>2
<1>5. /\ visited' = visited \cup Search!ToSet(new) /\ Search!ToSet(new) = Ends({Goal(queue[1])}) \ visited
      /\ Search!ToSet(new) = {new[i] : i \in 1..m}
    BY <1>2, LenProperties DEF StepPushes, Search!ToSet
<1>6. \A i \in 1..m : Way(paths[i], visited') /\ Goal(paths[i]) = new[i]
    BY <1>1, <1>2, PushedAreWays
<1>7. \A j \in 2..n : Way(queue[j], visited')
    <2>1. \A j \in 2..n : Way(queue[j], visited)
        BY <1>3 DEF QueueInv
    <2> QED
        BY <1>1, <1>5, <2>1, WaysStay
<1>8. \A k \in 1..Len(queue') : Way(queue'[k], visited')
    BY <1>4, <1>6, <1>7
<1>9. visited' \subseteq SearchNodes /\ Start \in visited'
    BY <1>5 DEF QueueInv, Ends
<1> DEFINE Open(v) == \E k \in 1..Len(queue') : Goal(queue'[k]) = v
           Closed(v) == v # Dest /\ Ends({v}) \subseteq visited'
<1>10. ASSUME NEW v \in visited'
       PROVE  Open(v) \/ Closed(v)
    <2>1. CASE v \notin visited
        <3>1. PICK i \in 1..m : v = new[i]
            BY <1>5, <2>1, <1>10
        <3>2. PICK k \in 1..Len(queue') : queue'[k] = paths[i]
            BY <1>4
        <3> QED
            BY <1>6, <3>1, <3>2
    <2>2. ASSUME NEW k \in 1..n, Goal(queue[k]) = v
          PROVE  Open(v) \/ Closed(v)
        <3>1. CASE k = 1
            BY <1>1, <1>5, <2>2, <3>1
        <3>2. CASE k # 1
            <4>1. k \in 2..n
                BY <1>3, <3>2
            <4> QED
                BY <1>4, <2>2, <4>1
        <3> QED
            BY <3>1, <3>2
    <2>3. CASE v # Dest /\ Ends({v}) \subseteq visited
        BY <1>5, <2>3
    <2> QED
        BY <2>1, <2>2, <2>3 DEF QueueInv
<1>11. (\A v \in visited :
           \/ \E k \in 1..Len(queue) : Goal(queue[k]) = v
           \/ v # Dest /\ Ends({v}) \subseteq visited)'
    BY <1>1, <1>10 DEF Goal, Ends, Search!Edge
<1>12. (\A k \in 1..Len(queue) : Way(queue[k], visited))'
    BY <1>1, <1>8 DEF Way, Search!Edge
<1> QED
    BY <1>4, <1>9, <1>11, <1>12 DEF QueueInv

\* A breadth first search goes on from ways in the order of their lengths, which are the
\* least there are: what fewer edges lead to than to the head was visited.
BreadthInv ==
    /\ \A j \in 1..Len(queue), k \in 1..Len(queue) : j < k => Len(queue[j]) <= Len(queue[k])
    /\ \A k \in 1..Len(queue) : Len(queue[k]) <= Len(queue[1]) + 1
    /\ \A k \in 1..Len(queue) : \A j \in 0..(Len(queue[k]) - 2) : Goal(queue[k]) \notin Search!Reached[j]
    /\ queue # << >> => Search!Reached[Len(queue[1]) - 1] \subseteq visited

LEMMA ReachedStays ==
    ASSUME UNCHANGED cost
    PROVE  Search!Reached' = Search!Reached
BY DEF Search!Reached, Search!Edge

LEMMA StepKeepsBreadth ==
    ASSUME QueueInv, BreadthInv, search = "breadth", Search!Step
    PROVE  BreadthInv'
<1>1. queue # << >> /\ UNCHANGED cost
    BY StepDoes
<1>2. PICK new, paths : StepPushes(queue[1], new, paths)
    BY StepDoes
<1> DEFINE n == Len(queue)
           m == Len(new)
           L == Len(queue[1])
<1>3. /\ n \in Nat \ {0} /\ m \in Nat /\ Len(paths) = m /\ L \in 1..Size /\ Size \in Nat
      /\ \A k \in 1..n : Len(queue[k]) \in Nat
    <2>1. \A k \in 1..n : Way(queue[k], visited)
        BY DEF QueueInv
    <2>2. \A k \in 1..n : Len(queue[k]) \in 1..Size
        BY <2>1, WaysAreShort
    <2>3. n \in Nat \ {0} /\ m \in Nat /\ Len(paths) = m
        BY <1>1, <1>2, QueueHead, LenProperties DEF StepPushes
    <2> HIDE DEF n, m
    <2> QED
        BY <2>2, <2>3, SearchConstants
<1>4. /\ Len(queue') = n - 1 + m
      /\ \A k \in 1..(n - 1 + m) : queue'[k] = IF k < n THEN queue[k + 1] ELSE paths[k - n + 1]
    <2>1. queue' = Search!Pushed(paths) /\ paths \in Seq(Seq(SearchNodes)) /\ queue \in Seq(Seq(SearchNodes))
        BY <1>2 DEF StepPushes, QueueInv
    <2>2. LET pushed == Search!Pushed(paths) IN
          /\ Len(pushed) = n - 1 + Len(paths)
          /\ \A k \in 1..Len(pushed) :
                pushed[k] = IF k < n THEN queue[k + 1] ELSE paths[k - n + 1]
        BY <1>1, <2>1, PushedHas
    <2> QED
        BY <1>3, <2>1, <2>2
<1>5. \A i \in 1..m : Goal(paths[i]) = new[i] /\ new[i] \notin visited /\ Len(paths[i]) = L + 1
    BY <1>1, <1>2, PushedAreWays
<1>6. Search!Reached[L - 1] \subseteq visited
    BY <1>1 DEF BreadthInv
<1>7. visited \subseteq visited' /\ Ends({Goal(queue[1])}) \subseteq visited'
    BY <1>2 DEF StepPushes
<1>8. \A k \in 1..n : L <= Len(queue[k]) /\ Len(queue[k]) <= L + 1
    <2>1. \A k \in 1..n : k = 1 \/ 1 < k
        BY <1>3
    <2> QED
        BY <1>3, <2>1 DEF BreadthInv
<1> HIDE DEF n, m, L
<1>9. ASSUME NEW k \in 1..(n - 1 + m)
      PROVE  \/ k < n /\ k + 1 \in 1..n /\ queue'[k] = queue[k + 1]
             \/ k >= n /\ k - n + 1 \in 1..m /\ queue'[k] = paths[k - n + 1]
    BY <1>3, <1>4
<1>10. \A k \in 1..(n - 1 + m) : L <= Len(queue'[k]) /\ Len(queue'[k]) <= L + 1 /\ Len(queue'[k]) \in Nat
    <2> SUFFICES ASSUME NEW k \in 1..(n - 1 + m)
                 PROVE  L <= Len(queue'[k]) /\ Len(queue'[k]) <= L + 1 /\ Len(queue'[k]) \in Nat
        OBVIOUS
    <2>1. CASE k < n /\ k + 1 \in 1..n /\ queue'[k] = queue[k + 1]
        BY <1>3, <1>8, <2>1
    <2>2. CASE k >= n /\ k - n + 1 \in 1..m /\ queue'[k] = paths[k - n + 1]
        <3>1. Len(queue'[k]) = L + 1
            BY <1>5, <2>2
        <3> QED
            BY <1>3, <3>1
    <2> QED
        BY <1>9, <2>1, <2>2
<1>11. ASSUME NEW j \in 1..(n - 1 + m), NEW k \in 1..(n - 1 + m), j < k
       PROVE  Len(queue'[j]) <= Len(queue'[k])
    <2>1. CASE k < n
        <3>1. j + 1 \in 1..n /\ k + 1 \in 1..n /\ j + 1 < k + 1
            BY <1>3, <1>11, <2>1
        <3>2. queue'[j] = queue[j + 1] /\ queue'[k] = queue[k + 1]
            BY <1>3, <1>4, <1>11, <2>1
        <3> QED
            BY <3>1, <3>2 DEF BreadthInv, n
    <2>2. CASE k >= n
        <3>1. Len(queue'[k]) = L + 1
            BY <1>3, <1>5, <1>9, <2>2
        <3> QED
            BY <1>10, <3>1
    <2> QED
        BY <1>3, <2>1, <2>2
<1>12. \A k \in 1..(n - 1 + m) : Len(queue'[k]) <= Len(queue'[1]) + 1
    <2> SUFFICES ASSUME NEW k \in 1..(n - 1 + m)
                 PROVE  Len(queue'[k]) <= Len(queue'[1]) + 1
        OBVIOUS
    <2>1. 1 \in 1..(n - 1 + m)
        BY <1>3
    <2> QED
        BY <1>3, <1>10, <2>1
<1>13. ASSUME NEW k \in 1..(n - 1 + m), NEW j \in 0..(Len(queue'[k]) - 2)
       PROVE  Goal(queue'[k]) \notin Search!Reached[j]
    <2>1. CASE k < n
        <3>1. k + 1 \in 1..n /\ queue'[k] = queue[k + 1]
            BY <1>9, <2>1, <1>3
        <3> QED
            BY <1>13, <3>1 DEF BreadthInv, n
    <2>2. CASE k >= n
        <3>1. k - n + 1 \in 1..m /\ queue'[k] = paths[k - n + 1]
            BY <1>3, <1>9, <2>2
        <3>2. Len(queue'[k]) = L + 1 /\ Goal(queue'[k]) \notin visited
            BY <1>5, <3>1
        <3>3. j \in 0..(L - 1) /\ L - 1 \in 0..Size
            BY <1>3, <1>13, <3>2
        <3>4. Search!Reached[j] \subseteq Search!Reached[L - 1]
            BY <3>3, ReachedGrows
        <3> QED
            BY <1>6, <3>2, <3>4
    <2> QED
        BY <1>3, <2>1, <2>2
<1>14. ASSUME queue' # << >>
       PROVE  Search!Reached[Len(queue'[1]) - 1] \subseteq visited'
    <2>1. 1 \in 1..(n - 1 + m)
        <3>1. queue' \in Seq(Seq(SearchNodes))
            BY StepKeepsQueue DEF QueueInv
        <3>2. n - 1 + m \in Nat \ {0}
            BY <1>4, <1>14, <3>1, EmptySeq
        <3> QED
            BY <3>2
    <2>2. CASE Len(queue'[1]) = L
        BY <1>6, <1>7, <2>2
    <2>3. CASE Len(queue'[1]) = L + 1
        <3>1. Search!Reached[L] = Search!Reached[L - 1] \cup Ends(Search!Reached[L - 1])
            BY <1>3, ReachedTurns
        <3>2. ASSUME NEW s \in Search!Reached[L - 1]
              PROVE  Ends({s}) \subseteq visited'
            <4>1. ASSUME NEW k \in 1..n, Goal(queue[k]) = s
                  PROVE  k = 1
                <5> SUFFICES ASSUME k # 1
                             PROVE  FALSE
                    OBVIOUS
                <5>1. 1 < n /\ 2 \in 1..n /\ (k = 2 \/ 2 < k)
                    BY <1>3
                <5>2. queue'[1] = queue[2]
                    <6>1. 1 + 1 = 2
                        OBVIOUS
                    <6> QED
                        BY <1>4, <2>1, <5>1, <6>1
                <5>3. Len(queue[2]) <= Len(queue[k])
                    BY <1>3, <5>1 DEF BreadthInv, n
                <5>4. L - 1 \in 0..(Len(queue[k]) - 2)
                    BY <1>3, <2>3, <5>1, <5>2, <5>3
                <5> QED
                    BY <4>1, <5>4 DEF BreadthInv, n
            <4>2. s \in visited
                BY <1>6
            <4>3. \/ \E k \in 1..n : Goal(queue[k]) = s
                  \/ Ends({s}) \subseteq visited
                BY <4>2 DEF QueueInv, n
            <4> QED
                BY <1>7, <4>1, <4>3
        <3>3. Search!Reached[L] \subseteq visited'
            BY <1>6, <1>7, <3>1, <3>2 DEF Ends
        <3>4. (L + 1) - 1 = L
            BY <1>3
        <3> QED
            BY <2>3, <3>3, <3>4
    <2>4. Len(queue'[1]) = L \/ Len(queue'[1]) = L + 1
        BY <1>3, <1>10, <2>1
    <2> QED
        BY <2>2, <2>3, <2>4
<1>15. Search!Reached' = Search!Reached
    BY <1>1, ReachedStays
<1> QED
    BY <1>4, <1>11, <1>12, <1>13, <1>14, <1>15 DEF BreadthInv, Goal

\* A way to the destination is what a search is for.
LEMMA WayIsPath ==
    ASSUME NEW p, NEW S, Way(p, S), Goal(p) = Dest
    PROVE  Search!IsPath(p) /\ p # << >> /\ p # Search!NotFound /\ p # Search!Throws
<1>1. /\ p \in Seq(SearchNodes) /\ Len(p) \in Nat \ {0} /\ p[1] = Start
      /\ \A j \in 1..Len(p), k \in 1..Len(p) : p[j] = p[k] => j = k
    BY LenProperties DEF Way
<1>2. Head(p) = Start /\ Search!Last(p) = Dest /\ p # << >>
    BY <1>1, EmptySeq DEF Search!Last, Goal
<1>3. Cardinality(Search!ToSet(p)) = Len(p)
    BY <1>1, DistinctCounts
<1>4. Search!Cardinality(Search!ToSet(p)) = Len(p)
    BY <1>3 DEF Search!Cardinality, Cardinality
<1>5. Search!IsPath(p)
    BY <1>2, <1>4 DEF Search!IsPath, Way
<1>6. Search!NotFound[1] = 0 /\ Search!Throws[1] = -1 /\ Start # 0 /\ Start # -1
    BY SearchConstants DEF Search!NotFound, Search!Throws
<1> QED
    BY <1>1, <1>2, <1>5, <1>6

\* What a search answers without a path.
LEMMA EndsApart ==
    /\ Search!NotFound # Search!Throws
    /\ Search!NotFound' = Search!NotFound /\ Search!Throws' = Search!Throws
<1>1. Search!NotFound[1] = 0 /\ Search!Throws[1] = -1
    BY DEF Search!NotFound, Search!Throws
<1> QED
    BY <1>1 DEF Search!NotFound, Search!Throws

\* What FindsPath asks of a search that ends without a path.
LEMMA NothingFound ==
    ASSUME result' = Search!NotFound, Dest \notin Search!Reached'[Size]
    PROVE  Search!FindsPath'
BY EndsApart, SearchConstants DEF Search!FindsPath

LEMMA AbsentFound ==
    ASSUME result' = Search!Throws, NEW n \in absent' \ {Dest}, n \in Search!Reached'[Size]
    PROVE  Search!FindsPath'
BY EndsApart, SearchConstants DEF Search!FindsPath

LEMMA QueueEnds ==
    ASSUME QueueInv, search = "breadth" => BreadthInv, Search!End
    PROVE  Search!FindsPath' /\ UNCHANGED << search, cost, queue, visited >>
<1>1. search # "astar" /\ UNCHANGED << search, absent, cost, queue, visited >>
    BY DEF Search!End, Search!given
<1>2. Search!Reached' = Search!Reached
    BY <1>1, ReachedStays
<1> SUFFICES Search!FindsPath'
    BY <1>1
<1>3. CASE queue = << >> /\ result' = Search!NotFound
    <2>1. Ends(visited) \subseteq visited /\ Dest \notin visited /\ Start \in visited
        <3>1. \A k \in 1..Len(queue) : FALSE
            BY <1>3
        <3>2. \A v \in visited : v # Dest /\ Ends({v}) \subseteq visited
            BY <3>1 DEF QueueInv
        <3> QED
            BY <3>2 DEF QueueInv, Ends
    <2>2. Search!Reached[Size] \subseteq visited
        <3>1. Size \in 0..Size
            BY SearchConstants
        <3> QED
            BY <2>1, <3>1, ReachedWithin
    <2>3. Dest \notin Search!Reached'[Size]
        BY <1>2, <2>1, <2>2
    <2> QED
        BY <1>3, <2>3, NothingFound
<1>4. CASE queue # << >> /\ Search!Last(Head(queue)) = Dest /\ result' = Head(queue)
    <2> DEFINE p == queue[1]
    <2>1. Way(p, visited) /\ result' = p /\ Goal(p) = Dest
        BY <1>4, QueueHead DEF Search!Last, Goal, QueueInv
    <2>2. Search!IsPath(p) /\ p # << >> /\ p # Search!NotFound /\ p # Search!Throws
        BY <2>1, WayIsPath
    <2>3. search = "breadth" => \A k \in 0..(Len(p) - 2) : Dest \notin Search!Reached[k]
        <3>1. 1 \in 1..Len(queue)
            BY <1>4, QueueHead
        <3> QED
            BY <2>1, <3>1 DEF BreadthInv
    <2> HIDE DEF p
    <2>4. Search!IsPath(result)'
        BY <1>1, <2>1, <2>2 DEF Search!IsPath, Search!Edge
    <2>5. search' # "astar" /\ Search!NotFound' = Search!NotFound /\ Search!Throws' = Search!Throws
        BY <1>1 DEF Search!NotFound, Search!Throws
    <2>6. search' = "breadth" => \A k \in 0..(Len(result') - 2) : Dest \notin Search!Reached'[k]
        BY <1>1, <1>2, <2>1, <2>3
    <2> QED
        BY <2>1, <2>2, <2>4, <2>5, <2>6 DEF Search!FindsPath
<1>5. CASE queue # << >> /\ Search!Last(Head(queue)) \in absent \ {Dest} /\ result' = Search!Throws
    <2> DEFINE p == queue[1]
    <2>1. Way(p, visited) /\ Goal(p) \in absent \ {Dest}
        BY <1>5, QueueHead DEF Search!Last, Goal, QueueInv
    <2>2. Goal(p) \in Search!Reached[Size]
        BY <2>1, WayReaches
    <2> HIDE DEF p
    <2> QED
        BY <1>1, <1>2, <1>5, <2>1, <2>2, AbsentFound
<1> QED
    BY <1>1, <1>3, <1>4, <1>5 DEF Search!End

-----------------------------------------------------------------------------
(* A* *)

Known == openset \cup closedset

\* The node that n was reached from is done with, and n costs an edge more.
Follows(c, n) ==
    c \in closedset /\ Search!Edge(c, n) /\ g_score[n] = g_score[c] + cost[<< c, n >>]

\* A node is reached from one that was done with before it was, whatever the two cost.
Ranked(rank, t) ==
    /\ rank \in [SearchNodes -> Nat] /\ t \in Nat
    /\ \A n \in openset : rank[n] = t
    /\ \A n \in closedset : rank[n] < t
    /\ \A n \in Known \ {Start} : rank[came_from[n]] < rank[n]

\* The node that A* took last is done with, unless it has taken none.
AStarInv ==
    /\ openset \subseteq SearchNodes /\ closedset \subseteq SearchNodes /\ openset \cap closedset = {}
    /\ Dest \notin closedset /\ Ends(closedset) \subseteq Known
    /\ \/ openset = {Start} /\ closedset = {}
       \/ Start \in closedset /\ current \in closedset
    /\ \A arc \in DOMAIN cost : cost[arc] \in Int
    /\ heur \in [SearchNodes -> Int] /\ heur[Start] < MaxInt
    /\ g_score \in [SearchNodes -> Int] /\ came_from \in [SearchNodes -> Nat] /\ g_score[Start] = 0
    /\ \A n \in Known \ {Start} : Follows(came_from[n], n)
    /\ \E rank, t : Ranked(rank, t)

\* What A* takes, first the start, has been seen before.
LEMMA CurrentIsKnown ==
    ASSUME AStarInv, openset # {}
    PROVE  /\ Search!Current \in Known /\ Search!Current \in SearchNodes
           /\ closedset = {} => Search!Current = Start
<1> DEFINE less == {n \in openset : g_score[n] + heur[n] < MaxInt}
<1>1. less \in SUBSET Nat /\ IsFiniteSet(less) /\ less \subseteq openset
    <2>1. less \subseteq SearchNodes /\ less \subseteq openset
        BY DEF AStarInv
    <2> HIDE DEF less
    <2> QED
        BY <2>1, SearchConstants, FS_Subset
<1>2. closedset = {} => less = {Start}
    <2> SUFFICES ASSUME closedset = {}
                 PROVE  less = {Start}
        OBVIOUS
    <2>1. openset = {Start} /\ g_score[Start] = 0 /\ heur[Start] \in Int /\ heur[Start] < MaxInt
        BY SearchConstants DEF AStarInv
    <2>2. 0 + heur[Start] < MaxInt
        BY <2>1, SearchConstants
    <2> QED
        BY <2>1, <2>2
<1>3. Search!Current = IF less = {} THEN current ELSE Search!Max(less)
    BY DEF Search!Current
<1> HIDE DEF less
<1>4. less # {} => Search!Max(less) \in less
    <2> SUFFICES ASSUME less # {}
                 PROVE  Search!Max(less) \in less
        OBVIOUS
    <2>1. \E x \in less : \A y \in less : x >= y
        BY <1>1, HasGreatest
    <2> QED
        BY <2>1 DEF Search!Max
<1>5. CASE less = {}
    <2>1. closedset # {}
        BY <1>2, <1>5
    <2>2. current \in closedset
        BY <2>1 DEF AStarInv
    <2> QED
        BY <1>3, <1>5, <2>1, <2>2 DEF AStarInv, Known
<1>6. CASE less # {}
    <2>1. Search!Current \in less
        BY <1>3, <1>4, <1>6
    <2> QED
        BY <1>1, <1>2, <2>1 DEF AStarInv, Known
<1> QED
    BY <1>5, <1>6

\* A step of A*: it takes c, from which there is a better way to each node of better.
Takes(c, better) ==
    /\ c \in Known /\ c \in SearchNodes /\ c # Dest /\ UNCHANGED << cost, heur >>
    /\ better \subseteq SearchNodes \ (closedset \cup {c}) /\ Start \notin better
    /\ \A n \in better : Search!Edge(c, n) /\ g_score[c] + cost[<< c, n >>] \in Int
    /\ \A n \in SearchNodes : Search!Edge(c, n) => n \in better \/ n \in Known
    /\ openset' = (openset \ {c}) \cup better /\ closedset' = closedset \cup {c} /\ current' = c
    /\ came_from' = [n \in SearchNodes |-> IF n \in better THEN c ELSE came_from[n]]
    /\ g_score' = [n \in SearchNodes |-> IF n \in better THEN g_score[c] + cost[<< c, n >>] ELSE g_score[n]]
    /\ Start \in closedset'

LEMMA AStarTakes ==
    ASSUME AStarInv, Search!AStarStep
    PROVE  Takes(Search!Current, Search!Better)
<1> DEFINE c == Search!Current
           B == Search!Better
           T(n) == g_score[c] + cost[<< c, n >>]
<1>1. /\ openset # {} /\ c # Dest /\ UNCHANGED << cost, heur >>
      /\ openset' = (openset \ {c}) \cup B /\ closedset' = closedset \cup {c} /\ current' = c
      /\ came_from' = [n \in SearchNodes |-> IF n \in B THEN c ELSE came_from[n]]
    BY DEF Search!AStarStep, Search!given
<1>2. g_score' = [n \in SearchNodes |-> IF n \in B THEN T(n) ELSE g_score[n]]
    BY DEF Search!AStarStep, Search!Tentative
<1>3. c \in Known /\ c \in SearchNodes /\ (closedset = {} => c = Start)
    BY <1>1, CurrentIsKnown
<1>4. /\ B \subseteq SearchNodes \ (closedset \cup {c})
      /\ \A n \in B : Search!Edge(c, n)
      /\ \A n \in SearchNodes : Search!Edge(c, n) => n \in B \/ n \in openset \/ n \in closedset \/ n = c
    BY DEF Search!Better
<1> HIDE DEF c, B
<1>5. \A n \in B : T(n) \in Int
    BY <1>3, <1>4 DEF AStarInv, Search!Edge
<1>6. Start \in closedset'
    BY <1>1, <1>3 DEF AStarInv
<1>7. Start \notin B
    BY <1>1, <1>4, <1>6
<1>8. Takes(c, B)
    BY <1>1, <1>2, <1>3, <1>4, <1>5, <1>6, <1>7 DEF Takes, Known
<1> QED
    BY <1>8 DEF c, B

\* The nodes of openset are the last to be done with.
LEMMA RanksContinue ==
    ASSUME AStarInv, NEW c, NEW better, Takes(c, better)
    PROVE  \E rank, t : Ranked(rank, t)'
<1>1. PICK rank, t : Ranked(rank, t)
    BY DEF AStarInv
<1> DEFINE later == [n \in SearchNodes |-> IF n \in openset' THEN t + 1 ELSE rank[n]]
<1>2. /\ openset \subseteq SearchNodes /\ closedset \subseteq SearchNodes /\ openset \cap closedset = {}
      /\ rank \in [SearchNodes -> Nat] /\ t \in Nat
      /\ \A n \in openset : rank[n] = t
      /\ \A n \in closedset : rank[n] < t
      /\ \A n \in Known \ {Start} : rank[came_from[n]] < rank[n] /\ came_from[n] \in closedset
    BY <1>1 DEF Ranked, AStarInv, Follows
<1>3. /\ c \in Known /\ c \in SearchNodes /\ better \subseteq SearchNodes \ (closedset \cup {c})
      /\ openset' = (openset \ {c}) \cup better /\ closedset' = closedset \cup {c}
      /\ Known' = Known \cup better /\ openset' \subseteq SearchNodes /\ closedset' \subseteq SearchNodes
      /\ \A n \in SearchNodes : came_from'[n] = IF n \in better THEN c ELSE came_from[n]
    BY <1>2 DEF Takes, Known
<1>4. openset' \cap closedset' = {}
    BY <1>2, <1>3
<1>5. \A n \in SearchNodes : later[n] = IF n \in openset' THEN t + 1 ELSE rank[n]
    OBVIOUS
<1>6. later \in [SearchNodes -> Nat] /\ t + 1 \in Nat
    BY <1>2
<1> HIDE DEF later
<1>7. \A n \in closedset' : later[n] = rank[n] /\ rank[n] \in Nat /\ rank[n] < t + 1
    <2>1. \A n \in closedset' : n \in SearchNodes /\ n \notin openset' /\ rank[n] \in Nat /\ rank[n] <= t
        BY <1>2, <1>3, <1>4 DEF Known
    <2> QED
        BY <1>2, <1>5, <2>1
<1>8. \A n \in openset' : later[n] = t + 1
    BY <1>3, <1>5
<1>9. ASSUME NEW n \in Known' \ {Start}
      PROVE  later[came_from'[n]] < later[n]
    <2>1. n \in SearchNodes /\ (n \in openset' \/ n \in closedset')
        BY <1>3 DEF Known
    <2>2. came_from'[n] \in closedset'
        <3>1. CASE n \in better
            BY <1>3, <2>1, <3>1
        <3>2. CASE n \notin better
            <4>1. n \in Known \ {Start}
                BY <1>3, <3>2
            <4> QED
                BY <1>2, <1>3, <2>1, <3>2, <4>1
        <3> QED
            BY <3>1, <3>2
    <2>3. CASE n \in openset'
        BY <1>7, <1>8, <2>2, <2>3
    <2>4. CASE n \in closedset'
        <3>1. n \notin better /\ n \in Known \ {Start}
            BY <1>3, <1>4, <2>4
        <3>2. came_from'[n] = came_from[n] /\ rank[came_from[n]] < rank[n]
            BY <1>2, <1>3, <2>1, <3>1
        <3> QED
            BY <1>7, <2>2, <2>4, <3>2
    <2> QED
        BY <2>1, <2>3, <2>4
<1>10. PICK f : f = later
    OBVIOUS
<1>11. Ranked(f, t + 1)'
    BY <1>6, <1>7, <1>8, <1>9, <1>10 DEF Ranked
<1> QED
    BY <1>11

LEMMA AStarContinues ==
    ASSUME AStarInv, Search!AStarStep
    PROVE  AStarInv'
<1>1. PICK c, B : Takes(c, B)
    BY AStarTakes
<1>2. Known' = Known \cup B
    BY <1>1 DEF Known, Takes
<1>3. \A s, e : Search!Edge(s, e)' <=> Search!Edge(s, e)
    BY <1>1 DEF Search!Edge, Takes
<1>4. /\ openset' \subseteq SearchNodes /\ closedset' \subseteq SearchNodes
      /\ openset' \cap closedset' = {} /\ Dest \notin closedset'
      /\ Start \in closedset' /\ current' \in closedset'
    BY <1>1 DEF AStarInv, Takes, Known
<1>5. Ends(closedset)' \subseteq Known'
    <2>1. \A e \in Ends(closedset)' : e \in Ends(closedset) \/ (e \in SearchNodes /\ Search!Edge(c, e))
        BY <1>1, <1>3 DEF Ends, Takes
    <2> QED
        BY <1>1, <1>2, <2>1 DEF AStarInv, Takes
<1>6. /\ \A arc \in DOMAIN cost' : cost'[arc] \in Int
      /\ heur' \in [SearchNodes -> Int] /\ heur'[Start] < MaxInt
    BY <1>1 DEF AStarInv, Takes
<1>7. /\ g_score' \in [SearchNodes -> Int] /\ came_from' \in [SearchNodes -> Nat]
      /\ g_score'[Start] = 0
    <2>1. c \in Nat /\ Start \in SearchNodes
        BY <1>1, SearchConstants DEF Takes
    <2> QED
        BY <1>1, <2>1 DEF AStarInv, Takes
<1>8. ASSUME NEW n \in Known' \ {Start}
      PROVE  Follows(came_from[n], n)'
    <2>1. n \in SearchNodes /\ c \in SearchNodes /\ c \in closedset' /\ c \notin B
        BY <1>1, <1>2 DEF Known, AStarInv, Takes
    <2>2. CASE n \in B
        <3>1. came_from'[n] = c /\ g_score'[n] = g_score[c] + cost[<< c, n >>] /\ g_score'[c] = g_score[c]
            BY <1>1, <2>1, <2>2 DEF Takes
        <3>2. Search!Edge(c, n) /\ cost' = cost
            BY <1>1, <2>2 DEF Takes
        <3> QED
            BY <1>3, <2>1, <3>1, <3>2 DEF Follows
    <2>3. CASE n \notin B
        <3> DEFINE d == came_from[n]
        <3>1. Follows(d, n)
            BY <1>2, <2>3 DEF AStarInv
        <3>2. d \in closedset /\ d \in SearchNodes /\ d \notin B
            BY <1>1, <3>1 DEF Follows, AStarInv, Takes
        <3>3. came_from'[n] = d /\ g_score'[n] = g_score[n] /\ g_score'[d] = g_score[d]
            BY <1>1, <2>1, <2>3, <3>2 DEF Takes
        <3>4. d \in closedset' /\ cost' = cost
            BY <1>1, <3>2 DEF Takes
        <3> HIDE DEF d
        <3> QED
            BY <1>3, <3>1, <3>3, <3>4 DEF Follows
    <2> QED
        BY <2>2, <2>3
<1>9. (\E rank, t : Ranked(rank, t))'
    BY <1>1, RanksContinue
<1> QED
    BY <1>4, <1>5, <1>6, <1>7, <1>8, <1>9 DEF AStarInv

\* A way back to where came_from leads from, which the start has not.
Trail(p, d) ==
    /\ p \in Seq(SearchNodes) /\ p # << >> /\ p[Len(p)] = d
    /\ \A k \in 1..Len(p) : p[k] \in Known
    /\ \A k \in 1..(Len(p) - 1) : p[k + 1] # Start /\ p[k] = came_from[p[k + 1]]

LEMMA TrailFollows ==
    ASSUME AStarInv, NEW d, NEW p, Trail(p, d), NEW k \in 1..(Len(p) - 1)
    PROVE  Follows(p[k], p[k + 1])
<1>1. Len(p) \in Nat
    BY LenProperties DEF Trail
<1>2. k + 1 \in 1..Len(p)
    BY <1>1
<1>3. p[k + 1] \in Known \ {Start} /\ p[k] = came_from[p[k + 1]]
    BY <1>2 DEF Trail
<1> QED
    BY <1>3 DEF AStarInv

LEMMA TrailAscends ==
    ASSUME AStarInv, NEW rank, NEW t, Ranked(rank, t), NEW d, NEW p, Trail(p, d),
           NEW j \in 1..Len(p), NEW k \in 1..Len(p), j < k
    PROVE  rank[p[j]] < rank[p[k]]
<1> DEFINE g(i) == rank[p[i]]
           n == Len(p)
           T == {i \in 0..(k - j - 1) : g(j) < g(j + 1 + i)}
<1>1. n \in Nat \ {0} /\ \A i \in 1..n : p[i] \in SearchNodes /\ g(i) \in Nat
    <2>1. p \in Seq(SearchNodes) /\ p # << >> /\ rank \in [SearchNodes -> Nat]
        BY DEF Trail, Ranked
    <2>2. n \in Nat \ {0} /\ \A i \in 1..n : p[i] \in SearchNodes
        BY <2>1, EmptySeq, LenProperties
    <2> QED
        BY <2>1, <2>2
<1>2. ASSUME NEW i \in 1..(n - 1)
      PROVE  g(i) < g(i + 1)
    <2>1. i + 1 \in 1..n
        BY <1>1
    <2>2. p[i + 1] \in Known \ {Start} /\ p[i] = came_from[p[i + 1]]
        BY <2>1 DEF Trail, n
    <2> QED
        BY <2>2 DEF Ranked
<1> HIDE DEF g, n
<1>3. j \in 1..(n - 1) /\ k \in 1..n /\ k - j - 1 \in Nat
    BY <1>1 DEF n
<1>4. 0 \in T
    BY <1>2, <1>3
<1>5. ASSUME NEW i \in 0..((k - j - 1) - 1), i \in T
      PROVE  i + 1 \in T
    <2>1. j + 1 + i \in 1..(n - 1) /\ (j + 1 + i) + 1 = j + 1 + (i + 1) /\ i + 1 \in 0..(k - j - 1)
          /\ j \in 1..n /\ j + 1 + i \in 1..n /\ j + 1 + (i + 1) \in 1..n
        BY <1>1, <1>3
    <2>2. g(j + 1 + i) < g(j + 1 + (i + 1))
        BY <1>2, <2>1
    <2>3. g(j) < g(j + 1 + i)
        BY <1>5
    <2>4. g(j) \in Nat /\ g(j + 1 + i) \in Nat /\ g(j + 1 + (i + 1)) \in Nat
        BY <1>1, <2>1
    <2>5. g(j) < g(j + 1 + (i + 1))
        BY <2>2, <2>3, <2>4
    <2> QED
        BY <2>1, <2>5
<1>6. \A i \in 0..(k - j - 1) : i \in T
    <2> HIDE DEF T
    <2> QED
        BY <1>3, <1>4, <1>5, UpTo
<1>7. k - j - 1 \in 0..(k - j - 1) /\ j + 1 + (k - j - 1) = k
    BY <1>3
<1>8. g(j) < g(k)
    BY <1>6, <1>7
<1> QED
    BY <1>8 DEF g

LEMMA TrailIsDistinct ==
    ASSUME AStarInv, NEW d, NEW p, Trail(p, d)
    PROVE  /\ \A j \in 1..Len(p), k \in 1..Len(p) : p[j] = p[k] => j = k
           /\ Len(p) \in 1..Size
<1>1. PICK rank, t : Ranked(rank, t)
    BY DEF AStarInv
<1>2. Len(p) \in Nat \ {0} /\ \A k \in 1..Len(p) : rank[p[k]] \in Nat
    BY <1>1, EmptySeq, LenProperties DEF Trail, Ranked
<1>3. ASSUME NEW j \in 1..Len(p), NEW k \in 1..Len(p), p[j] = p[k]
      PROVE  j = k
    <2>1. ~(j < k) /\ ~(k < j)
        BY <1>1, <1>2, <1>3, TrailAscends
    <2> QED
        BY <1>2, <2>1
<1>4. Len(p) <= Size
    BY <1>3, SearchConstants, DistinctCounts DEF Trail, Size
<1> QED
    BY <1>2, <1>3, <1>4, SearchConstants

\* The walk back along came_from ends at the start, as it comes to no node twice.
LEMMA WalkIsTrail ==
    ASSUME AStarInv, NEW d \in Known
    PROVE  Trail(Search!PathTo(d), d) /\ Head(Search!PathTo(d)) = Start
<1> DEFINE N == Size
           Trails == {p \in Seq(SearchNodes) : Trail(p, d)}
           Turned(p) == IF Head(p) = Start THEN p ELSE << came_from[Head(p)] >> \o p
           step == [k \in 1..N |-> [p \in Trails |-> Turned(p)]]
           Says(f) == f = [k \in 0..N |-> IF k = 0 THEN << d >> ELSE Turned(f[k - 1])]
           the == CHOOSE f : Says(f)
<1>1. N \in Nat \ {0} /\ << d >> \in Trails /\ Len(<< d >>) = 1
    <2>1. << d >> \in Seq(SearchNodes) /\ << d >> # << >> /\ Len(<< d >>) = 1 /\ << d >>[1] = d
        BY DEF AStarInv, Known
    <2>2. d \in Known
        OBVIOUS
    <2>3. \A k \in 1..1 : k = 1
        OBVIOUS
    <2>4. Trail(<< d >>, d)
        BY <2>1, <2>2, <2>3 DEF Trail
    <2> QED
        BY <2>1, <2>4, SearchConstants
<1>2. ASSUME NEW p \in Trails
      PROVE  Turned(p) \in Trails /\ (Head(p) # Start => Len(Turned(p)) = Len(p) + 1)
    <2> DEFINE h == Head(p)
               c == came_from[h]
               q == << c >> \o p
               n == Len(p)
    <2>1. /\ p \in Seq(SearchNodes) /\ Trail(p, d) /\ n \in Nat \ {0} /\ h = p[1] /\ h \in Known
          /\ \A k \in 1..n : p[k] \in SearchNodes
        BY EmptySeq, LenProperties DEF Trail
    <2>2. CASE h = Start
        BY <2>2
    <2>3. CASE h # Start
        <3>1. Follows(c, h) /\ c \in closedset /\ c \in SearchNodes /\ c \in Known
            BY <2>1, <2>3 DEF AStarInv, Follows, Known
        <3>2. Turned(p) = q
            BY <2>3
        <3> HIDE DEF c, h
        <3>3. << c >> \in Seq(SearchNodes) /\ Len(<< c >>) = 1 /\ << c >>[1] = c
            BY <3>1
        <3>4. /\ q \in Seq(SearchNodes) /\ Len(q) = 1 + n
              /\ \A k \in 1..(1 + n) : q[k] = IF k <= 1 THEN << c >>[k] ELSE p[k - 1]
            BY <2>1, <3>3, ConcatProperties
        <3> HIDE DEF q, n
        <3>5. q[1] = c /\ \A k \in 1..n : q[k + 1] = p[k]
            <4>1. 1 \in 1..(1 + n) /\ 1 <= 1
                BY <2>1
            <4>2. \A k \in 1..n : k + 1 \in 1..(1 + n) /\ ~(k + 1 <= 1) /\ (k + 1) - 1 = k
                BY <2>1
            <4> QED
                BY <3>3, <3>4, <4>1, <4>2
        <3>6. q # << >> /\ q[Len(q)] = d
            <4>1. n \in 1..n /\ n + 1 = Len(q) /\ Len(q) # 0
                BY <2>1, <3>4
            <4>2. p[n] = d
                BY <2>1 DEF Trail, n
            <4> QED
                BY <3>5, <4>1, <4>2
        <3>7. \A k \in 1..(1 + n) : k = 1 \/ (k - 1 \in 1..n /\ (k - 1) + 1 = k)
            BY <2>1
        <3>8. \A k \in 1..Len(q) : q[k] \in Known
            <4>1. \A k \in 1..n : p[k] \in Known
                BY <2>1 DEF Trail, n
            <4>2. ASSUME NEW k \in 1..(1 + n)
                  PROVE  q[k] \in Known
                <5>1. CASE k = 1
                    BY <3>1, <3>5, <5>1
                <5>2. CASE k # 1
                    <6>1. k - 1 \in 1..n /\ (k - 1) + 1 = k
                        BY <3>7, <5>2
                    <6>2. q[k] = p[k - 1]
                        BY <3>5, <6>1
                    <6> QED
                        BY <4>1, <6>1, <6>2
                <5> QED
                    BY <5>1, <5>2
            <4> QED
                BY <3>4, <4>2
        <3>9. ASSUME NEW k \in 1..(Len(q) - 1)
              PROVE  q[k + 1] # Start /\ q[k] = came_from[q[k + 1]]
            <4>1. k \in 1..n
                BY <2>1, <3>4
            <4>2. CASE k = 1
                <5>1. q[k + 1] = h /\ q[k] = c
                    BY <2>1, <3>5, <4>1, <4>2
                <5> QED
                    BY <2>3, <5>1 DEF c
            <4>3. CASE k # 1
                <5>1. k - 1 \in 1..(n - 1) /\ k - 1 \in 1..n /\ (k - 1) + 1 = k
                    BY <2>1, <4>1, <4>3
                <5>2. p[(k - 1) + 1] # Start /\ p[k - 1] = came_from[p[(k - 1) + 1]]
                    BY <2>1, <5>1 DEF Trail, n
                <5>3. q[k] = p[k - 1] /\ q[k + 1] = p[k]
                    BY <3>5, <4>1, <5>1
                <5> QED
                    BY <5>1, <5>2, <5>3
            <4> QED
                BY <4>2, <4>3
        <3>10. Trail(q, d)
            BY <3>4, <3>6, <3>8, <3>9 DEF Trail
        <3>11. q \in Trails /\ Len(q) = Len(p) + 1
            BY <2>1, <3>4, <3>10 DEF n
        <3> HIDE DEF Turned, Trails
        <3> QED
            BY <3>2, <3>11
    <2> QED
        BY <2>2, <2>3
<1>3. step \in [1..N -> [Trails -> Trails]]
    <2> HIDE DEF Turned, Trails
    <2> QED
        BY <1>2
<1>4. PICK f : Iterates(f, N, Trails, << d >>, step)
    <2> HIDE DEF N, step, Says, the, Trails
    <2>1. N \in Nat
        BY <1>1
    <2> QED
        BY <1>1, <1>3, <2>1, Recursion
<1> HIDE DEF Trails
<1>5. f \in [0..N -> Trails] /\ f[0] = << d >> /\ \A k \in 1..N : f[k] = Turned(f[k - 1])
    <2> SUFFICES ASSUME NEW k \in 1..N
                 PROVE  f[k] = Turned(f[k - 1])
        BY <1>4 DEF Iterates
    <2>1. f[k - 1] \in Trails
        BY <1>1, <1>4 DEF Iterates
    <2>2. f[k] = step[k][f[k - 1]]
        BY <1>4 DEF Iterates
    <2> HIDE DEF N, Turned
    <2> QED
        BY <2>1, <2>2
<1>6. Says(f)
    <2>1. f = [k \in 0..N |-> f[k]]
        BY <1>5
    <2>2. ASSUME NEW k \in 0..N
          PROVE  f[k] = IF k = 0 THEN << d >> ELSE Turned(f[k - 1])
        <3>1. k = 0 \/ k \in 1..N
            BY <1>1
        <3> HIDE DEF N, step, Says, the, Turned
        <3> QED
            BY <1>1, <1>5, <3>1
    <2> HIDE DEF N, step, the, Turned
    <2> QED
        BY <2>1, <2>2
<1>7. Says(the)
    BY <1>6
<1>8. Search!PathTo(d) = the[N]
    BY SearchConstants DEF Search!PathTo
<1> HIDE DEF the, step
<1>9. the[0] = << d >> /\ \A k \in 1..N : the[k] = Turned(the[k - 1])
    <2> HIDE DEF Turned
    <2>1. 0 \in 0..N /\ \A k \in 1..N : k \in 0..N /\ k # 0
        BY <1>1
    <2>2. \A k \in 0..N : the[k] = IF k = 0 THEN << d >> ELSE Turned(the[k - 1])
        BY <1>7
    <2> HIDE DEF Says
    <2> QED
        BY <2>1, <2>2
<1> DEFINE Good(k) == the[k] \in Trails /\ (Head(the[k]) = Start \/ Len(the[k]) = k + 1)
           T == {k \in 0..N : Good(k)}
<1> HIDE DEF Says
<1>10. 0 \in T
    BY <1>1, <1>9
<1>11. ASSUME NEW k \in 0..(N - 1), k \in T
       PROVE  k + 1 \in T
    <2>1. k + 1 \in 1..N /\ (k + 1) - 1 = k /\ k + 1 \in 0..N
        BY <1>1
    <2>2. the[k + 1] = Turned(the[k]) /\ Good(k)
        BY <1>9, <1>11, <2>1
    <2>3. Turned(the[k]) \in Trails /\ (Head(the[k]) # Start => Len(Turned(the[k])) = Len(the[k]) + 1)
        BY <1>2, <2>2
    <2>4. Good(k + 1)
        BY <2>2, <2>3
    <2> QED
        BY <2>1, <2>4
<1>12. \A k \in 0..N : k \in T
    <2>1. N \in Nat
        BY <1>1
    <2> HIDE DEF T, N
    <2> QED
        BY <1>10, <1>11, <2>1, UpTo
<1>13. Good(N)
    BY <1>1, <1>12
<1>14. Trail(the[N], d)
    BY <1>13 DEF Trails
<1>15. Len(the[N]) # N + 1
    BY <1>1, <1>14, TrailIsDistinct
<1> QED
    BY <1>8, <1>13, <1>14, <1>15

\* The way costs what is noted for the destination, as it does up to each node.
LEMMA TrailCosts ==
    ASSUME AStarInv, NEW d, NEW p, Trail(p, d), p[1] = Start
    PROVE  Search!CostOf(p) = g_score[d]
<1> DEFINE N == Len(p)
           Says(f) == f = [k \in 1..N |-> IF k = 1 THEN 0 ELSE f[k - 1] + cost[<< p[k - 1], p[k] >>]]
           the == CHOOSE f : Says(f)
           g == [k \in 1..N |-> g_score[p[k]]]
<1>1. N \in Nat \ {0} /\ p[N] = d
    BY EmptySeq, LenProperties DEF Trail
<1>2. \A k \in 1..N : k = 1 \/ (k - 1 \in 1..N /\ k - 1 \in 1..(N - 1) /\ (k - 1) + 1 = k)
    BY <1>1
<1>3. ASSUME NEW k \in 1..N
      PROVE  g[k] = IF k = 1 THEN 0 ELSE g[k - 1] + cost[<< p[k - 1], p[k] >>]
    <2>1. CASE k = 1
        BY <2>1 DEF AStarInv
    <2>2. CASE k # 1
        <3>1. k - 1 \in 1..N /\ k - 1 \in 1..(N - 1) /\ (k - 1) + 1 = k
            BY <1>2, <2>2
        <3>2. Follows(p[k - 1], p[(k - 1) + 1])
            BY <3>1, TrailFollows
        <3> QED
            BY <2>2, <3>1, <3>2 DEF Follows
    <2> QED
        BY <2>1, <2>2
<1>4. Says(g)
    <2>1. g = [k \in 1..N |-> g[k]]
        OBVIOUS
    <2> HIDE DEF g, N, the
    <2> QED
        BY <1>3, <2>1
<1>5. Says(the)
    BY <1>4
<1>6. Search!CostOf(p) = the[N]
    BY DEF Search!CostOf
<1>7. g[N] = g_score[d]
    BY <1>1
<1> HIDE DEF the, g
<1>8. \A k \in 1..N : the[k] = IF k = 1 THEN 0 ELSE the[k - 1] + cost[<< p[k - 1], p[k] >>]
    BY <1>5
<1> HIDE DEF Says
<1> DEFINE T == {k \in 0..(N - 1) : the[k + 1] = g[k + 1]}
<1>9. 0 \in T
    <2>1. 1 \in 1..N /\ 0 + 1 = 1 /\ 0 \in 0..(N - 1)
        BY <1>1
    <2>2. the[1] = 0 /\ g[1] = 0
        BY <1>3, <1>8, <2>1
    <2> QED
        BY <2>1, <2>2
<1>10. ASSUME NEW k \in 0..((N - 1) - 1), k \in T
       PROVE  k + 1 \in T
    <2>1. k + 2 \in 1..N /\ k + 2 # 1 /\ (k + 2) - 1 = k + 1 /\ (k + 1) + 1 = k + 2 /\ k + 1 \in 0..(N - 1)
        BY <1>1
    <2>2. /\ the[k + 2] = the[k + 1] + cost[<< p[k + 1], p[k + 2] >>]
          /\ g[k + 2] = g[k + 1] + cost[<< p[k + 1], p[k + 2] >>]
        BY <1>3, <1>8, <2>1
    <2> QED
        BY <1>10, <2>1, <2>2
<1>11. \A k \in 0..(N - 1) : k \in T
    <2>1. N - 1 \in Nat
        BY <1>1
    <2> HIDE DEF T, N
    <2> QED
        BY <1>9, <1>10, <2>1, UpTo
<1>12. N - 1 \in 0..(N - 1) /\ (N - 1) + 1 = N
    BY <1>1
<1>13. the[N] = g[N]
    BY <1>11, <1>12
<1> QED
    BY <1>6, <1>7, <1>13

LEMMA AStarStays ==
    ASSUME AStarInv, UNCHANGED << cost, heur, openset, closedset, g_score, came_from, current >>
    PROVE  AStarInv'
<1>1. (\E rank, t : Ranked(rank, t))'
    <2>1. PICK rank, t : Ranked(rank, t)
        BY DEF AStarInv
    <2>2. Ranked(rank, t)'
        BY <2>1 DEF Ranked, Known
    <2> QED
        BY <2>2
<1> QED
    BY <1>1 DEF AStarInv, Known, Ends, Follows, Search!Edge

\* The walk back is a way that comes to no node twice.
LEMMA WalkIsWay ==
    ASSUME AStarInv, NEW d \in Known
    PROVE  Way(Search!PathTo(d), Known) /\ Goal(Search!PathTo(d)) = d
<1> DEFINE p == Search!PathTo(d)
<1>1. Trail(p, d) /\ Head(p) = Start
    BY WalkIsTrail
<1> HIDE DEF p
<1>2. p \in Seq(SearchNodes) /\ p[1] = Start /\ Len(p) \in 1..Size
    BY <1>1, TrailIsDistinct DEF Trail
<1>3. \A j \in 1..Len(p), k \in 1..Len(p) : p[j] = p[k] => j = k
    BY <1>1, TrailIsDistinct
<1>4. Len(p) >= 1
    BY <1>2, SearchConstants
<1>5. \A k \in 1..(Len(p) - 1) : Search!Edge(p[k], p[k + 1])
    BY <1>1, TrailFollows DEF Follows
<1>6. (\A k \in 1..Len(p) : p[k] \in Known) /\ Goal(p) = d
    BY <1>1 DEF Trail, Goal
<1>7. Way(p, Known)
    BY <1>2, <1>3, <1>4, <1>5, <1>6 DEF Way
<1> QED
    BY <1>6, <1>7 DEF p

LEMMA AStarEnds ==
    ASSUME AStarInv, Search!AStarEnd
    PROVE  Search!FindsPath' /\ AStarInv'
<1>1. /\ search = "astar" /\ UNCHANGED << search, absent, cost, heur >>
      /\ UNCHANGED << openset, closedset, g_score, came_from, current >>
    BY DEF Search!AStarEnd, Search!given, Search!astar
<1>2. Search!Reached' = Search!Reached
    BY <1>1, ReachedStays
<1>3. AStarInv'
    BY <1>1, AStarStays
<1> SUFFICES Search!FindsPath'
    BY <1>3
<1>4. CASE openset = {} /\ result' = Search!NotFound
    <2>1. Ends(closedset) \subseteq closedset /\ Dest \notin closedset /\ Start \in closedset
        BY <1>4 DEF AStarInv, Known
    <2>2. Search!Reached[Size] \subseteq closedset
        <3>1. Size \in 0..Size
            BY SearchConstants
        <3> QED
            BY <2>1, <3>1, ReachedWithin
    <2>3. Dest \notin Search!Reached'[Size]
        BY <1>2, <2>1, <2>2
    <2> QED
        BY <1>4, <2>3, NothingFound
<1>5. CASE openset # {} /\ Search!Current = Dest /\ result' = Search!PathTo(Dest)
    <2> DEFINE p == Search!PathTo(Dest)
    <2>1. Dest \in Known
        BY <1>5, CurrentIsKnown
    <2>2. Trail(p, Dest) /\ Head(p) = Start
        BY <2>1, WalkIsTrail
    <2>3. Way(p, Known) /\ Goal(p) = Dest
        BY <2>1, WalkIsWay
    <2> HIDE DEF p
    <2>4. p[1] = Start
        BY <2>3 DEF Way
    <2>5. Search!IsPath(p) /\ p # << >> /\ p # Search!NotFound /\ p # Search!Throws
        BY <2>3, WayIsPath
    <2>6. Search!CostOf(p) = g_score[Dest]
        BY <2>2, <2>4, TrailCosts
    <2>7. result' = p
        BY <1>5 DEF p
    <2>8. Search!IsPath(result)'
        BY <1>1, <2>5, <2>7 DEF Search!IsPath, Search!Edge
    <2>9. Search!CostOf(result)' = g_score'[Dest]
        BY <1>1, <2>6, <2>7 DEF Search!CostOf
    <2>10. search' # "breadth" /\ Search!NotFound' = Search!NotFound /\ Search!Throws' = Search!Throws
        BY <1>1 DEF Search!NotFound, Search!Throws
    <2> QED
        BY <2>5, <2>7, <2>8, <2>9, <2>10 DEF Search!FindsPath
<1>6. CASE openset # {} /\ Search!Current \in absent \ {Dest} /\ result' = Search!Throws
    <2> DEFINE c == Search!Current
               p == Search!PathTo(c)
    <2>1. c \in Known /\ c \in absent \ {Dest}
        BY <1>6, CurrentIsKnown
    <2> HIDE DEF c
    <2>2. Way(p, Known) /\ Goal(p) = c
        BY <2>1, WalkIsWay
    <2> HIDE DEF p
    <2>3. c \in Search!Reached[Size]
        BY <2>2, WayReaches
    <2> QED
        BY <1>1, <1>2, <1>6, <2>1, <2>3, AbsentFound
<1> QED
    BY <1>4, <1>5, <1>6 DEF Search!AStarEnd

-----------------------------------------------------------------------------
(* All searches *)

SearchInv ==
    /\ IF search = "astar" THEN AStarInv ELSE QueueInv
    /\ search = "breadth" => BreadthInv
    /\ Search!FindsPath

LEMMA SearchBegins == Search!Init => SearchInv
<1> SUFFICES ASSUME Search!Init
             PROVE  SearchInv
    OBVIOUS
<1>1. result = << >>
    BY DEF Search!Init
<1>2. Search!FindsPath
    BY <1>1 DEF Search!FindsPath
<1>3. search = "astar" => AStarInv
    <2> SUFFICES ASSUME search = "astar"
                 PROVE  AStarInv
        OBVIOUS
    <2>1. /\ openset = {Start} /\ closedset = {} /\ heur \in Heuristics
          /\ g_score = [n \in SearchNodes |-> 0] /\ came_from = [n \in SearchNodes |-> 0]
        BY DEF Search!Init
    <2>2. Known = {Start} /\ Ends(closedset) = {} /\ Start \in SearchNodes
        BY <2>1, SearchConstants DEF Known, Ends
    <2>3. \A arc \in DOMAIN cost : cost[arc] \in Int
        <3>1. PICK edges : cost \in [edges -> Costs]
            BY DEF Search!Init
        <3> QED
            BY <3>1, SearchConstants
    <2>4. heur \in [SearchNodes -> Int] /\ heur[Start] < MaxInt
        BY <2>1, SearchConstants
    <2>5. \E rank, t : Ranked(rank, t)
        <3>1. Ranked([n \in SearchNodes |-> 0], 0)
            BY <2>1, <2>2 DEF Ranked
        <3> QED
            BY <3>1
    <2> QED
        BY <2>1, <2>2, <2>3, <2>4, <2>5 DEF AStarInv
<1>4. /\ queue = << << Start >> >> /\ visited = {Start}
      /\ Len(queue) = 1 /\ queue[1] = << Start >> /\ queue \in Seq(Seq(SearchNodes))
      /\ << Start >> \in Seq(SearchNodes) /\ Len(<< Start >>) = 1 /\ << Start >>[1] = Start
    <2>1. queue = << << Start >> >> /\ visited = {Start}
        BY DEF Search!Init
    <2>2. << Start >> \in Seq(SearchNodes) /\ Len(<< Start >>) = 1 /\ << Start >>[1] = Start
        BY SearchConstants
    <2>3. \A p \in Seq(SearchNodes) : << p >> \in Seq(Seq(SearchNodes)) /\ Len(<< p >>) = 1 /\ << p >>[1] = p
        OBVIOUS
    <2> QED
        BY <2>1, <2>2, <2>3
<1>5. \A k \in 1..Len(queue) : k = 1
    BY <1>4
<1>6. Way(<< Start >>, {Start}) /\ Goal(<< Start >>) = Start
    BY <1>4 DEF Way, Goal
<1>7. QueueInv
    <2>1. 1 \in 1..Len(queue) /\ Goal(queue[1]) = Start
        BY <1>4, <1>6
    <2>2. \A k \in 1..Len(queue) : Way(queue[k], visited)
        BY <1>4, <1>5, <1>6
    <2> QED
        BY <1>4, <2>1, <2>2, SearchConstants DEF QueueInv
<1>8. BreadthInv
    <2>1. Search!Reached[Len(queue[1]) - 1] \subseteq visited
        BY <1>4, ReachedTurns
    <2>2. \A k \in 1..Len(queue) : Len(queue[k]) = 1 /\ \A j \in 0..(Len(queue[k]) - 2) : FALSE
        <3>1. \A k \in 1..Len(queue) : Len(queue[k]) = 1
            BY <1>4, <1>5
        <3>2. \A j \in 0..(1 - 2) : FALSE
            OBVIOUS
        <3> QED
            BY <3>1, <3>2
    <2>3. \A k \in 1..Len(queue) : Len(queue[k]) <= Len(queue[1]) + 1
        BY <1>4, <2>2
    <2>4. \A j \in 1..Len(queue), k \in 1..Len(queue) : Len(queue[j]) <= Len(queue[k])
        BY <2>2
    <2> QED
        BY <2>1, <2>2, <2>3, <2>4 DEF BreadthInv
<1> QED
    BY <1>2, <1>3, <1>7, <1>8 DEF SearchInv

LEMMA SearchContinues == SearchInv /\ Search!Next => SearchInv'
<1> SUFFICES ASSUME SearchInv, Search!Next
             PROVE  SearchInv'
    OBVIOUS
<1>1. CASE Search!Step
    <2>1. search # "astar" /\ QueueInv /\ search' = search /\ result' = << >>
        BY <1>1 DEF Search!Step, Search!given, SearchInv
    <2>2. QueueInv' /\ (search = "breadth" => BreadthInv')
        BY <1>1, <2>1, StepKeepsQueue, StepKeepsBreadth DEF SearchInv
    <2>3. Search!FindsPath'
        BY <2>1 DEF Search!FindsPath
    <2> QED
        BY <2>1, <2>2, <2>3 DEF SearchInv
<1>2. CASE Search!End
    <2>1. search # "astar" /\ QueueInv /\ (search = "breadth" => BreadthInv)
        BY <1>2 DEF Search!End, SearchInv
    <2>2. Search!FindsPath' /\ UNCHANGED << search, cost, queue, visited >>
        BY <1>2, <2>1, QueueEnds
    <2>3. QueueInv'
        BY <2>1, <2>2 DEF QueueInv, Way, Ends, Goal, Search!Edge
    <2>4. search = "breadth" => BreadthInv'
        BY <2>1, <2>2, ReachedStays DEF BreadthInv, Goal
    <2> QED
        BY <2>1, <2>2, <2>3, <2>4 DEF SearchInv
<1>3. CASE Search!AStarStep
    <2>1. search = "astar" /\ AStarInv /\ search' = search /\ result' = << >>
        BY <1>3 DEF Search!AStarStep, Search!given, SearchInv
    <2>2. Search!FindsPath'
        BY <2>1 DEF Search!FindsPath
    <2> QED
        BY <1>3, <2>1, <2>2, AStarContinues DEF SearchInv
<1>4. CASE Search!AStarEnd
    <2>1. search = "astar" /\ AStarInv /\ search' = search
        BY <1>4 DEF Search!AStarEnd, Search!given, SearchInv
    <2> QED
        BY <1>4, <2>1, AStarEnds DEF SearchInv
<1> QED
    BY <1>1, <1>2, <1>3, <1>4 DEF Search!Next

LEMMA SearchStays ==
    ASSUME SearchInv, UNCHANGED searchVars
    PROVE  SearchInv'
<1>1. /\ UNCHANGED << search, absent, cost, heur, queue, visited, result >>
      /\ UNCHANGED << openset, closedset, g_score, came_from, current >>
    BY DEF searchVars
<1>2. Search!Reached' = Search!Reached
    BY <1>1, ReachedStays
<1>3. AStarInv => AStarInv'
    BY <1>1, AStarStays
<1>4. QueueInv => QueueInv'
    BY <1>1 DEF QueueInv, Way, Ends, Goal, Search!Edge
<1>5. BreadthInv => BreadthInv'
    BY <1>1, <1>2 DEF BreadthInv, Goal
<1>6. Search!CostOf(result)' = Search!CostOf(result)
    BY <1>1 DEF Search!CostOf
<1>7. Search!IsPath(result)' = Search!IsPath(result)
    BY <1>1 DEF Search!IsPath, Search!Edge
<1>8. Search!NotFound' = Search!NotFound /\ Search!Throws' = Search!Throws
    BY DEF Search!NotFound, Search!Throws
<1>9. Search!FindsPath'
    BY <1>1, <1>2, <1>6, <1>7, <1>8 DEF SearchInv, Search!FindsPath
<1> QED
    BY <1>1, <1>3, <1>4, <1>5, <1>9 DEF SearchInv

\* A search that ends has found a way if and only if there is one, or has come to a node
\* that was not added and throws, whatever the graph, the costs and the estimates, as
\* long as that of the start is less than MaxInt; its way visits no node twice, costs what
\* A* believes, and has the fewest edges if the search was breadth first.  That searches
\* end is not said: A* with scores of MaxInt may not.  (generalized_search_helper,
\* a_star_search.)
THEOREM SearchesFind == LibrarySpec => []FindsPath
<1> DEFINE Inv == part = "search" => SearchInv
<1>1. LibraryInit => Inv
    BY SearchBegins DEF LibraryInit
<1>2. Inv /\ [LibraryNext]_libraryVars => Inv'
    <2> SUFFICES ASSUME Inv, [LibraryNext]_libraryVars
                 PROVE  Inv'
        OBVIOUS
    <2>1. part' = part
        BY DEF LibraryNext, libraryVars
    <2>2. UNCHANGED searchVars \/ Search!Next
        BY DEF LibraryNext, libraryVars
    <2> QED
        BY <2>1, <2>2, SearchContinues, SearchStays
<1>3. Inv => FindsPath
    BY DEF SearchInv, FindsPath
<1> QED
    BY <1>1, <1>2, <1>3, PTL DEF LibrarySpec

-----------------------------------------------------------------------------
(* Graphs of both kinds *)

Lists == Seq([end : GraphNodes, data : Data])
Elems == [first : GraphNodes, second : Lists]

\* Each node stands in the container once, as long as callers have not strayed.
GraphInv ==
    /\ kind \in {"map", "vector"}
    /\ nodes_ \in Seq(Elems)
    /\ \A j \in DOMAIN nodes_, k \in DOMAIN nodes_ : nodes_[j].first = nodes_[k].first => j = k

LEMMA ElemTypes ==
    ASSUME GraphInv
    PROVE  /\ Len(nodes_) \in Nat /\ DOMAIN nodes_ = 1..Len(nodes_)
           /\ \A k \in DOMAIN nodes_ : /\ nodes_[k] \in Elems /\ nodes_[k].first \in GraphNodes
                                       /\ nodes_[k].first \in Nat /\ nodes_[k].second \in Lists
<1>1. Len(nodes_) \in Nat /\ DOMAIN nodes_ = 1..Len(nodes_) /\ \A k \in DOMAIN nodes_ : nodes_[k] \in Elems
    BY LenProperties DEF GraphInv
<1>2. GraphNodes \subseteq Nat
    BY GraphInstance DEF Graph!GraphAssumption
<1> QED
    BY <1>1, <1>2 DEF Elems

\* Keys and edges, node by node.
LEMMA KeysAre == \A n : n \in Graph!Keys <=> \E k \in DOMAIN nodes_ : nodes_[k].first = n
BY DEF Graph!Keys, Graph!ToSet

LEMMA EdgesAre ==
    \A x : x \in Graph!Edges <=>
        \E k \in DOMAIN nodes_ : \E i \in DOMAIN nodes_[k].second :
            x = << nodes_[k].first, nodes_[k].second[i].end, nodes_[k].second[i].data >>
BY DEF Graph!Edges, Graph!ToSet

\* Who stands in order stands before all that come later, not only the next.
LEMMA SortedAscends ==
    ASSUME GraphInv, Graph!Sorted, NEW j \in DOMAIN nodes_, NEW k \in DOMAIN nodes_, j < k
    PROVE  nodes_[j].first < nodes_[k].first
<1> DEFINE g(i) == nodes_[i].first
           n == Len(nodes_)
           T == {i \in 0..(k - j - 1) : g(j) < g(j + 1 + i)}
<1>1. n \in Nat /\ DOMAIN nodes_ = 1..n /\ \A i \in 1..n : g(i) \in Nat
    BY ElemTypes
<1>2. \A i \in 2..n : g(i - 1) < g(i)
    BY DEF Graph!Sorted
<1> HIDE DEF g, n
<1>3. j \in 1..n /\ k \in 1..n /\ k - j - 1 \in Nat
    BY <1>1
<1>4. 0 \in T
    <2>1. j + 1 \in 2..n /\ (j + 1) - 1 = j /\ j + 1 + 0 = j + 1 /\ 0 \in 0..(k - j - 1)
        BY <1>1, <1>3
    <2>2. g(j) < g(j + 1)
        BY <1>2, <2>1
    <2> QED
        BY <2>1, <2>2
<1>5. ASSUME NEW i \in 0..((k - j - 1) - 1), i \in T
      PROVE  i + 1 \in T
    <2>1. j + 1 + (i + 1) \in 2..n /\ (j + 1 + (i + 1)) - 1 = j + 1 + i /\ i + 1 \in 0..(k - j - 1)
          /\ j \in 1..n /\ j + 1 + i \in 1..n /\ j + 1 + (i + 1) \in 1..n
        <3>1. n \in Nat /\ j \in Nat /\ k \in Nat /\ i \in Nat /\ 1 <= j /\ k <= n /\ i + 1 <= k - j - 1
            <4>1. n \in Nat /\ j \in 1..n /\ k \in 1..n
                BY <1>1, <1>3
            <4> QED
                BY <4>1
        <3>2. j + 1 + (i + 1) \in 2..n /\ (j + 1 + (i + 1)) - 1 = j + 1 + i /\ i + 1 \in 0..(k - j - 1)
            BY <3>1
        <3>3. j + 1 + i \in 1..n /\ j + 1 + (i + 1) \in 1..n
            BY <3>1
        <3> QED
            BY <1>3, <3>2, <3>3
    <2>2. g(j + 1 + i) < g(j + 1 + (i + 1))
        BY <1>2, <2>1
    <2>3. g(j) < g(j + 1 + i)
        BY <1>5
    <2>4. g(j) \in Nat /\ g(j + 1 + i) \in Nat /\ g(j + 1 + (i + 1)) \in Nat
        BY <1>1, <2>1
    <2>5. g(j) < g(j + 1 + (i + 1))
        BY <2>2, <2>3, <2>4
    <2> QED
        BY <2>1, <2>5
<1>6. \A i \in 0..(k - j - 1) : i \in T
    <2> HIDE DEF T
    <2> QED
        BY <1>3, <1>4, <1>5, UpTo
<1>7. k - j - 1 \in 0..(k - j - 1) /\ j + 1 + (k - j - 1) = k
    BY <1>3
<1>8. g(j) < g(k)
    BY <1>6, <1>7
<1> QED
    BY <1>8 DEF g

\* find() finds the node that it looks for, where callers keep what it demands.
LEMMA FindFinds ==
    ASSUME GraphInv, NEW n \in GraphNodes, Graph!MayLook(n), NEW k \in Graph!Find(n)
    PROVE  IF n \in Graph!Keys THEN k \in DOMAIN nodes_ /\ nodes_[k].first = n /\ k # Graph!End
                               ELSE k = Graph!End
<1> DEFINE f(j) == nodes_[j].first
           m == Len(nodes_)
<1>1. /\ n \in Nat /\ m \in Nat /\ DOMAIN nodes_ = 1..m /\ \A j \in 1..m : f(j) \in Nat
      /\ Graph!End = m + 1 /\ m + 1 \notin 1..m
    BY ElemTypes, GraphInstance DEF Graph!GraphAssumption, Graph!End
<1>2. CASE kind = "map"
    BY <1>1, <1>2, KeysAre DEF Graph!Find
<1>3. CASE kind = "vector"
    <2>1. k \in 1..(m + 1) /\ (k > 1 => f(k - 1) < n) /\ (k < m + 1 => f(k) >= n)
        BY <1>1, <1>3 DEF Graph!Find
    <2>2. Graph!Sorted /\ (n \in Graph!Keys \/ \A j \in Graph!Keys : j < n)
        BY <1>3 DEF Graph!MayLook
    <2>3. CASE n \in Graph!Keys
        <3>1. PICK j \in 1..m : f(j) = n
            BY <1>1, <2>3, KeysAre
        <3>2. ASSUME k < j
              PROVE  FALSE
            <4>1. k \in 1..m /\ k < m + 1
                BY <1>1, <2>1, <3>2
            <4>2. f(k) < f(j)
                BY <1>1, <2>2, <3>2, <4>1, SortedAscends
            <4> QED
                BY <1>1, <2>1, <3>1, <4>1, <4>2
        <3>3. ASSUME k > j
              PROVE  FALSE
            <4>1. k - 1 \in 1..m /\ k > 1 /\ (j < k - 1 \/ j = k - 1)
                BY <1>1, <2>1, <3>3
            <4>2. j < k - 1 => f(j) < f(k - 1)
                BY <1>1, <2>2, <4>1, SortedAscends
            <4>3. f(k - 1) < n /\ f(k - 1) \in Nat
                BY <1>1, <2>1, <4>1
            <4> HIDE DEF f
            <4> QED
                BY <1>1, <3>1, <4>1, <4>2, <4>3
        <3>4. k = j
            BY <1>1, <2>1, <3>2, <3>3
        <3> QED
            BY <1>1, <2>3, <3>1, <3>4
    <2>4. CASE n \notin Graph!Keys
        <3>1. \A j \in 1..m : f(j) < n
            BY <1>1, <2>2, <2>4, KeysAre
        <3>2. ~(k < m + 1)
            BY <1>1, <2>1, <3>1
        <3> QED
            BY <1>1, <2>1, <2>4, <3>2
    <2> QED
        BY <2>3, <2>4
<1> QED
    BY <1>2, <1>3 DEF GraphInv

\* A call that has not strayed has looked where it may.
LEMMA LooksRight ==
    ASSUME NEW n, Graph!Look(n), ~strayed'
    PROVE  Graph!MayLook(n)
BY DEF Graph!Look

LEMMA EdgeToFinds ==
    ASSUME NEW list \in Lists, NEW e
    PROVE  LET i == Graph!EdgeTo(list, e) IN
           IF \E j \in DOMAIN list : list[j].end = e THEN i \in DOMAIN list /\ list[i].end = e /\ i # 0
                                                    ELSE i = 0
<1> DEFINE hits == {j \in 1..Len(list) : list[j].end = e}
           i == Graph!EdgeTo(list, e)
<1>1. i = IF hits # {} THEN Graph!Min(hits) ELSE 0
    BY DEF Graph!EdgeTo, Graph!SelectInSeq
<1>2. Len(list) \in Nat /\ DOMAIN list = 1..Len(list)
    BY LenProperties DEF Lists
<1>3. hits \in SUBSET Nat /\ 0 \notin hits
    BY <1>2
<1>4. hits # {} => i \in hits
    <2> HIDE DEF hits
    <2> SUFFICES ASSUME hits # {}
                 PROVE  i \in hits
        OBVIOUS
    <2>1. \E x \in hits : \A y \in hits : x <= y
        BY <1>3, HasLeast
    <2> QED
        BY <1>1, <2>1 DEF Graph!Min
<1> HIDE DEF i
<1> QED
    BY <1>1, <1>2, <1>3, <1>4 DEF i

LEMMA AddNodeRefines ==
    ASSUME GraphInv, NEW n \in GraphNodes, Graph!AddNode(n), ~strayed'
    PROVE  GraphInv' /\ Graph!Graph!AddNode(n)
<1>1. UNCHANGED kind /\ found' = << >> /\ Graph!ToSet(found') = {}
    BY DEF Graph!AddNode, Graph!ToSet
<1>2. CASE n \in Graph!Keys /\ answer' = "false" /\ UNCHANGED nodes_
    <2>1. Graph!Keys' = Graph!Keys /\ Graph!Edges' = Graph!Edges
        BY <1>2 DEF Graph!Keys, Graph!Edges
    <2>2. GraphInv'
        BY <1>1, <1>2 DEF GraphInv
    <2> QED
        BY <1>1, <1>2, <2>1, <2>2 DEF Graph!Graph!AddNode
<1> DEFINE elem == Graph!Elem(n)
           m == Len(nodes_)
           Inserted(p) ==
               /\ p \in 1..(m + 1) /\ nodes_' \in Seq(Elems) /\ Len(nodes_') = m + 1
               /\ \A k \in 1..(m + 1) :
                    nodes_'[k] = IF k < p THEN nodes_[k] ELSE IF k = p THEN elem ELSE nodes_[k - 1]
<1>3. /\ elem \in Elems /\ elem.first = n /\ elem.second = << >> /\ DOMAIN elem.second = {}
      /\ m \in Nat /\ DOMAIN nodes_ = 1..m /\ nodes_ \in Seq(Elems)
    BY ElemTypes, EmptySeq DEF Graph!Elem, Elems, Lists, GraphInv
<1>4. ASSUME n \notin Graph!Keys, answer' = "true", NEW p, Inserted(p)
      PROVE  GraphInv' /\ Graph!Graph!AddNode(n)
    <2> HIDE DEF elem, m
    <2>1. p \in 1..(m + 1) /\ DOMAIN nodes_' = 1..(m + 1)
        BY <1>4, LenProperties
    <2>2. \A k \in 1..m : nodes_[k].first # n
        BY <1>3, <1>4, KeysAre
    <2> DEFINE to(k) == IF k < p THEN k ELSE k + 1
    <2>3. \A k \in 1..m : to(k) \in 1..(m + 1) /\ to(k) # p /\ nodes_'[to(k)] = nodes_[k]
        BY <1>3, <1>4, <2>1
    <2>4. nodes_'[p] = elem
        BY <1>4, <2>1
    <2>5. \A k \in 1..(m + 1) : k = p \/ \E j \in 1..m : k = to(j) /\ nodes_'[k] = nodes_[j]
        <3> SUFFICES ASSUME NEW k \in 1..(m + 1), k # p
                     PROVE  \E j \in 1..m : k = to(j) /\ nodes_'[k] = nodes_[j]
            OBVIOUS
        <3>1. CASE k < p
            BY <1>3, <1>4, <2>1, <3>1
        <3>2. CASE k > p
            <4>1. k - 1 \in 1..m /\ ~(k - 1 < p) /\ (k - 1) + 1 = k /\ ~(k < p)
                BY <1>3, <2>1, <3>2
            <4>2. nodes_'[k] = nodes_[k - 1]
                BY <1>4, <4>1
            <4> QED
                BY <4>1, <4>2
        <3> QED
            BY <1>3, <2>1, <3>1, <3>2
    <2> HIDE DEF to
    <2>6. GraphInv'
        <3>1. ASSUME NEW j \in 1..(m + 1), NEW k \in 1..(m + 1), nodes_'[j].first = nodes_'[k].first
              PROVE  j = k
            <4>1. CASE j = p /\ k = p
                BY <4>1
            <4>2. CASE j = p /\ k # p
                BY <1>3, <2>2, <2>4, <2>5, <3>1, <4>2
            <4>3. CASE j # p /\ k = p
                BY <1>3, <2>2, <2>4, <2>5, <3>1, <4>3
            <4>4. CASE j # p /\ k # p
                <5>1. PICK a \in 1..m, b \in 1..m : /\ j = to(a) /\ nodes_'[j] = nodes_[a]
                                                    /\ k = to(b) /\ nodes_'[k] = nodes_[b]
                    BY <2>5, <4>4
                <5>2. a = b
                    BY <1>3, <3>1, <5>1 DEF GraphInv
                <5> QED
                    BY <5>1, <5>2
            <4> QED
                BY <4>1, <4>2, <4>3, <4>4
        <3> QED
            BY <1>1, <1>4, <2>1, <3>1 DEF GraphInv
    <2>7. Graph!Keys' = Graph!Keys \cup {n}
        <3>1. \A x : x \in Graph!Keys' <=> \E k \in 1..(m + 1) : nodes_'[k].first = x
            BY <2>1 DEF Graph!Keys, Graph!ToSet
        <3>2. ASSUME NEW x \in Graph!Keys'
              PROVE  x \in Graph!Keys \cup {n}
            BY <1>3, <2>4, <2>5, <3>1, KeysAre
        <3>3. ASSUME NEW x \in Graph!Keys
              PROVE  x \in Graph!Keys'
            BY <1>3, <2>3, <3>1, KeysAre
        <3>4. n \in Graph!Keys'
            BY <1>3, <2>1, <2>4, <3>1
        <3> QED
            BY <3>2, <3>3, <3>4
    <2>8. Graph!Edges' = Graph!Edges
        <3>1. \A x : x \in Graph!Edges' <=>
                \E k \in 1..(m + 1) : \E i \in DOMAIN nodes_'[k].second :
                    x = << nodes_'[k].first, nodes_'[k].second[i].end, nodes_'[k].second[i].data >>
            BY <2>1 DEF Graph!Edges, Graph!ToSet
        <3>2. ASSUME NEW x \in Graph!Edges'
              PROVE  x \in Graph!Edges
            <4>1. PICK k \in 1..(m + 1) : \E i \in DOMAIN nodes_'[k].second :
                    x = << nodes_'[k].first, nodes_'[k].second[i].end, nodes_'[k].second[i].data >>
                BY <3>1
            <4>2. k # p
                BY <1>3, <2>4, <4>1
            <4> QED
                BY <1>3, <2>5, <4>1, <4>2, EdgesAre
        <3>3. ASSUME NEW x \in Graph!Edges
              PROVE  x \in Graph!Edges'
            <4>1. PICK k \in DOMAIN nodes_ : \E i \in DOMAIN nodes_[k].second :
                    x = << nodes_[k].first, nodes_[k].second[i].end, nodes_[k].second[i].data >>
                BY EdgesAre
            <4> QED
                BY <1>3, <2>3, <3>1, <4>1
        <3> QED
            BY <3>2, <3>3
    <2> QED
        BY <1>1, <1>4, <2>6, <2>7, <2>8 DEF Graph!Graph!AddNode
<1>5. CASE n \notin Graph!Keys /\ answer' = "true" /\ nodes_' = Append(nodes_, elem)
    <2> HIDE DEF elem, m
    <2>1. /\ nodes_' \in Seq(Elems) /\ Len(nodes_') = m + 1 /\ \A k \in 1..m : nodes_'[k] = nodes_[k]
          /\ nodes_'[m + 1] = elem
        BY <1>3, <1>5, AppendProperties DEF m
    <2>2. \A k \in 1..(m + 1) : (k \in 1..m /\ k < m + 1) \/ k = m + 1
        BY <1>3
    <2>3. Inserted(m + 1)
        BY <1>3, <2>1, <2>2
    <2> QED
        BY <1>4, <1>5, <2>3
<1>6. CASE /\ n \notin Graph!Keys /\ answer' = "true"
           /\ nodes_' = Graph!InsertAt(nodes_, Graph!Cardinality({k \in Graph!Keys : k < n}) + 1, elem)
    <2> DEFINE p == Cardinality({k \in Graph!Keys : k < n}) + 1
               before == SubSeq(nodes_, 1, p - 1)
               after == SubSeq(nodes_, p, m)
    <2>1. nodes_' = before \o << elem >> \o after
        BY <1>6 DEF Graph!InsertAt, Graph!Cardinality, Cardinality
    <2>2. p \in 1..(m + 1)
        <3> DEFINE firsts == [k \in 1..m |-> nodes_[k].first]
        <3>1. firsts \in Seq(GraphNodes) /\ Len(firsts) = m
            BY <1>3, ElemTypes
        <3>2. \A j \in 1..Len(firsts), k \in 1..Len(firsts) : firsts[j] = firsts[k] => j = k
            BY <1>3, <3>1 DEF GraphInv
        <3>3. Graph!Keys = Search!ToSet(firsts)
            BY <1>3 DEF Graph!Keys, Graph!ToSet, Search!ToSet
        <3>4. Cardinality(Graph!Keys) = m
            <4> HIDE DEF firsts, m
            <4> QED
                BY <3>1, <3>2, <3>3, DistinctCounts
        <3>5. IsFiniteSet(Graph!Keys)
            <4>1. firsts \in Surjection(1..m, Graph!Keys)
                BY <1>3 DEF Surjection, Graph!Keys, Graph!ToSet
            <4> HIDE DEF firsts, m
            <4>2. IsFiniteSet(1..m)
                BY <1>3, FS_Interval
            <4> QED
                BY <4>1, <4>2, FS_Surjection
        <3>6. LET below == {k \in Graph!Keys : k < n}
              IN Cardinality(below) \in Nat /\ Cardinality(below) <= m
            <4> DEFINE below == {k \in Graph!Keys : k < n}
            <4>1. below \in SUBSET Graph!Keys
                OBVIOUS
            <4> HIDE DEF below, m
            <4>2. IsFiniteSet(below) /\ Cardinality(below) <= Cardinality(Graph!Keys)
                BY <3>5, <4>1, FS_Subset
            <4>3. Cardinality(below) \in Nat
                BY <4>2, FS_CardinalityType
            <4> QED
                BY <3>4, <4>2, <4>3 DEF below
        <3> QED
            BY <1>3, <3>6
    <2> HIDE DEF p, elem, m
    <2>3. /\ before \in Seq(Elems) /\ Len(before) = p - 1 /\ \A k \in 1..(p - 1) : before[k] = nodes_[k]
        <3>1. \A k \in 1..(p - 1) : nodes_[k] \in Elems
            BY <1>3, <2>2
        <3>2. p \in Int /\ (1 <= p - 1 \/ p = 1)
            BY <1>3, <2>2
        <3> QED
            BY <3>1, <3>2, SubSeqProperties
    <2>4. /\ after \in Seq(Elems) /\ Len(after) = m - p + 1
          /\ \A k \in 1..(m - p + 1) : after[k] = nodes_[p + k - 1]
        <3>1. \A k \in p..m : nodes_[k] \in Elems
            BY <1>3, <2>2
        <3>2. p \in Int /\ m \in Int /\ (p <= m \/ m - p + 1 = 0)
            BY <1>3, <2>2
        <3> QED
            BY <3>1, <3>2, SubSeqProperties
    <2>5. << elem >> \in Seq(Elems) /\ Len(<< elem >>) = 1 /\ << elem >>[1] = elem
        BY <1>3
    <2> HIDE DEF before, after
    <2> DEFINE front == before \o << elem >>
    <2>6. /\ front \in Seq(Elems) /\ Len(front) = p - 1 + 1
          /\ \A k \in 1..(p - 1 + 1) : front[k] = IF k <= p - 1 THEN before[k] ELSE << elem >>[k - (p - 1)]
        BY <2>3, <2>5, ConcatProperties
    <2>7. \A k \in 1..p : front[k] = IF k < p THEN nodes_[k] ELSE elem
        <3> SUFFICES ASSUME NEW k \in 1..p
                     PROVE  front[k] = IF k < p THEN nodes_[k] ELSE elem
            OBVIOUS
        <3>1. k \in 1..(p - 1 + 1)
            BY <2>2
        <3>2. CASE k < p
            BY <2>2, <2>3, <2>6, <3>1, <3>2
        <3>3. CASE k = p
            <4>1. ~(k <= p - 1) /\ k - (p - 1) = 1 /\ ~(k < p)
                BY <2>2, <3>3
            <4>2. front[k] = elem
                BY <2>5, <2>6, <3>1, <4>1
            <4> QED
                BY <4>1, <4>2
        <3>4. k < p \/ k = p
            BY <2>2
        <3> QED
            BY <3>2, <3>3, <3>4
    <2>8. Len(front) = p
        BY <2>2, <2>6
    <2>9. /\ nodes_' \in Seq(Elems) /\ Len(nodes_') = p + (m - p + 1)
          /\ \A k \in 1..(p + (m - p + 1)) : nodes_'[k] = IF k <= p THEN front[k] ELSE after[k - p]
        <3> HIDE DEF front
        <3>1. /\ front \o after \in Seq(Elems) /\ Len(front \o after) = Len(front) + Len(after)
              /\ \A k \in 1..(Len(front) + Len(after)) :
                    (front \o after)[k] = IF k <= Len(front) THEN front[k] ELSE after[k - Len(front)]
            BY <2>4, <2>6, ConcatProperties
        <3>2. nodes_' = front \o after
            BY <2>1 DEF front
        <3> QED
            BY <2>4, <2>8, <3>1, <3>2
    <2> HIDE DEF front
    <2>10. \A k \in 1..(m + 1) :
             nodes_'[k] = IF k < p THEN nodes_[k] ELSE IF k = p THEN elem ELSE nodes_[k - 1]
        <3> SUFFICES ASSUME NEW k \in 1..(m + 1)
                     PROVE  nodes_'[k] = IF k < p THEN nodes_[k] ELSE IF k = p THEN elem ELSE nodes_[k - 1]
            OBVIOUS
        <3>1. k \in 1..(p + (m - p + 1))
            BY <1>3, <2>2
        <3>2. CASE k <= p
            BY <2>2, <2>7, <2>9, <3>1, <3>2
        <3>3. CASE k > p
            <4>1. k - p \in 1..(m - p + 1) /\ p + (k - p) - 1 = k - 1 /\ ~(k <= p)
                BY <1>3, <2>2, <3>3
            <4>2. nodes_'[k] = nodes_[k - 1]
                BY <2>4, <2>9, <3>1, <4>1
            <4> QED
                BY <2>2, <3>3, <4>2
        <3> QED
            BY <2>2, <3>2, <3>3
    <2>11. Len(nodes_') = m + 1
        BY <1>3, <2>2, <2>9
    <2>12. Inserted(p)
        BY <2>2, <2>9, <2>10, <2>11
    <2> QED
        BY <1>4, <1>6, <2>12
<1> QED
    BY <1>2, <1>5, <1>6 DEF Graph!AddNode

-----------------------------------------------------------------------------
\* Where a node's edges are: in its own list.
LEMMA EdgesFrom ==
    ASSUME GraphInv, NEW k \in DOMAIN nodes_
    PROVE  \A e, d : << nodes_[k].first, e, d >> \in Graph!Edges <=>
                \E i \in DOMAIN nodes_[k].second :
                    nodes_[k].second[i].end = e /\ nodes_[k].second[i].data = d
<1> SUFFICES ASSUME NEW e, NEW d
             PROVE  << nodes_[k].first, e, d >> \in Graph!Edges <=>
                        \E i \in DOMAIN nodes_[k].second :
                            nodes_[k].second[i].end = e /\ nodes_[k].second[i].data = d
    OBVIOUS
<1>1. ASSUME << nodes_[k].first, e, d >> \in Graph!Edges
      PROVE  \E i \in DOMAIN nodes_[k].second :
                nodes_[k].second[i].end = e /\ nodes_[k].second[i].data = d
    <2>1. PICK j \in DOMAIN nodes_ : \E i \in DOMAIN nodes_[j].second :
            << nodes_[k].first, e, d >>
                = << nodes_[j].first, nodes_[j].second[i].end, nodes_[j].second[i].data >>
        BY <1>1, EdgesAre
    <2>2. j = k
        BY <2>1 DEF GraphInv
    <2> QED
        BY <2>1, <2>2
<1>2. ASSUME NEW i \in DOMAIN nodes_[k].second,
             nodes_[k].second[i].end = e, nodes_[k].second[i].data = d
      PROVE  << nodes_[k].first, e, d >> \in Graph!Edges
    BY <1>2, EdgesAre
<1> QED
    BY <1>1, <1>2

LEMMA NoKeyNoEdges ==
    ASSUME NEW n, n \notin Graph!Keys
    PROVE  \A e, d : << n, e, d >> \notin Graph!Edges
BY KeysAre, EdgesAre

LEMMA EdgeTypes ==
    ASSUME GraphInv, NEW k \in DOMAIN nodes_, NEW i \in DOMAIN nodes_[k].second
    PROVE  /\ nodes_[k].second[i] \in [end : GraphNodes, data : Data]
           /\ nodes_[k].second[i].end \in GraphNodes /\ nodes_[k].second[i].data \in Data
<1>1. nodes_[k].second \in Lists
    BY ElemTypes
<1>2. nodes_[k].second[i] \in [end : GraphNodes, data : Data]
    BY <1>1, LenProperties DEF Lists
<1> QED
    BY <1>2

\* sort() puts the elements in another order, each of them once.
LEMMA SortRefines ==
    ASSUME GraphInv, Graph!Sort
    PROVE  GraphInv' /\ UNCHANGED << Graph!Keys, Graph!Edges, answer, Graph!ToSet(found) >>
<1>1. UNCHANGED << kind, answer, found >>
    BY DEF Graph!Sort
<1>2. CASE UNCHANGED nodes_
    BY <1>1, <1>2 DEF GraphInv, Graph!Keys, Graph!Edges, Graph!ToSet
<1>3. ASSUME NEW move \in Graph!Bijection(DOMAIN nodes_, DOMAIN nodes_),
             nodes_' = [k \in DOMAIN nodes_ |-> nodes_[move[k]]]
      PROVE  GraphInv' /\ UNCHANGED << Graph!Keys, Graph!Edges, answer, Graph!ToSet(found) >>
    <2> DEFINE m == Len(nodes_)
    <2>1. m \in Nat /\ DOMAIN nodes_ = 1..m /\ \A k \in 1..m : nodes_[k] \in Elems
        BY ElemTypes
    <2>2. /\ move \in [1..m -> 1..m] /\ \A j \in 1..m, k \in 1..m : move[j] = move[k] => j = k
          /\ \A j \in 1..m : \E k \in 1..m : move[k] = j
        BY <2>1 DEF Graph!Bijection, Graph!Injection, Graph!Surjection, Graph!IsInjective
    <2> HIDE DEF m
    <2>3. \A k \in 1..m : move[k] \in 1..m /\ nodes_'[k] = nodes_[move[k]] /\ nodes_'[k] \in Elems
        BY <1>3, <2>1, <2>2
    <2>4. nodes_' \in Seq(Elems) /\ DOMAIN nodes_' = 1..m
        <3>1. nodes_' \in [1..m -> Elems]
            BY <1>3, <2>1, <2>3
        <3> QED
            BY <2>1, <3>1, SeqDef, LenProperties
    <2>5. \A j \in 1..m, k \in 1..m : nodes_'[j].first = nodes_'[k].first => j = k
        <3>1. \A j \in 1..m, k \in 1..m : nodes_[j].first = nodes_[k].first => j = k
            BY <2>1 DEF GraphInv
        <3>2. SUFFICES ASSUME NEW j \in 1..m, NEW k \in 1..m, nodes_'[j].first = nodes_'[k].first
                       PROVE  j = k
            OBVIOUS
        <3>3. move[j] \in 1..m /\ move[k] \in 1..m /\ nodes_[move[j]].first = nodes_[move[k]].first
            BY <2>3, <3>2
        <3>4. move[j] = move[k]
            BY <3>1, <3>3
        <3> QED
            BY <2>2, <3>4
    <2>6. Graph!ToSet(nodes_') = Graph!ToSet(nodes_)
        <3>1. ASSUME NEW x \in Graph!ToSet(nodes_')
              PROVE  x \in Graph!ToSet(nodes_)
            BY <2>1, <2>3, <2>4 DEF Graph!ToSet
        <3>2. ASSUME NEW x \in Graph!ToSet(nodes_)
              PROVE  x \in Graph!ToSet(nodes_')
            <4>1. PICK j \in 1..m : x = nodes_[j]
                BY <2>1 DEF Graph!ToSet
            <4>2. PICK k \in 1..m : move[k] = j
                BY <2>2
            <4> QED
                BY <2>3, <2>4, <4>1, <4>2 DEF Graph!ToSet
        <3> QED
            BY <3>1, <3>2
    <2>7. Graph!Keys' = Graph!Keys /\ Graph!Edges' = Graph!Edges
        BY <2>6 DEF Graph!Keys, Graph!Edges
    <2>8. GraphInv'
        BY <1>1, <2>4, <2>5 DEF GraphInv
    <2> QED
        BY <1>1, <2>7, <2>8 DEF Graph!ToSet
<1> QED
    BY <1>2, <1>3 DEF Graph!Sort

LEMMA NeighborsRefines ==
    ASSUME GraphInv, NEW n \in GraphNodes, Graph!Neighbors(n), ~strayed'
    PROVE  GraphInv' /\ Graph!Graph!Neighbors(n)
<1> DEFINE end == Graph!End
<1>2. PICK k \in Graph!Find(n) :
          \/ k = end /\ answer' = "throws" /\ found' = << >>
          \/ k # end /\ answer' = "ends" /\ found' = Graph!Ends(nodes_[k].second)
    BY DEF Graph!Neighbors
<1>1. IF n \in Graph!Keys THEN k \in DOMAIN nodes_ /\ nodes_[k].first = n /\ k # end ELSE k = end
    <2>1. Graph!MayLook(n)
        BY LooksRight DEF Graph!Neighbors
    <2> QED
        BY <2>1, FindFinds
<1>3. UNCHANGED << kind, nodes_ >> /\ GraphInv' /\ UNCHANGED << Graph!Keys, Graph!Edges >>
    BY DEF Graph!Neighbors, GraphInv, Graph!Keys, Graph!Edges
<1> HIDE DEF end
<1>4. CASE n \notin Graph!Keys
    <2>1. Graph!ToSet(found') = {}
        BY <1>1, <1>2, <1>4 DEF Graph!ToSet
    <2> QED
        BY <1>1, <1>2, <1>3, <1>4, <2>1 DEF Graph!Graph!Neighbors
<1>5. CASE n \in Graph!Keys
    <2> DEFINE list == nodes_[k].second
    <2>1. k \in DOMAIN nodes_ /\ nodes_[k].first = n /\ answer' = "ends" /\ found' = Graph!Ends(list)
        BY <1>1, <1>2, <1>5
    <2>2. \A e : e \in Graph!ToSet(found') <=> \E i \in DOMAIN list : list[i].end = e
        BY <2>1 DEF Graph!ToSet, Graph!Ends
    <2>3. \A e : e \in Graph!ToSet(found') <=> e \in {x \in GraphNodes : \E d \in Data : << n, x, d >> \in Graph!Edges}
        <3>1. \A i \in DOMAIN list : list[i].end \in GraphNodes /\ list[i].data \in Data
            BY <2>1, EdgeTypes
        <3>2. \A e, d : << n, e, d >> \in Graph!Edges <=>
                \E i \in DOMAIN list : list[i].end = e /\ list[i].data = d
            BY <2>1, EdgesFrom
        <3> HIDE DEF list
        <3> SUFFICES ASSUME NEW e
                     PROVE  e \in Graph!ToSet(found') <=>
                                e \in GraphNodes /\ \E d \in Data : << n, e, d >> \in Graph!Edges
            OBVIOUS
        <3>3. ASSUME NEW i \in DOMAIN list, list[i].end = e
              PROVE  e \in GraphNodes /\ \E d \in Data : << n, e, d >> \in Graph!Edges
            BY <3>1, <3>2, <3>3
        <3>4. ASSUME NEW d \in Data, << n, e, d >> \in Graph!Edges
              PROVE  \E i \in DOMAIN list : list[i].end = e
            BY <3>2, <3>4
        <3> QED
            BY <2>2, <3>3, <3>4
    <2>4. Graph!ToSet(found') = {x \in GraphNodes : \E d \in Data : << n, x, d >> \in Graph!Edges}
        BY <2>3
    <2> QED
        BY <1>3, <1>5, <2>1, <2>4 DEF Graph!Graph!Neighbors
<1> QED
    BY <1>4, <1>5

LEMMA GetEdgeDataRefines ==
    ASSUME GraphInv, NEW s \in GraphNodes, NEW e \in GraphNodes, Graph!GetEdgeData(s, e), ~strayed'
    PROVE  GraphInv' /\ Graph!Graph!GetEdgeData(s, e)
<1> DEFINE end == Graph!End
           at_(k) == IF k = end THEN 0 ELSE Graph!EdgeTo(nodes_[k].second, e)
<1>2. PICK k \in Graph!Find(s) : answer' = IF at_(k) = 0 THEN "throws" ELSE nodes_[k].second[at_(k)].data
    BY DEF Graph!GetEdgeData
<1>1. IF s \in Graph!Keys THEN k \in DOMAIN nodes_ /\ nodes_[k].first = s /\ k # end ELSE k = end
    <2>1. Graph!MayLook(s)
        BY LooksRight DEF Graph!GetEdgeData
    <2> QED
        BY <2>1, FindFinds
<1>3. UNCHANGED << kind, nodes_ >> /\ GraphInv' /\ UNCHANGED << Graph!Keys, Graph!Edges >>
    BY DEF Graph!GetEdgeData, GraphInv, Graph!Keys, Graph!Edges
<1>4. Graph!ToSet(found') = {}
    BY DEF Graph!GetEdgeData, Graph!ToSet
<1> HIDE DEF end
<1>5. CASE s \notin Graph!Keys
    <2>1. answer' = "throws" /\ \A d \in Data : << s, e, d >> \notin Graph!Edges
        BY <1>1, <1>2, <1>5, NoKeyNoEdges
    <2> QED
        BY <1>3, <1>4, <2>1 DEF Graph!Graph!GetEdgeData
<1>6. CASE s \in Graph!Keys
    <2> DEFINE list == nodes_[k].second
               i == Graph!EdgeTo(list, e)
    <2>1. k \in DOMAIN nodes_ /\ nodes_[k].first = s /\ k # end /\ list \in Lists
        BY <1>1, <1>6, ElemTypes
    <2>2. IF \E j \in DOMAIN list : list[j].end = e THEN i \in DOMAIN list /\ list[i].end = e /\ i # 0
                                                    ELSE i = 0
        BY <2>1, EdgeToFinds
    <2>3. answer' = IF i = 0 THEN "throws" ELSE list[i].data
        BY <1>2, <2>1
    <2>4. \A d : << s, e, d >> \in Graph!Edges <=> \E j \in DOMAIN list : list[j].end = e /\ list[j].data = d
        BY <2>1, EdgesFrom
    <2>5. \A j \in DOMAIN list : list[j].data \in Data
        BY <2>1, EdgeTypes
    <2> HIDE DEF i, list
    <2>6. \/ \E d \in Data : << s, e, d >> \in Graph!Edges /\ answer' = d
          \/ (\A d \in Data : << s, e, d >> \notin Graph!Edges) /\ answer' = "throws"
        BY <2>2, <2>3, <2>4, <2>5
    <2> QED
        BY <1>3, <1>4, <2>6 DEF Graph!Graph!GetEdgeData
<1> QED
    BY <1>5, <1>6

LEMMA AddEdgeRefines ==
    ASSUME GraphInv, NEW s \in GraphNodes, NEW e \in GraphNodes, NEW d \in Data, Graph!AddEdge(s, e, d),
           ~strayed'
    PROVE  GraphInv' /\ Graph!Graph!AddEdge(s, e, d)
<1> DEFINE end == Graph!End
           new == [end |-> e, data |-> d]
<1>2. PICK k \in Graph!Find(s) :
          \/ k = end /\ answer' = "throws" /\ UNCHANGED nodes_
          \/ k # end /\ Graph!EdgeTo(nodes_[k].second, e) # 0 /\ answer' = "false" /\ UNCHANGED nodes_
          \/ /\ k # end /\ Graph!EdgeTo(nodes_[k].second, e) = 0 /\ answer' = "true"
             /\ nodes_' = [nodes_ EXCEPT ![k].second = Append(@, new)]
    BY DEF Graph!AddEdge
<1> DEFINE list == nodes_[k].second
           i == Graph!EdgeTo(list, e)
<1>1. IF s \in Graph!Keys THEN k \in DOMAIN nodes_ /\ nodes_[k].first = s /\ k # end ELSE k = end
    <2>1. Graph!MayLook(s)
        BY LooksRight DEF Graph!AddEdge
    <2> QED
        BY <2>1, FindFinds
<1>3. UNCHANGED kind /\ Graph!ToSet(found') = {}
    <2>1. found' = << >> /\ UNCHANGED kind
        BY DEF Graph!AddEdge
    <2> QED
        BY <2>1 DEF Graph!ToSet
<1>4. UNCHANGED nodes_ => GraphInv' /\ UNCHANGED << Graph!Keys, Graph!Edges >>
    BY <1>3 DEF GraphInv, Graph!Keys, Graph!Edges
<1> HIDE DEF end
<1>5. CASE s \notin Graph!Keys
    BY <1>1, <1>2, <1>3, <1>4, <1>5 DEF Graph!Graph!AddEdge
<1>6. CASE s \in Graph!Keys
    <2>1. k \in DOMAIN nodes_ /\ nodes_[k].first = s /\ k # end /\ list \in Lists
        BY <1>1, <1>6, ElemTypes
    <2>2. IF \E j \in DOMAIN list : list[j].end = e THEN i \in DOMAIN list /\ list[i].end = e /\ i # 0
                                                    ELSE i = 0
        BY <2>1, EdgeToFinds
    <2>3. \A x : << s, e, x >> \in Graph!Edges <=> \E j \in DOMAIN list : list[j].end = e /\ list[j].data = x
        BY <2>1, EdgesFrom
    <2>4. \A j \in DOMAIN list : list[j].data \in Data
        BY <2>1, EdgeTypes
    <2>7. i # 0 => answer' = "false" /\ UNCHANGED nodes_
        BY <1>2, <2>1
    <2>8. i = 0 => answer' = "true" /\ nodes_' = [nodes_ EXCEPT ![k].second = Append(@, new)]
        BY <1>2, <2>1
    <2> HIDE DEF i, list
    <2>5. CASE i # 0
        <3>1. answer' = "false" /\ UNCHANGED nodes_
            BY <2>5, <2>7
        <3>2. \E x \in Data : << s, e, x >> \in Graph!Edges
            BY <2>2, <2>3, <2>4, <2>5
        <3> QED
            BY <1>3, <1>4, <1>6, <3>1, <3>2 DEF Graph!Graph!AddEdge
    <2>6. CASE i = 0
        <3> DEFINE longer == Append(list, new)
                   grown == [nodes_[k] EXCEPT !.second = longer]
        <3>1. answer' = "true" /\ nodes_' = [nodes_ EXCEPT ![k].second = Append(@, new)]
            BY <2>6, <2>8
        <3>2. nodes_' = [nodes_ EXCEPT ![k] = grown]
            BY <3>1 DEF list
        <3>3. \A x \in Data : << s, e, x >> \notin Graph!Edges
            BY <2>2, <2>3, <2>6
        <3>4. new \in [end : GraphNodes, data : Data] /\ new.end = e /\ new.data = d
            OBVIOUS
        <3> HIDE DEF new
        <3>5. /\ longer \in Lists /\ Len(list) \in Nat /\ DOMAIN list = 1..Len(list)
              /\ DOMAIN longer = 1..(Len(list) + 1)
              /\ (\A j \in 1..Len(list) : longer[j] = list[j]) /\ longer[Len(list) + 1] = new
            BY <2>1, <3>4, AppendProperties, LenProperties DEF Lists
        <3>6. /\ \A j \in DOMAIN list : j \in DOMAIN longer /\ longer[j] = list[j]
              /\ \A j \in DOMAIN longer : j \in DOMAIN list \/ j = Len(list) + 1
              /\ Len(list) + 1 \in DOMAIN longer
            BY <3>5
        <3> HIDE DEF longer
        <3>7. grown \in Elems /\ grown.first = s /\ grown.second = longer
            BY <2>1, <3>5, ElemTypes DEF Elems
        <3> HIDE DEF grown
        <3>8. nodes_' \in Seq(Elems) /\ Len(nodes_') = Len(nodes_) /\ DOMAIN nodes_' = DOMAIN nodes_
              /\ \A j \in DOMAIN nodes_ : nodes_'[j] = IF j = k THEN grown ELSE nodes_[j]
            BY <2>1, <3>2, <3>7, ExceptSeq, LenProperties, ElemTypes DEF GraphInv
        <3>9. \A j \in DOMAIN nodes_ : nodes_'[j].first = nodes_[j].first
            BY <2>1, <3>7, <3>8
        <3>10. GraphInv'
            BY <1>3, <3>8, <3>9 DEF GraphInv
        <3>11. Graph!Keys' = Graph!Keys
            <4>1. \A x : x \in Graph!Keys' <=> \E j \in DOMAIN nodes_ : nodes_'[j].first = x
                BY <3>8 DEF Graph!Keys, Graph!ToSet
            <4>2. \A x : x \in Graph!Keys' <=> x \in Graph!Keys
                BY <3>9, <4>1, KeysAre
            <4> QED
                BY <4>2 DEF Graph!Keys
        <3>12. Graph!Edges' = Graph!Edges \cup {<< s, e, d >>}
            <4>1. \A x : x \in Graph!Edges' <=>
                    \E j \in DOMAIN nodes_ : \E l \in DOMAIN nodes_'[j].second :
                        x = << nodes_'[j].first, nodes_'[j].second[l].end, nodes_'[j].second[l].data >>
                BY <3>8 DEF Graph!Edges, Graph!ToSet
            <4>2. ASSUME NEW x \in Graph!Edges'
                  PROVE  x \in Graph!Edges \cup {<< s, e, d >>}
                <5>1. PICK j \in DOMAIN nodes_ : \E l \in DOMAIN nodes_'[j].second :
                        x = << nodes_'[j].first, nodes_'[j].second[l].end, nodes_'[j].second[l].data >>
                    BY <4>1
                <5>2. CASE j # k
                    BY <3>8, <5>1, <5>2, EdgesAre
                <5>3. CASE j = k
                    <6>1. PICK l \in DOMAIN longer : x = << s, longer[l].end, longer[l].data >>
                        BY <3>7, <3>8, <5>1, <5>3
                    <6>2. CASE l \in DOMAIN list
                        <7>1. x = << nodes_[k].first, nodes_[k].second[l].end, nodes_[k].second[l].data >>
                            BY <2>1, <3>6, <6>1, <6>2 DEF list
                        <7> QED
                            BY <2>1, <6>2, <7>1, EdgesAre DEF list
                    <6>3. CASE l = Len(list) + 1
                        BY <3>4, <3>5, <6>1, <6>3
                    <6> QED
                        BY <3>6, <6>2, <6>3
                <5> QED
                    BY <5>2, <5>3
            <4>3. ASSUME NEW x \in Graph!Edges
                  PROVE  x \in Graph!Edges'
                <5>1. PICK j \in DOMAIN nodes_ : \E l \in DOMAIN nodes_[j].second :
                        x = << nodes_[j].first, nodes_[j].second[l].end, nodes_[j].second[l].data >>
                    BY EdgesAre
                <5>2. CASE j # k
                    BY <3>8, <4>1, <5>1, <5>2
                <5>3. CASE j = k
                    <6>1. PICK l \in DOMAIN list : x = << s, list[l].end, list[l].data >>
                        BY <2>1, <5>1, <5>3 DEF list
                    <6>2. l \in DOMAIN longer /\ x = << s, longer[l].end, longer[l].data >>
                        BY <3>6, <6>1
                    <6>3. nodes_'[k].first = s /\ nodes_'[k].second = longer
                        BY <2>1, <3>7, <3>8
                    <6> QED
                        BY <2>1, <4>1, <6>2, <6>3
                <5> QED
                    BY <5>2, <5>3
            <4>4. << s, e, d >> \in Graph!Edges'
                <5>1. nodes_'[k].first = s /\ nodes_'[k].second = longer
                    BY <2>1, <3>7, <3>8
                <5> QED
                    BY <2>1, <3>4, <3>5, <3>6, <4>1, <5>1
            <4> QED
                BY <4>2, <4>3, <4>4
        <3> QED
            BY <1>3, <1>6, <3>1, <3>3, <3>10, <3>11, <3>12 DEF Graph!Graph!AddEdge
    <2> QED
        BY <2>5, <2>6
<1> QED
    BY <1>5, <1>6

\* The graph as long as another part takes the steps.
LEMMA GraphStays ==
    ASSUME GraphInv, UNCHANGED graphVars
    PROVE  GraphInv' /\ UNCHANGED Graph!Graph!vars
BY DEF graphVars, GraphInv, Graph!Graph!vars, Graph!Keys, Graph!Edges, Graph!ToSet

\* Callers who have strayed do not come back.
LEMMA StrayedStays == [LibraryNext]_libraryVars /\ strayed => strayed'
<1> SUFFICES ASSUME [LibraryNext]_libraryVars, strayed
             PROVE  strayed'
    OBVIOUS
<1>1. CASE UNCHANGED graphVars
    BY <1>1 DEF graphVars
<1>2. CASE Graph!Next
    BY <1>2 DEF Graph!Next, Graph!Sort, Graph!AddNode, Graph!Neighbors, Graph!GetEdgeData, Graph!AddEdge,
                Graph!Look
<1> QED
    BY <1>1, <1>2 DEF LibraryNext, libraryVars

LEMMA GraphRefines ==
    ASSUME GraphInv, ~strayed', [LibraryNext]_libraryVars
    PROVE  GraphInv' /\ [Graph!Graph!Next]_(Graph!Graph!vars)
<1>1. CASE UNCHANGED libraryVars
    BY <1>1, GraphStays DEF libraryVars, graphVars
<1>2. CASE Graph!Sort
    BY <1>2, SortRefines DEF Graph!Graph!vars
<1>3. ASSUME NEW n \in GraphNodes, Graph!AddNode(n) \/ Graph!Neighbors(n)
      PROVE  GraphInv' /\ Graph!Graph!Next
    BY <1>3, AddNodeRefines, NeighborsRefines DEF Graph!Graph!Next
<1>4. ASSUME NEW s \in GraphNodes, NEW e \in GraphNodes,
             Graph!GetEdgeData(s, e) \/ \E d \in Data : Graph!AddEdge(s, e, d)
      PROVE  GraphInv' /\ Graph!Graph!Next
    BY <1>4, GetEdgeDataRefines, AddEdgeRefines DEF Graph!Graph!Next
<1>5. CASE Graph!Next
    BY <1>2, <1>3, <1>4, <1>5 DEF Graph!Next
<1>6. CASE LibraryNext /\ part # "graph"
    <2>1. UNCHANGED graphVars
        BY <1>6 DEF LibraryNext
    <2> QED
        BY <2>1, GraphStays
<1>7. CASE LibraryNext /\ part = "graph"
    BY <1>5, <1>7 DEF LibraryNext
<1> QED
    BY <1>1, <1>6, <1>7

\* Graph, on a std::map, is the graph of GraphSpec, and so is VectorGraph, on a
\* SortedVectorMap that is searched by halves, sorted in between and never tells a node
\* from its list, as long as its callers add a node once, sort before they look, and
\* look for nodes that exist or are above all that do.  Every call answers and leaves
\* what GraphSpec says, for any nodes, data and number of edges.  (add_node, add_edge,
\* get_edge_data, neighbors, sort, find.)
THEOREM GraphsAreGraphs == LibrarySpec => ImplementsGraph
<1> DEFINE Inv == strayed \/ GraphInv
           Does == [strayed' \/ Graph!Graph!Next]_(Graph!Graph!vars)
<1>1. LibraryInit => Inv /\ Graph!Graph!Init
    BY EmptySeq DEF LibraryInit, Graph!Init, GraphInv, Graph!Graph!Init, Graph!Keys, Graph!Edges,
                    Graph!ToSet
<1>2. Inv /\ [LibraryNext]_libraryVars => Inv' /\ Does
    BY StrayedStays, GraphRefines
<1>3. LibrarySpec => Graph!Graph!Init /\ [][strayed' \/ Graph!Graph!Next]_(Graph!Graph!vars)
    BY <1>1, <1>2, PTL DEF LibrarySpec
<1> QED
    BY <1>3 DEF ImplementsGraph, Graph!ImplementsGraph
=============================================================================
