------------------------------- MODULE VTSearch -------------------------------
(***************************************************************************)
(* The searches of src/VTAlgorithm/VTSearch.h on every graph of a few      *)
(* nodes: breadth first and depth first, which differ in the queue, and    *)
(* A*.  A PathElem, the end of a list that leads back to the start, is the *)
(* sequence of the nodes on that list.  An edge may lead to a node that    *)
(* was never added; such a node has no edges, and to ask for them throws.  *)
(***************************************************************************)
EXTENDS Integers, Sequences, SequencesExt, FiniteSetsExt

CONSTANTS Nodes,       \* a set of numbers; 0 stands for no node
          Start, Dest,
          Arcs,        \* where a graph may have an edge
          Missing,     \* the nodes that a caller may not have added
          Costs,       \* what an edge may cost, dist_func
          Heuristics,  \* what callers may estimate, heur_func
          MaxInt       \* std::numeric_limits<int>::max()

\* A start whose estimate is not less than MaxInt leaves A* with a node that it never set.
SearchAssumption ==
    /\ Nodes \subseteq Nat \ {0} /\ IsFiniteSet(Nodes) /\ Start \in Nodes /\ Dest \in Nodes
    /\ Arcs \subseteq Nodes \X Nodes /\ Missing \subseteq Nodes
    /\ Costs \subseteq Int /\ MaxInt \in Int
    /\ \A heuristic \in Heuristics : heuristic \in [Nodes -> Int] /\ heuristic[Start] < MaxInt

VARIABLES search,      \* "breadth", "depth" or "astar"
          absent,      \* the nodes that were not added
          cost,        \* the graph: what each of its edges costs
          heur,        \* what is estimated
          order,       \* how incidence lists are ordered, "up" or "down"
          queue,       \* the queue or the stack, its top first
          visited,
          openset, closedset, g_score, came_from,
          current,     \* of A*, the node it took last; 0 at first
          result       \* << >> until the search ends

given == << search, absent, cost, heur, order >>
astar == << openset, closedset, g_score, came_from, current >>
vars == << given, queue, visited, astar, result >>

NotFound == << 0 >>
Throws == << -1 >>
Edge(s, e) == << s, e >> \in DOMAIN cost

\* The nodes of an incidence list, without those that are in skipped.
Neighbors(n, skipped) ==
    LET ends == {e \in Nodes : Edge(n, e)} \ skipped
        up == CHOOSE list \in [1..Cardinality(ends) -> ends] :
                 \A j, k \in DOMAIN list : j < k => list[j] < list[k]
    IN IF order = "up" THEN up ELSE Reverse(up)

\* Only A* looks at costs and estimates, and only the others at the order.
Init ==
    /\ search \in {"breadth", "depth", "astar"}
    /\ absent \in SUBSET Missing
    /\ \E edges \in SUBSET {arc \in Arcs : arc[1] \notin absent} :
          cost \in [edges -> IF search = "astar" THEN Costs ELSE {1}]
    /\ heur \in IF search = "astar" THEN Heuristics ELSE {[n \in Nodes |-> 0]}
    /\ order \in IF search = "astar" THEN {"up"} ELSE {"up", "down"}
    /\ queue = << << Start >> >> /\ visited = {Start}
    /\ openset = {Start} /\ closedset = {}
    /\ g_score = [n \in Nodes |-> 0] /\ came_from = [n \in Nodes |-> 0]
    /\ current = 0 /\ result = << >>

-----------------------------------------------------------------------------
\* A* walks back from n along came_from, a node in every turn.
PathTo(n) ==
    LET back[k \in 0..Cardinality(Nodes)] ==
            IF k = 0 THEN << n >>
            ELSE IF Head(back[k - 1]) = Start THEN back[k - 1]
                 ELSE << came_from[Head(back[k - 1])] >> \o back[k - 1]
    IN back[Cardinality(Nodes)]

\* The minimum stays what it is at first, so each node of the set whose score is less
\* takes the place of the one before it, and the last node stays if there is none.
Current ==
    LET less == {n \in openset : g_score[n] + heur[n] < MaxInt}
    IN IF less = {} THEN current ELSE Max(less)

\* The way to n through Current, and the neighbors it is a way worth noting for.
Tentative(n) == g_score[Current] + cost[<< Current, n >>]
Better ==
    {n \in Nodes \ (closedset \cup {Current}) :
        Edge(Current, n) /\ (n \notin openset \/ Tentative(n) < g_score[n])}

\* Faults the runs must catch; no specification uses them.

\* A queue that works like a stack.
PushedOnTop(paths) == Reverse(paths) \o Tail(queue)

\* A* that forgets to note the better way it has found to a node of the openset.
AStarStepKeepsWay ==
    /\ search = "astar" /\ result = << >> /\ openset # {} /\ Current \notin absent \cup {Dest}
    /\ g_score' = [n \in Nodes |-> IF n \in Better THEN Tentative(n) ELSE g_score[n]]
    /\ came_from' = [n \in Nodes |-> IF n \in Better \ openset THEN Current ELSE came_from[n]]
    /\ openset' = (openset \ {Current}) \cup Better
    /\ closedset' = closedset \cup {Current}
    /\ current' = Current
    /\ UNCHANGED << given, queue, visited, result >>

-----------------------------------------------------------------------------
\* The paths to the nodes that are seen for the first time go into the queue.
Pushed(paths) == IF search = "breadth" THEN Tail(queue) \o paths ELSE Reverse(paths) \o Tail(queue)

Step ==
    /\ search # "astar" /\ result = << >>
    /\ queue # << >> /\ Last(Head(queue)) \notin absent \cup {Dest}
    /\ LET path == Head(queue)
           new == Neighbors(Last(path), visited)
       IN /\ queue' = Pushed([k \in DOMAIN new |-> Append(path, new[k])])
          /\ visited' = visited \cup ToSet(new)
    /\ UNCHANGED << given, astar, result >>

End ==
    /\ search # "astar" /\ result = << >>
    /\ \/ queue = << >> /\ result' = NotFound
       \/ queue # << >> /\ Last(Head(queue)) = Dest /\ result' = Head(queue)
       \/ queue # << >> /\ Last(Head(queue)) \in absent \ {Dest} /\ result' = Throws
    /\ UNCHANGED << given, queue, visited, astar >>

AStarStep ==
    /\ search = "astar" /\ result = << >> /\ openset # {} /\ Current \notin absent \cup {Dest}
    /\ g_score' = [n \in Nodes |-> IF n \in Better THEN Tentative(n) ELSE g_score[n]]
    /\ came_from' = [n \in Nodes |-> IF n \in Better THEN Current ELSE came_from[n]]
    /\ openset' = (openset \ {Current}) \cup Better
    /\ closedset' = closedset \cup {Current}
    /\ current' = Current
    /\ UNCHANGED << given, queue, visited, result >>

AStarEnd ==
    /\ search = "astar" /\ result = << >>
    /\ \/ openset = {} /\ result' = NotFound
       \/ openset # {} /\ Current = Dest /\ result' = PathTo(Dest)
       \/ openset # {} /\ Current \in absent \ {Dest} /\ result' = Throws
    /\ UNCHANGED << given, queue, visited, astar >>

Next == Step \/ End \/ AStarStep \/ AStarEnd

Spec == Init /\ [][Next]_vars

-----------------------------------------------------------------------------
(* Properties *)

\* The nodes that k edges lead to, and the least cost of a way of at most k edges.
Reached[k \in 0..Cardinality(Nodes)] ==
    IF k = 0 THEN {Start}
    ELSE Reached[k - 1] \cup {e \in Nodes : \E s \in Reached[k - 1] : Edge(s, e)}

IsPath(p) ==
    /\ Head(p) = Start /\ Last(p) = Dest
    /\ \A k \in 1..(Len(p) - 1) : Edge(p[k], p[k + 1])
    /\ Cardinality(ToSet(p)) = Len(p)

CostOf(p) ==
    LET sum[k \in 1..Len(p)] == IF k = 1 THEN 0 ELSE sum[k - 1] + cost[<< p[k - 1], p[k] >>]
    IN sum[Len(p)]

\* A search that ends has found a way if and only if there is one, or has come to a
\* node that was not added; it visits no node twice, costs what A* believes, and has
\* the fewest edges if the search was breadth first.  (generalized_search_helper,
\* a_star_search.)
FindsPath ==
    result # << >> =>
        /\ result = Throws => \E n \in absent \ {Dest} : n \in Reached[Cardinality(Nodes)]
        /\ result = NotFound => Dest \notin Reached[Cardinality(Nodes)]
        /\ result \notin {NotFound, Throws} =>
              /\ IsPath(result)
              /\ search = "breadth" => \A k \in 0..(Len(result) - 2) : Dest \notin Reached[k]
              /\ search = "astar" => CostOf(result) = g_score[Dest]

\* "so that search will always find optimal solution": no way to Dest costs less
\* than the one A* returns, with estimates that are 0 and so never too high.
\* (a_star_search.)
FindsOptimal ==
    search = "astar" /\ (\A n \in Nodes : heur[n] = 0) /\ result \notin {<< >>, NotFound, Throws} =>
        \A p \in UNION {[1..k -> Nodes] : k \in 2..Cardinality(Nodes)} :
            IsPath(p) => CostOf(result) <= CostOf(p)

\* What the code does not keep: A* takes a node that it has not done with.  It goes on
\* for ever with the last one when all that are left score MaxInt or more.
\* (a_star_search.)
GoesOn == search = "astar" /\ result = << >> /\ openset # {} => Current \in openset
=============================================================================
