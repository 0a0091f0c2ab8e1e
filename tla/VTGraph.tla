------------------------------- MODULE VTGraph -------------------------------
(***************************************************************************)
(* Graph and VectorGraph of src/VTAlgorithm/VTGraph.h, the latter on the   *)
(* SortedVectorMap of src/VTSortedVectorMap.h.  The one keeps its nodes in *)
(* a std::map, the other in a vector that grows at its end, whoever is in  *)
(* it, is sorted when the caller says so and is searched by halves as if   *)
(* it always were; what the search comes to is never compared with what    *)
(* was looked for.  The code leaves it to the callers of a VectorGraph to  *)
(* add a node once, to sort before they look, and to look for nodes that   *)
(* exist or are above all that do; strayed says that they once did not.    *)
(***************************************************************************)
EXTENDS Naturals, Sequences, SequencesExt, FiniteSetsExt, Functions

CONSTANTS Nodes,       \* what nodes are called: natural numbers
          Data,        \* what edges carry
          MaxElems,    \* bound on what a vector holds
          MaxEdges     \* bound on edges

GraphAssumption == Nodes \subseteq Nat

VARIABLES kind,        \* "map" or "vector"
          nodes_,      \* elements [first, second]: a node and its incidence list
          answer,      \* of the last call
          found,       \* neighbors, as the last call returns them
          strayed      \* no guard reads it

vars == << kind, nodes_, answer, found, strayed >>

Elem(n) == [first |-> n, second |-> << >>]
Keys == {elem.first : elem \in ToSet(nodes_)}
Sorted == \A k \in 2..Len(nodes_) : nodes_[k - 1].first < nodes_[k].first

Init ==
    /\ kind \in {"map", "vector"}
    /\ nodes_ = << >> /\ answer = "none" /\ found = << >> /\ strayed = FALSE

-----------------------------------------------------------------------------
\* find(): std::map's, and SortedVectorMap's lower bound, which is some place between
\* a lesser node and one that is not, in a vector that is not sorted too.
End == Len(nodes_) + 1
Find(n) ==
    IF kind = "map"
    THEN IF n \in Keys THEN {k \in DOMAIN nodes_ : nodes_[k].first = n} ELSE {End}
    ELSE {k \in 1..End : /\ k > 1 => nodes_[k - 1].first < n
                         /\ k < End => nodes_[k].first >= n}

\* What finds the right node in a VectorGraph.
MayLook(n) == kind = "vector" => Sorted /\ (n \in Keys \/ \A k \in Keys : k < n)
Look(n) == strayed' = (strayed \/ ~MayLook(n))

\* The edge to e in an incidence list, 0 if there is none.
EdgeTo(list, e) == SelectInSeq(list, LAMBDA edge : edge.end = e)

Ends(list) == [k \in DOMAIN list |-> list[k].end]

\* Faults the runs must catch; no specification uses them.

\* add_edge() that does not look for the edge first.
AddEdgeAgain(s, e, d) ==
    /\ Look(s) /\ found' = << >>
    /\ \E k \in Find(s) :
        IF k = End
        THEN answer' = "throws" /\ UNCHANGED nodes_
        ELSE /\ nodes_' = [nodes_ EXCEPT ![k].second = Append(@, [end |-> e, data |-> d])]
             /\ answer' = "true"
    /\ UNCHANGED kind

-----------------------------------------------------------------------------
\* add_node() and the constructor with a range, one node at a time.
AddNode(n) ==
    /\ found' = << >>
    /\ \/ kind = "map" /\ n \in Keys /\ answer' = "false" /\ UNCHANGED nodes_
       \/ /\ kind = "map" /\ n \notin Keys /\ answer' = "true"
          /\ nodes_' = InsertAt(nodes_, Cardinality({k \in Keys : k < n}) + 1, Elem(n))
       \/ /\ kind = "vector" /\ Len(nodes_) < MaxElems
          /\ answer' = "true" /\ nodes_' = Append(nodes_, Elem(n))
    /\ strayed' = (strayed \/ (kind = "vector" /\ n \in Keys))
    /\ UNCHANGED kind

Sort ==
    /\ \/ kind = "map" /\ UNCHANGED nodes_
       \/ /\ kind = "vector"
          /\ \E move \in Bijection(DOMAIN nodes_, DOMAIN nodes_) :
                nodes_' = [k \in DOMAIN nodes_ |-> nodes_[move[k]]]
          /\ \A k \in 2..Len(nodes_) : nodes_'[k - 1].first <= nodes_'[k].first
    /\ UNCHANGED << kind, answer, found, strayed >>

AddEdge(s, e, d) ==
    /\ Look(s) /\ found' = << >>
    /\ \E k \in Find(s) :
       \/ k = End /\ answer' = "throws" /\ UNCHANGED nodes_
       \/ k # End /\ EdgeTo(nodes_[k].second, e) # 0 /\ answer' = "false" /\ UNCHANGED nodes_
       \/ /\ k # End /\ EdgeTo(nodes_[k].second, e) = 0 /\ answer' = "true"
          /\ nodes_' = [nodes_ EXCEPT ![k].second = Append(@, [end |-> e, data |-> d])]
    /\ MapThenSumSet(LAMBDA k : Len(nodes_'[k].second), DOMAIN nodes_') <= MaxEdges
    /\ UNCHANGED kind

GetEdgeData(s, e) ==
    /\ Look(s) /\ found' = << >>
    /\ \E k \in Find(s) :
        LET n == IF k = End THEN 0 ELSE EdgeTo(nodes_[k].second, e)
        IN answer' = IF n = 0 THEN "throws" ELSE nodes_[k].second[n].data
    /\ UNCHANGED << kind, nodes_ >>

Neighbors(n) ==
    /\ Look(n)
    /\ \E k \in Find(n) :
       \/ k = End /\ answer' = "throws" /\ found' = << >>
       \/ k # End /\ answer' = "ends" /\ found' = Ends(nodes_[k].second)
    /\ UNCHANGED << kind, nodes_ >>

Next ==
    \/ Sort
    \/ \E n \in Nodes : AddNode(n) \/ Neighbors(n)
    \/ \E s, e \in Nodes : GetEdgeData(s, e) \/ \E d \in Data : AddEdge(s, e, d)

Spec == Init /\ [][Next]_vars

-----------------------------------------------------------------------------
(* Properties *)

Edges ==
    UNION {{<< elem.first, edge.end, edge.data >> : edge \in ToSet(elem.second)} :
              elem \in ToSet(nodes_)}

Graph == INSTANCE GraphSpec WITH nodes <- Keys, edges <- Edges, ends <- ToSet(found)

\* As long as callers keep what a VectorGraph demands, both kinds are the graph of
\* GraphSpec: sorting moves nodes with their edges, no edge is doubled or lost and no
\* call answers for another node.  (add_node, add_edge, get_edge_data, neighbors,
\* sort, find.)
ImplementsGraph == Graph!Init /\ [][strayed' \/ Graph!Next]_(Graph!vars)

\* What the code does not keep: it throws "Node does not exist" for every node that
\* does not, whatever the callers of a VectorGraph have done.  (get_inc_list.)
ImplementsGraphAlways == Graph!Spec
=============================================================================
