------------------------------ MODULE GraphSpec ------------------------------
(***************************************************************************)
(* What VTAlgorithm/VTGraph.h promises: a directed graph whose edges carry *)
(* data, with at most one edge from a node to another.                     *)
(***************************************************************************)
CONSTANTS Nodes,       \* what nodes are called
          Data         \* what edges carry

VARIABLES nodes,       \* the nodes it has
          edges,       \* << start, end, data >>
          answer,      \* of the last call: "true", "false", "throws", data, or "ends"
          ends         \* the neighbors that the last call found

vars == << nodes, edges, answer, ends >>

Init == nodes = {} /\ edges = {} /\ answer = "none" /\ ends = {}

AddNode(n) ==
    /\ nodes' = nodes \cup {n}
    /\ answer' = IF n \in nodes THEN "false" ELSE "true"
    /\ ends' = {}
    /\ UNCHANGED edges

AddEdge(s, e, d) ==
    /\ ends' = {}
    /\ UNCHANGED nodes
    /\ \/ s \notin nodes /\ answer' = "throws" /\ UNCHANGED edges
       \/ /\ s \in nodes /\ \E x \in Data : << s, e, x >> \in edges
          /\ answer' = "false" /\ UNCHANGED edges
       \/ /\ s \in nodes /\ \A x \in Data : << s, e, x >> \notin edges
          /\ answer' = "true" /\ edges' = edges \cup {<< s, e, d >>}

GetEdgeData(s, e) ==
    /\ ends' = {}
    /\ UNCHANGED << nodes, edges >>
    /\ \/ \E d \in Data : << s, e, d >> \in edges /\ answer' = d
       \/ (\A d \in Data : << s, e, d >> \notin edges) /\ answer' = "throws"

Neighbors(n) ==
    /\ UNCHANGED << nodes, edges >>
    /\ \/ /\ n \in nodes /\ answer' = "ends"
          /\ ends' = {e \in Nodes : \E d \in Data : << n, e, d >> \in edges}
       \/ n \notin nodes /\ answer' = "throws" /\ ends' = {}

Next ==
    \/ \E n \in Nodes : AddNode(n) \/ Neighbors(n)
    \/ \E s, e \in Nodes : GetEdgeData(s, e) \/ \E d \in Data : AddEdge(s, e, d)

Spec == Init /\ [][Next]_vars
=============================================================================
