------------------------------- MODULE VTXmlDoc -------------------------------
(***************************************************************************)
(* XmlDoc, XmlWrap and XmlIter of src/VTrapidxml_wrap.hpp on the trees of  *)
(* rapidxml.  Nodes are numbered in the order in which they are allocated; *)
(* as all are appended, siblings stand in that order too.  A key is the    *)
(* names on the way down from the current node and whether the value meant *)
(* is that of an attribute (there is one name for attributes).  One thread *)
(* has a document, a handle that append() gave it and an iterator.         *)
(***************************************************************************)
EXTENDS Naturals, Sequences, SequencesExt, FiniteSetsExt

CONSTANTS Keys,        \* [path, is_attribute]
          Values,
          Absent,      \* what a node without an attribute has for its value
          Empty,       \* the value of a node that none was given
          Content,     \* what a file holds: its nodes, with parents counted in it
          MaxNodes     \* bound on the nodes allocated

\* The parent of a node in a file stands before it, the document being number 0.
XmlAssumption ==
    /\ Content \in Seq([parent : Nat, name : STRING, value : Values, attr : Values \cup {Absent}])
    /\ \A k \in DOMAIN Content : Content[k].parent < k
    /\ Keys \subseteq [path : Seq(STRING), is_attribute : BOOLEAN]

VARIABLES nodes,       \* what is allocated: [parent, name, value, attr]
          doc, own,    \* doc_, 0 for null, and whether its deleter deletes
          deleted,     \* documents that have been deleted
          lent,        \* documents that belong to the caller
          node_,       \* the current node, 0 for null
          handle,      \* the node of the handle, 0 for none
          name_, at,   \* the iterator: its name (<< >> for any) and its node
          from,        \* the parent of what it iterates over, 0 for none
          visited      \* the nodes that were visited

vars == << nodes, doc, own, deleted, lent, node_, handle, name_, at, from, visited >>

Node(p, n) == [parent |-> p, name |-> n, value |-> Empty, attr |-> Absent]

\* The document that a node is in.
Root(n) ==
    LET up[k \in DOMAIN nodes] == IF nodes[k].parent = 0 THEN k ELSE up[nodes[k].parent] IN up[n]

Init ==
    /\ nodes = << >> /\ doc = 0 /\ own = FALSE /\ deleted = {} /\ lent = {}
    /\ node_ = 0 /\ handle = 0 /\ name_ = << >> /\ at = 0 /\ from = 0 /\ visited = << >>

-----------------------------------------------------------------------------
\* Children of n in ns, all or those with a name; first_node(), 0 for null.
Children(ns, n, name) ==
    {k \in DOMAIN ns : ns[k].parent = n /\ (name = << >> \/ << ns[k].name >> = name)}
FirstNode(ns, n, name) ==
    IF Children(ns, n, name) = {} THEN 0 ELSE Min(Children(ns, n, name))

\* find_node(), 0 where it throws xml_key_error.
FindNode(ns, n, key) ==
    LET down[k \in 0..Len(key.path)] ==
            IF k = 0 THEN n
            ELSE IF down[k - 1] = 0 THEN 0 ELSE FirstNode(ns, down[k - 1], << key.path[k] >>)
    IN down[Len(key.path)]

\* get_helper(): Absent where it throws xml_key_error.
FindValue(ns, n, key) ==
    LET m == FindNode(ns, n, key) IN
    IF m = 0 THEN Absent ELSE IF key.is_attribute THEN ns[m].attr ELSE ns[m].value

\* A child is made, of the node that was reached so far.
Created(made, name) ==
    [nodes |-> Append(made.nodes, Node(made.node, name)), node |-> Len(made.nodes) + 1]

\* Faults the runs must catch; no specification uses them.

\* create_or_find_node() that always creates the last node.
CreateOrFindAlways(n, key, always_create) ==
    LET down[k \in 0..Len(key.path)] ==
            IF k = 0 THEN [nodes |-> nodes, node |-> n]
            ELSE LET made == down[k - 1]
                     m == FirstNode(made.nodes, made.node, << key.path[k] >>)
                 IN IF m # 0 /\ k < Len(key.path) THEN [made EXCEPT !.node = m]
                    ELSE Created(made, key.path[k])
    IN down[Len(key.path)]

\* An iterator that goes on to any sibling.
AdvanceToAny ==
    /\ at # 0 /\ Root(at) \notin deleted
    /\ at' = LET after == {k \in Children(nodes, from, << >>) : k > at}
             IN IF after = {} THEN 0 ELSE Min(after)
    /\ visited' = IF at' = 0 THEN visited ELSE Append(visited, at')
    /\ UNCHANGED << nodes, doc, own, deleted, lent, node_, handle, name_, from >>

\* A document that is deleted whoever owns it.
ReplaceDeletes(ns, owned) ==
    /\ Len(nodes) + 1 + Len(ns) <= MaxNodes
    /\ nodes' = Append(nodes, Node(0, "document")) \o
                [k \in DOMAIN ns |-> [ns[k] EXCEPT !.parent = @ + Len(nodes) + 1]]
    /\ doc' = Len(nodes) + 1 /\ own' = owned
    /\ deleted' = deleted \cup ({doc} \ {0})
    /\ lent' = IF owned THEN lent ELSE lent \cup {doc'}
    /\ UNCHANGED << handle, name_, at, from, visited >>

\* create_or_find_node(): the nodes it leaves and the one it returns.
CreateOrFind(n, key, always_create) ==
    LET down[k \in 0..Len(key.path)] ==
            IF k = 0 THEN [nodes |-> nodes, node |-> n]
            ELSE LET made == down[k - 1]
                     m == FirstNode(made.nodes, made.node, << key.path[k] >>)
                 IN IF m # 0 /\ ~(k = Len(key.path) /\ always_create) THEN [made EXCEPT !.node = m]
                    ELSE Created(made, key.path[k])
    IN down[Len(key.path)]

-----------------------------------------------------------------------------
\* A new document replaces the old one, with its nodes ns, counted from it.
Replace(ns, owned) ==
    /\ Len(nodes) + 1 + Len(ns) <= MaxNodes
    /\ nodes' = Append(nodes, Node(0, "document")) \o
                [k \in DOMAIN ns |-> [ns[k] EXCEPT !.parent = @ + Len(nodes) + 1]]
    /\ doc' = Len(nodes) + 1 /\ own' = owned
    /\ deleted' = IF own THEN deleted \cup {doc} ELSE deleted
    /\ lent' = IF owned THEN lent ELSE lent \cup {doc'}
    /\ UNCHANGED << handle, name_, at, from, visited >>

CreateDocument == Replace(<< >>, TRUE) /\ node_' = doc'
UseDocument(owned) == Replace(Content, owned) /\ node_' = doc'

\* read_from_string(), read_from_buffer(), read_from_file().
Read == Replace(Content, TRUE) /\ node_' = doc'
ReadFails == Replace(<< >>, TRUE) /\ UNCHANGED node_

\* Whose member function is called: the document's or the handle's.  Callers use no
\* node of another document, as the current one is after a failed read.
May(n) == n \in {node_, handle} \ {0} /\ Root(n) = doc

\* set(): create_value().
SetValue(n, key, v) ==
    /\ May(n)
    /\ LET made == CreateOrFind(n, key, FALSE) IN
       /\ Len(made.nodes) <= MaxNodes
       /\ nodes' = IF key.is_attribute THEN [made.nodes EXCEPT ![made.node].attr = v]
                                       ELSE [made.nodes EXCEPT ![made.node].value = v]
    /\ UNCHANGED << doc, own, deleted, lent, node_, handle, name_, at, from, visited >>

AppendNode(n, key) ==
    /\ May(n)
    /\ LET made == CreateOrFind(n, key, TRUE) IN
       /\ Len(made.nodes) <= MaxNodes
       /\ nodes' = made.nodes /\ handle' = made.node
    /\ UNCHANGED << doc, own, deleted, lent, node_, name_, at, from, visited >>

Begin(name, first, parent) ==
    /\ name_' = name /\ at' = first /\ from' = parent
    /\ visited' = IF first = 0 THEN << >> ELSE << first >>
    /\ UNCHANGED << nodes, doc, own, deleted, lent, node_, handle >>

AllChildrenOf(n, key) ==
    /\ May(n) /\ ~key.is_attribute /\ FindNode(nodes, n, key) # 0
    /\ LET m == FindNode(nodes, n, key) IN Begin(<< >>, FirstNode(nodes, m, << >>), m)

\* An empty key has no back().
AllNodesNamed(n, key) ==
    /\ May(n) /\ ~key.is_attribute /\ key.path # << >> /\ FindNode(nodes, n, key) # 0
    /\ LET m == FindNode(nodes, n, key) IN Begin(<< Last(key.path) >>, m, nodes[m].parent)

\* operator++(): next_sibling().
Advance ==
    /\ at # 0 /\ Root(at) \notin deleted
    /\ at' = LET after == {k \in Children(nodes, from, name_) : k > at}
             IN IF after = {} THEN 0 ELSE Min(after)
    /\ visited' = IF at' = 0 THEN visited ELSE Append(visited, at')
    /\ UNCHANGED << nodes, doc, own, deleted, lent, node_, handle, name_, from >>

Next ==
    \/ CreateDocument \/ Read \/ ReadFails \/ Advance
    \/ \E owned \in BOOLEAN : UseDocument(owned)
    \/ \E n \in DOMAIN nodes, key \in Keys :
         \/ AppendNode(n, key) \/ AllChildrenOf(n, key) \/ AllNodesNamed(n, key)
         \/ \E v \in Values : SetValue(n, key, v)

Spec == Init /\ [][Next]_vars

-----------------------------------------------------------------------------
(* Properties *)

Takes ==
    \A n \in DOMAIN nodes, key \in Keys, v \in Values : nodes' # nodes /\ SetValue(n, key, v) =>
        /\ FindValue(nodes', n, key) = v
        /\ \A other \in Keys \ {key} :
              \/ FindValue(nodes', n, other) = FindValue(nodes, n, other)
              \/ FindNode(nodes, n, other) = 0 /\ FindValue(nodes', n, other) \in {Empty, Absent}

\* What set() stores get() finds, under this key and no other: keys that had a
\* value keep it, and those that come to be have none.  (set, get, create_value.)
SetTakes == [][Takes]_vars

\* An iterator that comes to its end has visited all there are, those too that
\* were appended on its way, once and in order.  (all_children_of, all_nodes_named.)
VisitsAll ==
    [][at # 0 /\ at' = 0 =>
          /\ ToSet(visited') = Children(nodes', from', name_')
          /\ \A j \in DOMAIN visited', k \in DOMAIN visited' : j < k => visited'[j] < visited'[k]]_vars

\* Each document is deleted when its time has come: those that the XmlDoc owned
\* before this one, and none of the caller's.  (unique_ptr with two deleters.)
DeletesItsOwn ==
    deleted = {n \in DOMAIN nodes : nodes[n].parent = 0} \ (lent \cup {doc})

\* A document has a current node to begin at, as find_node() asserts.  (parse_buffer,
\* set_current.)
HasCurrentNode == doc # 0 => node_ # 0
=============================================================================
