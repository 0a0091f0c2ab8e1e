--------------------------- MODULE VTPersistentTree ---------------------------
(***************************************************************************)
(* PTree of src/VTPersistentTree.hpp, a red-black tree whose insert()      *)
(* makes a new tree that shares nodes with the old one.  Nodes never       *)
(* change, so a tree is a value here.  member() and forEach() are read off *)
(* the tree that insertions have led to.                                   *)
(***************************************************************************)
EXTENDS Integers, Sequences, SequencesExt

CONSTANTS Values,     \* a set of integers
          MaxRange    \* bound on the length of a range that is inserted

VARIABLES tree,       \* the newest tree
          contents    \* what has been put into it

vars == << tree, contents >>

Empty == [color |-> "none"]
PTree(c, lft, val, rgt) == [color |-> c, lft |-> lft, val |-> val, rgt |-> rgt]

RECURSIVE ForEach(_)
ForEach(t) == IF t = Empty THEN << >> ELSE ForEach(t.lft) \o << t.val >> \o ForEach(t.rgt)

RECURSIVE Member(_, _)
Member(t, x) ==
    /\ t # Empty
    /\ \/ x = t.val
       \/ x < t.val /\ Member(t.lft, x)
       \/ t.val < x /\ Member(t.rgt, x)

Red(t) == t.color = "R"
DoubledLeft(t) == Red(t) /\ Red(t.lft)
DoubledRight(t) == Red(t) /\ Red(t.rgt)
Paint(t, c) == PTree(c, t.lft, t.val, t.rgt)

\* Faults the runs must catch; no specification uses them.

\* balance() that overlooks a red grandchild inside.
BalanceOuter(lft, x, rgt) ==
    IF DoubledLeft(lft)
    THEN PTree("R", Paint(lft.lft, "B"), lft.val, PTree("B", lft.rgt, x, rgt))
    ELSE IF DoubledRight(rgt)
    THEN PTree("R", PTree("B", lft, x, rgt.lft), rgt.val, Paint(rgt.rgt, "B"))
    ELSE PTree("B", lft, x, rgt)

\* balance() that takes the wrong inner subtree.
BalanceCrossed(lft, x, rgt) ==
    IF DoubledRight(lft)
    THEN PTree("R", PTree("B", lft.lft, lft.val, lft.rgt.rgt), lft.rgt.val,
                    PTree("B", lft.rgt.lft, x, rgt))
    ELSE BalanceOuter(lft, x, rgt)

\* Called only when the parent is black.
Balance(lft, x, rgt) ==
    IF DoubledLeft(lft)
    THEN PTree("R", Paint(lft.lft, "B"), lft.val, PTree("B", lft.rgt, x, rgt))
    ELSE IF DoubledRight(lft)
    THEN PTree("R", PTree("B", lft.lft, lft.val, lft.rgt.lft), lft.rgt.val,
                    PTree("B", lft.rgt.rgt, x, rgt))
    ELSE IF DoubledLeft(rgt)
    THEN PTree("R", PTree("B", lft, x, rgt.lft.lft), rgt.lft.val,
                    PTree("B", rgt.lft.rgt, rgt.val, rgt.rgt))
    ELSE IF DoubledRight(rgt)
    THEN PTree("R", PTree("B", lft, x, rgt.lft), rgt.val, Paint(rgt.rgt, "B"))
    ELSE PTree("B", lft, x, rgt)

RECURSIVE Ins(_, _)
Ins(t, x) ==
    IF t = Empty THEN PTree("R", Empty, x, Empty)
    ELSE IF x = t.val THEN t
    ELSE IF t.color = "B"
    THEN IF x < t.val THEN Balance(Ins(t.lft, x), t.val, t.rgt)
                      ELSE Balance(t.lft, t.val, Ins(t.rgt, x))
    ELSE IF x < t.val THEN PTree("R", Ins(t.lft, x), t.val, t.rgt)
                      ELSE PTree("R", t.lft, t.val, Ins(t.rgt, x))

Inserted(t, x) == Paint(Ins(t, x), "B")

-----------------------------------------------------------------------------
Init == tree = Empty /\ contents = {}

Insert(x) ==
    /\ tree' = Inserted(tree, x)
    /\ contents' = contents \cup {x}

\* The function insert() puts the last of a range in first.
InsertRange(xs) ==
    /\ tree' = FoldRight(LAMBDA x, t : Inserted(t, x), xs, tree)
    /\ contents' = contents \cup ToSet(xs)

Next ==
    \/ \E x \in Values : Insert(x)
    \/ \E xs \in BoundedSeq(Values, MaxRange) : InsertRange(xs)

Spec == Init /\ [][Next]_vars

-----------------------------------------------------------------------------
(* Properties *)

\* countB() on each subtree; -1 when a subtree's two sides differ.
RECURSIVE Blacks(_)
Blacks(t) ==
    IF t = Empty THEN 0
    ELSE IF Blacks(t.lft) # Blacks(t.rgt) \/ Blacks(t.lft) = -1 THEN -1
    ELSE Blacks(t.lft) + IF t.color = "B" THEN 1 ELSE 0

RECURSIVE NoRedRed(_)
NoRedRed(t) ==
    t # Empty =>
        ~DoubledLeft(t) /\ ~DoubledRight(t) /\ NoRedRed(t.lft) /\ NoRedRed(t.rgt)

\* "No red node has a red child" and "every path from root to empty node contains
\* the same number of black nodes" after any insertions: assert1() and countB()'s
\* assertion never fail.  (insert, ins, balance.)
RedBlack == NoRedRed(tree) /\ Blacks(tree) # -1

\* The tree is the set of what was inserted: forEach() visits each once, in order,
\* and member() finds just those.  (insert, member, forEach.)
IsTheSet ==
    /\ ForEach(tree) = SetToSortSeq(contents, LAMBDA x, y : x < y)
    /\ \A x \in Values : Member(tree, x) <=> x \in contents
=============================================================================
