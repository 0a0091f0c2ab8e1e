--------------------------- MODULE VTPersistentList ---------------------------
(***************************************************************************)
(* PList of src/VTPersistentList.hpp: a list of cells that share their     *)
(* tails.  Cells never change, so a list is a value: Nil, or a cell with   *)
(* the list that follows it.  Functions are the source's recursions; f of  *)
(* the folds, of which order matters, gathers values in a sequence.        *)
(***************************************************************************)
EXTENDS Naturals, Sequences, SequencesExt

CONSTANTS Values,      \* what lists hold
          Successor,       \* the function that fmap() is given
          Kept,        \* the values that satisfy filter()'s predicate
          MaxLength    \* bound on the length of lists

VARIABLES list,        \* the newest list
          expected     \* the same as a sequence

vars == << list, expected >>

Nil == [next |-> "none"]
PList(v, tail) == [val |-> v, next |-> tail]

\* Faults the runs must catch; no specification uses them.

\* insertAt() that drops the cells before the new one.
RECURSIVE InsertAtDrops(_, _, _)
InsertAtDrops(l, n, v) == IF n = 0 THEN PList(v, l) ELSE InsertAtDrops(l.next, n - 1, v)

-----------------------------------------------------------------------------
RECURSIVE InsertedAt(_, _, _)
InsertedAt(l, n, v) ==
    IF n = 0 THEN PList(v, l) ELSE PList(l.val, InsertedAt(l.next, n - 1, v))

RECURSIVE Concat(_, _)
Concat(a, b) == IF a = Nil THEN b ELSE PList(a.val, Concat(a.next, b))

RECURSIVE Fmap(_)
Fmap(l) == IF l = Nil THEN Nil ELSE PList(Successor[l.val], Fmap(l.next))

RECURSIVE Filter(_)
Filter(l) ==
    IF l = Nil THEN Nil
    ELSE IF l.val \in Kept THEN PList(l.val, Filter(l.next)) ELSE Filter(l.next)

RECURSIVE Foldr(_, _)
Foldr(acc, l) == IF l = Nil THEN acc ELSE << l.val >> \o Foldr(acc, l.next)

RECURSIVE Foldl(_, _)
Foldl(acc, l) == IF l = Nil THEN acc ELSE Foldl(acc \o << l.val >>, l.next)

RECURSIVE FromIt(_)
FromIt(s) == IF s = << >> THEN Nil ELSE PList(Head(s), FromIt(Tail(s)))

-----------------------------------------------------------------------------
Init == list = Nil /\ expected = << >>

Become(l, s) == Len(s) <= MaxLength /\ list' = l /\ expected' = s

\* front() and pop_front() assert that the list is not empty.
PopFront == list # Nil /\ Become(list.next, Tail(expected))

\* insertAt() asserts that the list is long enough; push_front() is insertAt(0).
InsertAtPosition(n, v) ==
    n <= Len(expected) /\ Become(InsertedAt(list, n, v), InsertAt(expected, n + 1, v))

ConcatWith(s) == Become(Concat(list, FromIt(s)), expected \o s)

Mapped == Become(Fmap(list), [k \in DOMAIN expected |-> Successor[expected[k]]])

Filtered == Become(Filter(list), SelectSeq(expected, LAMBDA v : v \in Kept))

Next ==
    \/ PopFront \/ Mapped \/ Filtered
    \/ \E n \in 0..MaxLength, v \in Values : InsertAtPosition(n, v)
    \/ \E s \in BoundedSeq(Values, 2) : ConcatWith(s)

Spec == Init /\ [][Next]_vars

-----------------------------------------------------------------------------
(* Properties *)

\* A list holds what the operations on it promise, from whichever end it is
\* folded.  (insertAt, concat, fmap, filter, foldr, foldl, forEach.)
IsTheSequence == Foldl(<< >>, list) = expected /\ Foldr(<< >>, list) = expected
=============================================================================
