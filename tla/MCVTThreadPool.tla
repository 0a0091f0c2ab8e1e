--------------------------- MODULE MCVTThreadPool ---------------------------
(***************************************************************************)
(* Instances of VTThreadPool for TLC.                                      *)
(***************************************************************************)
EXTENDS VTThreadPool, TLC

CONSTANTS a, b, c

\* a submits b from inside the pool; c is submitted by a client.
NestedChildren == [t \in Tasks |-> IF t = a THEN {b} ELSE {}]

FlatChildren == [t \in Tasks |-> {}]

\* WorkerThread objects are interchangeable.
WorkerSymmetry == Permutations(Workers)
=============================================================================
