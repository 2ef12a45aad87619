---------------------------- MODULE MCSlidingSync ----------------------------
(* Small instances of SlidingSync for TLC. *)
EXTENDS SlidingSync, TLC

CONSTANTS a, b, h1, h2, r1, r2

OneHome  == [h \in Handlers |-> a]
TwoHomes == [h \in Handlers |-> IF h = h2 THEN b ELSE a]

Symmetry == Permutations(Handlers) \cup Permutations(Rooms)
=============================================================================
