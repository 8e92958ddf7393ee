---------------------------- MODULE MCPublication ----------------------------
(* TLC instance of Publication.                                             *)
EXTENDS Publication, TLC

CONSTANTS p1, p2, r1, r2, r3, s1, s2

Symmetry == Permutations(Publisher) \union Permutations(Slot)
=============================================================================
