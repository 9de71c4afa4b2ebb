---- MODULE MCCompetition ----
(* One match of two or four players, for TLC. *)
EXTENDS Competition, TLC

CONSTANTS p1, p2, p3, p4

Symmetry == Permutations(Players)
====
