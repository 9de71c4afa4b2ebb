---- MODULE MCRelayServer ----
(* The relay server on two port pairs, for TLC. *)
EXTENDS RelayServer, TLC

CONSTANTS c1, c2, c3

\* The calls of allocate_route differ only in their names.
CallSymmetry == Permutations(Calls)
====
