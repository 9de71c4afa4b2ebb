---- MODULE MCPeerchat ----
(* Three connections and two nicknames on a lobby and a room, for TLC. *)
EXTENDS Peerchat, TLC

CONSTANTS c1, c2, c3, n1, n2, n3

Symmetry == Permutations(Conns) \cup Permutations(Nicks)
====
