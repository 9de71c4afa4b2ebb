---- MODULE MCNatNegSessions ----
(* One or two cookies, for TLC. *)
EXTENDS NatNegSessions, TLC

CONSTANTS k1, k2, o1, o2, o3

Symmetry == Permutations(Cookies) \cup Permutations(Objects)
====
