---- MODULE MCNatNegRelay ----
(* NAT negotiation with the relay, on one or two pairs, for TLC. *)
EXTENDS NatNegRelay, TLC

CONSTANTS c1, c2, c3, p1, p2

ClientEndpoints == Pairs \X {"host", "guest"}

\* The sessions differ only in their names, and so do the pairs.
SessionSymmetry == Permutations(Calls) \cup Permutations(Pairs)
====
