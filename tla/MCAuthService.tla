---- MODULE MCAuthService ----
(* Two players with one account each, two personas, two GP connections and
   a GameStats connection, for TLC. *)
EXTENDS AuthService, TLC

CONSTANTS c1, c2, u1, u2, p1, p2, g1, g2, s1

OwnAccounts == c1 :> u1 @@ c2 :> u2

\* The players may change places, each with his account.
Swap == c1 :> c2 @@ c2 :> c1 @@ u1 :> u2 @@ u2 :> u1

Symmetry == Permutations(Conns) \cup Permutations(Personas) \cup {Swap}
====
