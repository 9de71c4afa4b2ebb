------------------------------ MODULE MCClans -------------------------------
(* Two accounts, three personas, two clans. *)
EXTENDS Clans, TLC

Symmetry == Permutations(Clan) \union Permutations(Username)
=============================================================================
