---- MODULE MCFeslMemcheck ----
(* The two threads and the event loop with a few clients, for TLC. *)
EXTENDS FeslMemcheck

CONSTANTS c1, c2, c3, f1, f2
====
