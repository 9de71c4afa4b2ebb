---- MODULE MCPeerchatLock ----
(* The lock of the Peerchat server with a few clients, for TLC. *)
EXTENDS PeerchatLock

CONSTANTS c1, c2, c3
====
