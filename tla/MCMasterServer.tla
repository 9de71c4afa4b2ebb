-------------------------- MODULE MCMasterServer ----------------------------
(* A host whose datagrams keep their order and whose game starts, and one
   whose heartbeats lack addresses and ports now and then and whose games
   are in two groups; a client with the game's own query for one of the
   groups, one for rooms and one with another filter. *)
EXTENDS MasterServer

Modes == {"openstaging", "closedplaying"}

Few ==
  <<[field |-> "numplayers", operator |-> "<=", value |-> 1, logic |-> "none"],
    [field |-> "numplayers", operator |-> "=", value |-> 2, logic |-> "OR"]>>

Filters == {GameQuery(2166), Few}
Groups == {2166, 2167}

CONSTANTS near, far
Games ==
  {<<near, "openstaging", 2166>>, <<near, "closedplaying", 2166>>,
   <<far, "openstaging", 2166>>, <<far, "openstaging", 2167>>}
=============================================================================
