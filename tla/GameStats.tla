------------------------------ MODULE GameStats -----------------------------
(***************************************************************************)
(* The GameStats server beside the FESL and GP servers: a connection       *)
(* proves that it is the game, and presents a ticket of the same           *)
(* table that GP logins consume; then it reads and writes statistics.  The *)
(* two steps may come in either order and more than once; a second ticket  *)
(* replaces the player of the first, a refused one does not.  Handlers run *)
(* to their end without suspending.                                        *)
(***************************************************************************)
EXTENDS GpServer

CONSTANT StatsConns \* the GameStats connections

ASSUME StatsConnsAssumption == None \notin StatsConns

VARIABLES peer,                \* peer[s]: "new", "open" or "closed"
          authenticated_game,
          opened,              \* the ticket that gave user_id and persona_id, 0 for none
          known,               \* whether the connection was sent statistics
          stats                \* PlayerStats: the ticket under which a persona's row was written last

statsVars == <<peer, authenticated_game, opened, known, stats>>
allVars == <<vars, statsVars>>

GsInit ==
  /\ Init
  /\ peer = [s \in StatsConns |-> "new"]
  /\ authenticated_game = [s \in StatsConns |-> FALSE]
  /\ opened = [s \in StatsConns |-> 0]
  /\ known = [s \in StatsConns |-> FALSE]
  /\ stats = [p \in Personas |-> 0]

\* connection_made: the challenge is sent.
GsConnect(s) ==
  /\ peer[s] = "new"
  /\ peer' = [peer EXCEPT ![s] = "open"]
  /\ UNCHANGED <<vars, authenticated_game, opened, known, stats>>

\* _handle_auth with a response that fits the challenge
Auth(s) ==
  /\ peer[s] = "open"
  /\ authenticated_game' = [authenticated_game EXCEPT ![s] = TRUE]
  /\ UNCHANGED <<vars, peer, opened, known, stats>>

\* _handle_authp; it does not ask whether the game is authenticated.
AuthP(s, i) ==
  /\ peer[s] = "open"
  /\ Consume(i)
  /\ opened' = [opened EXCEPT ![s] = i]
  /\ UNCHANGED <<stage, context, owner, sessions, keys, gpVars,
                 peer, authenticated_game, known, stats>>

Authenticated(s) == peer[s] = "open" /\ authenticated_game[s] /\ opened[s] # 0

\* _handle_getpd, of whatever persona is named
GetPd(s) ==
  /\ Authenticated(s)
  /\ known' = [known EXCEPT ![s] = TRUE]
  /\ UNCHANGED <<vars, peer, authenticated_game, opened, stats>>

\* Mutant: any persona may be written.
SetPdOfAnyone(s, p) ==
  /\ Authenticated(s)
  /\ stats' = [stats EXCEPT ![p] = opened[s]]
  /\ UNCHANGED <<vars, peer, authenticated_game, opened, known>>

\* _handle_setpd, of the own persona
SetPd(s, p) ==
  /\ Authenticated(s)
  /\ tickets[opened[s]].persona = p
  /\ stats' = [stats EXCEPT ![p] = opened[s]]
  /\ UNCHANGED <<vars, peer, authenticated_game, opened, known>>

\* connection_lost: the fields of the protocol object go with it.
GsLost(s) ==
  /\ peer[s] = "open"
  /\ peer' = [peer EXCEPT ![s] = "closed"]
  /\ authenticated_game' = [authenticated_game EXCEPT ![s] = FALSE]
  /\ opened' = [opened EXCEPT ![s] = 0]
  /\ known' = [known EXCEPT ![s] = FALSE]
  /\ UNCHANGED <<vars, stats>>

GsNext ==
  \/ Next /\ UNCHANGED statsVars
  \/ \E s \in StatsConns :
       \/ GsConnect(s) \/ Auth(s) \/ GetPd(s) \/ GsLost(s)
       \/ \E i \in 1 .. Len(tickets) : AuthP(s, i)
       \/ \E p \in Personas : SetPd(s, p)

GsSpec == GsInit /\ [][GsNext]_allVars

-----------------------------------------------------------------------------
(* Properties *)

GsTypeOK ==
  /\ LoginTypeOK
  /\ KeysAreOpen
  /\ peer \in [StatsConns -> {"new", "open", "closed"}]
  /\ authenticated_game \in [StatsConns -> BOOLEAN]
  /\ opened \in [StatsConns -> 0 .. Len(tickets)]
  /\ known \in [StatsConns -> BOOLEAN]
  /\ stats \in [Personas -> 0 .. Len(tickets)]
  /\ \A s \in StatsConns : peer[s] # "open" => ~authenticated_game[s] /\ opened[s] = 0

\* A ticket opens one GP session or gives the player of one GameStats
\* connection, whichever server it is presented to first and however often.
TicketHasOneUse ==
  /\ TicketOpensOnce
  /\ \A s \in StatsConns : opened[s] # 0 =>
       /\ tickets[opened[s]].used
       /\ \A k \in 1 .. Len(rows) : rows[k].ticket # opened[s]
       /\ \A t \in StatsConns : opened[t] = opened[s] => t = s

\* Statistics are written only under a ticket of their persona that was
\* presented to this server, and read only by a connection that has
\* presented one and is the game.
StatsFollowTickets ==
  /\ \A p \in Personas : stats[p] # 0 =>
       /\ tickets[stats[p]].used /\ tickets[stats[p]].persona = p
       /\ \A k \in 1 .. Len(rows) : rows[k].ticket # stats[p]
  /\ \A s \in StatsConns : known[s] => authenticated_game[s] /\ opened[s] # 0
=============================================================================
