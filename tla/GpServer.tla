---- MODULE GpServer ----
(***************************************************************************)
(* The GP (GameSpy presence) server: a login consumes a ticket of the FESL *)
(* server and registers the connection with the session manager; after it  *)
(* the player's buddies are told of his status, and buddies are requested, *)
(* accepted and deleted.                                                   *)
(*                                                                         *)
(* Handlers run to their end without suspending.  Of a message to a buddy  *)
(* only the status it announces is kept: "online" or "offline".            *)
(***************************************************************************)
EXTENDS FeslLogin

CONSTANT Conns \* the GP connections

ASSUME ConnsAssumption == None \notin Conns

VARIABLES link,     \* link[g]: "new", "open" or "closed"
          player,   \* GpServer.persona_id
          sesskey,  \* GpServer.sesskey, 0 for none
          active,   \* active[k]: the connection in active_users under the key k
          found,    \* users_by_persona
          rows,     \* the rows of GameSpySession: persona, ticket, is_active; k is the key of row k
          friends,  \* the rows of Friend
          requests, \* the pending rows of BuddyRequest
          shown     \* shown[g][p]: the last status of p that g was sent

gpVars == <<link, player, sesskey, active, found, rows, friends, requests, shown>>
vars == <<feslVars, gpVars>>

Keys == 1 .. MaxTickets

\* Everything stays well typed; only open connections have a session.
LoginTypeOK ==
  /\ FeslTypeOK
  /\ link \in [Conns -> {"new", "open", "closed"}]
  /\ player \in [Conns -> Personas \cup {None}]
  /\ sesskey \in [Conns -> Keys \cup {0}]
  /\ active \in [Keys -> Conns \cup {None}]
  /\ found \in [Personas -> Conns \cup {None}]
  /\ rows \in Seq([persona : Personas, ticket : Keys, live : BOOLEAN])
  /\ friends \subseteq Personas \X Personas
  /\ requests \subseteq Personas \X Personas
  /\ shown \in [Conns -> [Personas -> {"unknown", "online", "offline"}]]
  /\ \A g \in Conns : sesskey[g] # 0 => player[g] # None /\ link[g] = "open"

Init ==
  /\ FeslInit
  /\ link = [g \in Conns |-> "new"]
  /\ player = [g \in Conns |-> None]
  /\ sesskey = [g \in Conns |-> 0]
  /\ active = [k \in Keys |-> None]
  /\ found = [p \in Personas |-> None]
  /\ rows = <<>>
  /\ friends = {}
  /\ requests = {}
  /\ shown = [g \in Conns |-> [p \in Personas |-> "unknown"]]

Connect(g) ==
  /\ link[g] = "new"
  /\ link' = [link EXCEPT ![g] = "open"]
  /\ UNCHANGED <<feslVars, player, sesskey, active, found, rows, friends, requests, shown>>

-----------------------------------------------------------------------------
(* Login and logout *)

\* Mutant: the ticket is looked up but not marked.
ConsumeLooksOnly(i) == ~tickets[i].used /\ UNCHANGED tickets

\* validate_and_consume_preauth_ticket
Consume(i) ==
  /\ ~tickets[i].used
  /\ tickets' = [tickets EXCEPT ![i].used = TRUE]

\* handle_login of a ticket that is valid; a client logs in when it has no session.
Login(g, i) ==
  /\ link[g] = "open" /\ player[g] = None
  /\ Len(rows) < MaxTickets
  /\ Consume(i)
  /\ LET p == tickets[i].persona  k == Len(rows) + 1 IN
     /\ rows' = Append(rows, [persona |-> p, ticket |-> i, live |-> TRUE])
     /\ player' = [player EXCEPT ![g] = p]
     /\ sesskey' = [sesskey EXCEPT ![g] = k]
     /\ active' = [active EXCEPT ![k] = g]
     /\ found' = [found EXCEPT ![p] = g]
  /\ UNCHANGED <<stage, context, owner, sessions, keys, link, friends, requests, shown>>

\* handle_login with a response that does not fit: the ticket is consumed all the same.
LoginFails(g, i) ==
  /\ link[g] = "open" /\ player[g] = None
  /\ Consume(i)
  /\ UNCHANGED <<stage, context, owner, sessions, keys, gpVars>>

\* Mutant: the persona is not taken out of users_by_persona.
UnregisterKeepsPersona(g) ==
  /\ active' = [active EXCEPT ![sesskey[g]] = None]
  /\ UNCHANGED found

\* unregister_user: the persona is not found any more, whichever connection it had.
Unregister(g) ==
  /\ active' = [active EXCEPT ![sesskey[g]] = None]
  /\ found' = [found EXCEPT ![player[g]] = None]

\* _notify_buddies_status: p tells the buddies that users_by_persona finds.
NotifyBuddies(p, status, users) ==
  shown' = [g \in Conns |-> IF \E q \in Personas : <<p, q>> \in friends /\ users[q] = g
                            THEN [shown[g] EXCEPT ![p] = status] ELSE shown[g]]

\* Mutant: the key of the session is not cleared.
LogoutKeepsKey(g) ==
  /\ player[g] # None
  /\ Unregister(g)
  /\ rows' = [rows EXCEPT ![sesskey[g]].live = FALSE]
  /\ NotifyBuddies(player[g], "offline", found')
  /\ player' = [player EXCEPT ![g] = None]
  /\ UNCHANGED <<feslVars, link, sesskey, friends, requests>>

\* handle_logout; the connection stays.
Logout(g) ==
  /\ player[g] # None
  /\ Unregister(g)
  /\ rows' = [rows EXCEPT ![sesskey[g]].live = FALSE]
  /\ NotifyBuddies(player[g], "offline", found')
  /\ player' = [player EXCEPT ![g] = None]
  /\ sesskey' = [sesskey EXCEPT ![g] = 0]
  /\ UNCHANGED <<feslVars, link, friends, requests>>

\* connection_lost: nobody is told, and the row of GameSpySession stays active.
\* The fields of the protocol object go with it.
ConnectionLost(g) ==
  /\ link[g] = "open"
  /\ link' = [link EXCEPT ![g] = "closed"]
  /\ IF sesskey[g] # 0 THEN Unregister(g) ELSE UNCHANGED <<active, found>>
  /\ player' = [player EXCEPT ![g] = None]
  /\ sesskey' = [sesskey EXCEPT ![g] = 0]
  /\ UNCHANGED <<feslVars, rows, friends, requests, shown>>

-----------------------------------------------------------------------------
(* Buddies *)

\* handle_status
Status(g) ==
  /\ player[g] # None
  /\ NotifyBuddies(player[g], "online", found)
  /\ UNCHANGED <<feslVars, link, player, sesskey, active, found, rows, friends, requests>>

\* handle_addbuddy: a request is stored once; the sender is answered with the
\* status of a player who is found.
AddBuddy(g, q) ==
  /\ player[g] \notin {None, q}
  /\ requests' = requests \cup {<<player[g], q>>}
  /\ shown' = IF found[q] # None THEN [shown EXCEPT ![g][q] = "online"] ELSE shown
  /\ UNCHANGED <<feslVars, link, player, sesskey, active, found, rows, friends>>

\* handle_authadd of a pending request of q
AuthAdd(g, q) ==
  /\ player[g] # None
  /\ <<q, player[g]>> \in requests
  /\ requests' = requests \ {<<q, player[g]>>}
  /\ friends' = friends \cup {<<q, player[g]>>, <<player[g], q>>}
  /\ shown' = IF found[q] # None THEN [shown EXCEPT ![found[q]][player[g]] = "online"] ELSE shown
  /\ UNCHANGED <<feslVars, link, player, sesskey, active, found, rows>>

\* handle_delbuddy
DelBuddy(g, q) ==
  /\ player[g] # None
  /\ <<player[g], q>> \in friends
  /\ friends' = friends \ {<<player[g], q>>}
  /\ UNCHANGED <<feslVars, link, player, sesskey, active, found, rows, requests, shown>>

Buddies(g) == \/ Status(g)
              \/ \E q \in Personas : AddBuddy(g, q) \/ AuthAdd(g, q) \/ DelBuddy(g, q)

Next ==
  \/ FeslNext /\ UNCHANGED gpVars
  \/ \E g \in Conns : Connect(g) \/ Logout(g) \/ ConnectionLost(g) \/ Buddies(g)
  \/ \E g \in Conns : \E i \in 1 .. Len(tickets) : Login(g, i) \/ LoginFails(g, i)

Spec == Init /\ [][Next]_vars

-----------------------------------------------------------------------------
(* Properties *)

\* The connection users_by_persona has for a persona is one that is logged in as
\* this persona now, so messages for a buddy never go to somebody else.
PresenceIsTrue ==
  \A p \in Personas : found[p] # None => player[found[p]] = p

\* active_users has exactly the keys of the connections that are logged in, and a
\* key in it is that of a row of the database that is active and of its persona.
KeysAreOpen ==
  \A k \in Keys :
    /\ \A g \in Conns : active[k] = g <=> sesskey[g] = k
    /\ active[k] # None => k <= Len(rows) /\ rows[k].live /\ rows[k].persona = player[active[k]]

\* A ticket opens one session at most, whatever connections present it.
TicketOpensOnce ==
  \A j, k \in 1 .. Len(rows) : rows[j].ticket = rows[k].ticket => j = k

\* A persona is found as long as a connection is logged in as it.
LoggedInIsFound ==
  \A g \in Conns : player[g] # None => found[player[g]] # None
====
