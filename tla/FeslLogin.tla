---- MODULE FeslLogin ----
(***************************************************************************)
(* The FESL login: NuLogin, NuAddPersona, NuLoginPersona and               *)
(* GameSpyPreAuth, which ends with a ticket for the GP server.             *)
(*                                                                         *)
(* Handlers run to their end without suspending.  What they remember of a  *)
(* client is in client_data_var, a context variable that the server never  *)
(* sets: all connections share the one dictionary that is its default.     *)
(***************************************************************************)
EXTENDS Naturals, Sequences

CONSTANTS Clients,    \* the FESL connections
          Users,      \* the accounts
          UserOf,     \* UserOf[c]: the account the player at c logs in with
          Personas,   \* the persona names
          MaxLogins,  \* bound on the rows of FeslSession
          MaxTickets, \* bound on the rows of GameSpyPreAuthTicket
          None

ASSUME LoginAssumption ==
  /\ UserOf \in [Clients -> Users]
  /\ None \notin Users \cup Personas
  /\ MaxLogins \in Nat /\ MaxTickets \in Nat

VARIABLES stage,    \* the last step of the login that was answered to a client without an error
          context,  \* the dictionary: "user", "persona" and "lkey"
          owner,    \* Persona.user_id of the personas that exist
          sessions, \* the rows of FeslSession, all of them active
          keys,     \* how many lkeys were generated
          tickets   \* the rows of GameSpyPreAuthTicket, and the client each was sent to

feslVars == <<stage, context, owner, sessions, keys, tickets>>

FeslTypeOK ==
  /\ stage \in [Clients -> {"connected", "user", "persona"}]
  /\ context \in [user : Users \cup {None}, persona : Personas \cup {None}, lkey : Nat]
  /\ owner \in [Personas -> Users \cup {None}]
  /\ sessions \in Seq([user : Users, persona : Personas \cup {None}, lkey : Nat])
  /\ keys \in Nat
  /\ tickets \in Seq([user : Users, persona : Personas, to : Clients, used : BOOLEAN])

FeslInit ==
  /\ stage = [c \in Clients |-> "connected"]
  /\ context = [user |-> None, persona |-> None, lkey |-> 0]
  /\ owner = [p \in Personas |-> None]
  /\ sessions = <<>>
  /\ keys = 0
  /\ tickets = <<>>

\* Mutant: NuLogin keeps the key of the session before.
NuLoginKeepsKey(c) ==
  /\ stage[c] = "connected"
  /\ Len(sessions) < MaxLogins
  /\ keys' = keys + 1
  /\ sessions' = Append(sessions, [user |-> UserOf[c], persona |-> None, lkey |-> keys'])
  /\ context' = [context EXCEPT !.user = UserOf[c], !.lkey = IF @ = 0 THEN keys' ELSE @]
  /\ stage' = [stage EXCEPT ![c] = "user"]
  /\ UNCHANGED <<owner, tickets>>

\* handle_login of a player who gives the right password.  The persona that the
\* dictionary has stays there.
NuLogin(c) ==
  /\ stage[c] = "connected"
  /\ Len(sessions) < MaxLogins
  /\ keys' = keys + 1
  /\ sessions' = Append(sessions, [user |-> UserOf[c], persona |-> None, lkey |-> keys'])
  /\ context' = [context EXCEPT !.user = UserOf[c], !.lkey = keys']
  /\ stage' = [stage EXCEPT ![c] = "user"]
  /\ UNCHANGED <<owner, tickets>>

\* handle_add_persona, for a name that nobody has
NuAddPersona(c, p) ==
  /\ stage[c] = "user"
  /\ owner[p] = None
  /\ owner' = [owner EXCEPT ![p] = context.user]
  /\ UNCHANGED <<stage, context, sessions, keys, tickets>>

\* update_fesl_session_persona for the row with the key of the dictionary.
UpdateSession(p) ==
  \E i \in 1 .. Len(sessions) :
    /\ sessions[i].lkey = context.lkey
    /\ keys' = keys + 1
    /\ sessions' = [sessions EXCEPT ![i].persona = p, ![i].lkey = keys']
    /\ context' = [context EXCEPT !.persona = p, !.lkey = keys']

\* handle_login_persona, for a persona of the user in the dictionary
NuLoginPersona(c, p) ==
  /\ stage[c] = "user"
  /\ owner[p] # None /\ owner[p] = context.user
  /\ UpdateSession(p)
  /\ stage' = [stage EXCEPT ![c] = "persona"]
  /\ UNCHANGED <<owner, tickets>>

\* handle_gamespy_pre_auth
GameSpyPreAuth(c) ==
  /\ stage[c] = "persona"
  /\ context.user # None /\ context.persona # None
  /\ Len(tickets) < MaxTickets
  /\ tickets' = Append(tickets, [user |-> context.user, persona |-> context.persona,
                                 to |-> c, used |-> FALSE])
  /\ UNCHANGED <<stage, context, owner, sessions, keys>>

\* The connection ends, after an error or because the player leaves, and a new
\* one is made: the dictionary stays as it is.
Reconnect(c) ==
  /\ stage[c] # "connected"
  /\ stage' = [stage EXCEPT ![c] = "connected"]
  /\ UNCHANGED <<context, owner, sessions, keys, tickets>>

FeslNext ==
  \E c \in Clients :
    \/ NuLogin(c) \/ GameSpyPreAuth(c) \/ Reconnect(c)
    \/ \E p \in Personas : NuAddPersona(c, p) \/ NuLoginPersona(c, p)

FeslSpec == FeslInit /\ [][FeslNext]_feslVars

-----------------------------------------------------------------------------
(* Properties *)

\* A FESL session that has a persona has one of its own user, although user,
\* persona and key are taken from a dictionary that all connections write.
SessionOwnsPersona ==
  \A i \in 1 .. Len(sessions) :
    sessions[i].persona # None => owner[sessions[i].persona] = sessions[i].user

\* A player is given tickets for his own account and a persona of it
\* (FESL.md:308, "user/session data across requests within a connection").
TicketIsForClient ==
  \A i \in 1 .. Len(tickets) :
    /\ tickets[i].user = UserOf[tickets[i].to]
    /\ owner[tickets[i].persona] = tickets[i].user
====
