------------------------------ MODULE Accounts ------------------------------
(***************************************************************************)
(* Accounts, personas and web sessions (db/crud.py, rest/routes.py,        *)
(* web/auth.py).  All requests run on one event loop and never suspend     *)
(* between their first and their last look at the database, so they are    *)
(* served one at a time; but each commit is final, and a request that is   *)
(* cut off between two of them (the server is stopped, a commit fails)     *)
(* leaves what it has written.  request is the request that is between two *)
(* commits.  A cookie may reach the server long after it was given out:    *)
(* browsers keep several tabs, and a request may be old.                   *)
(***************************************************************************)
EXTENDS Naturals, Sequences

CONSTANTS
  Username,      \* names to register under
  PersonaName,   \* names of personas
  MaxPersonas,   \* bound: rows of the persona table
  MaxLogins,     \* bound: rows of the web session table
  Nobody         \* the user of a request without a usable cookie

ASSUME AccountsAssumption ==
  /\ Username \subseteq PersonaName
  /\ MaxPersonas \in Nat
  /\ MaxLogins \in Nat
  /\ Nobody \notin Username

VARIABLES
  users,      \* registered accounts, by their unique username
  entitled,   \* accounts that own the game
  personas,   \* the persona table: row number -> [user, name]
  logins,     \* the web session table: row -> [user, active, fresh]
  request     \* the request between two of its commits

accountVars == <<users, entitled, personas, logins, request>>

Idle == request.kind = "none"
NoRequest == [kind |-> "none"]

AccountsInit ==
  /\ users = {}
  /\ entitled = {}
  /\ personas = <<>>
  /\ logins = <<>>
  /\ request = NoRequest

PersonasOf(u) == {p \in DOMAIN personas : personas[p].user = u}
NameTaken(n) == \E p \in DOMAIN personas : personas[p].name = n

(***************************************************************************)
(* Registration: the account, then its default persona, then its           *)
(* entitlement, each with a commit of its own.  Only the username is       *)
(* looked up first, so the default persona may get a name that             *)
(* NuAddPersona has given to somebody else.                                *)
(***************************************************************************)
Register(u) ==
  /\ Idle
  /\ u \notin users
  /\ Len(personas) < MaxPersonas
  /\ users' = users \union {u}
  /\ request' = [kind |-> "persona", user |-> u]
  /\ UNCHANGED <<entitled, personas, logins>>

AddRow(u, n) == personas' = Append(personas, [user |-> u, name |-> n])

DefaultPersona ==
  /\ request.kind = "persona"
  /\ AddRow(request.user, request.user)
  /\ request' = [request EXCEPT !.kind = "entitlement"]
  /\ UNCHANGED <<users, entitled, logins>>

Entitle ==
  /\ request.kind = "entitlement"
  /\ entitled' = entitled \union {request.user}
  /\ request' = NoRequest
  /\ UNCHANGED <<users, personas, logins>>

\* A further persona, which a player adds in the game.
AddPersona(u, n) ==
  /\ Idle
  /\ u \in users
  /\ ~NameTaken(n)
  /\ Len(personas) < MaxPersonas
  /\ AddRow(u, n)
  /\ UNCHANGED <<users, entitled, logins, request>>

\* The process ends; only what was committed is left.
CutOff ==
  /\ ~Idle
  /\ request' = NoRequest
  /\ UNCHANGED <<users, entitled, personas, logins>>

(***************************************************************************)
(* Web sessions.  A token is the number of its row.                        *)
(***************************************************************************)
Valid(t) == logins[t].active /\ logins[t].fresh

\* Mutant: a token that was logged out is still looked up.
CurrentUserOfAnyToken(t) == IF logins[t].fresh THEN logins[t].user ELSE Nobody

CurrentUser(t) == IF Valid(t) THEN logins[t].user ELSE Nobody

WebLogin(u) ==
  /\ Idle
  /\ u \in users
  /\ Len(logins) < MaxLogins
  /\ logins' = Append(logins, [user |-> u, active |-> TRUE, fresh |-> TRUE])
  /\ UNCHANGED <<users, entitled, personas, request>>

WebLogout(t) ==
  /\ Idle
  /\ Valid(t)
  /\ logins' = [logins EXCEPT ![t].active = FALSE]
  /\ UNCHANGED <<users, entitled, personas, request>>

\* Seven days after the login.
LoginExpires(t) ==
  /\ logins[t].fresh
  /\ logins' = [logins EXCEPT ![t].fresh = FALSE]
  /\ UNCHANGED <<users, entitled, personas, request>>

AccountsNext ==
  \/ \E u \in Username : Register(u) \/ WebLogin(u)
  \/ \E u \in Username, n \in PersonaName : AddPersona(u, n)
  \/ DefaultPersona
  \/ Entitle
  \/ CutOff
  \/ \E t \in DOMAIN logins : WebLogout(t) \/ LoginExpires(t)

AccountsTypeOK ==
  /\ users \subseteq Username
  /\ entitled \subseteq users
  /\ personas \in Seq([user : users, name : PersonaName])
  /\ Len(personas) <= MaxPersonas
  /\ logins \in Seq([user : users, active : BOOLEAN, fresh : BOOLEAN])
  /\ Len(logins) <= MaxLogins
=============================================================================
