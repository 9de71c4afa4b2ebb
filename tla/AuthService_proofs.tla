---- MODULE AuthService_proofs ----
(* Logins and presence for any number of FESL clients, GP connections,     *)
(* accounts and personas; and the tickets, statistics and certificates of  *)
(* the servers that a login goes through, for any number of connections    *)
(* to each of them.                                                        *)
EXTENDS AuthService, SequenceTheorems, TLAPS

-----------------------------------------------------------------------------
(* The inductive invariant *)

\* The key of the dictionary is that of a session of the dictionary's user, and
\* no key was ever used that is not generated yet.
ContextKey ==
  /\ context.lkey <= keys
  /\ \A i \in 1 .. Len(sessions) :
       /\ sessions[i].lkey <= keys
       /\ sessions[i].lkey = context.lkey => sessions[i].user = context.user

\* A ticket that opened a session is marked.
TicketsMarked ==
  /\ Len(tickets) <= MaxTickets /\ Len(rows) <= MaxTickets
  /\ \A k \in 1 .. Len(rows) : rows[k].ticket <= Len(tickets) /\ tickets[rows[k].ticket].used

\* A connection has a persona exactly when it has the key of a session.
PlayersHaveKeys ==
  \A g \in Conns : (player[g] # None <=> sesskey[g] # 0) /\ sesskey[g] <= Len(rows)

FeslInv == FeslTypeOK /\ SessionOwnsPersona /\ ContextKey
PresenceInv == PlayersHaveKeys /\ PresenceIsTrue /\ KeysAreOpen
LoginInv == LoginTypeOK /\ FeslInv /\ TicketsMarked /\ TicketOpensOnce /\ PresenceInv

-----------------------------------------------------------------------------
(* FESL *)

\* A login adds a session without a persona, under a key nobody has.
LEMMA NuLoginKeepsInv ==
  ASSUME FeslInv, NEW c \in Clients, NuLogin(c)
  PROVE  FeslInv'
<1> DEFINE Row == [user : Users, persona : Personas \cup {None}, lkey : Nat]
           row == [user |-> UserOf[c], persona |-> None, lkey |-> keys']
<1>0. keys \in Nat /\ keys' = keys + 1 /\ sessions \in Seq(Row)
  BY DEF NuLogin, FeslInv, FeslTypeOK
<1>1. keys \in Nat /\ keys' = keys + 1 /\ row \in Row /\ sessions \in Seq(Row)
  <2>1. UserOf[c] \in Users
    BY LoginAssumption
  <2> QED
    BY <1>0, <2>1
<1>2. /\ sessions' = Append(sessions, row)
      /\ context' = [context EXCEPT !.user = UserOf[c], !.lkey = keys']
      /\ UNCHANGED owner
  BY DEF NuLogin
<1>3. /\ sessions' \in Seq(Row) /\ Len(sessions') = Len(sessions) + 1
      /\ \A i \in 1 .. Len(sessions) : sessions'[i] = sessions[i]
      /\ sessions'[Len(sessions) + 1] = row
  BY <1>1, <1>2, AppendProperties
<1>4. context' \in [user : Users \cup {None}, persona : Personas \cup {None}, lkey : Nat]
      /\ context'.lkey = keys' /\ context'.user = UserOf[c]
  BY <1>1, <1>2, LoginAssumption DEF FeslInv, FeslTypeOK
<1>5. FeslTypeOK'
  BY <1>1, <1>3, <1>4 DEF NuLogin, FeslInv, FeslTypeOK
<1>6. \A i \in 1 .. Len(sessions') : i \in 1 .. Len(sessions) \/ i = Len(sessions) + 1
  BY <1>1, <1>3, LenProperties
<1>7. SessionOwnsPersona'
  BY <1>2, <1>3, <1>6 DEF FeslInv, SessionOwnsPersona
<1>8. \A i \in 1 .. Len(sessions) : sessions[i].lkey \in Nat /\ sessions[i].lkey <= keys
  <2> SUFFICES ASSUME NEW i \in 1 .. Len(sessions)
               PROVE  sessions[i].lkey \in Nat /\ sessions[i].lkey <= keys
    OBVIOUS
  <2>1. sessions[i] \in Row
    BY <1>1, ElementOfSeq
  <2> QED
    BY <2>1 DEF FeslInv, ContextKey
<1>9. ContextKey'
  BY <1>1, <1>3, <1>4, <1>6, <1>8 DEF ContextKey
<1> QED
  BY <1>5, <1>7, <1>9 DEF FeslInv

\* The session that gets the persona is one of the user who owns it.
LEMMA LoginPersonaKeepsInv ==
  ASSUME FeslInv, NEW c \in Clients, NEW p \in Personas, NuLoginPersona(c, p)
  PROVE  FeslInv'
<1> DEFINE Row == [user : Users, persona : Personas \cup {None}, lkey : Nat]
<1>1. PICK i \in 1 .. Len(sessions) :
        /\ sessions[i].lkey = context.lkey
        /\ keys' = keys + 1
        /\ sessions' = [sessions EXCEPT ![i].persona = p, ![i].lkey = keys']
        /\ context' = [context EXCEPT !.persona = p, !.lkey = keys']
  BY DEF NuLoginPersona, UpdateSession
<1> DEFINE row == [sessions[i] EXCEPT !.persona = p, !.lkey = keys']
<1>2. keys \in Nat /\ sessions \in Seq(Row) /\ sessions[i] \in Row
  <2>1. keys \in Nat /\ sessions \in Seq(Row)
    BY DEF FeslInv, FeslTypeOK
  <2> QED
    BY <2>1, ElementOfSeq
<1>3. row \in Row /\ row.persona = p /\ row.lkey = keys' /\ row.user = sessions[i].user
  <2>1. keys' \in Nat
    BY <1>1, <1>2
  <2> QED
    BY <1>2, <2>1
<1>4. sessions' = [sessions EXCEPT ![i] = row]
  BY <1>1, <1>2
<1>5. /\ sessions' \in Seq(Row) /\ Len(sessions') = Len(sessions)
      /\ \A j \in 1 .. Len(sessions) : sessions'[j] = IF j = i THEN row ELSE sessions[j]
  BY <1>2, <1>3, <1>4, ExceptSeq
<1>6. context' \in [user : Users \cup {None}, persona : Personas \cup {None}, lkey : Nat]
      /\ context'.lkey = keys' /\ context'.user = context.user
  <2>1. keys' \in Nat
    BY <1>1, <1>2
  <2>2. context \in [user : Users \cup {None}, persona : Personas \cup {None}, lkey : Nat]
    BY DEF FeslInv, FeslTypeOK
  <2>3. context' = [context EXCEPT !.persona = p, !.lkey = keys']
    BY <1>1
  <2> QED
    BY <2>1, <2>2, <2>3
<1>7. owner[p] = context.user /\ UNCHANGED <<owner, tickets>>
      /\ stage' \in [Clients -> {"connected", "user", "persona"}]
  BY DEF NuLoginPersona, FeslInv, FeslTypeOK
<1>8. FeslTypeOK'
  BY <1>1, <1>2, <1>5, <1>6, <1>7 DEF FeslInv, FeslTypeOK
<1>9. sessions[i].user = context.user
  BY <1>1 DEF FeslInv, ContextKey
<1>10. SessionOwnsPersona'
  <2>1. \A j \in 1 .. Len(sessions) :
          sessions[j].persona # None => owner[sessions[j].persona] = sessions[j].user
    BY DEF FeslInv, SessionOwnsPersona
  <2>2. owner[row.persona] = row.user
    BY <1>3, <1>7, <1>9
  <2> HIDE DEF row
  <2>3. \A j \in 1 .. Len(sessions') :
          sessions'[j].persona # None => owner'[sessions'[j].persona] = sessions'[j].user
    BY <1>5, <1>7, <2>1, <2>2
  <2> QED
    BY <2>3 DEF SessionOwnsPersona
<1>11. \A j \in 1 .. Len(sessions) : sessions[j].lkey \in Nat /\ sessions[j].lkey <= keys
  <2> SUFFICES ASSUME NEW j \in 1 .. Len(sessions)
               PROVE  sessions[j].lkey \in Nat /\ sessions[j].lkey <= keys
    OBVIOUS
  <2>1. sessions[j] \in Row
    BY <1>2, ElementOfSeq
  <2> QED
    BY <2>1 DEF FeslInv, ContextKey
<1>12. ContextKey'
  BY <1>1, <1>2, <1>3, <1>5, <1>6, <1>9, <1>11 DEF ContextKey
<1> QED
  BY <1>8, <1>10, <1>12 DEF FeslInv

\* Whatever the FESL server does, sessions keep personas of their users, and
\* tickets are only added.
LEMMA FeslStep ==
  ASSUME FeslInv, Len(tickets) <= MaxTickets, FeslNext
  PROVE  /\ FeslInv' /\ Len(tickets') <= MaxTickets
         /\ \A i \in 1 .. Len(tickets) : i \in 1 .. Len(tickets') /\ tickets'[i] = tickets[i]
<1> DEFINE Added == /\ Len(tickets') <= MaxTickets
                    /\ \A i \in 1 .. Len(tickets) : i \in 1 .. Len(tickets') /\ tickets'[i] = tickets[i]
<1>1. ASSUME NEW c \in Clients, NuLogin(c)
      PROVE  FeslInv' /\ Added
  BY <1>1, NuLoginKeepsInv DEF NuLogin
<1>2. ASSUME NEW c \in Clients, NEW p \in Personas, NuLoginPersona(c, p)
      PROVE  FeslInv' /\ Added
  BY <1>2, LoginPersonaKeepsInv DEF NuLoginPersona
<1>3. ASSUME NEW c \in Clients, NEW p \in Personas, NuAddPersona(c, p)
      PROVE  FeslInv' /\ Added
  <2>1. /\ owner' = [owner EXCEPT ![p] = context.user] /\ owner[p] = None
        /\ UNCHANGED <<stage, context, sessions, keys, tickets>>
    BY <1>3 DEF NuAddPersona
  <2>2. FeslTypeOK'
    BY <2>1 DEF FeslInv, FeslTypeOK
  <2>3. \A i \in 1 .. Len(sessions) :
           sessions[i].user \in Users /\ sessions[i].persona \in Personas \cup {None}
    <3> DEFINE Row == [user : Users, persona : Personas \cup {None}, lkey : Nat]
    <3>1. sessions \in Seq(Row)
      BY DEF FeslInv, FeslTypeOK
    <3>2. \A i \in 1 .. Len(sessions) : sessions[i] \in Row
      BY <3>1, ElementOfSeq
    <3> QED
      BY <3>2
  <2>4. SessionOwnsPersona'
    BY <2>1, <2>3, LoginAssumption DEF FeslInv, FeslTypeOK, SessionOwnsPersona
  <2> QED
    BY <2>1, <2>2, <2>4 DEF FeslInv, ContextKey
<1>4. ASSUME NEW c \in Clients, GameSpyPreAuth(c)
      PROVE  FeslInv' /\ Added
  <2> DEFINE Ticket == [user : Users, persona : Personas, to : Clients, used : BOOLEAN]
             ticket == [user |-> context.user, persona |-> context.persona, to |-> c, used |-> FALSE]
  <2>1. /\ tickets' = Append(tickets, ticket) /\ Len(tickets) < MaxTickets
        /\ UNCHANGED <<stage, context, owner, sessions, keys>>
    BY <1>4 DEF GameSpyPreAuth
  <2>2. ticket \in Ticket /\ tickets \in Seq(Ticket)
    BY <1>4 DEF GameSpyPreAuth, FeslInv, FeslTypeOK
  <2>3. /\ tickets' \in Seq(Ticket) /\ Len(tickets') = Len(tickets) + 1
        /\ \A i \in 1 .. Len(tickets) : tickets'[i] = tickets[i]
    BY <2>1, <2>2, AppendProperties
  <2>4. Len(tickets) \in Nat /\ MaxTickets \in Nat
    BY <2>2, LenProperties, LoginAssumption
  <2>5. Added
    BY <2>1, <2>3, <2>4
  <2> QED
    BY <2>1, <2>3, <2>5 DEF FeslInv, FeslTypeOK, SessionOwnsPersona, ContextKey
<1>5. ASSUME NEW c \in Clients, Reconnect(c)
      PROVE  FeslInv' /\ Added
  BY <1>5 DEF Reconnect, FeslInv, FeslTypeOK, SessionOwnsPersona, ContextKey
<1> QED
  BY <1>1, <1>2, <1>3, <1>4, <1>5 DEF FeslNext

-----------------------------------------------------------------------------
(* GP *)

\* What the presence part of the invariant says of the rows depends on their
\* number, state and persona only.
GpRow == [persona : Personas, ticket : Keys, live : BOOLEAN]

\* Taking a connection out of both tables, together with its persona and its
\* key, leaves the others as they were.
LEMMA UnregisterKeepsPresence ==
  ASSUME LoginTypeOK, PresenceInv, NEW g \in Conns, player[g] # None, Unregister(g),
         player' = [player EXCEPT ![g] = None],
         sesskey' = [sesskey EXCEPT ![g] = 0],
         Len(rows') = Len(rows),
         \A k \in 1 .. Len(rows) : k # sesskey[g] => rows'[k] = rows[k]
  PROVE  /\ PresenceInv'
         /\ active' \in [Keys -> Conns \cup {None}]
         /\ found' \in [Personas -> Conns \cup {None}]
         /\ sesskey[g] \in Keys /\ sesskey[g] \in 1 .. Len(rows)
<1>1. /\ player \in [Conns -> Personas \cup {None}] /\ sesskey \in [Conns -> Keys \cup {0}]
      /\ active \in [Keys -> Conns \cup {None}] /\ found \in [Personas -> Conns \cup {None}]
  BY DEF LoginTypeOK
<1>2. rows \in Seq(GpRow)
  BY DEF LoginTypeOK, GpRow
<1>3. Len(rows) \in Nat
  BY <1>2, LenProperties
<1>4. sesskey[g] \in Keys /\ sesskey[g] \in 1 .. Len(rows) /\ player[g] \in Personas
  BY <1>1, <1>3 DEF PresenceInv, PlayersHaveKeys, Keys
<1>5. /\ active' = [active EXCEPT ![sesskey[g]] = None]
      /\ found' = [found EXCEPT ![player[g]] = None]
  BY DEF Unregister
<1>6. PlayersHaveKeys'
  <2>1. \A h \in Conns : (player[h] # None <=> sesskey[h] # 0) /\ sesskey[h] <= Len(rows)
    BY DEF PresenceInv, PlayersHaveKeys
  <2>2. \A h \in Conns : (player'[h] # None <=> sesskey'[h] # 0) /\ sesskey'[h] <= Len(rows')
    BY <1>1, <1>3, <2>1
  <2> QED
    BY <2>2 DEF PlayersHaveKeys
<1>7. PresenceIsTrue'
  BY <1>1, <1>4, <1>5, ConnsAssumption DEF PresenceInv, PresenceIsTrue
<1>8. KeysAreOpen'
  <2> SUFFICES ASSUME NEW k \in Keys
               PROVE  /\ \A h \in Conns : active'[k] = h <=> sesskey'[h] = k
                      /\ active'[k] # None => /\ k <= Len(rows') /\ rows'[k].live
                                              /\ rows'[k].persona = player'[active'[k]]
    BY DEF KeysAreOpen
  <2>1. /\ \A h \in Conns : active[k] = h <=> sesskey[h] = k
        /\ active[k] # None => k <= Len(rows) /\ rows[k].live /\ rows[k].persona = player[active[k]]
    BY DEF PresenceInv, KeysAreOpen
  <2>2. CASE k = sesskey[g]
    <3>1. active'[k] = None
      BY <1>1, <1>4, <1>5, <2>2
    <3>2. \A h \in Conns : sesskey'[h] # k
      BY <1>1, <2>1, <2>2 DEF Keys
    <3> QED
      BY <3>1, <3>2, ConnsAssumption
  <2>3. CASE k # sesskey[g]
    <3>1. active'[k] = active[k] /\ active[k] # g
      BY <1>1, <1>5, <2>1, <2>3
    <3>2. \A h \in Conns : sesskey'[h] = k <=> sesskey[h] = k
      BY <1>1, <2>3 DEF Keys
    <3>3. active[k] # None => rows'[k] = rows[k] /\ player'[active[k]] = player[active[k]]
      BY <1>1, <1>3, <2>1, <2>3, <3>1 DEF Keys
    <3> QED
      BY <2>1, <3>1, <3>2, <3>3
  <2> QED
    BY <2>2, <2>3
<1>9. active' \in [Keys -> Conns \cup {None}] /\ found' \in [Personas -> Conns \cup {None}]
  BY <1>1, <1>5
<1> QED
  BY <1>4, <1>6, <1>7, <1>8, <1>9 DEF PresenceInv

\* A ticket that is not marked opens a session under the next key.
LEMMA LoginKeepsInv ==
  ASSUME LoginInv, NEW g \in Conns, NEW i \in 1 .. Len(tickets), Login(g, i)
  PROVE  LoginInv'
<1> DEFINE Ticket == [user : Users, persona : Personas, to : Clients, used : BOOLEAN]
           k == Len(rows) + 1
           row == [persona |-> tickets[i].persona, ticket |-> i, live |-> TRUE]
           ticket == [tickets[i] EXCEPT !.used = TRUE]
<1>1. /\ player \in [Conns -> Personas \cup {None}] /\ sesskey \in [Conns -> Keys \cup {0}]
      /\ active \in [Keys -> Conns \cup {None}] /\ found \in [Personas -> Conns \cup {None}]
  BY DEF LoginInv, LoginTypeOK
<1>2. rows \in Seq(GpRow) /\ tickets \in Seq(Ticket)
  BY DEF LoginInv, LoginTypeOK, FeslTypeOK, GpRow
<1>3. /\ Len(rows) \in Nat /\ Len(tickets) \in Nat /\ MaxTickets \in Nat
      /\ Len(tickets) <= MaxTickets /\ Len(rows) < MaxTickets
  BY <1>2, LenProperties, LoginAssumption DEF LoginInv, TicketsMarked, Login
<1>4. k \in Keys /\ i \in Keys /\ tickets[i] \in Ticket
  <2>1. k \in Keys /\ i \in Keys
    BY <1>3 DEF Keys
  <2>2. tickets[i] \in Ticket
    BY <1>2, ElementOfSeq
  <2> QED
    BY <2>1, <2>2
<1>5. row \in GpRow /\ ticket \in Ticket /\ ticket.used
  BY <1>4 DEF GpRow
<1>6. /\ rows' = Append(rows, row)
      /\ player' = [player EXCEPT ![g] = tickets[i].persona]
      /\ sesskey' = [sesskey EXCEPT ![g] = k]
      /\ active' = [active EXCEPT ![k] = g]
      /\ found' = [found EXCEPT ![tickets[i].persona] = g]
      /\ player[g] = None /\ link[g] = "open" /\ ~tickets[i].used
  BY DEF Login, Consume
<1>7. tickets' = [tickets EXCEPT ![i] = ticket]
  BY <1>2 DEF Login, Consume
<1>8. /\ rows' \in Seq(GpRow) /\ Len(rows') = k /\ rows'[k] = row
      /\ \A j \in 1 .. Len(rows) : rows'[j] = rows[j]
  BY <1>2, <1>5, <1>6, AppendProperties
<1>9. /\ tickets' \in Seq(Ticket) /\ Len(tickets') = Len(tickets)
      /\ \A j \in 1 .. Len(tickets) : tickets'[j] = IF j = i THEN ticket ELSE tickets[j]
  BY <1>2, <1>5, <1>7, ExceptSeq
<1>10. \A j \in 1 .. Len(rows') : j \in 1 .. Len(rows) \/ j = k
  BY <1>3, <1>8
<1>11. FeslInv'
  <2>1. UNCHANGED <<stage, context, owner, sessions, keys>>
    BY DEF Login
  <2> QED
    BY <2>1, <1>9 DEF LoginInv, FeslInv, FeslTypeOK, SessionOwnsPersona, ContextKey
<1>12. tickets[i].persona \in Personas
  BY <1>4
<1>13. LoginTypeOK'
  <2>1. /\ player' \in [Conns -> Personas \cup {None}] /\ sesskey' \in [Conns -> Keys \cup {0}]
        /\ active' \in [Keys -> Conns \cup {None}] /\ found' \in [Personas -> Conns \cup {None}]
    BY <1>1, <1>4, <1>6, <1>12
  <2>2. UNCHANGED <<link, friends, requests, shown>>
    BY DEF Login
  <2>3. \A h \in Conns : sesskey'[h] # 0 => player'[h] # None /\ link'[h] = "open"
    BY <1>1, <1>6, <1>12, <2>2, LoginAssumption DEF LoginInv, LoginTypeOK
  <2> QED
    BY <1>8, <1>11, <2>1, <2>2, <2>3 DEF LoginInv, LoginTypeOK, FeslInv, GpRow
<1>14. \A j \in 1 .. Len(rows) : rows[j].ticket <= Len(tickets) /\ tickets[rows[j].ticket].used
  BY DEF LoginInv, TicketsMarked
<1>15. \A j \in 1 .. Len(rows) : rows[j].ticket \in 1 .. Len(tickets) /\ rows[j].ticket # i
  <2> SUFFICES ASSUME NEW j \in 1 .. Len(rows)
               PROVE  rows[j].ticket \in 1 .. Len(tickets) /\ rows[j].ticket # i
    OBVIOUS
  <2>1. rows[j] \in GpRow
    BY <1>2, ElementOfSeq
  <2>2. rows[j].ticket \in Keys
    BY <2>1 DEF GpRow
  <2> QED
    BY <1>3, <1>6, <1>14, <2>2 DEF Keys
<1>16. TicketsMarked'
  <2>1. \A j \in 1 .. Len(rows') : rows'[j].ticket <= Len(tickets') /\ tickets'[rows'[j].ticket].used
    BY <1>3, <1>5, <1>8, <1>9, <1>10, <1>14, <1>15
  <2> QED
    BY <1>3, <1>8, <1>9, <2>1 DEF TicketsMarked
<1>17. TicketOpensOnce'
  <2>1. \A j, l \in 1 .. Len(rows) : rows[j].ticket = rows[l].ticket => j = l
    BY DEF LoginInv, TicketOpensOnce
  <2>2. \A j, l \in 1 .. Len(rows') : rows'[j].ticket = rows'[l].ticket => j = l
    BY <1>8, <1>10, <1>15, <2>1
  <2> QED
    BY <2>2 DEF TicketOpensOnce
<1>18. \A h \in Conns : (player[h] # None <=> sesskey[h] # 0) /\ sesskey[h] <= Len(rows)
  BY DEF LoginInv, PresenceInv, PlayersHaveKeys
<1>19. PlayersHaveKeys'
  <2>1. \A h \in Conns : (player'[h] # None <=> sesskey'[h] # 0) /\ sesskey'[h] <= Len(rows')
    BY <1>1, <1>3, <1>6, <1>8, <1>12, <1>18, LoginAssumption DEF Keys
  <2> QED
    BY <2>1 DEF PlayersHaveKeys
<1>20. PresenceIsTrue'
  <2>1. \A p \in Personas : found[p] # None => found[p] \in Conns /\ player[found[p]] = p
    BY <1>1 DEF LoginInv, PresenceInv, PresenceIsTrue
  <2>2. \A p \in Personas : found[p] # g
    BY <1>6, <2>1, LoginAssumption, ConnsAssumption
  <2>3. \A p \in Personas : found'[p] # None => player'[found'[p]] = p
    BY <1>1, <1>6, <1>12, <2>1, <2>2
  <2> QED
    BY <2>3 DEF PresenceIsTrue
<1>21. KeysAreOpen'
  <2> SUFFICES ASSUME NEW l \in Keys
               PROVE  /\ \A h \in Conns : active'[l] = h <=> sesskey'[h] = l
                      /\ active'[l] # None => /\ l <= Len(rows') /\ rows'[l].live
                                              /\ rows'[l].persona = player'[active'[l]]
    BY DEF KeysAreOpen
  <2>1. /\ \A h \in Conns : active[l] = h <=> sesskey[h] = l
        /\ active[l] # None => l <= Len(rows) /\ rows[l].live /\ rows[l].persona = player[active[l]]
    BY DEF LoginInv, PresenceInv, KeysAreOpen
  <2>2. sesskey[g] = 0
    BY <1>6, <1>18
  <2>3. CASE l = k
    <3>1. \A h \in Conns : sesskey[h] # k
      BY <1>1, <1>3, <1>18 DEF Keys
    <3>2. active'[l] = g
      BY <1>1, <1>4, <1>6, <2>3
    <3>3. \A h \in Conns : sesskey'[h] = k <=> h = g
      BY <1>1, <1>6, <3>1
    <3>4. rows'[l] = row /\ player'[g] = tickets[i].persona /\ l <= Len(rows')
      BY <1>1, <1>3, <1>6, <1>8, <2>3
    <3> QED
      BY <2>3, <3>2, <3>3, <3>4
  <2>4. CASE l # k
    <3>1. active'[l] = active[l]
      BY <1>1, <1>6, <2>4
    <3>2. \A h \in Conns : sesskey'[h] = l <=> sesskey[h] = l
      BY <1>1, <1>6, <2>2, <2>4 DEF Keys
    <3>3. active[l] # None => /\ l \in 1 .. Len(rows)
                              /\ active[l] \in Conns /\ active[l] # g
      BY <1>1, <1>3, <2>1, <2>2 DEF Keys
    <3>4. active[l] # None => rows'[l] = rows[l] /\ player'[active[l]] = player[active[l]]
      BY <1>1, <1>6, <1>8, <3>3
    <3> QED
      BY <1>3, <1>8, <2>1, <3>1, <3>2, <3>3, <3>4
  <2> QED
    BY <2>3, <2>4
<1> QED
  BY <1>11, <1>13, <1>16, <1>17, <1>19, <1>20, <1>21 DEF LoginInv, PresenceInv

\* A ticket that is marked and opens no session here: a response that does not
\* fit, or a server that is not the GP server.
LEMMA SpentTicketKeepsInv ==
  ASSUME LoginInv, NEW i \in 1 .. Len(tickets), Consume(i),
         UNCHANGED <<stage, context, owner, sessions, keys, gpVars>>
  PROVE  LoginInv'
<1> DEFINE Ticket == [user : Users, persona : Personas, to : Clients, used : BOOLEAN]
           ticket == [tickets[i] EXCEPT !.used = TRUE]
<1>1. tickets \in Seq(Ticket)
  BY DEF LoginInv, LoginTypeOK, FeslTypeOK
<1>2. ticket \in Ticket /\ ticket.used
  <2>1. tickets[i] \in Ticket
    BY <1>1, ElementOfSeq
  <2> QED
    BY <2>1
<1>3. tickets' = [tickets EXCEPT ![i] = ticket]
  BY <1>1 DEF Consume
<1>4. /\ tickets' \in Seq(Ticket) /\ Len(tickets') = Len(tickets)
      /\ \A j \in 1 .. Len(tickets) : tickets'[j] = IF j = i THEN ticket ELSE tickets[j]
  BY <1>1, <1>2, <1>3, ExceptSeq
<1>5. UNCHANGED <<stage, context, owner, sessions, keys, gpVars>>
  OBVIOUS
<1>6. FeslInv' /\ LoginTypeOK'
  BY <1>4, <1>5 DEF LoginInv, LoginTypeOK, FeslInv, FeslTypeOK, SessionOwnsPersona, ContextKey, gpVars, Keys
<1>7. TicketsMarked'
  <2>1. UNCHANGED rows /\ rows \in Seq(GpRow)
    BY <1>5 DEF gpVars, LoginInv, LoginTypeOK, GpRow
  <2>2. \A k \in 1 .. Len(rows) : rows[k].ticket \in 1 .. Len(tickets) /\ tickets[rows[k].ticket].used
    <3> SUFFICES ASSUME NEW k \in 1 .. Len(rows)
                 PROVE  rows[k].ticket \in 1 .. Len(tickets) /\ tickets[rows[k].ticket].used
      OBVIOUS
    <3>1. rows[k] \in GpRow
      BY <2>1, ElementOfSeq
    <3>2. rows[k].ticket \in Keys
      BY <3>1 DEF GpRow
    <3> QED
      BY <3>2, <1>1, LenProperties DEF Keys, LoginInv, TicketsMarked
  <2>3. \A k \in 1 .. Len(rows) : tickets'[rows[k].ticket].used
    BY <1>2, <1>4, <2>2
  <2> QED
    BY <1>4, <2>1, <2>3 DEF LoginInv, TicketsMarked
<1>8. TicketOpensOnce' /\ PresenceInv'
  BY <1>5 DEF LoginInv, gpVars, TicketOpensOnce, PresenceInv, PlayersHaveKeys, PresenceIsTrue, KeysAreOpen, Keys
<1> QED
  BY <1>6, <1>7, <1>8 DEF LoginInv

\* Logging out ends the session of this connection and of no other.
LEMMA LogoutKeepsInv ==
  ASSUME LoginInv, NEW g \in Conns, Logout(g)
  PROVE  LoginInv'
<1> DEFINE k == sesskey[g]
           row == [rows[k] EXCEPT !.live = FALSE]
<1>1. rows \in Seq(GpRow)
  BY DEF LoginInv, LoginTypeOK, GpRow
<1>2. k \in 1 .. Len(rows)
  <2>1. sesskey[g] # 0 /\ sesskey[g] <= Len(rows) /\ sesskey[g] \in Keys \cup {0}
    BY DEF LoginInv, PresenceInv, PlayersHaveKeys, Logout, LoginTypeOK
  <2> QED
    BY <1>1, <2>1, LenProperties DEF Keys
<1>3. rows[k] \in GpRow
  BY <1>1, <1>2, ElementOfSeq
<1>4. row \in GpRow /\ row.ticket = rows[k].ticket
  BY <1>3 DEF GpRow
<1>5. rows' = [rows EXCEPT ![k] = row]
  BY <1>1 DEF Logout
<1>6. /\ rows' \in Seq(GpRow) /\ Len(rows') = Len(rows)
      /\ \A j \in 1 .. Len(rows) : rows'[j] = IF j = k THEN row ELSE rows[j]
  BY <1>1, <1>2, <1>4, <1>5, ExceptSeq
<1>7. /\ player' = [player EXCEPT ![g] = None] /\ sesskey' = [sesskey EXCEPT ![g] = 0]
      /\ UNCHANGED <<feslVars, link, friends, requests>>
      /\ player[g] # None /\ Unregister(g) /\ NotifyBuddies(player[g], "offline", found')
  BY DEF Logout
<1>8. /\ PresenceInv'
      /\ active' \in [Keys -> Conns \cup {None}] /\ found' \in [Personas -> Conns \cup {None}]
  BY <1>6, <1>7, UnregisterKeepsPresence DEF LoginInv
<1>9. FeslInv'
  BY <1>7 DEF LoginInv, FeslInv, FeslTypeOK, SessionOwnsPersona, ContextKey, feslVars
<1>10. LoginTypeOK'
  <2>1. player' \in [Conns -> Personas \cup {None}] /\ sesskey' \in [Conns -> Keys \cup {0}]
    BY <1>7 DEF LoginInv, LoginTypeOK
  <2>2. shown' \in [Conns -> [Personas -> {"unknown", "online", "offline"}]]
    BY <1>7 DEF LoginInv, LoginTypeOK, NotifyBuddies
  <2>3. \A h \in Conns : sesskey'[h] # 0 => player'[h] # None /\ link'[h] = "open"
    BY <1>7 DEF LoginInv, LoginTypeOK
  <2> QED
    BY <1>6, <1>7, <1>8, <1>9, <2>1, <2>2, <2>3 DEF LoginInv, LoginTypeOK, FeslInv, GpRow
<1>11. \A j \in 1 .. Len(rows) : rows'[j].ticket = rows[j].ticket
  BY <1>4, <1>6
<1>12. TicketsMarked' /\ TicketOpensOnce'
  BY <1>6, <1>7, <1>11 DEF LoginInv, TicketsMarked, TicketOpensOnce, feslVars
<1> QED
  BY <1>8, <1>9, <1>10, <1>12 DEF LoginInv

\* A connection that is lost takes its session out of the tables.
LEMMA ConnectionLostKeepsInv ==
  ASSUME LoginInv, NEW g \in Conns, ConnectionLost(g)
  PROVE  LoginInv'
<1>1. /\ link' = [link EXCEPT ![g] = "closed"]
      /\ player' = [player EXCEPT ![g] = None] /\ sesskey' = [sesskey EXCEPT ![g] = 0]
      /\ UNCHANGED <<feslVars, rows, friends, requests, shown>>
  BY DEF ConnectionLost
<1>2. /\ PresenceInv'
      /\ active' \in [Keys -> Conns \cup {None}] /\ found' \in [Personas -> Conns \cup {None}]
  <2>1. player[g] # None <=> sesskey[g] # 0
    BY DEF LoginInv, PresenceInv, PlayersHaveKeys
  <2>2. CASE sesskey[g] # 0
    BY <1>1, <2>1, <2>2, UnregisterKeepsPresence DEF LoginInv, ConnectionLost
  <2>3. CASE sesskey[g] = 0
    <3>1. UNCHANGED <<player, sesskey, active, found, rows>>
      BY <1>1, <2>1, <2>3 DEF ConnectionLost, LoginInv, LoginTypeOK
    <3> QED
      BY <3>1 DEF LoginInv, LoginTypeOK, PresenceInv, PlayersHaveKeys, PresenceIsTrue, KeysAreOpen, Keys
  <2> QED
    BY <2>2, <2>3
<1>3. FeslInv' /\ TicketsMarked' /\ TicketOpensOnce'
  BY <1>1 DEF LoginInv, FeslInv, FeslTypeOK, SessionOwnsPersona, ContextKey, feslVars,
              TicketsMarked, TicketOpensOnce
<1>4. LoginTypeOK'
  <2>1. /\ player' \in [Conns -> Personas \cup {None}] /\ sesskey' \in [Conns -> Keys \cup {0}]
        /\ link' \in [Conns -> {"new", "open", "closed"}]
    BY <1>1 DEF LoginInv, LoginTypeOK
  <2>2. \A h \in Conns : sesskey'[h] # 0 => player'[h] # None /\ link'[h] = "open"
    BY <1>1 DEF LoginInv, LoginTypeOK
  <2> QED
    BY <1>1, <1>2, <1>3, <2>1, <2>2 DEF LoginInv, LoginTypeOK, FeslInv, Keys
<1> QED
  BY <1>2, <1>3, <1>4 DEF LoginInv

\* Buddy handlers write the friends, the requests and what is shown, and read
\* the tables.
LEMMA BuddiesKeepInv ==
  ASSUME LoginInv, NEW g \in Conns, Buddies(g)
  PROVE  LoginInv'
<1> DEFINE Shown == [Conns -> [Personas -> {"unknown", "online", "offline"}]]
<1>1. player \in [Conns -> Personas \cup {None}] /\ found \in [Personas -> Conns \cup {None}]
      /\ shown \in Shown /\ friends \subseteq Personas \X Personas /\ requests \subseteq Personas \X Personas
  BY DEF LoginInv, LoginTypeOK
<1>2. /\ UNCHANGED <<feslVars, link, player, sesskey, active, found, rows>>
      /\ shown' \in Shown /\ friends' \subseteq Personas \X Personas /\ requests' \subseteq Personas \X Personas
  <2>1. CASE Status(g)
    BY <1>1, <2>1 DEF Status, NotifyBuddies
  <2>2. ASSUME NEW q \in Personas, AddBuddy(g, q)
        PROVE  <1>2!1 /\ <1>2!2
    BY <1>1, <2>2 DEF AddBuddy
  <2>3. ASSUME NEW q \in Personas, AuthAdd(g, q)
        PROVE  <1>2!1 /\ <1>2!2
    BY <1>1, <2>3 DEF AuthAdd
  <2>4. ASSUME NEW q \in Personas, DelBuddy(g, q)
        PROVE  <1>2!1 /\ <1>2!2
    BY <1>1, <2>4 DEF DelBuddy
  <2> QED
    BY <2>1, <2>2, <2>3, <2>4 DEF Buddies
<1> QED
  BY <1>2 DEF LoginInv, LoginTypeOK, FeslInv, FeslTypeOK, SessionOwnsPersona, ContextKey, feslVars, Keys,
              TicketsMarked, TicketOpensOnce, PresenceInv, PlayersHaveKeys, PresenceIsTrue, KeysAreOpen

-----------------------------------------------------------------------------
(* The theorems *)

\* The servers start without users.
LEMMA InitEstablishesInv == Init => LoginInv
<1> SUFFICES ASSUME Init
             PROVE  LoginInv
  OBVIOUS
<1>1. Len(sessions) = 0 /\ Len(tickets) = 0 /\ Len(rows) = 0 /\ sessions = <<>> /\ tickets = <<>> /\ rows = <<>>
  BY DEF Init, FeslInit
<1>2. FeslTypeOK
  BY LoginAssumption DEF Init, FeslInit, FeslTypeOK
<1>3. SessionOwnsPersona /\ ContextKey
  BY <1>1 DEF Init, FeslInit, SessionOwnsPersona, ContextKey
<1>4. LoginTypeOK
  BY <1>1, <1>2 DEF Init, LoginTypeOK
<1>5. TicketsMarked /\ TicketOpensOnce
  BY <1>1, LoginAssumption DEF TicketsMarked, TicketOpensOnce
<1>6. PresenceInv
  BY <1>1, ConnsAssumption DEF Init, PresenceInv, PlayersHaveKeys, PresenceIsTrue, KeysAreOpen, Keys
<1> QED
  BY <1>2, <1>3, <1>4, <1>5, <1>6 DEF LoginInv, FeslInv

\* No message and no lost connection breaks the invariant.
LEMMA NextKeepsInv == LoginInv /\ [Next]_vars => LoginInv'
<1> SUFFICES ASSUME LoginInv, [Next]_vars
             PROVE  LoginInv'
  OBVIOUS
<1>1. CASE FeslNext /\ UNCHANGED gpVars
  <2>1. /\ FeslInv' /\ Len(tickets') <= MaxTickets
        /\ \A i \in 1 .. Len(tickets) : i \in 1 .. Len(tickets') /\ tickets'[i] = tickets[i]
    BY <1>1, FeslStep DEF LoginInv, TicketsMarked
  <2>2. LoginTypeOK'
    BY <1>1, <2>1 DEF LoginInv, LoginTypeOK, FeslInv, gpVars, Keys
  <2>3. TicketOpensOnce' /\ PresenceInv'
    BY <1>1 DEF LoginInv, gpVars, TicketOpensOnce, PresenceInv, PlayersHaveKeys, PresenceIsTrue, KeysAreOpen, Keys
  <2>4. rows' = rows /\ rows \in Seq(GpRow)
    BY <1>1 DEF gpVars, LoginInv, LoginTypeOK, GpRow
  <2>5. \A k \in 1 .. Len(rows) : rows[k].ticket \in 1 .. Len(tickets) /\ tickets[rows[k].ticket].used
    <3> SUFFICES ASSUME NEW k \in 1 .. Len(rows)
                 PROVE  rows[k].ticket \in 1 .. Len(tickets) /\ tickets[rows[k].ticket].used
      OBVIOUS
    <3>1. rows[k] \in GpRow
      BY <2>4, ElementOfSeq
    <3>2. rows[k].ticket \in Keys
      BY <3>1 DEF GpRow
    <3>3. Len(tickets) \in Nat
      BY LenProperties DEF LoginInv, LoginTypeOK, FeslTypeOK
    <3> QED
      BY <3>2, <3>3 DEF Keys, LoginInv, TicketsMarked
  <2>6. TicketsMarked'
    BY <2>1, <2>4, <2>5 DEF LoginInv, TicketsMarked
  <2> QED
    BY <2>1, <2>2, <2>3, <2>6 DEF LoginInv
<1>2. ASSUME NEW g \in Conns, Connect(g)
      PROVE  LoginInv'
  <2>1. link' = [link EXCEPT ![g] = "open"]
        /\ UNCHANGED <<feslVars, player, sesskey, active, found, rows, friends, requests, shown>>
    BY <1>2 DEF Connect
  <2>2. link' \in [Conns -> {"new", "open", "closed"}]
        /\ \A h \in Conns : sesskey'[h] # 0 => player'[h] # None /\ link'[h] = "open"
    BY <2>1 DEF LoginInv, LoginTypeOK
  <2>3. LoginTypeOK'
    BY <2>1, <2>2 DEF LoginInv, LoginTypeOK, FeslTypeOK, feslVars, Keys
  <2> QED
    BY <2>1, <2>3 DEF LoginInv, FeslInv, FeslTypeOK, SessionOwnsPersona, ContextKey, feslVars, Keys,
                TicketsMarked, TicketOpensOnce, PresenceInv, PlayersHaveKeys, PresenceIsTrue, KeysAreOpen
<1>3. CASE UNCHANGED vars
  BY <1>3 DEF vars, gpVars, feslVars, LoginInv, LoginTypeOK, FeslInv, FeslTypeOK, SessionOwnsPersona, ContextKey,
              Keys, TicketsMarked, TicketOpensOnce, PresenceInv, PlayersHaveKeys, PresenceIsTrue, KeysAreOpen
<1>4. ASSUME NEW g \in Conns, NEW i \in 1 .. Len(tickets), LoginFails(g, i)
      PROVE  LoginInv'
  BY <1>4, SpentTicketKeepsInv DEF LoginFails
<1> QED
  BY <1>1, <1>2, <1>3, <1>4, LoginKeepsInv, LogoutKeepsInv, ConnectionLostKeepsInv,
     BuddiesKeepInv DEF Next

\* Every reachable state of the two login servers satisfies the invariant.
THEOREM LoginSafety == Spec => []LoginInv
BY InitEstablishesInv, NextKeepsInv, PTL DEF Spec

\* The state is well typed, and only open connections have sessions.
THEOREM TypeCorrect == Spec => []LoginTypeOK
BY LoginSafety, PTL DEF LoginInv

\* No FESL session is given a persona of another account.
THEOREM PersonasAreOwned == Spec => []SessionOwnsPersona
BY LoginSafety, PTL DEF LoginInv, FeslInv

\* A persona is never found at a connection that is not logged in as it.
THEOREM PresenceIsSound == Spec => []PresenceIsTrue
BY LoginSafety, PTL DEF LoginInv, PresenceInv

\* The session manager's keys are those of the sessions that are open.
THEOREM KeysMatchSessions == Spec => []KeysAreOpen
BY LoginSafety, PTL DEF LoginInv, PresenceInv

\* No ticket opens two sessions.
THEOREM TicketsAreSingleUse == Spec => []TicketOpensOnce
BY LoginSafety, PTL DEF LoginInv

-----------------------------------------------------------------------------
(* GameStats beside FESL and GP *)

\* What is known of the connections and of the table of statistics.
StatsTyped ==
  /\ peer \in [StatsConns -> {"new", "open", "closed"}]
  /\ authenticated_game \in [StatsConns -> BOOLEAN]
  /\ opened \in [StatsConns -> 0 .. Len(tickets)]
  /\ known \in [StatsConns -> BOOLEAN]
  /\ stats \in [Personas -> 0 .. Len(tickets)]
  /\ \A s \in StatsConns : peer[s] # "open" => ~authenticated_game[s] /\ opened[s] = 0

\* Ticket i was spent here and not at the GP server.
SpentHere(i) == tickets[i].used /\ \A k \in 1 .. Len(rows) : rows[k].ticket # i

\* The tickets of the connections are spent here, and are different.
ConnsHaveTickets ==
  \A s \in StatsConns : opened[s] # 0 =>
    /\ SpentHere(opened[s])
    /\ \A t \in StatsConns : opened[t] = opened[s] => t = s

\* So are those that statistics were written under.
StatsHaveTickets ==
  \A p \in Personas : stats[p] # 0 => SpentHere(stats[p]) /\ tickets[stats[p]].persona = p

ReadersAreKnown == \A s \in StatsConns : known[s] => authenticated_game[s] /\ opened[s] # 0

\* The inductive invariant: that of the other two servers, and these.
StatsInv ==
  /\ LoginInv
  /\ StatsTyped /\ ConnsHaveTickets /\ StatsHaveTickets /\ ReadersAreKnown

\* The servers start without users.
LEMMA GsInitEstablishesInv == GsInit => StatsInv
<1> SUFFICES ASSUME GsInit PROVE StatsInv
  OBVIOUS
<1>1. LoginInv /\ Len(tickets) \in Nat
  BY InitEstablishesInv, LenProperties DEF GsInit, LoginInv, LoginTypeOK, FeslTypeOK
<1>2. StatsTyped
  BY <1>1 DEF GsInit, StatsTyped
<1> QED
  BY <1>1, <1>2 DEF GsInit, StatsInv, ConnsHaveTickets, StatsHaveTickets, ReadersAreKnown

\* Marking a ticket leaves everything else of the tickets as it is.
LEMMA ConsumeMarks ==
  ASSUME LoginInv, NEW i \in 1 .. Len(tickets), Consume(i)
  PROVE  /\ Len(tickets') = Len(tickets) /\ ~tickets[i].used /\ tickets'[i].used
         /\ \A j \in 1 .. Len(tickets) :
              /\ tickets'[j].persona = tickets[j].persona
              /\ tickets[j].used => tickets'[j].used
<1> DEFINE Ticket == [user : Users, persona : Personas, to : Clients, used : BOOLEAN]
           ticket == [tickets[i] EXCEPT !.used = TRUE]
<1>1. tickets \in Seq(Ticket) /\ tickets' = [tickets EXCEPT ![i] = ticket]
  BY DEF LoginInv, LoginTypeOK, FeslTypeOK, Consume
<1>2. tickets[i] \in Ticket
  BY <1>1, ElementOfSeq
<1>3. ticket \in Ticket /\ ticket.used /\ ticket.persona = tickets[i].persona
  BY <1>2
<1>4. /\ Len(tickets') = Len(tickets)
      /\ \A j \in 1 .. Len(tickets) : tickets'[j] = IF j = i THEN ticket ELSE tickets[j]
  BY <1>1, <1>3, ExceptSeq
<1> HIDE DEF ticket
<1> QED
  BY <1>3, <1>4 DEF Consume

\* What the other two servers do to tickets and rows: marks are not taken
\* back, and a new row has a ticket that was not marked.
LEMMA TicketsStaySpent ==
  ASSUME LoginInv, Next, NEW i \in 1 .. Len(tickets)
  PROVE  /\ i \in 1 .. Len(tickets')
         /\ tickets'[i].persona = tickets[i].persona
         /\ SpentHere(i) => SpentHere(i)'
<1> DEFINE Goal == /\ i \in 1 .. Len(tickets')
                   /\ tickets'[i].persona = tickets[i].persona
                   /\ SpentHere(i) => SpentHere(i)'
<1>0. rows \in Seq(GpRow) /\ Len(rows) \in Nat
  BY LenProperties DEF LoginInv, LoginTypeOK, GpRow
<1>1. ASSUME FeslNext, UNCHANGED gpVars
      PROVE  Goal
  <2>1. i \in 1 .. Len(tickets') /\ tickets'[i] = tickets[i]
    BY <1>1, FeslStep DEF LoginInv, TicketsMarked
  <2> QED
    BY <1>1, <2>1 DEF gpVars, SpentHere
<1>2. ASSUME UNCHANGED tickets, Len(rows') = Len(rows),
             \A k \in 1 .. Len(rows) : rows'[k].ticket = rows[k].ticket
      PROVE  Goal
  BY <1>2 DEF SpentHere
<1>3. ASSUME NEW g \in Conns, Connect(g) \/ ConnectionLost(g) \/ Buddies(g)
      PROVE  Goal
  <2>1. UNCHANGED <<tickets, rows>>
    BY <1>3 DEF Connect, ConnectionLost, Buddies, Status, AddBuddy, AuthAdd, DelBuddy, feslVars
  <2> QED
    BY <1>2, <2>1
<1>4. ASSUME NEW g \in Conns, Logout(g)
      PROVE  Goal
  <2> DEFINE l == sesskey[g]
             row == [rows[l] EXCEPT !.live = FALSE]
  <2>1. rows' = [rows EXCEPT ![l] = row] /\ UNCHANGED tickets
    BY <1>0, <1>4 DEF Logout, feslVars
  <2>2. l \in 1 .. Len(rows)
    <3>1. sesskey[g] # 0 /\ sesskey[g] <= Len(rows) /\ sesskey[g] \in Keys \cup {0}
      BY <1>4 DEF LoginInv, PresenceInv, PlayersHaveKeys, Logout, LoginTypeOK
    <3> QED
      BY <1>0, <3>1 DEF Keys
  <2>3. rows[l] \in GpRow
    BY <1>0, <2>2, ElementOfSeq
  <2>4. row \in GpRow /\ row.ticket = rows[l].ticket
    BY <2>3 DEF GpRow
  <2>5. /\ Len(rows') = Len(rows)
        /\ \A k \in 1 .. Len(rows) : rows'[k] = IF k = l THEN row ELSE rows[k]
    BY <1>0, <2>1, <2>2, <2>4, ExceptSeq
  <2>6. \A k \in 1 .. Len(rows) : rows'[k].ticket = rows[k].ticket
    BY <2>4, <2>5
  <2> QED
    BY <1>2, <2>1, <2>5, <2>6
<1>5. ASSUME NEW g \in Conns, NEW j \in 1 .. Len(tickets), Login(g, j)
      PROVE  Goal
  <2> DEFINE row == [persona |-> tickets[j].persona, ticket |-> j, live |-> TRUE]
  <2>1. Consume(j) /\ rows' = Append(rows, row) /\ Len(rows) < MaxTickets
    BY <1>5 DEF Login
  <2>2. row.ticket = j
    OBVIOUS
  <2>3. \A k \in 1 .. Len(rows') : rows'[k] = row \/ (k \in 1 .. Len(rows) /\ rows'[k] = rows[k])
    <3> HIDE DEF row
    <3> QED
      BY <1>0, <2>1
  <2>4. /\ Len(tickets') = Len(tickets) /\ ~tickets[j].used
        /\ tickets'[i].persona = tickets[i].persona
        /\ tickets[i].used => tickets'[i].used
    BY <2>1, ConsumeMarks
  <2>5. SpentHere(i) => SpentHere(i)'
    <3> HIDE DEF row
    <3> QED
      BY <2>2, <2>3, <2>4 DEF SpentHere
  <2> QED
    BY <2>4, <2>5
<1>6. ASSUME NEW g \in Conns, NEW j \in 1 .. Len(tickets), LoginFails(g, j)
      PROVE  Goal
  <2>1. Consume(j) /\ UNCHANGED rows
    BY <1>6 DEF LoginFails, gpVars
  <2> QED
    BY <2>1, ConsumeMarks DEF SpentHere
<1> HIDE DEF Goal
<1>7. Goal
  BY <1>1, <1>3, <1>4, <1>5, <1>6 DEF Next
<1> QED
  BY <1>7 DEF Goal

\* The steps of the other two servers.
LEMMA OthersKeepInv ==
  ASSUME StatsInv, Next, UNCHANGED statsVars
  PROVE  StatsInv'
<1>1. LoginInv'
  BY NextKeepsInv DEF StatsInv
<1>2. UNCHANGED <<peer, authenticated_game, opened, known, stats>>
  BY DEF statsVars
<1>3. \A i \in 1 .. Len(tickets) :
        /\ i \in 1 .. Len(tickets')
        /\ tickets'[i].persona = tickets[i].persona
        /\ SpentHere(i) => SpentHere(i)'
  BY TicketsStaySpent DEF StatsInv
<1>4. Len(tickets) \in Nat /\ Len(tickets') \in Nat
  BY <1>1, LenProperties DEF StatsInv, LoginInv, LoginTypeOK, FeslTypeOK
<1>5. /\ \A s \in StatsConns : opened[s] \in 0 .. Len(tickets)
      /\ \A p \in Personas : stats[p] \in 0 .. Len(tickets)
  BY DEF StatsInv, StatsTyped
<1>6. 0 .. Len(tickets) \subseteq 0 .. Len(tickets')
  BY <1>3, <1>4
<1>7. StatsTyped'
  BY <1>2, <1>6 DEF StatsInv, StatsTyped
<1>8. ConnsHaveTickets'
  BY <1>2, <1>3, <1>4, <1>5 DEF StatsInv, ConnsHaveTickets
<1>9. StatsHaveTickets'
  BY <1>2, <1>3, <1>4, <1>5 DEF StatsInv, StatsHaveTickets
<1>10. ReadersAreKnown'
  BY <1>2 DEF StatsInv, ReadersAreKnown
<1> QED
  BY <1>1, <1>7, <1>8, <1>9, <1>10 DEF StatsInv

\* A ticket that is presented here is spent here: it was in no row, since it
\* was not marked.
LEMMA AuthPKeepsInv ==
  ASSUME StatsInv, NEW s \in StatsConns, NEW i \in 1 .. Len(tickets), AuthP(s, i)
  PROVE  StatsInv'
<1>1. /\ peer[s] = "open" /\ Consume(i)
      /\ opened' = [opened EXCEPT ![s] = i]
      /\ UNCHANGED <<stage, context, owner, sessions, keys, gpVars>>
      /\ UNCHANGED <<peer, authenticated_game, known, stats>>
  BY DEF AuthP
<1>2. LoginInv'
  BY <1>1, SpentTicketKeepsInv DEF StatsInv
<1>3. /\ Len(tickets') = Len(tickets) /\ ~tickets[i].used /\ tickets'[i].used
      /\ \A j \in 1 .. Len(tickets) :
           /\ tickets'[j].persona = tickets[j].persona
           /\ tickets[j].used => tickets'[j].used
  BY <1>1, ConsumeMarks DEF StatsInv
<1>4. rows' = rows /\ Len(tickets) \in Nat
  BY <1>1, LenProperties DEF gpVars, StatsInv, LoginInv, LoginTypeOK, FeslTypeOK
<1>5. \A k \in 1 .. Len(rows) : rows[k].ticket # i
  BY <1>3 DEF StatsInv, LoginInv, TicketsMarked
<1>6. SpentHere(i)'
  BY <1>3, <1>4, <1>5 DEF SpentHere
<1>7. \A j \in 1 .. Len(tickets) : SpentHere(j) => SpentHere(j)' /\ j # i
  BY <1>3, <1>4 DEF SpentHere
<1>8. StatsTyped'
  BY <1>1, <1>3, <1>4 DEF StatsInv, StatsTyped
<1>9. ConnsHaveTickets'
  <2>1. \A t \in StatsConns :
          /\ opened[t] \in 0 .. Len(tickets)
          /\ opened'[t] = IF t = s THEN i ELSE opened[t]
    BY <1>1 DEF StatsInv, StatsTyped
  <2>2. \A t \in StatsConns : opened[t] # i
    BY <1>4, <1>7, <2>1 DEF StatsInv, ConnsHaveTickets
  <2> QED
    BY <1>4, <1>6, <1>7, <2>1, <2>2 DEF StatsInv, ConnsHaveTickets
<1>10. StatsHaveTickets'
  <2>1. \A p \in Personas : stats'[p] = stats[p] /\ stats[p] \in 0 .. Len(tickets)
    BY <1>1 DEF StatsInv, StatsTyped
  <2> QED
    BY <1>3, <1>4, <1>7, <2>1 DEF StatsInv, StatsHaveTickets
<1>11. ReadersAreKnown'
  BY <1>1 DEF StatsInv, StatsTyped, ReadersAreKnown
<1> QED
  BY <1>2, <1>8, <1>9, <1>10, <1>11 DEF StatsInv

\* No step of the three servers breaks the invariant.
LEMMA GsNextKeepsInv == StatsInv /\ [GsNext]_allVars => StatsInv'
<1> SUFFICES ASSUME StatsInv, [GsNext]_allVars
             PROVE  StatsInv'
  OBVIOUS
<1>1. ASSUME UNCHANGED vars
      PROVE  LoginInv' /\ UNCHANGED <<tickets, rows>>
  BY <1>1, NextKeepsInv DEF StatsInv, vars, feslVars, gpVars
<1>2. ASSUME NEW s \in StatsConns, GsConnect(s) \/ Auth(s) \/ GetPd(s) \/ GsLost(s)
      PROVE  StatsInv'
  <2>1. UNCHANGED vars /\ UNCHANGED stats
    BY <1>2 DEF GsConnect, Auth, GetPd, GsLost
  <2>2. UNCHANGED <<tickets, rows>> /\ LoginInv'
    BY <1>1, <2>1
  <2>3. StatsTyped'
    <3>1. Len(tickets) \in Nat
      BY LenProperties DEF StatsInv, LoginInv, LoginTypeOK, FeslTypeOK
    <3>2. CASE GsConnect(s) \/ Auth(s) \/ GetPd(s)
      BY <2>1, <2>2, <3>2 DEF StatsInv, StatsTyped, GsConnect, Auth, GetPd
    <3>3. CASE GsLost(s)
      BY <2>1, <2>2, <3>1, <3>3 DEF StatsInv, StatsTyped, GsLost
    <3> QED
      BY <1>2, <3>2, <3>3
  <2>4. ConnsHaveTickets'
    BY <1>2, <2>2 DEF StatsInv, StatsTyped, ConnsHaveTickets, SpentHere, GsConnect, Auth, GetPd, GsLost
  <2>5. StatsHaveTickets'
    BY <2>1, <2>2 DEF StatsInv, StatsHaveTickets, SpentHere
  <2>6. ReadersAreKnown'
    BY <1>2 DEF StatsInv, StatsTyped, ReadersAreKnown, Authenticated, GsConnect, Auth, GetPd, GsLost
  <2> QED
    BY <2>2, <2>3, <2>4, <2>5, <2>6 DEF StatsInv
<1>3. ASSUME NEW s \in StatsConns, NEW p \in Personas, SetPd(s, p)
      PROVE  StatsInv'
  <2>1. /\ opened[s] # 0 /\ tickets[opened[s]].persona = p
        /\ stats' = [stats EXCEPT ![p] = opened[s]]
        /\ UNCHANGED vars /\ UNCHANGED <<peer, authenticated_game, opened, known>>
    BY <1>3 DEF SetPd, Authenticated
  <2>2. UNCHANGED <<tickets, rows>> /\ LoginInv'
    BY <1>1, <2>1
  <2>3. StatsTyped' /\ ConnsHaveTickets' /\ ReadersAreKnown'
    BY <2>1, <2>2 DEF StatsInv, StatsTyped, ConnsHaveTickets, SpentHere, ReadersAreKnown
  <2>4. StatsHaveTickets'
    BY <2>1, <2>2 DEF StatsInv, StatsTyped, ConnsHaveTickets, StatsHaveTickets, SpentHere
  <2> QED
    BY <2>2, <2>3, <2>4 DEF StatsInv
<1>4. CASE UNCHANGED allVars
  <2>1. UNCHANGED vars /\ UNCHANGED <<peer, authenticated_game, opened, known, stats>>
    BY <1>4 DEF allVars, statsVars
  <2>2. UNCHANGED <<tickets, rows>> /\ LoginInv'
    BY <1>1, <2>1
  <2> QED
    BY <2>1, <2>2 DEF StatsInv, StatsTyped, ConnsHaveTickets, StatsHaveTickets, SpentHere, ReadersAreKnown
<1> QED
  BY <1>2, <1>3, <1>4, OthersKeepInv, AuthPKeepsInv DEF GsNext

\* Every reachable state of the three login servers satisfies the invariant.
LEMMA StatsSafety == GsSpec => []StatsInv
BY GsInitEstablishesInv, GsNextKeepsInv, PTL DEF GsSpec

\* The state is well typed, and the keys of the session manager are those of
\* the sessions that are open.
THEOREM GsTypeCorrect == GsSpec => []GsTypeOK
<1>1. StatsInv => GsTypeOK
  BY DEF StatsInv, StatsTyped, LoginInv, PresenceInv, GsTypeOK
<1> QED
  BY StatsSafety, <1>1, PTL

\* No FESL session is given a persona of another account.
THEOREM GsPersonasAreOwned == GsSpec => []SessionOwnsPersona
<1>1. StatsInv => SessionOwnsPersona
  BY DEF StatsInv, LoginInv, FeslInv
<1> QED
  BY StatsSafety, <1>1, PTL

\* A persona is never found at a connection that is not logged in as it.
THEOREM GsPresenceIsSound == GsSpec => []PresenceIsTrue
<1>1. StatsInv => PresenceIsTrue
  BY DEF StatsInv, LoginInv, PresenceInv
<1> QED
  BY StatsSafety, <1>1, PTL

\* A ticket has one use, whichever server it is presented to and how often.
THEOREM TicketsHaveOneUse == GsSpec => []TicketHasOneUse
<1>1. StatsInv => TicketHasOneUse
  BY DEF StatsInv, LoginInv, ConnsHaveTickets, SpentHere, TicketHasOneUse
<1> QED
  BY StatsSafety, <1>1, PTL

\* Statistics are written only under a ticket of their persona.
THEOREM StatisticsFollowTickets == GsSpec => []StatsFollowTickets
<1>1. StatsInv => StatsFollowTickets
  BY DEF StatsInv, StatsHaveTickets, ReadersAreKnown, SpentHere, StatsFollowTickets
<1> QED
  BY StatsSafety, <1>1, PTL

-----------------------------------------------------------------------------
(* Certificates *)

\* The service takes nothing from the other three servers: its composition with
\* them behaves as they do (auth_service.py), and their theorems hold of it.
LEMMA AuthImplementsGs == AuthSpec => GsSpec
<1>1. AuthInit => GsInit
  BY DEF AuthInit
<1>2. [AuthNext]_<<allVars, certificates>> => [GsNext]_allVars
  BY DEF AuthNext, LoginRemoteAuth
<1> QED
  BY <1>1, <1>2, PTL DEF AuthSpec, GsSpec

\* A persona keeps its account.
LEMMA OwnersStay ==
  ASSUME StatsInv, [GsNext]_allVars, NEW p \in Personas, owner[p] # None
  PROVE  owner'[p] = owner[p]
<1>1. owner \in [Personas -> Users \cup {None}]
  BY DEF StatsInv, LoginInv, LoginTypeOK, FeslTypeOK
<1>2. CASE UNCHANGED feslVars
  BY <1>2 DEF feslVars
<1>3. CASE FeslNext
  <2>1. ASSUME NEW c \in Clients, NuLogin(c) \/ GameSpyPreAuth(c) \/ Reconnect(c)
        PROVE  owner' = owner
    BY <2>1 DEF NuLogin, GameSpyPreAuth, Reconnect
  <2>2. ASSUME NEW c \in Clients, NEW q \in Personas, NuLoginPersona(c, q)
        PROVE  owner' = owner
    BY <2>2 DEF NuLoginPersona
  <2>3. ASSUME NEW c \in Clients, NEW q \in Personas, NuAddPersona(c, q)
        PROVE  owner'[p] = owner[p]
    BY <1>1, <2>3 DEF NuAddPersona
  <2> QED
    BY <1>3, <2>1, <2>2, <2>3 DEF FeslNext
<1>4. ASSUME NEW g \in Conns, Connect(g) \/ Logout(g) \/ ConnectionLost(g) \/ Buddies(g)
      PROVE  UNCHANGED feslVars
  BY <1>4 DEF Connect, Logout, ConnectionLost, Buddies, Status, AddBuddy, AuthAdd, DelBuddy
<1>5. ASSUME NEW g \in Conns, NEW i \in 1 .. Len(tickets), Login(g, i) \/ LoginFails(g, i)
      PROVE  owner' = owner
  BY <1>5 DEF Login, LoginFails
<1>6. ASSUME NEW s \in StatsConns, GsConnect(s) \/ Auth(s) \/ GetPd(s) \/ GsLost(s)
      PROVE  UNCHANGED feslVars
  BY <1>6 DEF GsConnect, Auth, GetPd, GsLost, vars
<1>7. ASSUME NEW s \in StatsConns, NEW i \in 1 .. Len(tickets), AuthP(s, i)
      PROVE  owner' = owner
  BY <1>7 DEF AuthP
<1>8. ASSUME NEW s \in StatsConns, NEW q \in Personas, SetPd(s, q)
      PROVE  UNCHANGED feslVars
  BY <1>8 DEF SetPd, vars
<1>9. CASE UNCHANGED allVars
  BY <1>2, <1>9 DEF allVars, vars
<1> QED
  BY <1>2, <1>3, <1>4, <1>5, <1>6, <1>7, <1>8, <1>9 DEF GsNext, Next

\* Certificates name accounts that exist, and the right ones.
CertificatesInv ==
  /\ certificates \in [Personas -> Users \cup {None}]
  /\ CertificatesAreTrue

\* The other servers' steps leave the certificates alone; those of the web service keep them.
LEMMA CertificatesKept ==
  ASSUME StatsInv, CertificatesInv, [AuthNext]_<<allVars, certificates>>
  PROVE  CertificatesInv'
<1>1. CASE UNCHANGED certificates /\ [GsNext]_allVars
  BY <1>1, OwnersStay DEF CertificatesInv, CertificatesAreTrue
<1>2. ASSUME NEW u \in Users, NEW p \in Personas, LoginRemoteAuth(u, p)
      PROVE  CertificatesInv'
  <2>1. /\ owner[p] = u
        /\ certificates' = [certificates EXCEPT ![p] = IF @ = None THEN u ELSE @]
        /\ owner' = owner
    BY <1>2 DEF LoginRemoteAuth, Certify, allVars, vars, feslVars
  <2> QED
    BY <2>1 DEF CertificatesInv, CertificatesAreTrue
<1> QED
  BY <1>1, <1>2 DEF AuthNext

\* A certificate names the account that owns its persona, whatever accounts and
\* personas requests name (auth_service.py).
THEOREM CertificatesAreSound == AuthSpec => []CertificatesAreTrue
<1>1. AuthInit => CertificatesInv
  BY DEF AuthInit, CertificatesInv, CertificatesAreTrue
<1>2. CertificatesInv => CertificatesAreTrue
  BY DEF CertificatesInv
<1> QED
  BY <1>1, <1>2, CertificatesKept, AuthImplementsGs, StatsSafety, PTL DEF AuthSpec
====
