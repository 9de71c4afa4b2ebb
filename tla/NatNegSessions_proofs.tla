---- MODULE NatNegSessions_proofs ----
(* That a session is announced once, with addresses of games, and is       *)
(* completed only when both clients were sent the address of the other,    *)
(* for any number of cookies and sessions and any order of datagrams.      *)
EXTENDS NatNegSessions, TLAPS

\* An object whose session was never begun.
Fresh(o) ==
  /\ o \notin sent \cup due \cup completed \cup old
  /\ acked[o] = {}

\* Which objects a cookie may have: the one of the table, and old ones.
CookieOK(o) ==
  /\ cookie[o] = None => Fresh(o)
  /\ cookie[o] # None => table[cookie[o]] = o \/ o \in old

\* A session is announced when port type 3 of both clients is there.
AnnouncedOK(o) ==
  /\ o \in sent => rounds[o] <= 1
  /\ o \notin sent => rounds[o] = 0 /\ o \notin due
  /\ o \in due => \A r \in Roles : 3 \in conns[o][r]

\* While no session of its cookie is old, an acknowledgement is one of a
\* client of this very session.
AckedOK(o) ==
  /\ o \in completed => acked[o] = Roles
  /\ (\A p \in old : cookie[p] # cookie[o]) =>
       \A r \in acked[o] : connects[o][r] # None

\* The inductive invariant.
SessionsInv ==
  /\ SessionsTypeOK /\ PeerIsGamePort
  /\ \A o \in Objects : CookieOK(o) /\ AnnouncedOK(o) /\ AckedOK(o)

\* Port type 3 is enough to have a game port.
LEMMA BestIsGamePort ==
  ASSUME NEW S \in SUBSET Types, 3 \in S
  PROVE  Best(S) \in GamePorts
<1>1. S \cap GamePorts \subseteq {2, 3} /\ 3 \in S \cap GamePorts
  BY SessionsAssumption DEF GamePorts
<1>2. \A u \in S \cap GamePorts : u <= 3
  BY <1>1
<1>3. (CHOOSE t \in S \cap GamePorts : \A u \in S \cap GamePorts : u <= t) \in S \cap GamePorts
  BY <1>1, <1>2
<1> QED
  BY <1>1, <1>3 DEF Best

LEMMA NoneIsNone == /\ None \notin Objects /\ None \notin Cookies /\ None \notin Types
                    /\ GamePorts \subseteq Types
BY SessionsAssumption DEF GamePorts

LEMMA PeerIsRole == \A r \in Roles : Peer(r) \in Roles
BY DEF Roles, Peer

\* No session yet.
LEMMA InitEstablishesInv == Init => SessionsInv
<1> SUFFICES ASSUME Init PROVE SessionsInv
  OBVIOUS
<1>1. SessionsTypeOK /\ PeerIsGamePort
  BY DEF Init, SessionsTypeOK, PeerIsGamePort
<1>2. \A o \in Objects : CookieOK(o) /\ AnnouncedOK(o) /\ AckedOK(o)
  BY DEF Init, CookieOK, Fresh, AnnouncedOK, AckedOK
<1> QED
  BY <1>1, <1>2 DEF SessionsInv

\* An INIT adds a connection to the session of its cookie, which it may begin
\* and which it may make ready.
LEMMA RegisterKeepsInv ==
  ASSUME SessionsInv, NEW k \in Cookies, NEW r \in Roles, NEW t \in Types, Register(k, r, t)
  PROVE  SessionsInv'
<1>1. PICK o \in SessionFor(k) :
        /\ table' = [table EXCEPT ![k] = o]
        /\ cookie' = [cookie EXCEPT ![o] = k]
        /\ conns' = [conns EXCEPT ![o][r] = @ \cup {t}]
        /\ IF IsReady(conns'[o]) /\ o \notin sent
           THEN /\ sent' = sent \cup {o}
                /\ due' = due \cup {o}
                /\ rounds' = [rounds EXCEPT ![o] = @ + 1]
           ELSE UNCHANGED <<sent, due, rounds>>
        /\ UNCHANGED <<connects, acked, completed, old>>
  BY DEF Register
<1>2. /\ table \in [Cookies -> Objects \cup {None}]
      /\ cookie \in [Objects -> Cookies \cup {None}]
      /\ conns \in [Objects -> [Roles -> SUBSET Types]]
      /\ sent \cup due \cup completed \cup old \subseteq Objects
      /\ rounds \in [Objects -> 0 .. 2]
      /\ \A l \in Cookies : table[l] # None => cookie[table[l]] = l
      /\ \A p \in Objects, q \in Roles : connects[p][q] # None => 1 \in conns[p][q]
  BY DEF SessionsInv, SessionsTypeOK
<1>3. o \in Objects /\ (cookie[o] = None \/ (cookie[o] = k /\ table[k] = o))
      /\ (table[k] = o \/ table[k] = None)
  BY <1>1, <1>2 DEF SessionFor
<1>4. /\ \A p \in Objects : cookie'[p] = IF p = o THEN k ELSE cookie[p]
      /\ \A l \in Cookies : table'[l] = IF l = k THEN o ELSE table[l]
      /\ table' \in [Cookies -> Objects \cup {None}]
      /\ cookie' \in [Objects -> Cookies \cup {None}]
  BY <1>1, <1>2, <1>3
<1>5. /\ conns' \in [Objects -> [Roles -> SUBSET Types]]
      /\ \A p \in Objects, q \in Roles : conns[p][q] \subseteq conns'[p][q]
  BY <1>1, <1>2, <1>3
<1>6. \A l \in Cookies : table'[l] # None => cookie'[table'[l]] = l
  BY <1>2, <1>3, <1>4, NoneIsNone
<1>7. /\ \A p \in Objects : AnnouncedOK(p)'
      /\ rounds' \in [Objects -> 0 .. 2] /\ sent' \cup due' \subseteq Objects
  <2>1. \A p \in Objects : AnnouncedOK(p)
    BY DEF SessionsInv
  <2>2. CASE IsReady(conns'[o]) /\ o \notin sent
    <3>1. \A q \in Roles : 3 \in conns'[o][q]
      BY <2>2 DEF IsReady
    <3>2. /\ sent' = sent \cup {o} /\ due' = due \cup {o}
          /\ \A p \in Objects : rounds'[p] = IF p = o THEN rounds[p] + 1 ELSE rounds[p]
      BY <1>1, <1>2, <2>2
    <3>3. rounds[o] = 0
      BY <1>3, <2>1, <2>2 DEF AnnouncedOK
    <3>4. rounds' \in [Objects -> 0 .. 2]
      BY <1>1, <1>2, <1>3, <2>2, <3>3
    <3> QED
      BY <1>2, <1>3, <1>5, <2>1, <3>1, <3>2, <3>3, <3>4 DEF AnnouncedOK
  <2>3. CASE ~(IsReady(conns'[o]) /\ o \notin sent)
    BY <1>1, <1>2, <1>5, <2>1, <2>3 DEF AnnouncedOK
  <2> QED
    BY <2>2, <2>3
<1>8. SessionsTypeOK'
  BY <1>1, <1>2, <1>4, <1>5, <1>6, <1>7 DEF SessionsInv, SessionsTypeOK
<1>9. PeerIsGamePort'
  BY <1>1 DEF SessionsInv, PeerIsGamePort
<1>10. ASSUME NEW p \in Objects
       PROVE  CookieOK(p)'
  <2>1. CookieOK(p)
    BY DEF SessionsInv
  <2>2. CASE p = o
    BY <1>4, <2>2, NoneIsNone DEF CookieOK
  <2>3. CASE p # o
    <3>1. cookie'[p] = cookie[p]
      BY <1>4, <2>3
    <3>2. CASE cookie[p] = None
      BY <1>1, <2>1, <2>3, <3>1, <3>2 DEF CookieOK, Fresh
    <3>3. CASE cookie[p] # None
      <4>1. table[cookie[p]] = p \/ p \in old
        BY <2>1, <3>3 DEF CookieOK
      <4>2. cookie[p] = k => table[k] # p
        BY <1>3, <2>3, NoneIsNone
      <4>3. cookie[p] \in Cookies
        BY <1>2, <3>3
      <4> QED
        BY <1>1, <1>4, <3>1, <3>3, <4>1, <4>2, <4>3 DEF CookieOK
    <3> QED
      BY <3>2, <3>3
  <2> QED
    BY <2>2, <2>3
<1>11. ASSUME NEW p \in Objects
       PROVE  AckedOK(p)'
  <2>1. AckedOK(p) /\ CookieOK(o) /\ old \subseteq Objects
    BY <1>2, <1>3 DEF SessionsInv
  <2>2. CASE cookie[p] = None /\ p = o
    <3>1. acked'[p] = {} /\ p \notin completed'
      BY <1>1, <2>1, <2>2 DEF CookieOK, Fresh
    <3> QED
      BY <3>1 DEF AckedOK, Roles
  <2>3. CASE ~(cookie[p] = None /\ p = o)
    <3>1. cookie'[p] = cookie[p]
      BY <1>3, <1>4, <2>3
    <3>2. \A q \in old : cookie[q] = cookie[p] => cookie'[q] = cookie'[p]
      <4>1. cookie[o] = None => o \notin old
        BY <2>1 DEF CookieOK, Fresh
      <4> QED
        BY <1>3, <1>4, <2>1, <3>1, <4>1
    <3>3. acked'[p] = acked[p] /\ connects' = connects /\ completed' = completed /\ old' = old
      BY <1>1
    <3> QED
      BY <2>1, <3>1, <3>2, <3>3 DEF AckedOK
  <2> QED
    BY <2>2, <2>3
<1> QED
  BY <1>7, <1>8, <1>9, <1>10, <1>11 DEF SessionsInv

\* The announcement finds the game ports of both clients.
LEMMA SessionReadyKeepsInv ==
  ASSUME SessionsInv, NEW o \in Objects, SessionReady(o)
  PROVE  SessionsInv'
<1> DEFINE told == [r \in Roles |-> IF 1 \in conns[o][r] THEN Best(conns[o][Peer(r)])
                                    ELSE connects[o][r]]
<1>1. /\ o \in due /\ due' = due \ {o}
      /\ connects' = [connects EXCEPT ![o] = told]
      /\ UNCHANGED <<table, cookie, conns, sent, rounds, acked, completed, old>>
  BY DEF SessionReady
<1>2. /\ conns \in [Objects -> [Roles -> SUBSET Types]]
      /\ connects \in [Objects -> [Roles -> Types \cup {None}]]
  BY DEF SessionsInv, SessionsTypeOK
<1>3. \A r \in Roles : Best(conns[o][r]) \in GamePorts
  <2>1. \A r \in Roles : 3 \in conns[o][r] /\ conns[o][r] \in SUBSET Types
    BY <1>1, <1>2 DEF SessionsInv, AnnouncedOK
  <2> QED
    BY <2>1, BestIsGamePort
<1>4. \A r \in Roles : Best(conns[o][Peer(r)]) \in GamePorts
  BY <1>3, PeerIsRole
<1>5. told \in [Roles -> Types \cup {None}]
  BY <1>2, <1>4, NoneIsNone
<1>6. \A r \in Roles : /\ told[r] \in GamePorts \cup {None}
                       /\ told[r] # None => 1 \in conns[o][r]
                       /\ connects[o][r] # None => told[r] # None
  BY <1>4, NoneIsNone DEF SessionsInv, SessionsTypeOK, PeerIsGamePort
<1> HIDE DEF told
<1>7. /\ connects' \in [Objects -> [Roles -> Types \cup {None}]]
      /\ \A p \in Objects : connects'[p] = IF p = o THEN told ELSE connects[p]
  BY <1>1, <1>2, <1>5
<1>8. SessionsTypeOK'
  BY <1>1, <1>6, <1>7 DEF SessionsInv, SessionsTypeOK
<1>9. PeerIsGamePort'
  BY <1>6, <1>7 DEF SessionsInv, PeerIsGamePort
<1>10. ASSUME NEW p \in Objects
       PROVE  CookieOK(p)' /\ AnnouncedOK(p)'
  BY <1>1 DEF SessionsInv, CookieOK, Fresh, AnnouncedOK
<1>11. ASSUME NEW p \in Objects
       PROVE  AckedOK(p)'
  <2>1. AckedOK(p) /\ acked[p] \subseteq Roles
    BY DEF SessionsInv, SessionsTypeOK
  <2> QED
    BY <1>1, <1>6, <1>7, <2>1 DEF AckedOK
<1> QED
  BY <1>8, <1>9, <1>10, <1>11 DEF SessionsInv

\* An acknowledgement is filed under the session its cookie has now; when no
\* session of the cookie is old, that is the session it belongs to.
LEMMA ConnectAckKeepsInv ==
  ASSUME SessionsInv, NEW k \in Cookies, NEW r \in Roles, ConnectAck(k, r)
  PROVE  SessionsInv'
<1> DEFINE o == table[k]
<1>1. /\ o # None /\ acked' = [acked EXCEPT ![o] = @ \cup {r}]
      /\ Complete(o, acked'[o])
      /\ UNCHANGED <<table, cookie, conns, sent, due, rounds, connects, old>>
  BY DEF ConnectAck
<1>2. PICK p \in Objects : cookie[p] = k /\ connects[p][r] # None
  BY DEF ConnectAck
<1>3. o \in Objects /\ cookie[o] = k /\ acked \in [Objects -> SUBSET Roles]
  BY <1>1 DEF SessionsInv, SessionsTypeOK
<1>4. /\ acked' \in [Objects -> SUBSET Roles]
      /\ \A q \in Objects : acked'[q] = IF q = o THEN acked[q] \cup {r} ELSE acked[q]
  BY <1>1, <1>3
<1>5. /\ completed \subseteq completed' /\ completed' \subseteq completed \cup {o}
      /\ o \in completed' \ completed => acked'[o] = Roles
  BY <1>1 DEF Complete
<1>6. SessionsTypeOK' /\ PeerIsGamePort'
  BY <1>1, <1>3, <1>4, <1>5 DEF SessionsInv, SessionsTypeOK, PeerIsGamePort
<1>7. ASSUME NEW q \in Objects
      PROVE  CookieOK(q)' /\ AnnouncedOK(q)'
  <2>1. CookieOK(q) /\ AnnouncedOK(q)
    BY DEF SessionsInv
  <2>2. q = o => cookie[q] # None
    BY <1>3, NoneIsNone
  <2> QED
    BY <1>1, <1>4, <1>5, <2>1, <2>2 DEF CookieOK, Fresh, AnnouncedOK
<1>8. ASSUME NEW q \in Objects
      PROVE  AckedOK(q)'
  <2>1. AckedOK(q) /\ CookieOK(p) /\ acked[q] \subseteq Roles
    BY <1>3 DEF SessionsInv
  <2>2. CASE q # o
    BY <1>1, <1>4, <1>5, <2>1, <2>2 DEF AckedOK
  <2>3. CASE q = o
    <3>1. q \in completed' => acked'[q] = Roles
      BY <1>4, <1>5, <2>1, <2>3 DEF AckedOK
    <3>2. ASSUME \A s \in old : cookie[s] # k
          PROVE  connects[q][r] # None
      BY <1>2, <2>1, <2>3, <3>2, NoneIsNone DEF CookieOK
    <3> QED
      BY <1>1, <1>3, <1>4, <2>1, <2>3, <3>1, <3>2 DEF AckedOK
  <2> QED
    BY <2>2, <2>3
<1> QED
  BY <1>6, <1>7, <1>8 DEF SessionsInv

\* A session grows old; it stays in the table until the clean-up.
LEMMA GrowsOldKeepsInv ==
  ASSUME SessionsInv, NEW k \in Cookies, GrowsOld(k)
  PROVE  SessionsInv'
<1>1. /\ old' = old \cup {table[k]} /\ table[k] \in Objects
      /\ UNCHANGED <<table, cookie, conns, sent, due, rounds, connects, acked, completed>>
  BY DEF GrowsOld, SessionsInv, SessionsTypeOK
<1>2. SessionsTypeOK' /\ PeerIsGamePort'
  BY <1>1 DEF SessionsInv, SessionsTypeOK, PeerIsGamePort
<1>3. cookie[table[k]] # None
  BY <1>1, NoneIsNone DEF SessionsInv, SessionsTypeOK
<1>4. ASSUME NEW o \in Objects
      PROVE  CookieOK(o)' /\ AnnouncedOK(o)' /\ AckedOK(o)'
  BY <1>1, <1>3 DEF SessionsInv, CookieOK, Fresh, AnnouncedOK, AckedOK
<1> QED
  BY <1>2, <1>4 DEF SessionsInv

\* The clean-up takes old sessions out of the table.
LEMMA CleanupKeepsInv ==
  ASSUME SessionsInv, CleanupExpired
  PROVE  SessionsInv'
<1>1. /\ table' = [k \in Cookies |-> IF table[k] \in old \ completed THEN None ELSE table[k]]
      /\ UNCHANGED <<cookie, conns, sent, due, rounds, connects, acked, completed, old>>
  BY DEF CleanupExpired
<1>2. SessionsTypeOK' /\ PeerIsGamePort'
  BY <1>1 DEF SessionsInv, SessionsTypeOK, PeerIsGamePort
<1>3. ASSUME NEW o \in Objects
      PROVE  CookieOK(o)' /\ AnnouncedOK(o)' /\ AckedOK(o)'
  <2>1. cookie[o] \in Cookies \cup {None}
    BY DEF SessionsInv, SessionsTypeOK
  <2> QED
    BY <1>1, <2>1 DEF SessionsInv, CookieOK, Fresh, AnnouncedOK, AckedOK
<1> QED
  BY <1>2, <1>3 DEF SessionsInv

LEMMA NextKeepsInv == SessionsInv /\ [Next]_vars => SessionsInv'
<1>1. ASSUME SessionsInv, UNCHANGED vars
      PROVE  SessionsInv'
  BY <1>1 DEF vars, SessionsInv, SessionsTypeOK, PeerIsGamePort, CookieOK, Fresh, AnnouncedOK, AckedOK
<1> QED
  BY <1>1, RegisterKeepsInv, SessionReadyKeepsInv, ConnectAckKeepsInv, GrowsOldKeepsInv,
     CleanupKeepsInv DEF Next

\* In every reachable state.
LEMMA SessionsAreSound == Spec => []SessionsInv
BY InitEstablishesInv, NextKeepsInv, PTL DEF Spec

\* Sessions are well formed and announced once, and complete only for both
\* clients, in whatever order their INITs arrive and however often.
THEOREM SessionsStateHolds == Spec => []SessionsState
<1>1. ASSUME SessionsInv PROVE SessionsState
  <2>1. OneRound
    BY <1>1 DEF SessionsInv, AnnouncedOK, OneRound
  <2>2. CompletedIsConnected
    BY <1>1 DEF SessionsInv, SessionsTypeOK, AckedOK, CompletedIsConnected
  <2> QED
    BY <1>1, <2>1, <2>2 DEF SessionsInv, SessionsState
<1> QED
  BY SessionsAreSound, <1>1, PTL

\* A CONNECT carries an address the peer's game listens on.
THEOREM ConnectsToGames == Spec => []PeerIsGamePort
<1>1. SessionsInv => PeerIsGamePort
  BY DEF SessionsInv
<1> QED
  BY SessionsAreSound, <1>1, PTL

====
