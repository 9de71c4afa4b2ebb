---- MODULE NatNegSessions ----
(***************************************************************************)
(* The NAT negotiation sessions: INIT packets register the two clients of  *)
(* a cookie, the session becomes ready and, after a delay, both clients    *)
(* are sent a CONNECT, which they acknowledge; sessions that do not        *)
(* complete expire.  Which addresses a CONNECT carries is in NatNegRelay.  *)
(*                                                                         *)
(* Every step runs under the session manager's lock or without suspending. *)
(* Packets are UDP datagrams: an INIT may arrive in any order, any number  *)
(* of times or never.  _client_endpoints, which the server writes but does *)
(* not read, is left out.                                                  *)
(***************************************************************************)
EXTENDS Naturals, FiniteSets

CONSTANTS Cookies,  \* the session ids
          Types,    \* the port types in use, among 0 .. 3
          Objects,  \* the NatNegSession objects
          Ordered,  \* the cookies whose clients' INITs arrive in the order of their port types
          Expiring, \* the cookies whose sessions may reach SESSION_TIMEOUT
          None

Roles == {"host", "guest"}
Peer(r) == IF r = "host" THEN "guest" ELSE "host"

ASSUME SessionsAssumption ==
  /\ Types \subseteq 0 .. 3 /\ {1, 3} \subseteq Types
  /\ None \notin Objects \cup Cookies \cup Types
  /\ Ordered \cup Expiring \subseteq Cookies

VARIABLES table,     \* _sessions
          cookie,    \* NatNegSession.session_id of the objects in use
          conns,     \* NatNegClient.connections of both clients of a session
          sent,      \* NatNegSession.connect_sent
          due,       \* the sessions whose _delayed_session_ready sleeps
          rounds,    \* how often _delayed_session_ready was started, for OneRound
          connects,  \* the port type of the peer whose address a client's CONNECT carried
          acked,     \* NatNegClient.connect_acked
          completed, \* NatNegSession.completed
          old        \* the sessions older than SESSION_TIMEOUT

vars == <<table, cookie, conns, sent, due, rounds, connects, acked, completed, old>>

\* The state stays well typed, the table is indexed by the sessions' cookies, and
\* a client that was sent a CONNECT has a connection to send it to.
SessionsTypeOK ==
  /\ table \in [Cookies -> Objects \cup {None}]
  /\ cookie \in [Objects -> Cookies \cup {None}]
  /\ conns \in [Objects -> [Roles -> SUBSET Types]]
  /\ sent \cup due \cup completed \cup old \subseteq Objects
  /\ rounds \in [Objects -> 0 .. 2]
  /\ connects \in [Objects -> [Roles -> Types \cup {None}]]
  /\ acked \in [Objects -> SUBSET Roles]
  /\ \A k \in Cookies : table[k] # None => cookie[table[k]] = k
  /\ \A o \in Objects, r \in Roles : connects[o][r] # None => 1 \in conns[o][r]

Init ==
  /\ table = [k \in Cookies |-> None]
  /\ cookie = [o \in Objects |-> None]
  /\ conns = [o \in Objects |-> [r \in Roles |-> {}]]
  /\ sent = {} /\ due = {} /\ completed = {} /\ old = {}
  /\ rounds = [o \in Objects |-> 0]
  /\ connects = [o \in Objects |-> [r \in Roles |-> None]]
  /\ acked = [o \in Objects |-> {}]

\* Clients give their game port as the local port of the types 2 and 3 only.
GamePorts == Types \cap {2, 3}

\* Mutant: the lowest port type is preferred.
BestLowest(S) == CHOOSE t \in S : \A u \in S : t <= u

\* get_best_connection
Best(S) == IF S \cap GamePorts # {}
           THEN CHOOSE t \in S \cap GamePorts : \A u \in S \cap GamePorts : u <= t
           ELSE CHOOSE t \in S : TRUE

\* is_ready: port type 3 of both clients stands for all four.
IsReady(C) == \A r \in Roles : 3 \in C[r] /\ Best(C[r]) \in GamePorts

\* The object an INIT for k finds or creates.
SessionFor(k) == IF table[k] # None THEN {table[k]} ELSE {o \in Objects : cookie[o] = None}

\* Mutant: a session is announced each time it is found ready.
RegisterAgain(k, r, t) ==
  \E o \in SessionFor(k) :
    /\ k \in Ordered => \A u \in Types : u < t => u \in conns[o][r]
    /\ table' = [table EXCEPT ![k] = o]
    /\ cookie' = [cookie EXCEPT ![o] = k]
    /\ conns' = [conns EXCEPT ![o][r] = @ \cup {t}]
    /\ IF IsReady(conns'[o]) /\ rounds[o] < 2
       THEN /\ sent' = sent \cup {o}
            /\ due' = due \cup {o}
            /\ rounds' = [rounds EXCEPT ![o] = @ + 1]
       ELSE UNCHANGED <<sent, due, rounds>>
    /\ UNCHANGED <<connects, acked, completed, old>>

\* Mutant: readiness is looked at before the connection is added.
RegisterLooksFirst(k, r, t) ==
  \E o \in SessionFor(k) :
    /\ k \in Ordered => \A u \in Types : u < t => u \in conns[o][r]
    /\ table' = [table EXCEPT ![k] = o]
    /\ cookie' = [cookie EXCEPT ![o] = k]
    /\ conns' = [conns EXCEPT ![o][r] = @ \cup {t}]
    /\ IF IsReady(conns[o]) /\ o \notin sent
       THEN /\ sent' = sent \cup {o}
            /\ due' = due \cup {o}
            /\ rounds' = [rounds EXCEPT ![o] = @ + 1]
       ELSE UNCHANGED <<sent, due, rounds>>
    /\ UNCHANGED <<connects, acked, completed, old>>

\* register_client, for an INIT of port type t
Register(k, r, t) ==
  \E o \in SessionFor(k) :
    /\ k \in Ordered => \A u \in Types : u < t => u \in conns[o][r]
    /\ table' = [table EXCEPT ![k] = o]
    /\ cookie' = [cookie EXCEPT ![o] = k]
    /\ conns' = [conns EXCEPT ![o][r] = @ \cup {t}]
    /\ IF IsReady(conns'[o]) /\ o \notin sent
       THEN /\ sent' = sent \cup {o}
            /\ due' = due \cup {o}
            /\ rounds' = [rounds EXCEPT ![o] = @ + 1]
       ELSE UNCHANGED <<sent, due, rounds>>
    /\ UNCHANGED <<connects, acked, completed, old>>

\* Mutant: the connection of port type 1 is not looked for.
SessionReadyToAll(o) ==
  /\ o \in due
  /\ due' = due \ {o}
  /\ connects' = [connects EXCEPT ![o] = [r \in Roles |-> Best(conns[o][Peer(r)])]]
  /\ UNCHANGED <<table, cookie, conns, sent, rounds, acked, completed, old>>

\* _on_session_ready, after CONNECT_DELAY: a CONNECT to the port type 1 of each
\* client that has it, with the address of the other one's best connection.
SessionReady(o) ==
  /\ o \in due
  /\ due' = due \ {o}
  /\ connects' = [connects EXCEPT ![o] =
       [r \in Roles |-> IF 1 \in conns[o][r] THEN Best(conns[o][Peer(r)]) ELSE @[r]]]
  /\ UNCHANGED <<table, cookie, conns, sent, rounds, acked, completed, old>>

\* Mutant: one acknowledgement completes the session.
CompleteWithOne(o, A) == completed' = IF A # {} THEN completed \cup {o} ELSE completed

\* The session completes with the acknowledgements of both clients.
Complete(o, A) == completed' = IF A = Roles THEN completed \cup {o} ELSE completed

\* mark_connect_acked: a client that was sent a CONNECT acknowledges it.
ConnectAck(k, r) ==
  /\ \E o \in Objects : cookie[o] = k /\ connects[o][r] # None
  /\ LET o == table[k] IN
     /\ o # None
     /\ conns[o][r] # {}
     /\ acked' = [acked EXCEPT ![o] = @ \cup {r}]
     /\ Complete(o, acked'[o])
  /\ UNCHANGED <<table, cookie, conns, sent, due, rounds, connects, old>>

\* A session reaches SESSION_TIMEOUT; bounded, so that every cookie finds an object.
GrowsOld(k) ==
  /\ k \in Expiring
  /\ Cardinality(old) + Cardinality(Cookies) < Cardinality(Objects)
  /\ table[k] \notin {None} \cup old \cup completed
  /\ old' = old \cup {table[k]}
  /\ UNCHANGED <<table, cookie, conns, sent, due, rounds, connects, acked, completed>>

\* Mutant: announced sessions are kept, rather than completed ones.
CleanupUnannounced ==
  /\ \E k \in Cookies : table[k] \in old \ sent
  /\ table' = [k \in Cookies |-> IF table[k] \in old \ sent THEN None ELSE table[k]]
  /\ UNCHANGED <<cookie, conns, sent, due, rounds, connects, acked, completed, old>>

\* cleanup_expired_sessions: a session that completed meanwhile stays.
CleanupExpired ==
  /\ \E k \in Cookies : table[k] \in old \ completed
  /\ table' = [k \in Cookies |-> IF table[k] \in old \ completed THEN None ELSE table[k]]
  /\ UNCHANGED <<cookie, conns, sent, due, rounds, connects, acked, completed, old>>

Next ==
  \/ \E k \in Cookies, r \in Roles : \E t \in Types : Register(k, r, t)
  \/ \E o \in Objects : SessionReady(o)
  \/ \E k \in Cookies, r \in Roles : ConnectAck(k, r)
  \/ \E k \in Cookies : GrowsOld(k)
  \/ CleanupExpired

Spec == Init /\ [][Next]_vars

Missing(k, r, t) == IF table[k] = None THEN TRUE ELSE t \notin conns[table[k]][r]

\* A client repeats an INIT until it is acknowledged, so one that is missing
\* arrives in the end; the event loop runs the delayed task
\* and the clean-up loop.
FairSpec ==
  /\ Spec
  /\ \A k \in Cookies, r \in Roles, t \in Types :
       WF_vars(Missing(k, r, t) /\ Register(k, r, t))
  /\ \A o \in Objects : WF_vars(SessionReady(o))
  /\ WF_vars(CleanupExpired)

-----------------------------------------------------------------------------
(* Properties *)

\* However often INITs are repeated, a session is announced once: each
\* announcement counts as an attempt of the pair in the progressive fallback.
OneRound == \A o \in Objects : rounds[o] <= 1

\* The peer address in a CONNECT is one that the peer's game listens on, never
\* that of a port type that only probes the NAT, whichever INITs came first.
PeerIsGamePort == \A o \in Objects, r \in Roles : connects[o][r] \in GamePorts \cup {None}

\* As long as no session of a cookie timed out, its session is completed, and so
\* kept from expiring for good, only when both of its clients have been sent the
\* address of the other.
CompletedIsConnected ==
  \A o \in completed : (\A p \in old : cookie[p] # cookie[o]) =>
    \A r \in Roles : connects[o][r] # None

\* Sessions are well formed, announced once, and complete for both clients.
SessionsState == SessionsTypeOK /\ OneRound /\ CompletedIsConnected

\* A session that has not completed by its time-out leaves the table, or completes
\* after all.
ExpiredGo == \A k \in Cookies, o \in Objects :
  table[k] = o /\ o \in old ~> table[k] # o \/ o \in completed

\* When the INITs of a client arrive in the order they are sent, both clients of
\* a cookie that does not time out are sent the address of the other.
BothGetConnect == \A r \in Roles : \A k \in Ordered \ Expiring :
  <>(\E o \in Objects : cookie[o] = k /\ connects[o][r] # None)

\* A session that was announced has sent a CONNECT to both clients once all their
\* INITs are there (sessions.py:40, "to ensure all INIT packets are processed").
AnnouncedGetConnect ==
  \A o \in sent \ due, r \in Roles : conns[o][r] = Types => connects[o][r] # None
====
