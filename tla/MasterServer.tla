---------------------------- MODULE MasterServer ----------------------------
(***************************************************************************)
(* The master server: hosts announce their games by UDP heartbeats         *)
(* (query_master_udp.py), which are kept in a table of the UDP server and  *)
(* in the registry that all servers share (GameSessionRegistry in          *)
(* sessions.py); clients ask for rooms and games over TCP                  *)
(* (query_master_tcp.py, query_master_parsing.py), and the web page of     *)
(* current matches (web/routes.py) is made from the same registry.         *)
(* Everything runs on one event loop and each callback is one step.        *)
(*                                                                         *)
(* A host stands for its client id and its address.  Datagrams are lost,   *)
(* repeated and, for the hosts that are not Ordered, overtaken by others:  *)
(* net keeps all that were sent, and any of them may arrive at any time.   *)
(* number counts what a host announces; a repeated heartbeat has the       *)
(* number of the first.                                                    *)
(***************************************************************************)
EXTENDS Naturals, Sequences, FiniteSets

CONSTANTS
  Host,          \* game hosts, external to the server
  Ordered,       \* hosts whose datagrams do not overtake each other
  NoAddress,     \* hosts whose heartbeats have an empty localip0
  BlankPort,     \* hosts whose heartbeats may have an empty localport
  Mode,          \* values of gamemode
  Group,         \* values of groupid, the room a game belongs to
  Game,          \* what hosts announce: a mode and a group each
  Filter,        \* filters of game list queries: sequences of conditions
  PacketLength,  \* bytes of a query packet, the two of its length included
  MaxNumber,     \* bound: announcements of a host
  MaxQueries,    \* bound: queries on one connection
  MaxRestarts    \* bound: restarts of the server

ASSUME MasterAssumption ==
  /\ Ordered \subseteq Host
  /\ NoAddress \subseteq Host
  /\ BlankPort \subseteq Host
  /\ Game \subseteq Host \X Mode \X Group
  /\ PacketLength \in Nat /\ PacketLength >= 2
  /\ MaxNumber \in Nat /\ MaxQueries \in Nat /\ MaxRestarts \in Nat

VARIABLES
  hosting,        \* host -> [on, number]: its own state
  net,            \* datagrams sent
  seen,           \* host -> the last number that has arrived, if Ordered
  game_sessions,  \* table of the UDP server: host -> [info, last_keepalive]
  registry,       \* shared registry: host -> [address, fields]
  restarts,
  asked,          \* queries written by the client of the connection
  wire,           \* their bytes that have not arrived
  buffer,         \* their bytes that the server has not consumed
  answers         \* what became of each query the server has read

hostVars == <<hosting, net>>
tableVars == <<seen, game_sessions, registry>>
tcpVars == <<asked, wire, buffer, answers>>
vars == <<hostVars, tableVars, restarts, tcpVars>>

None == [number |-> 0]
Query == [kind : {"games"}, filter : Filter] \union [kind : {"rooms"}, filter : {<<>>}]
Nothing == {"no answer"}
Rooms == {"rooms"}

Init ==
  /\ hosting = [h \in Host |-> [on |-> FALSE, number |-> 0]]
  /\ net = {}
  /\ seen = [h \in Host |-> 0]
  /\ game_sessions = [h \in Host |-> None]
  /\ registry = [h \in Host |-> None]
  /\ restarts = 0
  /\ asked = <<>> /\ wire = <<>> /\ buffer = <<>> /\ answers = <<>>

(***************************************************************************)
(* Hosts.                                                                  *)
(***************************************************************************)
Announce(h, exiting, mode, group, blank) ==
  LET n == hosting[h].number + 1
  IN /\ n <= MaxNumber
     /\ hosting' = [hosting EXCEPT ![h] = [on |-> ~exiting, number |-> n]]
     /\ net' = net \union {[host |-> h, number |-> n, exiting |-> exiting,
                            gamemode |-> mode, groupid |-> group, blank |-> blank]}
     /\ UNCHANGED <<tableVars, restarts, tcpVars>>

\* A host opens a game or announces another state of it.
Heartbeat(h) ==
  \E mode \in Mode, group \in Group, blank \in BOOLEAN :
    /\ <<h, mode, group>> \in Game
    /\ blank => h \in BlankPort
    /\ Announce(h, FALSE, mode, group, blank)

CloseGame(h) ==
  /\ hosting[h].on
  /\ Announce(h, TRUE, "none", 0, FALSE)

(***************************************************************************)
(* The UDP server.                                                         *)
(***************************************************************************)
Arrives(m) ==
  IF m.host \in Ordered
  THEN m.number >= seen[m.host] /\ seen' = [seen EXCEPT ![m.host] = m.number]
  ELSE UNCHANGED seen

Listed == {h \in Host : registry[h] # None}

\* Mutant: an entry that exists keeps its fields.
RegisterGameOnce(m) ==
  IF m.blank \/ m.host \in Listed THEN UNCHANGED registry
  ELSE registry' = [registry EXCEPT ![m.host] = [number |-> m.number, fields |-> m]]

\* Mutant: the fields are stored before the ports are read.
RegisterGameInParts(m) ==
  registry' = [registry EXCEPT ![m.host] =
    [number |-> IF m.blank THEN @.number ELSE m.number, fields |-> m]]

\* The addresses of an entry are those of one heartbeat, like its fields.
\* int() raises for an empty port: nothing of the entry is changed then.
RegisterGame(m) ==
  IF m.blank THEN UNCHANGED registry
  ELSE registry' = [registry EXCEPT ![m.host] = [number |-> m.number, fields |-> m]]

UnregisterGame(h) == registry' = [registry EXCEPT ![h] = None]

\* A heartbeat is kept in the table of the UDP server first.  The challenge
\* that may follow tells a host its address; the server keeps nothing of it.
HandleHeartbeat(m) ==
  /\ m \in net
  /\ ~m.exiting
  /\ Arrives(m)
  /\ game_sessions' = [game_sessions EXCEPT ![m.host] =
                         [number |-> m.number, last_keepalive |-> FALSE]]
  /\ RegisterGame(m)
  /\ UNCHANGED <<hostVars, restarts, tcpVars>>

HandleExit(m) ==
  /\ m \in net
  /\ m.exiting
  /\ Arrives(m)
  /\ game_sessions' = [game_sessions EXCEPT ![m.host] = None]
  /\ UnregisterGame(m.host)
  /\ UNCHANGED <<hostVars, restarts, tcpVars>>

\* A flag that the next heartbeat drops and nobody reads: nothing expires.
HandleKeepalive(h) ==
  /\ hosting[h].on
  /\ game_sessions[h] # None
  /\ game_sessions' = [game_sessions EXCEPT ![h].last_keepalive = TRUE]
  /\ UNCHANGED <<hostVars, seen, registry, restarts, tcpVars>>

(***************************************************************************)
(* The lists.  Fields of a game are compared with the conditions of a      *)
(* filter; a game has as many players as it made announcements.            *)
(***************************************************************************)
Fields(m) ==
  [gamemode |-> m.gamemode, groupid |-> m.groupid, numplayers |-> m.number]

\* The pattern of parse_filter_string finds "<" before "<=" and ">" before
\* ">=", and takes the "=" for the first character of a text.
Parsed(c) ==
  [field |-> c.field, value |-> c.value, text |-> c.operator \in {"<=", ">="},
   operator |-> CASE c.operator = "<=" -> "<" [] c.operator = ">=" -> ">"
                  [] OTHER -> c.operator]

\* Mutant: != is read as =.
HoldsEqual(c, actual) ==
  \/ c.operator \in {"=", "==", "!="} /\ actual = c.value
  \/ c.operator = "<" /\ (c.text \/ actual < c.value)
  \/ c.operator = ">" /\ ~c.text /\ actual > c.value

\* Every digit comes before the "=" of such a text.
Holds(c, actual) ==
  \/ c.operator \in {"=", "=="} /\ actual = c.value
  \/ c.operator = "!=" /\ actual # c.value
  \/ c.operator = "<" /\ (c.text \/ actual < c.value)
  \/ c.operator = ">" /\ ~c.text /\ actual > c.value

\* All conditions have to hold, whether AND or OR stands between them.
GameMatchesFilters(m, filter) ==
  \A i \in DOMAIN filter :
    LET c == Parsed(filter[i])
    IN c.field \in DOMAIN Fields(m) /\ Holds(c, Fields(m)[c.field])

\* A game list cannot be encoded with an empty address in it: nothing is
\* sent then.
GameList(found) == IF found \intersect NoAddress = {} THEN found ELSE Nothing

HandleQuery(q) ==
  IF q.kind = "rooms" THEN Rooms
  ELSE GameList({h \in Listed : GameMatchesFilters(registry[h].fields, q.filter)})

\* The filter of the game's own queries, for the games of one group
\* (docs/MASTER_SERVER.md).
GameQuery(g) ==
  <<[field |-> "groupid", operator |-> "=", value |-> g, logic |-> "none"],
    [field |-> "gamemode", operator |-> "!=", value |-> "closedplaying", logic |-> "AND"]>>

\* The page of current matches: games of all groups.  Modes without a word
\* of their own are shown by their names; Other stands for all of them.
CurrentMatches ==
  [h \in Listed |-> LET mode == registry[h].fields.gamemode
                    IN CASE mode = "openstaging" -> "Lobby"
                         [] mode = "closedplaying" -> "In Progress"
                         [] mode = "closedstaging" -> "Starting"
                         [] OTHER -> "Other"]

(***************************************************************************)
(* One TCP connection.  The bytes of a packet carry the number of the      *)
(* query on the connection and their place; the first two are the length.  *)
(***************************************************************************)
Byte == [query : 1 .. MaxQueries, at : 1 .. PacketLength]
Packet(i) == [k \in 1 .. PacketLength |-> [query |-> i, at |-> k]]

\* Mutant: the length is taken for that of the bytes after it.
SizeOfRest(b) == IF b[1].at = 1 THEN PacketLength + 2 ELSE 2

\* What the first two bytes say; bytes that are no length say anything.  The
\* client's packets are well formed: a length of 0, which the code would take
\* from the buffer again and again, is outside the model.
Size(b) == IF b[1].at = 1 THEN PacketLength ELSE 2

\* The packets that data_received takes from the buffer, and what it leaves.
Split[b \in Seq(Byte)] ==
  IF Len(b) < 2 \/ Len(b) < Size(b)
  THEN [packets |-> <<>>, rest |-> b]
  ELSE LET more == Split[SubSeq(b, Size(b) + 1, Len(b))]
       IN [packets |-> <<SubSeq(b, 1, Size(b))>> \o more.packets,
           rest |-> more.rest]

\* A packet that is no query has no game name and gets no answer.
Answer(packet) ==
  LET i == packet[1].query
  IN IF packet = Packet(i) THEN [to |-> i, got |-> HandleQuery(asked[i])]
     ELSE [to |-> 0, got |-> Nothing]

ClientAsks(q) ==
  /\ Len(asked) < MaxQueries
  /\ asked' = Append(asked, q)
  /\ wire' = wire \o Packet(Len(asked) + 1)
  /\ UNCHANGED <<hostVars, tableVars, restarts, buffer, answers>>

\* TCP delivers the bytes in pieces of any size.
DataReceived(n) ==
  /\ n <= Len(wire)
  /\ LET split == Split[buffer \o SubSeq(wire, 1, n)]
     IN /\ buffer' = split.rest
        /\ answers' = answers \o [i \in DOMAIN split.packets |-> Answer(split.packets[i])]
  /\ wire' = SubSeq(wire, n + 1, Len(wire))
  /\ UNCHANGED <<hostVars, tableVars, restarts, asked>>

NewConnection == asked' = <<>> /\ wire' = <<>> /\ buffer' = <<>> /\ answers' = <<>>

\* The client closes its connection, and may open another.
ConnectionLost ==
  /\ asked # <<>>
  /\ NewConnection
  /\ UNCHANGED <<hostVars, tableVars, restarts>>

\* Both tables are in memory only; the hosts go on with their games.
Restart ==
  /\ restarts < MaxRestarts
  /\ restarts' = restarts + 1
  /\ game_sessions' = [h \in Host |-> None]
  /\ registry' = [h \in Host |-> None]
  /\ NewConnection
  /\ UNCHANGED <<hostVars, seen>>

Next ==
  \/ \E h \in Host : Heartbeat(h) \/ CloseGame(h) \/ HandleKeepalive(h)
  \/ \E m \in net : HandleHeartbeat(m) \/ HandleExit(m)
  \/ \E q \in Query : ClientAsks(q)
  \/ \E n \in 1 .. Len(wire) : DataReceived(n)
  \/ ConnectionLost
  \/ Restart

\* A host repeats its last announcement while its game is open, so that
\* one of the repetitions arrives some time.
Latest(h) == {m \in net : m.host = h /\ m.number = hosting[h].number}
LatestArrives(h) == \E m \in Latest(h) : HandleHeartbeat(m)

Fairness == \A h \in Ordered : WF_vars(LatestArrives(h))

Spec == Init /\ [][Next]_vars /\ Fairness

(***************************************************************************)
(* Properties.                                                             *)
(***************************************************************************)

\* The two tables agree on who hosts, but for heartbeats that could not be
\* read; an entry is made from one heartbeat of its host that was no
\* farewell; and a host whose datagrams do not overtake each other is
\* listed only as it last said, and not at all after its farewell came.
TablesAgree ==
  /\ seen \in [Host -> 0 .. MaxNumber]
  /\ Listed \subseteq {h \in Host : game_sessions[h] # None}
  /\ \A h \in Host : game_sessions[h] # None =>
       \/ registry[h].number = game_sessions[h].number
       \/ h \in BlankPort
  /\ \A h \in Listed :
       /\ registry[h].fields \in net
       /\ registry[h].fields.host = h
       /\ registry[h].fields.number = registry[h].number
       /\ ~registry[h].fields.exiting /\ ~registry[h].fields.blank
  /\ \A h \in (Listed \intersect Ordered) \ BlankPort : registry[h].number = seen[h]

\* However its bytes are cut into pieces, the queries of a connection are
\* answered one by one in their order, and a query that has arrived is not
\* left in the buffer.
AnswersInOrder ==
  /\ \A i \in DOMAIN answers : answers[i].to = i
  /\ Len(buffer) < PacketLength
  /\ (Len(asked) - Len(answers)) * PacketLength = Len(buffer) + Len(wire)

\* Host h has announced, with the number n, a game of group g that is not
\* being played.
Says(h, n, g) == \E m \in net : /\ m.host = h /\ m.number = n
                                /\ ~m.exiting /\ m.groupid = g
                                /\ m.gamemode # "closedplaying"

\* The games that a query for group g is meant to find: the page of matches
\* shows them as not in progress, and their hosts have said so.
Wanted(g) == {h \in Listed : /\ CurrentMatches[h] # "In Progress"
                             /\ Says(h, registry[h].number, g)}

\* What the game can rely on when it gets an answer.
TrueAnswer(got, g) ==
  /\ got = Wanted(g) \/ (got = Nothing /\ Wanted(g) \intersect NoAddress # {})
  /\ \A h \in (Listed \intersect Ordered) \ BlankPort :
       h \in Wanted(g) <=> Says(h, seen[h], g)

\* The query of the game for a group is answered, whatever the pieces its
\* bytes came in, with the games of that group that the page of matches shows
\* as not in progress at that moment, as announced in the heartbeat that is
\* listed; for a host whose datagrams keep their order this is the last one
\* to have arrived.  The game is told nothing only while a game without an
\* address is among them.
AnswersAreTrue ==
  [][\A i \in DOMAIN answers' \ DOMAIN answers, g \in Group :
       asked[i].kind = "games" /\ asked[i].filter = GameQuery(g)
         => TrueAnswer(answers'[i].got, g)]_vars

\* A host that keeps its game open is listed as it last said, although the
\* server may be restarted and its datagrams lost, repeated and late.
LatestIsListed ==
  \A h \in Ordered \ BlankPort :
    <>[](hosting[h].on) => <>[](registry[h].number = hosting[h].number)
=============================================================================
