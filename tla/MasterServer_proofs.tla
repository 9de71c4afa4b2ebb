---- MODULE MasterServer_proofs ----
(* That the two tables of the master server agree, however many hosts     *)
(* there are and however their datagrams arrive, that a query is answered *)
(* as the web pages of the server would show the games, and that a        *)
(* connection gets the answers to its queries in their order, however its *)
(* bytes are cut into pieces on their way.                                *)
EXTENDS MasterServer, FiniteSetTheorems, SequenceTheorems, TLAPS

\* The numbers of heartbeats, and what the network and the tables hold.
Number == 1 .. MaxNumber
Datagram == [host : Host, number : Number, exiting : BOOLEAN,
             gamemode : Mode \union {"none"}, groupid : Group \union {0}, blank : BOOLEAN]
HeartbeatState == [number : Number, last_keepalive : BOOLEAN]
Entry == [number : Number, fields : Datagram]

\* What the tables and the network are made of.
TablesTyped ==
  /\ hosting \in [Host -> [on : BOOLEAN, number : 0 .. MaxNumber]]
  /\ net \subseteq Datagram
  /\ seen \in [Host -> 0 .. MaxNumber]
  /\ game_sessions \in [Host -> {None} \union HeartbeatState]
  /\ registry \in [Host -> {None} \union Entry]

\* What the entry of one host says.
EntryOK(h) ==
  /\ registry[h] # None =>
       /\ game_sessions[h] # None
       /\ registry[h].fields \in net
       /\ registry[h].fields.host = h
       /\ registry[h].fields.number = registry[h].number
       /\ ~registry[h].fields.exiting /\ ~registry[h].fields.blank
       /\ h \in Ordered \ BlankPort => registry[h].number = seen[h]
  /\ game_sessions[h] # None =>
       \/ registry[h].number = game_sessions[h].number
       \/ h \in BlankPort

\* The inductive invariant.  Only hosts of BlankPort send heartbeats that
\* are not read; nothing else can make the tables disagree.
TablesInv ==
  /\ TablesTyped
  /\ \A m \in net : m.blank => m.host \in BlankPort
  /\ \A h \in Host : EntryOK(h)

\* A server that starts has empty tables.
LEMMA InitEstablishesInv == Init => TablesInv
<1> SUFFICES ASSUME Init PROVE TablesInv
  OBVIOUS
<1>1. TablesTyped
  BY MasterAssumption DEF Init, TablesTyped
<1> QED
  BY <1>1 DEF Init, TablesInv, EntryOK

\* An entry has a number and an empty place has none.
LEMMA EntriesAreNotNone ==
  /\ \A e \in Entry : e # None
  /\ \A s \in HeartbeatState : s # None
BY DEF Entry, HeartbeatState, None, Number

\* Hosts only add datagrams.
LEMMA AnnounceKeepsInv ==
  ASSUME TablesInv, NEW h \in Host, NEW exiting \in BOOLEAN,
         NEW mode \in Mode \union {"none"}, NEW group \in Group \union {0}, NEW blank \in BOOLEAN,
         blank => h \in BlankPort, Announce(h, exiting, mode, group, blank)
  PROVE  TablesInv'
<1> DEFINE n == hosting[h].number + 1
           m == [host |-> h, number |-> n, exiting |-> exiting,
                 gamemode |-> mode, groupid |-> group, blank |-> blank]
<1>1. /\ n <= MaxNumber /\ net' = net \union {m}
      /\ hosting' = [hosting EXCEPT ![h] = [on |-> ~exiting, number |-> n]]
      /\ UNCHANGED <<seen, game_sessions, registry>>
  BY DEF Announce, tableVars
<1>2. hosting[h].number \in 0 .. MaxNumber
  BY DEF TablesInv, TablesTyped
<1>3. n \in Number
  BY <1>1, <1>2, MasterAssumption DEF Number
<1>4. m \in Datagram
  BY <1>3 DEF Datagram
<1>5. hosting' \in [Host -> [on : BOOLEAN, number : 0 .. MaxNumber]]
  BY <1>1, <1>3, MasterAssumption DEF TablesInv, TablesTyped, Number
<1>6. TablesTyped'
  BY <1>1, <1>4, <1>5 DEF TablesInv, TablesTyped
<1>7. \A k \in net' : k.blank => k.host \in BlankPort
  BY <1>1 DEF TablesInv
<1>8. \A k \in Host : EntryOK(k)'
  BY <1>1 DEF TablesInv, EntryOK
<1> QED
  BY <1>6, <1>7, <1>8 DEF TablesInv

\* A heartbeat changes both places of its host, or only the one of the UDP
\* server when its ports are empty.
LEMMA HeartbeatKeepsInv ==
  ASSUME TablesInv, NEW m \in net, HandleHeartbeat(m)
  PROVE  TablesInv'
<1> DEFINE state == [number |-> m.number, last_keepalive |-> FALSE]
           entry == [number |-> m.number, fields |-> m]
<1>1. /\ ~m.exiting /\ Arrives(m) /\ RegisterGame(m)
      /\ game_sessions' = [game_sessions EXCEPT ![m.host] = state]
      /\ UNCHANGED <<hosting, net>>
  BY DEF HandleHeartbeat, hostVars
<1>2. m \in Datagram /\ m.host \in Host /\ m.number \in Number
  BY DEF TablesInv, TablesTyped, Datagram
<1>3. state \in HeartbeatState /\ entry \in Entry
  BY <1>2 DEF HeartbeatState, Entry
<1>4. /\ seen' \in [Host -> 0 .. MaxNumber]
      /\ m.host \in Ordered => seen'[m.host] = m.number
      /\ \A h \in Host : h # m.host => seen'[h] = seen[h]
  BY <1>1, <1>2 DEF Arrives, TablesInv, TablesTyped, Number
<1>5. /\ game_sessions' \in [Host -> {None} \union HeartbeatState]
      /\ \A h \in Host : game_sessions'[h] = IF h = m.host THEN state ELSE game_sessions[h]
  BY <1>1, <1>2, <1>3 DEF TablesInv, TablesTyped
<1>6. /\ registry' \in [Host -> {None} \union Entry]
      /\ \A h \in Host : registry'[h] = IF h = m.host /\ ~m.blank THEN entry ELSE registry[h]
  BY <1>1, <1>2, <1>3 DEF RegisterGame, TablesInv, TablesTyped
<1>7. TablesTyped'
  BY <1>1, <1>4, <1>5, <1>6 DEF TablesInv, TablesTyped
<1>8. ASSUME NEW h \in Host
      PROVE  EntryOK(h)'
  <2>1. CASE h # m.host
    BY <1>1, <1>4, <1>5, <1>6, <2>1 DEF TablesInv, EntryOK
  <2>2. CASE h = m.host /\ ~m.blank
    <3>1. game_sessions'[h] = state /\ registry'[h] = entry /\ game_sessions'[h] # None
      BY <1>3, <1>5, <1>6, <2>2, EntriesAreNotNone
    <3> QED
      BY <1>1, <1>4, <2>2, <3>1 DEF EntryOK
  <2>3. CASE h = m.host /\ m.blank
    <3>1. h \in BlankPort /\ registry'[h] = registry[h] /\ game_sessions'[h] # None
      BY <1>3, <1>5, <1>6, <2>3, EntriesAreNotNone DEF TablesInv
    <3> QED
      BY <1>1, <3>1 DEF TablesInv, EntryOK
  <2> QED
    BY <2>1, <2>2, <2>3
<1> QED
  BY <1>1, <1>7, <1>8 DEF TablesInv

\* A farewell empties both places of its host.
LEMMA ExitKeepsInv ==
  ASSUME TablesInv, NEW m \in net, HandleExit(m)
  PROVE  TablesInv'
<1>1. /\ Arrives(m) /\ UNCHANGED <<hosting, net>>
      /\ game_sessions' = [game_sessions EXCEPT ![m.host] = None]
      /\ registry' = [registry EXCEPT ![m.host] = None]
  BY DEF HandleExit, UnregisterGame, hostVars
<1>2. m.host \in Host /\ m.number \in Number
  BY DEF TablesInv, TablesTyped, Datagram
<1>3. /\ seen' \in [Host -> 0 .. MaxNumber]
      /\ \A h \in Host : h # m.host => seen'[h] = seen[h]
  BY <1>1, <1>2 DEF Arrives, TablesInv, TablesTyped, Number
<1>4. TablesTyped'
  BY <1>1, <1>2, <1>3 DEF TablesInv, TablesTyped
<1>5. \A h \in Host : EntryOK(h)'
  BY <1>1, <1>2, <1>3 DEF TablesInv, TablesTyped, EntryOK
<1> QED
  BY <1>1, <1>4, <1>5 DEF TablesInv

\* A keepalive only sets a flag.
LEMMA KeepaliveKeepsInv ==
  ASSUME TablesInv, NEW h \in Host, HandleKeepalive(h)
  PROVE  TablesInv'
<1>1. /\ game_sessions[h] # None
      /\ game_sessions' = [game_sessions EXCEPT ![h].last_keepalive = TRUE]
      /\ UNCHANGED <<hosting, net, seen, registry>>
  BY DEF HandleKeepalive, hostVars
<1>2. game_sessions[h] \in HeartbeatState
  BY <1>1 DEF TablesInv, TablesTyped
<1>3. /\ game_sessions'[h] \in HeartbeatState
      /\ game_sessions'[h].number = game_sessions[h].number
      /\ \A k \in Host : k # h => game_sessions'[k] = game_sessions[k]
      /\ game_sessions' \in [Host -> {None} \union HeartbeatState]
  BY <1>1, <1>2 DEF HeartbeatState, TablesInv, TablesTyped
<1>4. TablesTyped'
  BY <1>1, <1>3 DEF TablesInv, TablesTyped
<1>5. ASSUME NEW k \in Host
      PROVE  EntryOK(k)'
  <2>1. EntryOK(k) /\ UNCHANGED <<net, seen, registry>>
    BY <1>1 DEF TablesInv
  <2>2. CASE k # h
    <3>1. game_sessions'[k] = game_sessions[k]
      BY <1>3, <2>2
    <3> QED
      BY <2>1, <3>1 DEF EntryOK
  <2>3. CASE k = h
    <3>1. /\ game_sessions[h] # None /\ game_sessions'[h] # None
          /\ game_sessions'[h].number = game_sessions[h].number
      BY <1>1, <1>3, EntriesAreNotNone
    <3> QED
      BY <2>1, <2>3, <3>1 DEF EntryOK
  <2> QED
    BY <2>2, <2>3
<1> QED
  BY <1>1, <1>4, <1>5 DEF TablesInv

\* No step of a host, a client or the server breaks the invariant.
LEMMA NextKeepsInv == TablesInv /\ [Next]_vars => TablesInv'
<1> SUFFICES ASSUME TablesInv, [Next]_vars
             PROVE  TablesInv'
  OBVIOUS
<1>1. ASSUME NEW h \in Host, Heartbeat(h)
      PROVE  TablesInv'
  <2>1. PICK mode \in Mode, group \in Group, blank \in BOOLEAN :
          (blank => h \in BlankPort) /\ Announce(h, FALSE, mode, group, blank)
    BY <1>1 DEF Heartbeat
  <2> QED
    BY <2>1, AnnounceKeepsInv
<1>2. ASSUME NEW h \in Host, CloseGame(h)
      PROVE  TablesInv'
  BY <1>2, AnnounceKeepsInv DEF CloseGame
<1>3. ASSUME UNCHANGED <<hosting, net, seen, game_sessions, registry>>
      PROVE  TablesInv'
  BY <1>3 DEF TablesInv, TablesTyped, EntryOK
<1>4. CASE Restart
  <2>1. /\ UNCHANGED <<hosting, net, seen>>
        /\ game_sessions' = [h \in Host |-> None]
        /\ registry' = [h \in Host |-> None]
    BY <1>4 DEF Restart, hostVars
  <2>2. TablesTyped'
    BY <2>1 DEF TablesInv, TablesTyped
  <2> QED
    BY <2>1, <2>2 DEF TablesInv, EntryOK
<1>5. ASSUME \/ \E q \in Query : ClientAsks(q)
             \/ \E n \in 1 .. Len(wire) : DataReceived(n)
             \/ ConnectionLost
             \/ UNCHANGED vars
      PROVE  TablesInv'
  <2>1. UNCHANGED <<hosting, net, seen, game_sessions, registry>>
    BY <1>5 DEF ClientAsks, DataReceived, ConnectionLost, vars, hostVars, tableVars
  <2> QED
    BY <1>3, <2>1
<1> QED
  BY <1>1, <1>2, <1>4, <1>5, HeartbeatKeepsInv, ExitKeepsInv, KeepaliveKeepsInv DEF Next

\* In every reachable state.
LEMMA TablesAreSound == Spec => []TablesInv
BY InitEstablishesInv, NextKeepsInv, PTL DEF Spec

\* The registry and the table of the UDP server name the same hosts and
\* heartbeats, and a host whose datagrams keep their order is listed as it
\* last said.
THEOREM MasterTablesAgree == Spec => []TablesAgree
<1>1. TablesInv => TablesAgree
  BY DEF TablesInv, TablesTyped, EntryOK, TablesAgree, Listed
<1> QED
  BY TablesAreSound, <1>1, PTL


-----------------------------------------------------------------------------
(* Split, the loop that takes the packets from the buffer, is defined by     *)
(* recursion.  That a function satisfies its equation is shown with          *)
(* functions that do for all buffers up to some length.                      *)

\* A set of numbers has a least one.
LEMMA LeastNumber ==
  ASSUME NEW T \in SUBSET Nat, T # {}
  PROVE  \E n \in T : \A k \in T : n <= k
<1>1. PICK m \in T : TRUE
  OBVIOUS
<1> DEFINE U == {0 .. k : k \in {l \in T : l <= m}}
<1>2. IsFiniteSet(0 .. m) /\ 0 .. m \in U
  BY <1>1, FS_Interval
<1>3. U \subseteq FiniteSubsetsOf(0 .. m)
  BY <1>1, <1>2, FS_Subset DEF FiniteSubsetsOf
<1>4. PICK s \in U : \A u \in U : <<u, s>> \notin StrictSubsetOrdering(0 .. m)
  <2> HIDE DEF U
  <2> QED
    BY <1>2, <1>3, FS_StrictSubsetOrderingWellFounded, WFMin
<1>5. PICK n \in T : s = 0 .. n /\ n <= m
  BY <1>4
<1>6. ASSUME NEW k \in T, k < n
      PROVE  FALSE
  <2>1. 0 .. k \in U
    BY <1>1, <1>5, <1>6
  <2>2. 0 .. k \subseteq 0 .. n /\ n \notin 0 .. k /\ n \in 0 .. n /\ 0 .. n \subseteq 0 .. m
    BY <1>1, <1>5, <1>6
  <2>3. <<0 .. k, 0 .. n>> \in StrictSubsetOrdering(0 .. m)
    BY <2>2 DEF StrictSubsetOrdering
  <2> QED
    BY <1>4, <1>5, <2>1, <2>3
<1> QED
  BY <1>6

\* Where data_received stops taking packets, and what it takes otherwise;
\* g says what it does with the bytes after the first packet.
Stops(b) == Len(b) < 2 \/ Len(b) < Size(b)
After(b) == SubSeq(b, Size(b) + 1, Len(b))
Taken(g, b) ==
  IF Stops(b) THEN [packets |-> <<>>, rest |-> b]
  ELSE [packets |-> <<SubSeq(b, 1, Size(b))>> \o g[After(b)].packets, rest |-> g[After(b)].rest]

\* The buffers of at most n bytes, and the function on them that takes packets
\* as the loop of data_received does.
Short(n) == {b \in Seq(Byte) : Len(b) <= n}
Splits(n, g) == g = [b \in Short(n) |-> Taken(g, b)]

\* The bytes after a packet are fewer.
LEMMA AfterIsShorter ==
  ASSUME NEW b \in Seq(Byte), ~Stops(b)
  PROVE  After(b) \in Seq(Byte) /\ Len(After(b)) < Len(b)
<1>1. Size(b) \in Nat /\ Size(b) >= 2 /\ Len(b) \in Nat /\ Size(b) <= Len(b)
  BY MasterAssumption, LenProperties DEF Size, Stops
<1>2. \A i \in Size(b) + 1 .. Len(b) : b[i] \in Byte
  BY <1>1, ElementOfSeq
<1> QED
  BY <1>1, <1>2, SubSeqProperties DEF After

\* Two such functions agree where both are defined.
LEMMA SplitsAgree ==
  ASSUME NEW n \in Nat, NEW m \in Nat, NEW g, NEW h, Splits(n, g), Splits(m, h),
         NEW b \in Seq(Byte), Len(b) <= n, Len(b) <= m
  PROVE  g[b] = h[b]
<1> DEFINE Bad == {c \in Short(n) \cap Short(m) : g[c] # h[c]}
           Lengths == {Len(c) : c \in Bad}
<1>1. SUFFICES ASSUME Lengths # {}
               PROVE  FALSE
  BY DEF Short
<1>2. Lengths \in SUBSET Nat
  BY LenProperties DEF Short
<1>3. PICK l \in Lengths : \A k \in Lengths : l <= k
  <2> HIDE DEF Lengths
  <2> QED
    BY <1>1, <1>2, LeastNumber
<1>4. PICK c \in Bad : Len(c) = l
  BY <1>3
<1>5. c \in Seq(Byte) /\ c \in Short(n) /\ c \in Short(m) /\ Len(c) \in Nat
  BY <1>4, LenProperties DEF Short
<1>6. g[c] = Taken(g, c) /\ h[c] = Taken(h, c)
  BY <1>5 DEF Splits
<1>7. ~Stops(c)
  BY <1>4, <1>6 DEF Taken
<1>8. After(c) \in Short(n) \cap Short(m) /\ Len(After(c)) < l /\ Len(After(c)) \in Nat
  BY <1>4, <1>5, <1>7, AfterIsShorter, LenProperties DEF Short
<1>9. g[After(c)] = h[After(c)]
  BY <1>2, <1>3, <1>8
<1> QED
  BY <1>4, <1>6, <1>9 DEF Taken

\* There is one for every length.
LEMMA SplitsExist == \A n \in Nat : \E g : Splits(n, g)
<1> DEFINE Missing == {n \in Nat : ~\E g : Splits(n, g)}
<1>1. SUFFICES ASSUME Missing # {}
               PROVE  FALSE
  OBVIOUS
<1>2. PICK n \in Missing : \A k \in Missing : n <= k
  <2>1. Missing \in SUBSET Nat
    OBVIOUS
  <2> HIDE DEF Missing
  <2> QED
    BY <1>1, <2>1, LeastNumber
<1>3. CASE n = 0
  <2> DEFINE g == [b \in Short(0) |-> [packets |-> <<>>, rest |-> b]]
  <2>1. \A b \in Short(0) : Stops(b)
    BY LenProperties DEF Short, Stops
  <2>2. Splits(0, g)
    BY <2>1 DEF Splits, Taken
  <2> QED
    BY <1>2, <1>3, <2>2
<1>4. CASE n # 0
  <2>1. n \in Nat /\ n - 1 \in Nat /\ n - 1 \notin Missing
    BY <1>2, <1>4
  <2>2. PICK g : Splits(n - 1, g)
    BY <2>1
  <2> DEFINE h == [b \in Short(n) |-> Taken(g, b)]
  <2>3. ASSUME NEW b \in Short(n)
        PROVE  Taken(g, b) = Taken(h, b)
    <3>1. CASE Stops(b)
      BY <3>1 DEF Taken
    <3>2. CASE ~Stops(b)
      <4>1. b \in Seq(Byte) /\ Len(b) \in Nat /\ Len(b) <= n
        BY <2>3, LenProperties DEF Short
      <4>2. After(b) \in Seq(Byte) /\ Len(After(b)) \in Nat /\ Len(After(b)) < Len(b)
        BY <3>2, <4>1, AfterIsShorter, LenProperties
      <4>3. After(b) \in Short(n - 1) /\ After(b) \in Short(n)
        BY <2>1, <4>1, <4>2 DEF Short
      <4>4. g[After(b)] = Taken(g, After(b)) /\ h[After(b)] = Taken(g, After(b))
        BY <2>2, <4>3 DEF Splits
      <4> QED
        BY <4>4 DEF Taken
    <3> QED
      BY <3>1, <3>2
  <2>4. Splits(n, h)
    BY <2>3 DEF Splits
  <2> QED
    BY <1>2, <2>4
<1> QED
  BY <1>3, <1>4

\* What Split takes from a buffer.
LEMMA SplitTakes == \A b \in Seq(Byte) : Split[b] = Taken(Split, b)
<1> DEFINE f == [b \in Seq(Byte) |-> (CHOOSE g : Splits(Len(b), g))[b]]
<1>1. ASSUME NEW n \in Nat, NEW g, Splits(n, g), NEW b \in Seq(Byte), Len(b) <= n
      PROVE  f[b] = g[b]
  <2>1. Len(b) \in Nat
    BY LenProperties
  <2>2. Splits(Len(b), CHOOSE k : Splits(Len(b), k))
    BY <2>1, SplitsExist
  <2>3. PICK h : h = (CHOOSE k : Splits(Len(b), k))
    OBVIOUS
  <2>4. Splits(Len(b), h) /\ f[b] = h[b]
    BY <2>2, <2>3
  <2> HIDE DEF f
  <2> QED
    BY <1>1, <2>1, <2>4, SplitsAgree
<1>2. ASSUME NEW b \in Seq(Byte)
      PROVE  f[b] = Taken(f, b)
  <2>1. Len(b) \in Nat
    BY LenProperties
  <2>2. PICK g : Splits(Len(b), g)
    BY <2>1, SplitsExist
  <2>3. f[b] = g[b] /\ g[b] = Taken(g, b)
    <3>1. b \in Short(Len(b))
      BY <2>1 DEF Short
    <3> HIDE DEF f
    <3> QED
      BY <1>1, <2>1, <2>2, <3>1 DEF Splits
  <2> HIDE DEF f
  <2>4. CASE Stops(b)
    BY <2>3, <2>4 DEF Taken
  <2>5. CASE ~Stops(b)
    <3>1. f[After(b)] = g[After(b)]
      BY <1>1, <2>1, <2>2, <2>5, AfterIsShorter, LenProperties
    <3> QED
      BY <2>3, <3>1 DEF Taken
  <2> QED
    BY <2>4, <2>5
<1>3. f = [b \in Seq(Byte) |-> Taken(f, b)]
  BY <1>2
<1> HIDE DEF f
<1>4. Split = [b \in Seq(Byte) |-> Taken(Split, b)]
  BY <1>3 DEF Split, Taken, Stops, After
<1> QED
  BY <1>4

-----------------------------------------------------------------------------
(* The bytes of a connection: those that the server has not taken, in its    *)
(* buffer and on the way, are the packets of the queries not yet answered.   *)

\* The number of bytes of i packets.
Bytes(i) == i * PacketLength

\* Counting whole packets.
LEMMA BytesOfPackets ==
  PacketLength \in Nat /\ PacketLength >= 2 /\ Bytes(0) = 0 /\ \A i \in Nat : Bytes(i) \in Nat
<1>1. PacketLength \in Nat /\ PacketLength >= 2
  BY MasterAssumption
<1>2. 0 * PacketLength = 0
  BY <1>1
<1>3. \A i \in Nat : i * PacketLength \in Nat
  BY <1>1
<1> QED
  BY <1>1, <1>2, <1>3 DEF Bytes

\* One packet more.
LEMMA OnePacketMore ==
  ASSUME NEW i \in Nat
  PROVE  Bytes(i + 1) = Bytes(i) + PacketLength
BY MasterAssumption DEF Bytes

\* What is left of j after i.
LEMMA Differences ==
  ASSUME NEW i \in Nat, NEW j \in Nat, i <= j
  PROVE  \E d \in Nat : j = i + d
OBVIOUS

\* The bytes of i packets and those of j more.
LEMMA BytesAddUp ==
  ASSUME NEW i \in Nat, NEW j \in Nat
  PROVE  Bytes(i + j) = Bytes(i) + Bytes(j)
BY MasterAssumption DEF Bytes

\* Fewer packets are at least a packet shorter.
LEMMA MorePacketsMoreBytes ==
  ASSUME NEW i \in Nat, NEW j \in Nat, i < j
  PROVE  Bytes(i) + PacketLength <= Bytes(j)
<1>1. PICK d \in Nat : j = (i + 1) + d
  BY Differences
<1>2. Bytes(j) = Bytes(i + 1) + Bytes(d)
  BY <1>1, BytesAddUp
<1> QED
  BY <1>2, BytesOfPackets, OnePacketMore

\* The bytes b begin with the packet of query k + 1 and go on with the next ones.
Carries(b, k) ==
  \A i \in Nat, j \in 1 .. PacketLength :
    Bytes(i) + j <= Len(b) => b[Bytes(i) + j] = [query |-> k + 1 + i, at |-> j]

\* A whole packet at the beginning is the packet of a query, and what comes
\* after it are packets again.
LEMMA FirstPacket ==
  ASSUME NEW k \in Nat, NEW b \in Seq(Byte), Carries(b, k), Len(b) >= PacketLength
  PROVE  /\ Size(b) = PacketLength /\ ~Stops(b)
         /\ SubSeq(b, 1, Size(b)) = Packet(k + 1)
         /\ Carries(After(b), k + 1)
         /\ Len(After(b)) = Len(b) - PacketLength
<1>1. PacketLength \in Nat /\ PacketLength >= 2 /\ Len(b) \in Nat
  BY MasterAssumption, LenProperties
<1>2. \A j \in 1 .. PacketLength : b[j] = [query |-> k + 1, at |-> j]
  <2> TAKE j \in 1 .. PacketLength
  <2>1. Bytes(0) + j = j /\ k + 1 + 0 = k + 1
    BY <1>1, BytesOfPackets
  <2> QED
    BY <1>1, <2>1 DEF Carries
<1>3. Size(b) = PacketLength /\ ~Stops(b)
  <2>1. 1 \in 1 .. PacketLength
    BY <1>1
  <2>2. b[1] = [query |-> k + 1, at |-> 1]
    BY <1>2, <2>1
  <2> QED
    BY <1>1, <2>2 DEF Size, Stops
<1>4. SubSeq(b, 1, PacketLength) = Packet(k + 1)
  <2>1. SubSeq(b, 1, PacketLength) = [j \in 1 .. PacketLength |-> b[j]]
    BY <1>1
  <2> QED
    BY <1>2, <2>1 DEF Packet
<1>5. /\ Len(After(b)) = Len(b) - PacketLength
      /\ \A x \in 1 .. Len(b) - PacketLength : After(b)[x] = b[PacketLength + x]
  <2>1. \A x \in PacketLength + 1 .. Len(b) : b[x] \in Byte
    BY <1>1, ElementOfSeq
  <2> QED
    BY <1>1, <1>3, <2>1, SubSeqProperties DEF After
<1>6. ASSUME NEW i \in Nat, NEW j \in 1 .. PacketLength, Bytes(i) + j <= Len(After(b))
      PROVE  After(b)[Bytes(i) + j] = [query |-> (k + 1) + 1 + i, at |-> j]
  <2>1. Bytes(i) \in Nat /\ Bytes(i + 1) = Bytes(i) + PacketLength
    BY BytesOfPackets, OnePacketMore
  <2>2. After(b)[Bytes(i) + j] = b[PacketLength + (Bytes(i) + j)]
    <3>1. Bytes(i) + j \in Nat /\ Bytes(i) + j >= 1
      BY <1>1, <2>1
    <3>2. Bytes(i) + j <= Len(b) - PacketLength
      BY <1>5, <1>6
    <3>3. Bytes(i) + j \in 1 .. Len(b) - PacketLength
      BY <1>1, <3>1, <3>2
    <3> QED
      BY <1>5, <3>3
  <2>3. PacketLength + (Bytes(i) + j) = Bytes(i + 1) + j
    BY <1>1, <2>1
  <2>4. Bytes(i + 1) + j <= Len(b)
    BY <1>1, <1>5, <1>6, <2>1
  <2>5. b[Bytes(i + 1) + j] = [query |-> k + 1 + (i + 1), at |-> j]
    BY <2>4 DEF Carries
  <2> QED
    BY <2>2, <2>3, <2>5
<1> QED
  BY <1>3, <1>4, <1>5, <1>6 DEF Carries

\* What data_received makes of bytes that are packets of queries, the last one
\* perhaps in part: it takes all the whole packets and leaves the rest.
TakesAll(b, k, m, packets, rest) ==
  /\ m \in Nat /\ packets \in Seq(Seq(Byte)) /\ rest \in Seq(Byte)
  /\ Split[b] = [packets |-> packets, rest |-> rest]
  /\ Len(packets) = m
  /\ \A i \in 1 .. m : packets[i] = Packet(k + i)
  /\ Len(rest) < PacketLength
  /\ Bytes(m) + Len(rest) = Len(b)
  /\ Carries(rest, k + m)
TakesPackets(b, k) == \E m, packets, rest : TakesAll(b, k, m, packets, rest)

\* It does so with a buffer if it does with what comes after the first packet.
LEMMA TakesOneMore ==
  ASSUME NEW k \in Nat, NEW b \in Seq(Byte), Carries(b, k), Len(b) >= PacketLength,
         TakesPackets(After(b), k + 1)
  PROVE  TakesPackets(b, k)
<1>1. PacketLength \in Nat /\ PacketLength >= 2 /\ Len(b) \in Nat
  BY MasterAssumption, LenProperties
<1>2. /\ ~Stops(b) /\ SubSeq(b, 1, Size(b)) = Packet(k + 1) /\ Size(b) = PacketLength
      /\ Len(After(b)) = Len(b) - PacketLength
  BY FirstPacket
<1>3. PICK first \in Seq(Byte) : first = Packet(k + 1)
  <2>1. \A i \in 1 .. PacketLength : b[i] \in Byte
    BY <1>1, ElementOfSeq
  <2>2. SubSeq(b, 1, PacketLength) \in Seq(Byte)
    BY <1>1, <2>1, SubSeqProperties
  <2> QED
    BY <1>2, <2>2
<1>4. PICK m \in Nat, packets \in Seq(Seq(Byte)), rest \in Seq(Byte) :
        /\ Split[After(b)] = [packets |-> packets, rest |-> rest]
        /\ Len(packets) = m
        /\ \A i \in 1 .. m : packets[i] = Packet((k + 1) + i)
        /\ Len(rest) < PacketLength
        /\ Bytes(m) + Len(rest) = Len(After(b))
        /\ Carries(rest, (k + 1) + m)
  BY DEF TakesPackets, TakesAll
<1>5. PICK all \in Seq(Seq(Byte)) :
        /\ all = <<first>> \o packets
        /\ Len(all) = m + 1
        /\ all[1] = first
        /\ \A i \in 1 .. m : all[i + 1] = packets[i]
  <2>1. PICK one \in Seq(Seq(Byte)) : one = <<first>> /\ Len(one) = 1 /\ one[1] = first
    <3>1. <<first>> \in Seq(Seq(Byte))
      OBVIOUS
    <3>2. Len(<<first>>) = 1 /\ <<first>>[1] = first
      OBVIOUS
    <3> QED
      BY <3>1, <3>2
  <2>2. /\ one \o packets \in Seq(Seq(Byte))
        /\ Len(one \o packets) = Len(one) + Len(packets)
        /\ \A i \in 1 .. Len(one) + Len(packets) :
             (one \o packets)[i] = IF i <= Len(one) THEN one[i] ELSE packets[i - Len(one)]
    BY ConcatProperties
  <2>3. Len(one \o packets) = m + 1
    BY <1>4, <2>1, <2>2
  <2>4. (one \o packets)[1] = first
    <3>1. 1 \in 1 .. Len(one) + Len(packets)
      BY <1>4, <2>1
    <3> QED
      BY <2>1, <2>2, <3>1
  <2>5. ASSUME NEW i \in 1 .. m
        PROVE  (one \o packets)[i + 1] = packets[i]
    <3>1. i + 1 \in 1 .. Len(one) + Len(packets) /\ ~(i + 1 <= Len(one)) /\ (i + 1) - Len(one) = i
      BY <1>4, <2>1
    <3> QED
      BY <2>2, <3>1
  <2> QED
    BY <2>1, <2>2, <2>3, <2>4, <2>5
<1>6. Split[b] = [packets |-> all, rest |-> rest]
  <2>1. Split[After(b)].packets = packets /\ Split[After(b)].rest = rest
    BY <1>4
  <2>2. Taken(Split, b) = [packets |-> <<first>> \o packets, rest |-> rest]
    BY <1>2, <1>3, <2>1 DEF Taken
  <2> QED
    BY <1>5, <2>2, SplitTakes
<1>7. \A i \in 1 .. m + 1 : all[i] = Packet(k + i)
  <2> TAKE i \in 1 .. m + 1
  <2>1. CASE i = 1
    BY <1>3, <1>5, <2>1
  <2>2. CASE i # 1
    <3>1. PICK j \in 1 .. m : i = j + 1
      BY <2>2
    <3>2. all[j + 1] = Packet((k + 1) + j) /\ (k + 1) + j = k + (j + 1)
      BY <1>4, <1>5
    <3> QED
      BY <3>1, <3>2
  <2> QED
    BY <2>1, <2>2
<1>8. Bytes(m + 1) + Len(rest) = Len(b)
  <2>1. Bytes(m + 1) = Bytes(m) + PacketLength /\ Bytes(m) \in Nat
    BY BytesOfPackets, OnePacketMore
  <2>2. Len(rest) \in Nat /\ Bytes(m) + Len(rest) = Len(b) - PacketLength
    BY <1>2, <1>4, LenProperties
  <2> QED
    BY <1>1, <2>1, <2>2
<1>9. Carries(rest, k + (m + 1))
  <2>1. (k + 1) + m = k + (m + 1)
    OBVIOUS
  <2> QED
    BY <1>4, <2>1
<1>10. m + 1 \in Nat /\ Len(all) = m + 1 /\ Len(rest) < PacketLength
  BY <1>4, <1>5
<1> QED
  BY <1>6, <1>7, <1>8, <1>9, <1>10 DEF TakesPackets, TakesAll

\* It does so with every buffer: the shortest with which it does not would be
\* too short to hold a packet.
LEMMA AllPacketsAreTaken ==
  ASSUME NEW k \in Nat, NEW b \in Seq(Byte), Carries(b, k)
  PROVE  TakesPackets(b, k)
<1> DEFINE Bad == {c \in Seq(Byte) : \E l \in Nat : Carries(c, l) /\ ~TakesPackets(c, l)}
           Lengths == {Len(c) : c \in Bad}
<1>1. SUFFICES ASSUME Lengths # {}
               PROVE  FALSE
  OBVIOUS
<1>2. Lengths \in SUBSET Nat
  BY LenProperties
<1>3. PICK n \in Lengths : \A x \in Lengths : n <= x
  <2> HIDE DEF Lengths
  <2> QED
    BY <1>1, <1>2, LeastNumber
<1>4. PICK c \in Bad : Len(c) = n
  BY <1>3
<1>5. PICK l \in Nat : Carries(c, l) /\ ~TakesPackets(c, l)
  BY <1>4
<1>6. c \in Seq(Byte) /\ Len(c) \in Nat /\ PacketLength \in Nat /\ PacketLength >= 2
  BY <1>4, LenProperties, MasterAssumption
<1>7. CASE Len(c) >= PacketLength
  <2>1. /\ ~Stops(c) /\ Carries(After(c), l + 1)
    BY <1>5, <1>6, <1>7, FirstPacket
  <2>2. After(c) \in Seq(Byte) /\ Len(After(c)) < Len(c) /\ Len(After(c)) \in Nat
    BY <1>6, <2>1, AfterIsShorter, LenProperties
  <2>3. ~TakesPackets(After(c), l + 1)
    BY <1>5, <1>6, <1>7, TakesOneMore
  <2>4. l + 1 \in Nat /\ Len(After(c)) \in Lengths
    BY <2>1, <2>2, <2>3
  <2>5. n <= Len(After(c))
    BY <1>3, <2>4
  <2> QED
    BY <1>4, <1>6, <2>2, <2>5
<1>8. CASE Len(c) < PacketLength
  <2>1. Stops(c)
    <3>1. SUFFICES ASSUME Len(c) >= 2
                   PROVE  Size(c) = PacketLength
      BY <1>6, <1>8 DEF Stops
    <3>2. Bytes(0) + 1 = 1 /\ l + 1 + 0 = l + 1 /\ 1 \in 1 .. PacketLength
      BY <1>5, <1>6, BytesOfPackets
    <3>3. c[1] = [query |-> l + 1, at |-> 1]
      BY <1>5, <1>6, <3>1, <3>2 DEF Carries
    <3> QED
      BY <3>3 DEF Size
  <2>2. Split[c] = [packets |-> <<>>, rest |-> c]
    BY <1>6, <2>1, SplitTakes DEF Taken
  <2>3. PICK none \in Seq(Seq(Byte)) : none = <<>> /\ Len(none) = 0
    BY EmptySeq
  <2>4. TakesPackets(c, l)
    <3>1. Bytes(0) + Len(c) = Len(c) /\ l + 0 = l
      <4>1. l + 0 = l
        BY <1>5
      <4>2. Len(c) \in Nat /\ Bytes(0) = 0
        BY <1>6, BytesOfPackets
      <4> QED
        BY <4>1, <4>2
    <3>2. \A i \in 1 .. 0 : none[i] = Packet(l + i)
      OBVIOUS
    <3> QED
      BY <1>5, <1>6, <1>8, <2>2, <2>3, <3>1, <3>2 DEF TakesPackets, TakesAll
  <2> QED
    BY <1>5, <2>4
<1> QED
  BY <1>6, <1>7, <1>8

\* What is sent back: the number of a query and what it got.
Result == [to : Nat, got : (SUBSET Host) \union {Rooms, Nothing}]

\* The invariant of a connection.
StreamInv ==
  /\ asked \in Seq(Query) /\ Len(asked) <= MaxQueries
  /\ buffer \in Seq(Byte) /\ wire \in Seq(Byte)
  /\ answers \in Seq(Result)
  /\ \A i \in 1 .. Len(answers) : answers[i].to = i
  /\ Len(answers) <= Len(asked)
  /\ Bytes(Len(asked) - Len(answers)) = Len(buffer) + Len(wire)
  /\ Len(buffer) < PacketLength
  /\ Carries(buffer \o wire, Len(answers))

\* A connection that is new has nothing in it.
LEMMA NothingInIt ==
  /\ <<>> \in Seq(Query) /\ <<>> \in Seq(Byte) /\ <<>> \in Seq(Result) /\ Len(<<>>) = 0
  /\ Len(<<>>) <= MaxQueries /\ Len(<<>>) < PacketLength
  /\ Bytes(Len(<<>>) - Len(<<>>)) = Len(<<>>) + Len(<<>>)
  /\ Carries(<<>> \o <<>>, Len(<<>>))
<1>1. /\ <<>> \in Seq(Query) /\ <<>> \in Seq(Byte) /\ <<>> \in Seq(Result) /\ Len(<<>>) = 0
      /\ <<>> \o <<>> = <<>>
  BY EmptySeq, ConcatEmptySeq
<1>2. PacketLength \in Nat /\ PacketLength >= 2 /\ MaxQueries \in Nat
  BY MasterAssumption
<1>3. 0 - 0 = 0 /\ 0 + 0 = 0 /\ Bytes(0) = 0
  BY BytesOfPackets
<1>4. ASSUME NEW i \in Nat, NEW j \in 1 .. PacketLength
      PROVE  ~(Bytes(i) + j <= 0)
  <2>1. Bytes(i) \in Nat
    BY BytesOfPackets
  <2> QED
    BY <1>2, <2>1
<1>5. Carries(<<>> \o <<>>, Len(<<>>))
  BY <1>1, <1>4 DEF Carries
<1> QED
  BY <1>1, <1>2, <1>3, <1>5

\* The packet of a query consists of bytes.
LEMMA PacketsAreBytes ==
  ASSUME NEW i \in 1 .. MaxQueries
  PROVE  Packet(i) \in Seq(Byte) /\ Len(Packet(i)) = PacketLength
<1>1. PacketLength \in Nat
  BY MasterAssumption
<1>2. Packet(i) \in [1 .. PacketLength -> Byte]
  BY DEF Packet, Byte
<1> QED
  BY <1>1, <1>2

\* Where a byte of a packet is among n bytes.
LEMMA PlaceOfByte ==
  ASSUME NEW i \in Nat, NEW j \in 1 .. PacketLength, NEW n \in Nat, Bytes(i) + j <= n
  PROVE  Bytes(i) \in Nat /\ Bytes(i) + j \in 1 .. n
BY BytesOfPackets

\* After the last packet the next one can follow.
LEMMA CarriesOneMore ==
  ASSUME NEW k \in Nat, NEW d \in Nat, NEW old \in Seq(Byte), NEW packet \in Seq(Byte),
         Carries(old, k), Len(old) = Bytes(d),
         packet = Packet(k + d + 1), Len(packet) = PacketLength
  PROVE  Carries(old \o packet, k)
<1>1. /\ Len(old \o packet) = Bytes(d) + PacketLength
      /\ \A x \in 1 .. Bytes(d) + PacketLength :
           (old \o packet)[x] = IF x <= Bytes(d) THEN old[x] ELSE packet[x - Bytes(d)]
  <2>1. /\ Len(old \o packet) = Len(old) + Len(packet)
        /\ \A x \in 1 .. Len(old) + Len(packet) :
             (old \o packet)[x] = IF x <= Len(old) THEN old[x] ELSE packet[x - Len(old)]
    BY ConcatProperties
  <2>2. Len(old) = Bytes(d) /\ Len(packet) = PacketLength
    OBVIOUS
  <2> QED
    BY <2>1, <2>2
<1>2. Bytes(d) \in Nat /\ PacketLength \in Nat
  BY BytesOfPackets
<1> SUFFICES ASSUME NEW i \in Nat, NEW j \in 1 .. PacketLength, Bytes(i) + j <= Bytes(d) + PacketLength
             PROVE  (old \o packet)[Bytes(i) + j] = [query |-> k + 1 + i, at |-> j]
  <2>1. Len(old \o packet) = Bytes(d) + PacketLength
    BY <1>1
  <2> QED
    BY <2>1, Zenon DEF Carries
<1>3. Bytes(i) \in Nat /\ Bytes(i) + j \in 1 .. Bytes(d) + PacketLength
  BY <1>2, PlaceOfByte
<1>4. CASE i < d
  <2>1. Bytes(i) + PacketLength <= Bytes(d)
    BY <1>4, MorePacketsMoreBytes
  <2>2. Bytes(i) + j <= Bytes(d)
    BY <1>2, <1>3, <2>1
  <2>3. (old \o packet)[Bytes(i) + j] = old[Bytes(i) + j]
    BY <1>1, <1>3, <2>2
  <2> QED
    BY <2>2, <2>3 DEF Carries
<1>5. CASE i = d
  <2>1. ~(Bytes(i) + j <= Bytes(d)) /\ (Bytes(i) + j) - Bytes(d) = j
    BY <1>2, <1>5
  <2>2. (old \o packet)[Bytes(i) + j] = packet[j]
    BY <1>1, <1>3, <2>1
  <2>3. packet[j] = [query |-> k + d + 1, at |-> j]
    BY DEF Packet
  <2>4. k + d + 1 = k + 1 + i
    BY <1>5
  <2> QED
    BY <2>2, <2>3, <2>4
<1>6. CASE d < i
  <2>1. Bytes(d) + PacketLength <= Bytes(i)
    BY <1>6, MorePacketsMoreBytes
  <2>2. FALSE
    BY <1>2, <1>3, <2>1
  <2> QED
    BY <2>2
<1>7. i < d \/ i = d \/ d < i
  OBVIOUS
<1> QED
  BY <1>4, <1>5, <1>6, <1>7

\* The first bytes of packets are packets.
LEMMA CarriesFirst ==
  ASSUME NEW k \in Nat, NEW old \in Seq(Byte), Carries(old, k), NEW b \in Seq(Byte),
         Len(b) <= Len(old), \A x \in 1 .. Len(b) : b[x] = old[x]
  PROVE  Carries(b, k)
<1> SUFFICES ASSUME NEW i \in Nat, NEW j \in 1 .. PacketLength, Bytes(i) + j <= Len(b)
             PROVE  b[Bytes(i) + j] = [query |-> k + 1 + i, at |-> j]
  BY DEF Carries
<1>1. Len(b) \in Nat /\ Len(old) \in Nat
  BY LenProperties
<1>2. Bytes(i) \in Nat /\ Bytes(i) + j \in 1 .. Len(b)
  BY <1>1, PlaceOfByte
<1>3. Bytes(i) + j <= Len(old)
  BY <1>1, <1>2
<1>4. old[Bytes(i) + j] = [query |-> k + 1 + i, at |-> j]
  BY <1>3 DEF Carries
<1> QED
  BY <1>2, <1>4

\* Bytes counted from the packet after the first m.
LEMMA SkippedBytes ==
  ASSUME NEW m \in Nat, NEW i \in Nat, NEW j \in 1 .. PacketLength, NEW r \in Nat
  PROVE  Bytes(m) + r + ((Bytes(i) + j) - r) = Bytes(m + i) + j
<1>1. Bytes(m) \in Nat /\ Bytes(i) \in Nat /\ j \in Nat
  BY BytesOfPackets
<1>2. Bytes(m + i) = Bytes(m) + Bytes(i)
  BY BytesAddUp
<1> QED
  BY <1>1, <1>2

\* What is left after m packets, in two pieces, is packets.
LEMMA CarriesLast ==
  ASSUME NEW k \in Nat, NEW old \in Seq(Byte), Carries(old, k), NEW m \in Nat,
         NEW rest \in Seq(Byte), NEW late \in Seq(Byte), Carries(rest, k + m),
         Bytes(m) + Len(rest) + Len(late) = Len(old),
         \A x \in 1 .. Len(late) : late[x] = old[Bytes(m) + Len(rest) + x]
  PROVE  Carries(rest \o late, k + m)
<1>1. Len(rest) \in Nat /\ Len(late) \in Nat /\ Len(old) \in Nat
  BY LenProperties
<1>2. PICK both \in Seq(Byte) :
        /\ both = rest \o late
        /\ Len(both) = Len(rest) + Len(late)
        /\ \A x \in 1 .. Len(rest) + Len(late) :
             both[x] = IF x <= Len(rest) THEN rest[x] ELSE late[x - Len(rest)]
  <2>1. /\ rest \o late \in Seq(Byte)
        /\ Len(rest \o late) = Len(rest) + Len(late)
        /\ \A x \in 1 .. Len(rest) + Len(late) :
             (rest \o late)[x] = IF x <= Len(rest) THEN rest[x] ELSE late[x - Len(rest)]
    BY ConcatProperties
  <2> QED
    BY <2>1
<1>3. Bytes(m) \in Nat
  BY BytesOfPackets
<1> SUFFICES ASSUME NEW i \in Nat, NEW j \in 1 .. PacketLength, Bytes(i) + j <= Len(rest) + Len(late)
             PROVE  both[Bytes(i) + j] = [query |-> (k + m) + 1 + i, at |-> j]
  <2>1. both = rest \o late /\ Len(both) = Len(rest) + Len(late)
    BY <1>2
  <2> QED
    BY <2>1, ZenonT(30) DEF Carries
<1>4. Bytes(i) \in Nat /\ Bytes(i) + j \in 1 .. Len(rest) + Len(late)
  <2>1. Len(rest) + Len(late) \in Nat
    BY <1>1
  <2> QED
    BY <2>1, PlaceOfByte
<1>5. CASE Bytes(i) + j <= Len(rest)
  <2>1. both[Bytes(i) + j] = rest[Bytes(i) + j]
    BY <1>2, <1>4, <1>5
  <2> QED
    BY <1>5, <2>1 DEF Carries
<1>6. CASE ~(Bytes(i) + j <= Len(rest))
  <2>1. both[Bytes(i) + j] = late[(Bytes(i) + j) - Len(rest)]
    BY <1>2, <1>4, <1>6
  <2>2. (Bytes(i) + j) - Len(rest) \in 1 .. Len(late)
    BY <1>1, <1>4, <1>6
  <2>3. late[(Bytes(i) + j) - Len(rest)] = old[Bytes(m) + Len(rest) + ((Bytes(i) + j) - Len(rest))]
    BY <2>2
  <2>4. Bytes(m + i) = Bytes(m) + Bytes(i) /\ m + i \in Nat
    BY BytesAddUp
  <2>5. Bytes(m) + Len(rest) + ((Bytes(i) + j) - Len(rest)) = Bytes(m + i) + j
    BY <1>1, SkippedBytes
  <2>6. Bytes(m + i) + j <= Len(old)
    <3>1. Bytes(m) + (Bytes(i) + j) <= Bytes(m) + (Len(rest) + Len(late))
      BY <1>1, <1>3, <1>4
    <3>2. Bytes(m) + (Len(rest) + Len(late)) = Len(old)
      BY <1>1, <1>3
    <3>3. Bytes(m) + (Bytes(i) + j) = Bytes(m + i) + j
      BY <1>3, <1>4, <2>4, SMTT(15)
    <3> QED
      BY <3>1, <3>2, <3>3
  <2>7. old[Bytes(m + i) + j] = [query |-> k + 1 + (m + i), at |-> j]
    BY <2>4, <2>6 DEF Carries
  <2>8. k + 1 + (m + i) = (k + m) + 1 + i
    OBVIOUS
  <2> QED
    BY <2>1, <2>3, <2>5, <2>7, <2>8
<1> QED
  BY <1>5, <1>6

\* Bytes after bytes.
LEMMA Joined ==
  ASSUME NEW u \in Seq(Byte), NEW w \in Seq(Byte), NEW p \in Seq(Byte)
  PROVE  /\ u \o w \in Seq(Byte) /\ Len(u \o w) = Len(u) + Len(w)
         /\ u \o (w \o p) = (u \o w) \o p
<1>1. u \o w \in Seq(Byte) /\ Len(u \o w) = Len(u) + Len(w)
  BY ConcatProperties
<1>2. u \o (w \o p) = (u \o w) \o p
  BY ConcatAssociative, SMTT(20)
<1> QED
  BY <1>1, <1>2

\* The kinds of things in a connection, and their numbers.
LEMMA StreamTyped ==
  ASSUME StreamInv
  PROVE  /\ asked \in Seq(Query) /\ answers \in Seq(Result)
         /\ buffer \in Seq(Byte) /\ wire \in Seq(Byte)
         /\ Len(asked) \in Nat /\ Len(answers) \in Nat /\ Len(buffer) \in Nat /\ Len(wire) \in Nat
         /\ PacketLength \in Nat /\ MaxQueries \in Nat
BY LenProperties, MasterAssumption DEF StreamInv

\* A query that is asked adds its packet.
LEMMA AsksKeepsStream ==
  ASSUME StreamInv, NEW q \in Query, ClientAsks(q)
  PROVE  StreamInv'
<1>1. /\ Len(asked) \in Nat /\ Len(answers) \in Nat /\ Len(buffer) \in Nat /\ Len(wire) \in Nat
      /\ PacketLength \in Nat /\ MaxQueries \in Nat
  BY StreamTyped
<1>2. Len(asked) < MaxQueries /\ Len(answers) <= Len(asked)
  BY DEF StreamInv, ClientAsks
<1>3. PICK packet \in Seq(Byte) : packet = Packet(Len(asked) + 1) /\ Len(packet) = PacketLength
  <2>1. Len(asked) + 1 \in 1 .. MaxQueries
    BY <1>1, <1>2
  <2> QED
    BY <2>1, PacketsAreBytes
<1>4. /\ asked' = Append(asked, q) /\ wire' = wire \o packet
      /\ buffer' = buffer /\ answers' = answers
  BY <1>3 DEF ClientAsks
<1>5. asked' \in Seq(Query) /\ Len(asked') = Len(asked) + 1
  BY <1>4, StreamTyped, AppendProperties
<1>6. wire' \in Seq(Byte) /\ Len(wire') = Len(wire) + PacketLength
  BY <1>3, <1>4, StreamTyped, ConcatProperties
<1>7. PICK d \in Nat : Len(asked) = Len(answers) + d
  BY <1>1, <1>2, Differences
<1>8. Bytes(d) = Len(buffer) + Len(wire)
  <2>1. Len(asked) - Len(answers) = d
    BY <1>1, <1>7
  <2> QED
    BY <2>1 DEF StreamInv
<1>9. Bytes(Len(asked') - Len(answers')) = Len(buffer') + Len(wire')
  <2>1. Len(asked') - Len(answers') = d + 1
    BY <1>1, <1>4, <1>5, <1>7
  <2>2. Len(buffer') + Len(wire') = Bytes(d) + PacketLength
    BY <1>1, <1>4, <1>6, <1>8
  <2> QED
    BY <2>1, <2>2, OnePacketMore
<1>10. PICK old \in Seq(Byte) :
         old = buffer \o wire /\ Len(old) = Bytes(d) /\ buffer' \o wire' = old \o packet
  <2>1. /\ buffer \o wire \in Seq(Byte) /\ Len(buffer \o wire) = Len(buffer) + Len(wire)
        /\ buffer \o (wire \o packet) = (buffer \o wire) \o packet
    <3>1. buffer \in Seq(Byte) /\ wire \in Seq(Byte)
      BY StreamTyped
    <3> QED
      BY <3>1, Joined
  <2> QED
    BY <1>4, <1>8, <2>1
<1>11. Carries(old, Len(answers))
  BY <1>10 DEF StreamInv
<1>12. Carries(old \o packet, Len(answers))
  <2>1. packet = Packet(Len(answers) + d + 1)
    BY <1>3, <1>7
  <2> QED
    BY <1>1, <1>3, <1>10, <1>11, <2>1, CarriesOneMore
<1>13. Len(asked') <= MaxQueries /\ Len(answers') <= Len(asked')
  BY <1>1, <1>2, <1>4, <1>5
<1>14. Carries(buffer' \o wire', Len(answers'))
  BY <1>4, <1>10, <1>12
<1> QED
  BY <1>4, <1>5, <1>6, <1>9, <1>13, <1>14 DEF StreamInv

\* What is answered to a query.
LEMMA AnswersAreResults ==
  ASSUME NEW q PROVE HandleQuery(q) \in (SUBSET Host) \union {Rooms, Nothing}
BY DEF HandleQuery, GameList, Listed

\* What a piece of the bytes adds to the answers: those to the next m queries,
\* as the registry is now.
Answered(m) ==
  /\ Len(answers') = Len(answers) + m
  /\ \A i \in 1 .. Len(answers) : answers'[i] = answers[i]
  /\ \A i \in 1 .. m :
       answers'[Len(answers) + i] =
         [to |-> Len(answers) + i, got |-> HandleQuery(asked[Len(answers) + i])]

\* The answers to the packets of queries.
LEMMA AnswersToPackets ==
  ASSUME NEW k \in Nat, NEW m \in Nat, NEW packets \in Seq(Seq(Byte)), Len(packets) = m,
         \A i \in 1 .. m : packets[i] = Packet(k + i)
  PROVE  \E new \in Seq(Result) :
           /\ new = [i \in DOMAIN packets |-> Answer(packets[i])]
           /\ Len(new) = m
           /\ \A i \in 1 .. m : new[i] = [to |-> k + i, got |-> HandleQuery(asked[k + i])]
<1> DEFINE new == [i \in DOMAIN packets |-> Answer(packets[i])]
<1>1. DOMAIN packets = 1 .. m
  BY LenProperties
<1>2. ASSUME NEW i \in 1 .. m
      PROVE  Answer(packets[i]) = [to |-> k + i, got |-> HandleQuery(asked[k + i])]
  <2>1. packets[i] = Packet(k + i) /\ 1 \in 1 .. PacketLength
    BY BytesOfPackets
  <2>2. Packet(k + i)[1].query = k + i
    BY <2>1 DEF Packet
  <2> QED
    BY <2>1, <2>2 DEF Answer
<1>3. \A i \in 1 .. m : new[i] = [to |-> k + i, got |-> HandleQuery(asked[k + i])]
  BY <1>1, <1>2
<1>4. \A i \in 1 .. m : new[i] \in Result
  <2> TAKE i \in 1 .. m
  <2>1. k + i \in Nat /\ HandleQuery(asked[k + i]) \in (SUBSET Host) \union {Rooms, Nothing}
    BY AnswersAreResults
  <2>2. new[i] = [to |-> k + i, got |-> HandleQuery(asked[k + i])]
    BY <1>3
  <2> HIDE DEF new
  <2> QED
    BY <2>1, <2>2 DEF Result
<1>5. new \in [1 .. m -> Result]
  BY <1>1, <1>4
<1>6. new \in Seq(Result) /\ Len(new) = m
  BY <1>5
<1> QED
  BY <1>3, <1>6

\* Answers that are added at the end.
LEMMA AnswersAreAdded ==
  ASSUME NEW m \in Nat, NEW new \in Seq(Result), Len(new) = m, answers \in Seq(Result),
         answers' = answers \o new
  PROVE  /\ answers' \in Seq(Result) /\ Len(answers') = Len(answers) + m
         /\ \A i \in 1 .. Len(answers) : answers'[i] = answers[i]
         /\ \A i \in 1 .. m : answers'[Len(answers) + i] = new[i]
<1>1. PICK old \in Seq(Result) : old = answers
  OBVIOUS
<1>2. Len(old) \in Nat
  BY LenProperties
<1>3. /\ old \o new \in Seq(Result) /\ Len(old \o new) = Len(old) + m
      /\ \A x \in 1 .. Len(old) + m : (old \o new)[x] = IF x <= Len(old) THEN old[x] ELSE new[x - Len(old)]
  BY ConcatProperties
<1>4. ASSUME NEW i \in 1 .. Len(old)
      PROVE  (old \o new)[i] = old[i]
  <2>1. i \in 1 .. Len(old) + m /\ i <= Len(old)
    BY <1>2
  <2> QED
    BY <1>3, <2>1
<1>5. ASSUME NEW i \in 1 .. m
      PROVE  (old \o new)[Len(old) + i] = new[i]
  <2>1. Len(old) + i \in 1 .. Len(old) + m /\ ~(Len(old) + i <= Len(old)) /\ (Len(old) + i) - Len(old) = i
    BY <1>2
  <2> QED
    BY <1>3, <2>1
<1> QED
  BY <1>1, <1>3, <1>4, <1>5

\* Of the bytes u and w, old has all, b those that have come and late the others.
Cut(u, w, n, old, b, late) ==
  /\ old \in Seq(Byte) /\ b \in Seq(Byte) /\ late \in Seq(Byte)
  /\ Len(old) = Len(u) + Len(w) /\ Len(b) = Len(u) + n /\ Len(late) = Len(w) - n
  /\ \A x \in 1 .. Len(b) : b[x] = old[x]
  /\ \A x \in 1 .. Len(late) : late[x] = old[Len(u) + n + x]

\* Cutting off the first n bytes that are on the way.
LEMMA Pieces ==
  ASSUME NEW u \in Seq(Byte), NEW w \in Seq(Byte), NEW n \in 1 .. Len(w)
  PROVE  Cut(u, w, n, u \o w, u \o SubSeq(w, 1, n), SubSeq(w, n + 1, Len(w)))
<1>1. Len(u) \in Nat /\ Len(w) \in Nat /\ n \in Nat /\ 1 <= n /\ n <= Len(w)
  BY LenProperties
<1>2. \A x \in 1 .. Len(w) : w[x] \in Byte
  BY <1>1, ElementOfSeq
<1>3. PICK piece \in Seq(Byte) :
        piece = SubSeq(w, 1, n) /\ Len(piece) = n /\ \A x \in 1 .. n : piece[x] = w[x]
  <2>1. \A x \in 1 .. n : w[x] \in Byte
    BY <1>1, <1>2
  <2>2. /\ SubSeq(w, 1, n) \in Seq(Byte)
        /\ Len(SubSeq(w, 1, n)) = n
        /\ \A x \in 1 .. n : SubSeq(w, 1, n)[x] = w[x]
    BY <1>1, <2>1, SubSeqProperties
  <2> QED
    BY <2>2
<1>4. PICK late \in Seq(Byte) :
        /\ late = SubSeq(w, n + 1, Len(w)) /\ Len(late) = Len(w) - n
        /\ \A x \in 1 .. Len(w) - n : late[x] = w[n + x]
  <2>1. \A x \in n + 1 .. Len(w) : w[x] \in Byte
    BY <1>1, <1>2
  <2>2. /\ SubSeq(w, n + 1, Len(w)) \in Seq(Byte)
        /\ Len(SubSeq(w, n + 1, Len(w))) = Len(w) - n
        /\ \A x \in 1 .. Len(w) - n : SubSeq(w, n + 1, Len(w))[x] = w[n + x]
    BY <1>1, <2>1, SubSeqProperties
  <2> QED
    BY <2>2
<1>5. /\ u \o w \in Seq(Byte) /\ Len(u \o w) = Len(u) + Len(w)
      /\ \A x \in 1 .. Len(u) + Len(w) : (u \o w)[x] = IF x <= Len(u) THEN u[x] ELSE w[x - Len(u)]
  BY ConcatProperties
<1>6. /\ u \o piece \in Seq(Byte) /\ Len(u \o piece) = Len(u) + n
      /\ \A x \in 1 .. Len(u) + n : (u \o piece)[x] = IF x <= Len(u) THEN u[x] ELSE piece[x - Len(u)]
  BY <1>3, ConcatProperties
<1>7. ASSUME NEW x \in 1 .. Len(u) + n
      PROVE  (u \o piece)[x] = (u \o w)[x]
  <2>1. x \in 1 .. Len(u) + Len(w)
    BY <1>1
  <2>2. CASE x <= Len(u)
    BY <1>5, <1>6, <2>1, <2>2
  <2>3. CASE ~(x <= Len(u))
    <3>1. x - Len(u) \in 1 .. n
      BY <1>1, <2>3
    <3>2. piece[x - Len(u)] = w[x - Len(u)]
      BY <1>3, <3>1
    <3> QED
      BY <1>5, <1>6, <2>1, <2>3, <3>2
  <2> QED
    BY <2>2, <2>3
<1>8. ASSUME NEW x \in 1 .. Len(w) - n
      PROVE  late[x] = (u \o w)[Len(u) + n + x]
  <2>1. /\ Len(u) + n + x \in 1 .. Len(u) + Len(w) /\ ~(Len(u) + n + x <= Len(u))
        /\ (Len(u) + n + x) - Len(u) = n + x
    BY <1>1
  <2>2. (u \o w)[Len(u) + n + x] = w[n + x]
    BY <1>5, <2>1
  <2> QED
    BY <1>4, <2>2
<1>9. \A x \in 1 .. Len(u \o piece) : (u \o piece)[x] = (u \o w)[x]
  BY <1>6, <1>7
<1>10. \A x \in 1 .. Len(late) : late[x] = (u \o w)[Len(u) + n + x]
  BY <1>4, <1>8
<1>11. Cut(u, w, n, u \o w, u \o piece, late)
  BY <1>4, <1>5, <1>6, <1>9, <1>10 DEF Cut
<1> QED
  BY <1>3, <1>4, <1>11

\* The bytes that were left over and those that are still on the way make up
\* the packets that are.
LEMMA BytesLeft ==
  ASSUME NEW m \in Nat, NEW e \in Nat, NEW r \in Nat, NEW l \in Nat, Bytes(m + e) = Bytes(m) + r + l
  PROVE  Bytes(e) = r + l
<1>1. Bytes(m + e) = Bytes(m) + Bytes(e)
  BY BytesAddUp
<1>2. Bytes(m) \in Nat /\ Bytes(e) \in Nat
  BY BytesOfPackets
<1> QED
  BY <1>1, <1>2

\* So many packets are all there.
LEMMA PacketsLeft ==
  ASSUME NEW m \in Nat, NEW d \in Nat, NEW r \in Nat, Bytes(m) + r = Bytes(d)
  PROVE  \E e \in Nat : d = m + e
<1>1. Bytes(m) \in Nat /\ Bytes(d) \in Nat /\ PacketLength \in Nat /\ PacketLength >= 2
  BY BytesOfPackets
<1>2. ASSUME d < m
      PROVE  FALSE
  <2>1. Bytes(d) + PacketLength <= Bytes(m)
    BY <1>2, MorePacketsMoreBytes
  <2> QED
    BY <1>1, <2>1
<1>3. m <= d
  BY <1>2
<1> QED
  BY <1>3, Differences

\* What a piece of n bytes becomes: all whole packets are taken from it, and what is
\* left of it and the bytes still on the way are the packets that follow.
TakenAs(u, w, n, k, d, m, e, packets, rest, late) ==
  /\ m \in Nat /\ e \in Nat /\ packets \in Seq(Seq(Byte)) /\ rest \in Seq(Byte) /\ late \in Seq(Byte)
  /\ Split[u \o SubSeq(w, 1, n)] = [packets |-> packets, rest |-> rest]
  /\ late = SubSeq(w, n + 1, Len(w))
  /\ d = m + e
  /\ Len(packets) = m /\ \A i \in 1 .. m : packets[i] = Packet(k + i)
  /\ Len(rest) < PacketLength
  /\ Bytes(e) = Len(rest) + Len(late)
  /\ Carries(rest \o late, k + m)
Takes(u, w, n, k, d) ==
  \E m, e, packets, rest, late : TakenAs(u, w, n, k, d, m, e, packets, rest, late)

\* This is so of every piece, wherever it ends.
LEMMA PieceIsTaken ==
  ASSUME NEW u \in Seq(Byte), NEW w \in Seq(Byte), NEW n \in 1 .. Len(w), NEW k \in Nat, NEW d \in Nat,
         Carries(u \o w, k), Bytes(d) = Len(u) + Len(w)
  PROVE  Takes(u, w, n, k, d)
<1>1. PICK old, b, late :
        /\ old = u \o w /\ b = u \o SubSeq(w, 1, n) /\ late = SubSeq(w, n + 1, Len(w))
        /\ Cut(u, w, n, old, b, late) /\ Carries(old, k)
  BY Pieces
<1>2. old \in Seq(Byte) /\ b \in Seq(Byte) /\ late \in Seq(Byte)
  BY <1>1 DEF Cut
<1>3. Len(old) = Len(u) + Len(w) /\ Len(b) = Len(u) + n /\ Len(late) = Len(w) - n
  BY <1>1 DEF Cut
<1>4. /\ Len(u) \in Nat /\ Len(w) \in Nat /\ n \in Nat /\ n <= Len(w)
      /\ Len(old) \in Nat /\ Len(b) \in Nat /\ Len(late) \in Nat
  BY <1>2, LenProperties
<1>5. Carries(b, k)
  <2>1. Len(b) <= Len(old)
    BY <1>3, <1>4
  <2>2. \A x \in 1 .. Len(b) : b[x] = old[x]
    BY <1>1 DEF Cut
  <2> QED
    BY <1>1, <1>2, <2>1, <2>2, CarriesFirst
<1>6. PICK m, packets, rest : TakesAll(b, k, m, packets, rest)
  BY <1>2, <1>5, AllPacketsAreTaken DEF TakesPackets
<1>7. /\ m \in Nat /\ packets \in Seq(Seq(Byte)) /\ rest \in Seq(Byte)
      /\ Bytes(m) + Len(rest) = Len(b) /\ Len(rest) < PacketLength /\ Carries(rest, k + m)
  BY <1>6 DEF TakesAll
<1>8. Bytes(m) \in Nat /\ Len(rest) \in Nat
  BY <1>7, BytesOfPackets, LenProperties
<1>9. Bytes(d) = Bytes(m) + Len(rest) + Len(late)
  <2>1. Len(u) + Len(w) = Len(b) + Len(late)
    BY <1>3, <1>4
  <2> QED
    BY <1>7, <2>1
<1>10. PICK e \in Nat : d = m + e
  <2>1. PICK r \in Nat : r = Len(rest) + Len(late)
    BY <1>4, <1>8
  <2>2. Bytes(m) + r = Bytes(d)
    BY <1>4, <1>8, <1>9, <2>1
  <2> QED
    BY <1>7, <2>2, PacketsLeft
<1>11. Bytes(e) = Len(rest) + Len(late)
  <2>1. Bytes(m + e) = Bytes(m) + Len(rest) + Len(late)
    BY <1>9, <1>10
  <2>2. m \in Nat /\ e \in Nat /\ Len(rest) \in Nat /\ Len(late) \in Nat
    BY <1>4, <1>7, <1>8, <1>10
  <2> QED
    BY <2>1, <2>2, BytesLeft
<1>12. Carries(rest \o late, k + m)
  <2>1. Bytes(m) + Len(rest) = Len(u) + n
    BY <1>3, <1>7
  <2>2. Bytes(m) + Len(rest) + Len(late) = Len(old)
    BY <1>3, <1>9
  <2>3. \A x \in 1 .. Len(late) : late[x] = old[Bytes(m) + Len(rest) + x]
    BY <1>1, <2>1 DEF Cut
  <2> QED
    BY <1>1, <1>2, <1>7, <2>2, <2>3, CarriesLast
<1>13. /\ Split[u \o SubSeq(w, 1, n)] = [packets |-> packets, rest |-> rest]
      /\ Len(packets) = m /\ \A i \in 1 .. m : packets[i] = Packet(k + i)
  BY <1>1, <1>6 DEF TakesAll
<1>14. TakenAs(u, w, n, k, d, m, e, packets, rest, late)
  BY <1>1, <1>2, <1>7, <1>10, <1>11, <1>12, <1>13 DEF TakenAs
<1> QED
  BY <1>14 DEF Takes

\* Counting the queries asked, answered and left.
LEMMA NumbersLeft ==
  ASSUME NEW k \in Nat, NEW m \in Nat, NEW e \in Nat
  PROVE  (k + (m + e)) - (k + m) = e /\ k + m <= k + (m + e)
OBVIOUS

\* A place after the first k of k + m.
LEMMA PlaceAmongNew ==
  ASSUME NEW k \in Nat, NEW m \in Nat, NEW i \in 1 .. k + m, i \notin 1 .. k
  PROVE  \E j \in 1 .. m : i = k + j
<1>1. i - k \in 1 .. m /\ i = k + (i - k)
  OBVIOUS
<1> QED
  BY <1>1

\* Bytes that arrive, however many, keep the invariant.
LEMMA ReceivedKeepsStream ==
  ASSUME StreamInv, NEW n \in 1 .. Len(wire), DataReceived(n)
  PROVE  StreamInv' /\ \E m \in Nat : Answered(m)
<1>1. Len(asked) \in Nat /\ Len(answers) \in Nat /\ Len(answers) <= Len(asked) /\ PacketLength \in Nat
  BY StreamTyped DEF StreamInv
<1>2. PICK k \in Nat, d \in Nat : k = Len(answers) /\ Len(asked) = k + d
  BY <1>1, Differences
<1>3. Bytes(d) = Len(buffer) + Len(wire) /\ Carries(buffer \o wire, k)
  <2>1. Len(asked) - Len(answers) = d
    BY <1>1, <1>2
  <2> QED
    BY <1>2, <2>1 DEF StreamInv
<1>4. PICK m, e, packets, rest, late : TakenAs(buffer, wire, n, k, d, m, e, packets, rest, late)
  <2>1. Takes(buffer, wire, n, k, d)
    BY <1>3, StreamTyped, PieceIsTaken
  <2> QED
    BY <2>1 DEF Takes
<1>5. /\ m \in Nat /\ packets \in Seq(Seq(Byte)) /\ rest \in Seq(Byte) /\ late \in Seq(Byte)
      /\ Len(packets) = m /\ \A i \in 1 .. m : packets[i] = Packet(k + i)
  BY <1>4 DEF TakenAs
<1>6. /\ m \in Nat /\ e \in Nat /\ d = m + e /\ Len(rest) < PacketLength
      /\ Bytes(e) = Len(rest) + Len(late) /\ Carries(rest \o late, k + m)
  BY <1>4 DEF TakenAs
<1>7. PICK new \in Seq(Result) :
        /\ new = [i \in DOMAIN packets |-> Answer(packets[i])]
        /\ Len(new) = m
        /\ \A i \in 1 .. m : new[i] = [to |-> k + i, got |-> HandleQuery(asked[k + i])]
  BY <1>5, AnswersToPackets
<1>8. buffer' = rest /\ answers' = answers \o new /\ wire' = late /\ asked' = asked
  <2>1. /\ Split[buffer \o SubSeq(wire, 1, n)].packets = packets
        /\ Split[buffer \o SubSeq(wire, 1, n)].rest = rest
    BY <1>4 DEF TakenAs
  <2>2. late = SubSeq(wire, n + 1, Len(wire))
    BY <1>4 DEF TakenAs
  <2>3. new = [i \in DOMAIN packets |-> Answer(packets[i])]
    BY <1>7
  <2> QED
    BY <2>1, <2>2, <2>3 DEF DataReceived
<1>9. /\ answers' \in Seq(Result) /\ Len(answers') = k + m
      /\ \A i \in 1 .. k : answers'[i] = answers[i]
      /\ \A i \in 1 .. m : answers'[k + i] = [to |-> k + i, got |-> HandleQuery(asked[k + i])]
  <2>1. /\ answers' \in Seq(Result) /\ Len(answers') = Len(answers) + m
        /\ \A i \in 1 .. Len(answers) : answers'[i] = answers[i]
        /\ \A i \in 1 .. m : answers'[Len(answers) + i] = new[i]
    <3>1. answers \in Seq(Result)
      BY StreamTyped
    <3>2. m \in Nat /\ Len(new) = m /\ answers' = answers \o new
      BY <1>5, <1>7, <1>8
    <3> QED
      BY <3>1, <3>2, AnswersAreAdded, Zenon
  <2> QED
    BY <1>2, <1>7, <2>1
<1>10. Answered(m)
  BY <1>2, <1>9 DEF Answered
<1>11. ASSUME NEW i \in 1 .. Len(answers')
      PROVE  answers'[i].to = i
  <2>1. i \in 1 .. k + m
    BY <1>9
  <2>2. CASE i \in 1 .. k
    BY <1>2, <1>9, <2>2 DEF StreamInv
  <2>3. CASE i \notin 1 .. k
    <3>1. PICK j \in 1 .. m : i = k + j
      BY <1>5, <2>1, <2>3, PlaceAmongNew
    <3>2. answers'[k + j] = [to |-> k + j, got |-> HandleQuery(asked[k + j])]
      BY <1>9
    <3> QED
      BY <3>1, <3>2
  <2> QED
    BY <2>2, <2>3
<1>12. Bytes(Len(asked') - Len(answers')) = Len(buffer') + Len(wire')
  <2>1. Len(asked') - Len(answers') = e
    <3>1. Len(asked') = k + (m + e) /\ Len(answers') = k + m
      BY <1>2, <1>6, <1>8, <1>9
    <3> QED
      BY <1>6, <3>1, NumbersLeft
  <2> QED
    BY <1>6, <1>8, <2>1
<1>13. Carries(buffer' \o wire', Len(answers'))
  BY <1>6, <1>8, <1>9
<1>14. Len(answers') <= Len(asked') /\ Len(buffer') < PacketLength
  <2>1. Len(asked') = k + (m + e) /\ Len(answers') = k + m
    BY <1>2, <1>6, <1>8, <1>9
  <2>2. Len(answers') <= Len(asked')
    BY <1>6, <2>1, NumbersLeft
  <2> QED
    BY <1>6, <1>8, <2>2
<1>15. asked' \in Seq(Query) /\ buffer' \in Seq(Byte) /\ wire' \in Seq(Byte) /\ Len(asked') <= MaxQueries
  <2>1. asked \in Seq(Query) /\ Len(asked) <= MaxQueries
    BY DEF StreamInv
  <2> QED
    BY <1>5, <1>8, <2>1
<1> QED
  BY <1>5, <1>9, <1>10, <1>11, <1>12, <1>13, <1>14, <1>15 DEF StreamInv

\* No step of a host, a client or the server breaks the invariant.
LEMMA NextKeepsStream == StreamInv /\ [Next]_vars => StreamInv'
<1> SUFFICES ASSUME StreamInv, [Next]_vars
             PROVE  StreamInv'
  OBVIOUS
<1>1. ASSUME UNCHANGED tcpVars
      PROVE  StreamInv'
  BY <1>1 DEF tcpVars, StreamInv
<1>2. ASSUME NewConnection
      PROVE  StreamInv'
  <2>1. asked' = <<>> /\ wire' = <<>> /\ buffer' = <<>> /\ answers' = <<>>
    BY <1>2 DEF NewConnection
  <2>2. \A i \in 1 .. Len(<<>>) : answers'[i].to = i
    BY NothingInIt
  <2> QED
    BY <2>1, <2>2, NothingInIt DEF StreamInv
<1>3. ASSUME NEW h \in Host, Heartbeat(h) \/ CloseGame(h) \/ HandleKeepalive(h)
      PROVE  UNCHANGED tcpVars
  BY <1>3 DEF Heartbeat, CloseGame, Announce, HandleKeepalive
<1>4. ASSUME NEW m \in net, HandleHeartbeat(m) \/ HandleExit(m)
      PROVE  UNCHANGED tcpVars
  BY <1>4 DEF HandleHeartbeat, HandleExit
<1>5. CASE UNCHANGED vars
  BY <1>1, <1>5 DEF vars
<1>6. CASE ConnectionLost \/ Restart
  BY <1>2, <1>6 DEF ConnectionLost, Restart
<1> QED
  BY <1>1, <1>3, <1>4, <1>5, <1>6, AsksKeepsStream, ReceivedKeepsStream DEF Next

\* In every reachable state.
LEMMA StreamsAreSound == Spec => []StreamInv
<1>1. ASSUME Init
      PROVE  StreamInv
  <2>1. asked = <<>> /\ wire = <<>> /\ buffer = <<>> /\ answers = <<>>
    BY <1>1 DEF Init
  <2>2. \A i \in 1 .. Len(<<>>) : answers[i].to = i
    BY NothingInIt
  <2> QED
    BY <2>1, <2>2, NothingInIt DEF StreamInv
<1> QED
  BY <1>1, NextKeepsStream, PTL DEF Spec

\* However long the packets are and however their bytes are cut into pieces, the
\* queries of a connection are answered in their order, and whole ones do not
\* stay in the buffer.
THEOREM QueriesAnsweredInOrder == Spec => []AnswersInOrder
<1>1. ASSUME StreamInv
      PROVE  AnswersInOrder
  <2>1. DOMAIN answers = 1 .. Len(answers)
    BY <1>1, StreamTyped, LenProperties
  <2>2. (Len(asked) - Len(answers)) * PacketLength = Len(buffer) + Len(wire)
    BY <1>1 DEF StreamInv, Bytes
  <2> QED
    BY <1>1, <2>1, <2>2 DEF StreamInv, AnswersInOrder
<1> QED
  BY <1>1, StreamsAreSound, PTL

-----------------------------------------------------------------------------
(* What the answers say. *)

\* A number stands for one announcement of its host, and the host knows the last.
NumbersInv ==
  /\ \A m \in net : m.number <= hosting[m.host].number
  /\ \A m, k \in net : m.host = k.host /\ m.number = k.number => m = k

\* A new announcement has a number of its own.
LEMMA AnnounceKeepsNumbers ==
  ASSUME TablesInv, NumbersInv, NEW h \in Host, NEW exiting, NEW mode, NEW group, NEW blank,
         Announce(h, exiting, mode, group, blank)
  PROVE  NumbersInv'
<1> DEFINE n == hosting[h].number + 1
           new == [host |-> h, number |-> n, exiting |-> exiting,
                   gamemode |-> mode, groupid |-> group, blank |-> blank]
<1>1. net' = net \union {new} /\ hosting' = [hosting EXCEPT ![h] = [on |-> ~exiting, number |-> n]]
  BY DEF Announce
<1>2. /\ hosting \in [Host -> [on : BOOLEAN, number : 0 .. MaxNumber]]
      /\ \A m \in net : m.host \in Host /\ m.number \in Nat
  BY DEF TablesInv, TablesTyped, Datagram, Number
<1>3. /\ \A k \in Host : hosting[k].number \in Nat
      /\ \A k \in Host : hosting'[k].number = IF k = h THEN n ELSE hosting[k].number
  BY <1>1, <1>2
<1>4. new.host = h /\ new.number = n
  OBVIOUS
<1> HIDE DEF new
<1>5. \A m \in net : m.host = h => m.number < n
  BY <1>2, <1>3 DEF NumbersInv
<1>6. \A m \in net' : m.number <= hosting'[m.host].number
  <2>1. n \in Nat
    BY <1>3
  <2> HIDE DEF n
  <2>2. n <= n
    BY <2>1
  <2>3. ASSUME NEW m \in net
        PROVE  m.number <= hosting'[m.host].number
    <3>1. m.number <= hosting[m.host].number /\ m.host \in Host /\ m.number \in Nat
      BY <1>2 DEF NumbersInv
    <3>2. CASE m.host = h
      BY <1>3, <1>5, <2>1, <3>1, <3>2
    <3>3. CASE m.host # h
      BY <1>3, <3>1, <3>3
    <3> QED
      BY <3>2, <3>3
  <2>4. new.number <= hosting'[new.host].number
    BY <1>3, <1>4, <2>2
  <2> QED
    BY <1>1, <2>3, <2>4
<1>7. ASSUME NEW m \in net', NEW k \in net', m.host = k.host, m.number = k.number
      PROVE  m = k
  <2>1. \A j \in net : ~(j.host = h /\ j.number = n)
    BY <1>2, <1>3, <1>5
  <2> QED
    BY <1>1, <1>4, <1>7, <2>1 DEF NumbersInv
<1> QED
  BY <1>6, <1>7 DEF NumbersInv

\* Nothing else is announced.
LEMMA NextKeepsNumbers == TablesInv /\ NumbersInv /\ [Next]_vars => NumbersInv'
<1> SUFFICES ASSUME TablesInv, NumbersInv, [Next]_vars
             PROVE  NumbersInv'
  OBVIOUS
<1>1. ASSUME NEW h \in Host, Heartbeat(h)
      PROVE  NumbersInv'
  <2>1. PICK mode \in Mode, group \in Group, blank \in BOOLEAN : Announce(h, FALSE, mode, group, blank)
    BY <1>1 DEF Heartbeat
  <2> QED
    BY <2>1, AnnounceKeepsNumbers
<1>2. ASSUME NEW h \in Host, CloseGame(h)
      PROVE  NumbersInv'
  BY <1>2, AnnounceKeepsNumbers DEF CloseGame
<1>3. ASSUME UNCHANGED hostVars
      PROVE  NumbersInv'
  BY <1>3 DEF NumbersInv, hostVars
<1>4. ASSUME NEW h \in Host, HandleKeepalive(h)
      PROVE  UNCHANGED hostVars
  BY <1>4 DEF HandleKeepalive
<1>5. ASSUME NEW m \in net, HandleHeartbeat(m) \/ HandleExit(m)
      PROVE  UNCHANGED hostVars
  BY <1>5 DEF HandleHeartbeat, HandleExit
<1>6. ASSUME \/ \E q \in Query : ClientAsks(q)
             \/ \E n \in 1 .. Len(wire) : DataReceived(n)
             \/ ConnectionLost \/ Restart \/ UNCHANGED vars
      PROVE  UNCHANGED hostVars
  BY <1>6 DEF ClientAsks, DataReceived, ConnectionLost, Restart, vars
<1> QED
  BY <1>1, <1>2, <1>3, <1>4, <1>5, <1>6 DEF Next

\* The conditions of the game's query, one by one.
LEMMA ConditionsOfGame ==
  ASSUME NEW m, NEW g
  PROVE  GameMatchesFilters(m, GameQuery(g)) <=> m.groupid = g /\ m.gamemode # "closedplaying"
<1> DEFINE first == [field |-> "groupid", operator |-> "=", value |-> g, logic |-> "none"]
           second == [field |-> "gamemode", operator |-> "!=", value |-> "closedplaying",
                      logic |-> "AND"]
<1>1. DOMAIN GameQuery(g) = {1, 2} /\ GameQuery(g)[1] = first /\ GameQuery(g)[2] = second
  BY DEF GameQuery
<1>2. /\ "groupid" \in DOMAIN Fields(m) /\ Fields(m)["groupid"] = m.groupid
      /\ "gamemode" \in DOMAIN Fields(m) /\ Fields(m)["gamemode"] = m.gamemode
  BY DEF Fields
<1>3. /\ Parsed(first).field = "groupid" /\ Parsed(first).value = g
      /\ Parsed(first).operator = "="
  BY DEF Parsed
<1>4. /\ Parsed(second).field = "gamemode" /\ Parsed(second).value = "closedplaying"
      /\ Parsed(second).operator = "!="
  BY DEF Parsed
<1>5. Holds(Parsed(first), m.groupid) <=> m.groupid = g
  BY <1>3 DEF Holds
<1>6. Holds(Parsed(second), m.gamemode) <=> m.gamemode # "closedplaying"
  BY <1>4 DEF Holds
<1> HIDE DEF first, second
<1> QED
  BY <1>1, <1>2, <1>3, <1>4, <1>5, <1>6 DEF GameMatchesFilters

\* The entry of a host is the announcement with its number.
LEMMA EntrySays ==
  ASSUME TablesInv, NumbersInv, NEW h \in Listed, NEW g
  PROVE  Says(h, registry[h].number, g)
           <=> registry[h].fields.groupid = g /\ registry[h].fields.gamemode # "closedplaying"
<1>1. h \in Host /\ registry[h] # None
  BY DEF Listed
<1>2. /\ registry[h].fields \in net /\ registry[h].fields.host = h
      /\ registry[h].fields.number = registry[h].number /\ ~registry[h].fields.exiting
  BY <1>1 DEF TablesInv, EntryOK
<1>3. \A m \in net : m.host = h /\ m.number = registry[h].number => m = registry[h].fields
  BY <1>2 DEF NumbersInv
<1> QED
  BY <1>2, <1>3 DEF Says

\* The query of the game finds the games it is meant to find.
LEMMA QueryAnsweredTruly ==
  ASSUME TablesInv, NumbersInv, NEW g, NEW q, q.kind = "games", q.filter = GameQuery(g)
  PROVE  TrueAnswer(HandleQuery(q), g)
<1> DEFINE found == {h \in Listed : GameMatchesFilters(registry[h].fields, GameQuery(g))}
<1>1. DOMAIN CurrentMatches = Listed
  BY DEF CurrentMatches
<1>2. ASSUME NEW h \in Listed
      PROVE  CurrentMatches[h] # "In Progress" <=> registry[h].fields.gamemode # "closedplaying"
  BY DEF CurrentMatches
<1>3. ASSUME NEW h \in Listed
      PROVE  /\ h \in Wanted(g) <=> Says(h, registry[h].number, g)
             /\ h \in Wanted(g) <=> h \in found
  BY <1>2, EntrySays, ConditionsOfGame DEF Wanted
<1>4. Wanted(g) = found
  BY <1>3 DEF Wanted
<1>5. HandleQuery(q) = GameList(found)
  BY DEF HandleQuery
<1> HIDE DEF found
<1>6. HandleQuery(q) = Wanted(g) \/ (HandleQuery(q) = Nothing /\ Wanted(g) \intersect NoAddress # {})
  BY <1>4, <1>5 DEF GameList
<1>7. ASSUME NEW h \in (Listed \intersect Ordered) \ BlankPort
      PROVE  h \in Wanted(g) <=> Says(h, seen[h], g)
  <2>1. registry[h].number = seen[h]
    BY DEF TablesInv, EntryOK, Listed
  <2> QED
    BY <1>3, <2>1
<1> QED
  BY <1>6, <1>7 DEF TrueAnswer

\* What is answered in a step.
LEMMA StepAnswersTrue ==
  ASSUME TablesInv, StreamInv, NumbersInv, [Next]_vars,
         NEW i \in DOMAIN answers' \ DOMAIN answers, NEW g,
         asked[i].kind = "games", asked[i].filter = GameQuery(g)
  PROVE  TrueAnswer(answers'[i].got, g)
<1>1. ASSUME answers' = answers
      PROVE  FALSE
  BY <1>1
<1>2. ASSUME answers' = <<>>
      PROVE  FALSE
  <2>1. DOMAIN answers' = {}
    BY <1>2
  <2> QED
    BY <2>1
<1>3. PICK n \in 1 .. Len(wire) : DataReceived(n)
  <2>1. ASSUME NEW h \in Host, Heartbeat(h) \/ CloseGame(h) \/ HandleKeepalive(h)
        PROVE  answers' = answers
    BY <2>1 DEF Heartbeat, CloseGame, Announce, HandleKeepalive, tcpVars
  <2>2. ASSUME NEW m \in net, HandleHeartbeat(m) \/ HandleExit(m)
        PROVE  answers' = answers
    BY <2>2 DEF HandleHeartbeat, HandleExit, tcpVars
  <2>3. ASSUME (\E q \in Query : ClientAsks(q)) \/ UNCHANGED vars
        PROVE  answers' = answers
    BY <2>3 DEF ClientAsks, vars, tcpVars
  <2>4. ASSUME ConnectionLost \/ Restart
        PROVE  answers' = <<>>
    BY <2>4 DEF ConnectionLost, Restart, NewConnection
  <2> QED
    BY <1>1, <1>2, <2>1, <2>2, <2>3, <2>4 DEF Next
<1>4. PICK m \in Nat : Answered(m)
  BY <1>3, ReceivedKeepsStream
<1>5. StreamInv'
  BY <1>3, ReceivedKeepsStream
<1>6. DOMAIN answers = 1 .. Len(answers) /\ Len(answers) \in Nat
  BY StreamTyped, LenProperties
<1>7. DOMAIN answers' = 1 .. Len(answers) + m
  <2>1. answers' \in Seq(Result)
    BY <1>5 DEF StreamInv
  <2>2. DOMAIN answers' = 1 .. Len(answers')
    BY <2>1, LenProperties
  <2> QED
    BY <1>4, <2>2 DEF Answered
<1>8. i - Len(answers) \in 1 .. m /\ i = Len(answers) + (i - Len(answers))
  BY <1>6, <1>7
<1>9. PICK j \in 1 .. m : i = Len(answers) + j
  BY <1>8
<1>10. answers'[i].got = HandleQuery(asked[i])
  <2>1. answers'[Len(answers) + j] =
          [to |-> Len(answers) + j, got |-> HandleQuery(asked[Len(answers) + j])]
    BY <1>4 DEF Answered
  <2> QED
    BY <1>9, <2>1
<1> QED
  BY <1>10, QueryAnsweredTruly

\* The game's own query for a group is answered with the games of that group which
\* are not being played, by the page of matches as by the last words of their hosts,
\* whatever the pieces its bytes came in, and with nothing only if a game without an
\* address is among them.
THEOREM QueriesAnsweredTruly == Spec => AnswersAreTrue
<1>1. Init => NumbersInv
  BY DEF Init, NumbersInv
<1>2. Spec => []NumbersInv
  BY <1>1, NextKeepsNumbers, TablesAreSound, PTL DEF Spec
<1>3. TablesInv /\ StreamInv /\ NumbersInv /\ [Next]_vars =>
        [\A i \in DOMAIN answers' \ DOMAIN answers, g \in Group :
           asked[i].kind = "games" /\ asked[i].filter = GameQuery(g)
             => TrueAnswer(answers'[i].got, g)]_vars
  BY StepAnswersTrue
<1> QED
  BY <1>2, <1>3, TablesAreSound, StreamsAreSound, PTL DEF Spec, AnswersAreTrue
====
