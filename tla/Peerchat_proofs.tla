---- MODULE Peerchat_proofs ----
(* What holds of the channels and the table of nicknames however many     *)
(* clients there are and however they join, rename, time out and leave.    *)
EXTENDS Peerchat, TLAPS

\* The inductive invariant: its conjuncts need only each other.
ChatInv == TypeOK /\ ChannelData /\ OneOperator /\ LobbiesHaveUsers /\ NickTable

\* A freshly started server satisfies the invariant.
LEMMA InitEstablishesInv == Init => ChatInv
BY DEF Init, ChatInv, TypeOK, ChannelData, OneOperator, LobbiesHaveUsers, NickTable, Channels

\* Leaving channels takes the operator status and the keys along and deletes
\* the lobbies that become empty.
LEMMA LeaveKeepsChannels ==
  ASSUME ChatInv, NEW c \in Conns, NEW S \in SUBSET Channels, Leave(c, S)
  PROVE  /\ joined' \in [Conns -> SUBSET Channels]
         /\ channels' \subseteq Channels
         /\ users' \in [Channels -> SUBSET (Nicks \cup {None})]
         /\ operators' \in [Channels -> SUBSET (Nicks \cup {None})]
         /\ stats' \in [Channels -> SUBSET (Nicks \cup {None})]
         /\ settings' \in [Channels -> SUBSET {"topic", "modes"}]
         /\ ChannelData' /\ OneOperator' /\ LobbiesHaveUsers'
<1> DEFINE left == S \cap channels
           Without(f) == [ch \in Channels |-> IF ch \in left THEN f[ch] \ {nick[c]} ELSE f[ch]]
<1>1. /\ users' = Without(users)
      /\ operators' = Without(operators)
      /\ stats' = Without(stats)
      /\ joined' = [joined EXCEPT ![c] = @ \ left]
      /\ channels' = channels \ {ch \in left \cap Lobbies : users'[ch] = {}}
      /\ settings' = [ch \in Channels |-> IF ch \in channels' THEN settings[ch] ELSE {}]
  BY DEF Leave
<1>2. /\ users \in [Channels -> SUBSET (Nicks \cup {None})]
      /\ operators \in [Channels -> SUBSET (Nicks \cup {None})]
      /\ stats \in [Channels -> SUBSET (Nicks \cup {None})]
      /\ joined \in [Conns -> SUBSET Channels]
      /\ channels \subseteq Channels
      /\ settings \in [Channels -> SUBSET {"topic", "modes"}]
  BY DEF ChatInv, TypeOK
<1>3. /\ users' \in [Channels -> SUBSET (Nicks \cup {None})]
      /\ operators' \in [Channels -> SUBSET (Nicks \cup {None})]
      /\ stats' \in [Channels -> SUBSET (Nicks \cup {None})]
  BY <1>1, <1>2
<1>4. /\ joined' \in [Conns -> SUBSET Channels] /\ channels' \subseteq Channels
      /\ settings' \in [Channels -> SUBSET {"topic", "modes"}]
  BY <1>1, <1>2
<1>5. ChannelData'
  BY <1>1, <1>2 DEF ChatInv, ChannelData
<1>6. OneOperator'
  BY <1>1, <1>2 DEF ChatInv, OneOperator
<1>7. LobbiesHaveUsers'
  BY <1>1, <1>2 DEF ChatInv, LobbiesHaveUsers, Channels
<1> QED
  BY <1>3, <1>4, <1>5, <1>6, <1>7

\* Cleaning up a client keeps the channels in order and takes the entry of its
\* nickname out of the table - also when it is somebody else's by now.
LEMMA CleanupKeepsChannels ==
  ASSUME ChatInv, NEW c \in Conns, Cleanup(c)
  PROVE  /\ joined' \in [Conns -> SUBSET Channels]
         /\ channels' \subseteq Channels
         /\ users' \in [Channels -> SUBSET (Nicks \cup {None})]
         /\ operators' \in [Channels -> SUBSET (Nicks \cup {None})]
         /\ stats' \in [Channels -> SUBSET (Nicks \cup {None})]
         /\ settings' \in [Channels -> SUBSET {"topic", "modes"}]
         /\ ChannelData' /\ OneOperator' /\ LobbiesHaveUsers'
         /\ clients' \in [Nicks -> Conns \cup {None}]
         /\ \A n \in Nicks : clients'[n] = IF n = nick[c] THEN None ELSE clients[n]
<1>1. CASE nick[c] = None
  <2>1. UNCHANGED <<joined, channels, users, operators, stats, settings, clients>>
    BY <1>1 DEF Cleanup, chanVars
  <2> QED
    BY <1>1, <2>1, NamesAssumption DEF ChatInv, TypeOK, ChannelData, OneOperator, LobbiesHaveUsers
<1>2. CASE nick[c] # None
  <2>1. /\ Leave(c, joined[c])
        /\ clients' = [clients EXCEPT ![nick[c]] = None]
    BY <1>2 DEF Cleanup
  <2>2. joined[c] \in SUBSET Channels /\ clients \in [Nicks -> Conns \cup {None}]
    BY DEF ChatInv, TypeOK
  <2>3. /\ clients' \in [Nicks -> Conns \cup {None}]
        /\ \A n \in Nicks : clients'[n] = IF n = nick[c] THEN None ELSE clients[n]
    BY <2>1, <2>2
  <2> QED
    BY <2>1, <2>2, <2>3, LeaveKeepsChannels
<1> QED
  BY <1>1, <1>2

\* No command, time-out, clean-up or end of a connection breaks the invariant.
LEMMA NextKeepsInv == ChatInv /\ [Next]_vars => ChatInv'
<1> SUFFICES ASSUME ChatInv, [Next]_vars
             PROVE  ChatInv'
  OBVIOUS
<1>1. ASSUME NEW c \in Conns, Connect(c)
      PROVE  ChatInv'
  BY <1>1 DEF Connect, chanVars, ChatInv, TypeOK, ChannelData, OneOperator, LobbiesHaveUsers, NickTable
<1>2. ASSUME NEW c \in Conns, NEW n \in Nicks, Nick(c, n)
      PROVE  ChatInv'
  <2>1. TypeOK'
    BY <1>2 DEF Nick, chanVars, ChatInv, TypeOK
  <2>2. ChannelData' /\ OneOperator' /\ LobbiesHaveUsers'
    BY <1>2 DEF Nick, chanVars, ChatInv, ChannelData, OneOperator, LobbiesHaveUsers
  <2>3. NickTable'
    BY <1>2, NamesAssumption DEF Nick, Handles, ChatInv, TypeOK, NickTable
  <2> QED
    BY <2>1, <2>2, <2>3 DEF ChatInv
<1>3. ASSUME NEW c \in Conns, NEW ch \in Channels, Join(c, ch)
      PROVE  ChatInv'
  <2>1. TypeOK'
    BY <1>3 DEF Join, ChatInv, TypeOK
  <2>2. ChannelData' /\ OneOperator'
    BY <1>3 DEF Join, ChatInv, TypeOK, ChannelData, OneOperator
  <2>3. LobbiesHaveUsers' /\ NickTable'
    BY <1>3 DEF Join, ChatInv, TypeOK, LobbiesHaveUsers, NickTable, Channels
  <2> QED
    BY <2>1, <2>2, <2>3 DEF ChatInv
<1>4. ASSUME NEW c \in Conns, NEW ch \in Channels, Part(c, ch)
      PROVE  ChatInv'
  <2>1. Leave(c, {ch}) /\ UNCHANGED <<conn, nick, clients, cleanups>>
    BY <1>4 DEF Part
  <2> QED
    BY <2>1, LeaveKeepsChannels DEF ChatInv, TypeOK, NickTable
<1>5. ASSUME NEW c \in Conns, NEW ch \in Channels, SetKeys(c, ch)
      PROVE  ChatInv'
  BY <1>5 DEF SetKeys, ChatInv, TypeOK, ChannelData, OneOperator, LobbiesHaveUsers, NickTable
<1>10. ASSUME NEW c \in Conns, NEW ch \in Channels, SetTopic(c, ch)
       PROVE  ChatInv'
  BY <1>10 DEF SetTopic, ChatInv, TypeOK, ChannelData, OneOperator, LobbiesHaveUsers, NickTable
<1>11. ASSUME NEW c \in Conns, NEW ch \in Channels, SetModes(c, ch)
       PROVE  ChatInv'
  BY <1>11 DEF SetModes, ChatInv, TypeOK, ChannelData, OneOperator, LobbiesHaveUsers, NickTable
<1>6. ASSUME NEW c \in Conns, TimesOut(c)
      PROVE  ChatInv'
  BY <1>6 DEF TimesOut, chanVars, ChatInv, TypeOK, ChannelData, OneOperator, LobbiesHaveUsers, NickTable
<1>7. ASSUME NEW c \in Conns, CleanupRuns(c)
      PROVE  ChatInv'
  <2>1. Cleanup(c) /\ cleanups' = cleanups \ {c} /\ UNCHANGED <<conn, nick>>
    BY <1>7 DEF CleanupRuns
  <2>2. TypeOK'
    BY <2>1, CleanupKeepsChannels DEF ChatInv, TypeOK
  <2>3. NickTable'
    BY <2>1, CleanupKeepsChannels DEF ChatInv, NickTable
  <2> QED
    BY <2>1, <2>2, <2>3, CleanupKeepsChannels DEF ChatInv
<1>8. ASSUME NEW c \in Conns, Ends(c)
      PROVE  ChatInv'
  <2>1. Cleanup(c) /\ conn' = [conn EXCEPT ![c] = "closed"] /\ UNCHANGED <<nick, cleanups>>
    BY <1>8 DEF Ends
  <2>2. TypeOK'
    BY <2>1, CleanupKeepsChannels DEF ChatInv, TypeOK
  <2>3. NickTable'
    BY <2>1, CleanupKeepsChannels DEF ChatInv, TypeOK, NickTable
  <2> QED
    BY <2>1, <2>2, <2>3, CleanupKeepsChannels DEF ChatInv
<1>9. CASE UNCHANGED vars
  BY <1>9 DEF vars, ChatInv, TypeOK, ChannelData, OneOperator, LobbiesHaveUsers, NickTable
<1> QED
  BY <1>1, <1>2, <1>3, <1>4, <1>5, <1>6, <1>7, <1>8, <1>9, <1>10, <1>11 DEF Next, Command

\* Every reachable state satisfies the invariant.
THEOREM ChatSafety == Spec => []ChatInv
BY InitEstablishesInv, NextKeepsInv, PTL DEF Spec

\* The state is well typed.
THEOREM TypeCorrect == Spec => []TypeOK
BY ChatSafety, PTL DEF ChatInv

\* The tables are well formed and lobbies have users.
THEOREM PeerchatStateHolds == Spec => []PeerchatState
BY ChatSafety, PTL DEF ChatInv, PeerchatState

\* Operator status and lobby keys end with the presence of the nickname.
THEOREM NothingOutlivesPresence == Spec => []ChannelData
BY ChatSafety, PTL DEF ChatInv

\* No channel ever has two operators.
THEOREM OperatorIsUnique == Spec => []OneOperator
BY ChatSafety, PTL DEF ChatInv

\* A lobby is in the table exactly as long as it has users.
THEOREM LobbyLifetime == Spec => []LobbiesHaveUsers
BY ChatSafety, PTL DEF ChatInv

\* The table names connections under the nickname they have, and no ended ones.
THEOREM TableIsSound == Spec => []NickTable
BY ChatSafety, PTL DEF ChatInv

-----------------------------------------------------------------------------
(* Clients that keep one name, have it before they join and answer their PINGs *)

\* Every client is as the game makes it.
Polite == Renaming = {} /\ Anonymous = {} /\ Silent = {}

\* The clients whose handler task reads and who have joined a channel.
Members(ch) == {c \in Conns : conn[c] = "open" /\ ch \in joined[c]}

\* With such clients nobody is disconnected by the ping thread, a connected
\* client is found under its name, only connected and named clients are in
\* channels, and a channel has the names of its members as users.
PoliteInv ==
  /\ ChatInv
  /\ cleanups = {} /\ \A c \in Conns : conn[c] # "dropped"
  /\ \A c \in Conns : conn[c] = "new" => nick[c] = None
  /\ \A c \in Conns : conn[c] = "open" /\ nick[c] # None => clients[nick[c]] = c
  /\ \A c \in Conns : joined[c] # {} => conn[c] = "open" /\ nick[c] # None
  /\ \A ch \in Channels : users[ch] = {nick[c] : c \in Members(ch)}
  /\ \A ch \in Channels : users[ch] # {} => ch \in channels

\* Two connected clients with one name are one client.
LEMMA NamesAreTaken ==
  ASSUME PoliteInv, NEW c \in Conns, NEW d \in Conns,
         conn[c] = "open", conn[d] = "open", nick[c] = nick[d], nick[c] # None
  PROVE  c = d
BY DEF PoliteInv

\* What the channels look like follows from the invariant.
LEMMA PoliteViews == ASSUME PoliteInv PROVE ChannelViews
<1>1. nick \in [Conns -> Nicks \cup {None}] /\ joined \in [Conns -> SUBSET Channels]
      /\ clients \in [Nicks -> Conns \cup {None}]
  BY DEF PoliteInv, ChatInv, TypeOK
<1>2. ASSUME NEW ch \in Channels, NEW d \in Members(ch)
      PROVE  d \in Conns /\ nick[d] \in Nicks /\ nick[d] \in users[ch] /\ clients[nick[d]] = d /\ d # None
  BY <1>1, <1>2, NamesAssumption DEF PoliteInv, Members
<1>3. ASSUME NEW ch \in Channels, NEW n \in users[ch]
      PROVE  \E d \in Members(ch) : nick[d] = n /\ clients[n] = d /\ n \in Nicks
  <2>1. PICK d \in Members(ch) : nick[d] = n
    BY <1>3 DEF PoliteInv
  <2> QED
    BY <1>2, <2>1
<1>4. ASSUME NEW ch \in Channels
      PROVE  Names(ch) = Who(ch) /\ Names(ch) = {nick[c] : c \in Members(ch)}
  <2>1. Names(ch) = {nick[c] : c \in Members(ch)}
    BY DEF Names, PoliteInv
  <2>2. \A n \in users[ch] : n \in Nicks /\ clients[n] # None
    BY <1>2, <1>3
  <2> QED
    BY <2>1, <2>2 DEF Names, Who
<1>5. ASSUME NEW c \in Conns, NEW ch \in joined[c], conn[c] = "open"
      PROVE  /\ {d \in Conns : conn[d] = "open" /\ ch \in joined[d]} \ {c} \subseteq Recipients(c, ch)
             /\ \A d \in Recipients(c, ch) : ch \in joined[d]
  <2>1. ch \in Channels /\ c \in Members(ch)
    BY <1>1, <1>5 DEF Members
  <2>2. ASSUME NEW d \in Members(ch) \ {c}
        PROVE  d \in Recipients(c, ch)
    <3>1. nick[d] \in Nicks /\ nick[d] \in users[ch] /\ clients[nick[d]] = d /\ d # None
      BY <1>2, <2>1, <2>2
    <3>2. nick[d] # nick[c]
      BY <1>2, <2>1, <2>2
    <3> QED
      BY <3>1, <3>2 DEF Recipients
  <2>3. ASSUME NEW d \in Recipients(c, ch)
        PROVE  ch \in joined[d]
    <3>1. PICK n \in users[ch] : d = clients[n]
      BY <2>3 DEF Recipients
    <3>2. d \in Members(ch)
      BY <1>3, <2>1, <3>1
    <3> QED
      BY <3>2 DEF Members
  <2> QED
    BY <2>2, <2>3 DEF Members
<1> QED
  BY <1>4, <1>5 DEF ChannelViews, BroadcastReaches, Members

\* A freshly started server has nobody in a channel.
LEMMA InitEstablishesPolite == Init => PoliteInv
<1> SUFFICES ASSUME Init
             PROVE  PoliteInv
  OBVIOUS
<1>1. \A ch \in Channels : Members(ch) = {}
  BY DEF Init, Members
<1> QED
  BY <1>1, InitEstablishesInv DEF Init, PoliteInv

\* A client that leaves channels it has joined takes its name, and no other
\* member's, out of each of them.
LEMMA LeaveTakesName ==
  ASSUME PoliteInv, NEW c \in Conns, conn[c] = "open", nick[c] # None,
         NEW S \in SUBSET joined[c], Leave(c, S), nick' = nick,
         \A d \in Conns : d # c => conn'[d] = conn[d],
         conn'[c] = "open" \/ S = joined[c]
  PROVE  /\ joined' = [joined EXCEPT ![c] = @ \ S]
         /\ \A ch \in Channels : users'[ch] = {nick[d] : d \in Members(ch)'}
         /\ \A ch \in Channels : users'[ch] # {} => ch \in channels'
<1> DEFINE left == S \cap channels
<1>1. joined \in [Conns -> SUBSET Channels] /\ users \in [Channels -> SUBSET (Nicks \cup {None})]
  BY DEF PoliteInv, ChatInv, TypeOK
<1>2. \A ch \in joined[c] : ch \in channels
  <2> TAKE ch \in joined[c]
  <2>1. ch \in Channels /\ c \in Members(ch)
    BY <1>1 DEF Members
  <2>2. nick[c] \in users[ch]
    BY <2>1 DEF PoliteInv
  <2> QED
    BY <2>1, <2>2 DEF PoliteInv
<1>3. left = S
  BY <1>2
<1>4. /\ joined' = [joined EXCEPT ![c] = @ \ S]
      /\ users' = [ch \in Channels |-> IF ch \in S THEN users[ch] \ {nick[c]} ELSE users[ch]]
      /\ channels' = channels \ {ch \in S \cap Lobbies : users'[ch] = {}}
  BY <1>3 DEF Leave
<1>5. ASSUME NEW ch \in Channels
      PROVE  Members(ch)' = IF ch \in S THEN Members(ch) \ {c} ELSE Members(ch)
  BY <1>1, <1>4 DEF Members
<1>6. ASSUME NEW ch \in Channels
      PROVE  users'[ch] = {nick[d] : d \in Members(ch)'}
  <2>1. users[ch] = {nick[d] : d \in Members(ch)}
    BY DEF PoliteInv
  <2>2. CASE ch \notin S
    BY <1>4, <1>5, <2>1, <2>2
  <2>3. CASE ch \in S
    <3>1. \A d \in Members(ch) : nick[d] = nick[c] => d = c
      BY NamesAreTaken DEF Members
    <3>2. users'[ch] = users[ch] \ {nick[c]} /\ Members(ch)' = Members(ch) \ {c}
      BY <1>4, <1>5, <2>3
    <3> QED
      BY <2>1, <3>1, <3>2
  <2> QED
    BY <2>2, <2>3
<1>7. \A ch \in Channels : users'[ch] # {} => ch \in channels'
  BY <1>4 DEF PoliteInv
<1> QED
  BY <1>4, <1>6, <1>7

\* No command or end of a connection of such clients breaks the invariant.
LEMMA NextKeepsPolite == ASSUME Polite, PoliteInv, [Next]_vars PROVE PoliteInv'
<1> USE DEF Polite
<1>t. /\ conn \in [Conns -> {"new", "open", "dropped", "closed"}]
      /\ nick \in [Conns -> Nicks \cup {None}] /\ joined \in [Conns -> SUBSET Channels]
      /\ clients \in [Nicks -> Conns \cup {None}]
      /\ users \in [Channels -> SUBSET (Nicks \cup {None})]
  BY DEF PoliteInv, ChatInv, TypeOK
<1>i. ChatInv'
  BY NextKeepsInv DEF PoliteInv
<1>n. \A c \in Conns : conn[c] = "new" \/ nick[c] = None => joined[c] = {}
  BY DEF PoliteInv
<1>1. ASSUME NEW c \in Conns, Connect(c)
      PROVE  PoliteInv'
  <2>1. /\ conn[c] = "new" /\ conn' = [conn EXCEPT ![c] = "open"]
        /\ UNCHANGED <<nick, clients, joined, channels, users, cleanups>>
    BY <1>1 DEF Connect, chanVars
  <2>2. \A ch \in Channels : Members(ch)' = Members(ch)
    BY <1>t, <1>n, <2>1 DEF Members
  <2> QED
    BY <1>t, <1>i, <2>1, <2>2 DEF PoliteInv
<1>2. ASSUME NEW c \in Conns, NEW n \in Nicks, Nick(c, n)
      PROVE  PoliteInv'
  <2>1. /\ conn[c] = "open" /\ nick[c] = None /\ clients[n] \in {None, c}
        /\ clients' = [m \in Nicks |-> IF m = n THEN c ELSE IF m = nick[c] THEN None ELSE clients[m]]
        /\ nick' = [nick EXCEPT ![c] = n]
        /\ UNCHANGED <<conn, joined, channels, users, cleanups>>
    BY <1>2 DEF Nick, Handles, chanVars, PoliteInv
  <2>2. joined[c] = {}
    BY <1>n, <2>1
  <2>3. \A ch \in Channels : Members(ch)' = Members(ch) /\ c \notin Members(ch)
    BY <2>1, <2>2 DEF Members
  <2>4. \A ch \in Channels : users'[ch] = {nick'[d] : d \in Members(ch)'}
    <3>1. \A ch \in Channels : \A d \in Members(ch) : nick'[d] = nick[d]
      BY <1>t, <2>1, <2>3 DEF Members
    <3> QED
      BY <2>1, <2>3, <3>1 DEF PoliteInv
  <2>5. \A d \in Conns : conn'[d] = "open" /\ nick'[d] # None => clients'[nick'[d]] = d
    <3> SUFFICES ASSUME NEW d \in Conns, conn[d] = "open", nick'[d] # None, d # c
                 PROVE  clients'[nick'[d]] = d
      BY <1>t, <2>1
    <3>1. nick'[d] = nick[d] /\ clients[nick[d]] = d /\ nick[d] \in Nicks
      BY <1>t, <2>1 DEF PoliteInv
    <3>2. nick[d] # n /\ d # None
      BY <2>1, <3>1, NamesAssumption
    <3> QED
      BY <2>1, <3>1, <3>2
  <2>6. /\ \A d \in Conns : conn'[d] = "new" => nick'[d] = None
        /\ \A d \in Conns : joined'[d] # {} => conn'[d] = "open" /\ nick'[d] # None
    BY <1>t, <2>1, <2>2 DEF PoliteInv
  <2> QED
    BY <1>i, <2>1, <2>4, <2>5, <2>6 DEF PoliteInv
<1>3. ASSUME NEW c \in Conns, NEW ch \in Channels, Join(c, ch)
      PROVE  PoliteInv'
  <2>1. /\ conn[c] = "open" /\ nick[c] # None
        /\ channels' = channels \cup {ch}
        /\ users' = [users EXCEPT ![ch] = @ \cup {nick[c]}]
        /\ joined' = [joined EXCEPT ![c] = @ \cup {ch}]
        /\ UNCHANGED <<conn, nick, clients, cleanups>>
    BY <1>3 DEF Join, Handles, PoliteInv
  <2>2. \A h \in Channels : Members(h)' = IF h = ch THEN Members(h) \cup {c} ELSE Members(h)
    BY <1>t, <2>1 DEF Members
  <2>3. \A h \in Channels : users'[h] = {nick[d] : d \in Members(h)'}
    BY <1>t, <2>1, <2>2 DEF PoliteInv
  <2>4. \A h \in Channels : users'[h] # {} => h \in channels'
    BY <1>t, <2>1 DEF PoliteInv
  <2>5. \A d \in Conns : joined'[d] # {} => conn'[d] = "open" /\ nick'[d] # None
    BY <1>t, <2>1 DEF PoliteInv
  <2> QED
    BY <1>i, <2>1, <2>3, <2>4, <2>5 DEF PoliteInv
<1>4. ASSUME NEW c \in Conns, NEW ch \in Channels, Part(c, ch)
      PROVE  PoliteInv'
  <2>1. /\ conn[c] = "open" /\ ch \in joined[c] /\ Leave(c, {ch})
        /\ UNCHANGED <<conn, nick, clients, cleanups>>
    BY <1>4 DEF Part, Handles, PoliteInv
  <2>2. nick[c] # None
    BY <2>1 DEF PoliteInv
  <2>3. /\ joined' = [joined EXCEPT ![c] = @ \ {ch}]
        /\ \A h \in Channels : users'[h] = {nick[d] : d \in Members(h)'}
        /\ \A h \in Channels : users'[h] # {} => h \in channels'
    BY <2>1, <2>2, LeaveTakesName
  <2>4. \A d \in Conns : joined'[d] # {} => conn'[d] = "open" /\ nick'[d] # None
    BY <1>t, <2>1, <2>3 DEF PoliteInv
  <2> QED
    BY <1>i, <2>1, <2>3, <2>4 DEF PoliteInv
<1>5. ASSUME NEW c \in Conns, Ends(c)
      PROVE  PoliteInv'
  <2>1. /\ conn[c] = "open" /\ Cleanup(c) /\ conn' = [conn EXCEPT ![c] = "closed"]
        /\ UNCHANGED <<nick, cleanups>>
    BY <1>5 DEF Ends, Handles, PoliteInv
  <2>2. CASE nick[c] = None
    <3>1. UNCHANGED <<joined, channels, users, clients>>
      BY <2>1, <2>2 DEF Cleanup, chanVars
    <3>2. joined[c] = {}
      BY <1>n, <2>2
    <3>3. \A ch \in Channels : Members(ch)' = Members(ch)
      BY <1>t, <2>1, <3>1, <3>2 DEF Members
    <3> QED
      BY <1>t, <1>i, <2>1, <3>1, <3>2, <3>3 DEF PoliteInv
  <2>3. CASE nick[c] # None
    <3>1. Leave(c, joined[c]) /\ clients' = [clients EXCEPT ![nick[c]] = None]
      BY <2>1, <2>3 DEF Cleanup
    <3>2. /\ joined' = [joined EXCEPT ![c] = @ \ joined[c]]
          /\ \A ch \in Channels : users'[ch] = {nick[d] : d \in Members(ch)'}
          /\ \A ch \in Channels : users'[ch] # {} => ch \in channels'
      BY <1>t, <2>1, <2>3, <3>1, LeaveTakesName
    <3>3. \A d \in Conns : conn'[d] = "open" /\ nick'[d] # None => clients'[nick'[d]] = d
      <4> SUFFICES ASSUME NEW d \in Conns, conn'[d] = "open", nick'[d] # None
                   PROVE  clients'[nick'[d]] = d
        OBVIOUS
      <4>1. d # c /\ conn[d] = "open" /\ nick[d] # None
        BY <1>t, <2>1
      <4>2. clients[nick[d]] = d /\ nick[d] \in Nicks /\ nick[d] # nick[c]
        BY <1>t, <2>1, <2>3, <4>1, NamesAreTaken DEF PoliteInv
      <4> QED
        BY <1>t, <2>1, <3>1, <4>2
    <3>4. \A d \in Conns : joined'[d] # {} => conn'[d] = "open" /\ nick'[d] # None
      BY <1>t, <2>1, <3>2 DEF PoliteInv
    <3>5. /\ \A d \in Conns : conn'[d] # "dropped"
          /\ \A d \in Conns : conn'[d] = "new" => nick'[d] = None
      BY <1>t, <2>1 DEF PoliteInv
    <3> QED
      BY <1>i, <2>1, <3>2, <3>3, <3>4, <3>5 DEF PoliteInv
  <2> QED
    BY <2>2, <2>3
<1>6. ASSUME UNCHANGED <<conn, nick, joined, clients, channels, users, cleanups>>
      PROVE  PoliteInv'
  <2>1. \A ch \in Channels : Members(ch)' = Members(ch)
    BY <1>6 DEF Members
  <2> QED
    BY <1>i, <1>6, <2>1 DEF PoliteInv
<1>7. ASSUME NEW c \in Conns, NEW ch \in Channels, SetKeys(c, ch) \/ SetTopic(c, ch) \/ SetModes(c, ch)
      PROVE  PoliteInv'
  BY <1>6, <1>7 DEF SetKeys, SetTopic, SetModes
<1>8. ASSUME NEW c \in Conns
      PROVE  ~TimesOut(c) /\ ~CleanupRuns(c)
  BY DEF TimesOut, CleanupRuns, PoliteInv
<1>9. CASE UNCHANGED vars
  BY <1>6, <1>9 DEF vars
<1> QED
  BY <1>1, <1>2, <1>3, <1>4, <1>5, <1>7, <1>8, <1>9 DEF Next, Command

\* To clients that choose one name before they join, and that answer their PINGs,
\* a channel looks the same from everywhere, however many clients there are: a message
\* to the channel reaches its members, and NAMES and WHO list them.
THEOREM ViewsAgree == ASSUME Polite PROVE Spec => []ChannelViews
<1>1. Init => PoliteInv
  BY InitEstablishesPolite
<1>2. PoliteInv /\ [Next]_vars => PoliteInv'
  BY NextKeepsPolite
<1>3. PoliteInv => ChannelViews
  BY PoliteViews
<1> QED
  BY <1>1, <1>2, <1>3, PTL DEF Spec
====
