---- MODULE Peerchat ----
(***************************************************************************)
(* The Peerchat (IRC) server: the table of nicknames, the channels, and    *)
(* the life of the connections.                                            *)
(*                                                                         *)
(* Handlers run on one event loop.  Sends are taken here as not suspending *)
(* (a send waits only for a client whose buffer is full; PeerchatLock      *)
(* models that), so the handling of one command is one step.               *)
(*                                                                         *)
(* The ping thread marks a client that does not answer as disconnected and *)
(* schedules cleanup_client for it; the task that reads from the           *)
(* connection notices when its read returns, cleans up again and ends.     *)
(***************************************************************************)
EXTENDS FiniteSets, Naturals

CONSTANTS Conns,     \* the connections, IRCClient objects
          Nicks,     \* the nicknames
          Lobbies,   \* the private channels, "#GSP!..."
          Rooms,     \* the other channels
          Renaming,  \* the connections that may change their nickname
          Anonymous, \* the connections that may join before they have one
          Silent,    \* the connections the ping thread may find not answering
          None       \* no nickname, no connection

Channels == Lobbies \cup Rooms

ASSUME NamesAssumption == /\ None \notin Nicks \cup Conns
                          /\ Lobbies \cap Rooms = {}
                          /\ Renaming \cup Anonymous \cup Silent \subseteq Conns

VARIABLES conn,      \* whether a connection is read from: "dropped" once client.connected is unset
          nick,      \* IRCUser.nickname
          joined,    \* IRCUser.channels
          clients,   \* irc_clients
          channels,  \* the keys of irc_channels
          users,     \* IRCChannel.users
          operators, \* IRCChannel.operators
          stats,     \* the nicknames with keys of their own in IRCChannel.user_stats
          settings,  \* which of IRCChannel.topic and IRCChannel.modes were set
          cleanups   \* the clients with a scheduled cleanup_client

chanVars == <<joined, channels, users, operators, stats, settings>>
vars == <<conn, nick, joined, clients, channels, users, operators, stats, settings, cleanups>>

\* The state stays well typed.  A client without a nickname is the user None of
\* its channels; a clean-up is scheduled only for a client that was disconnected.
TypeOK ==
  /\ conn \in [Conns -> {"new", "open", "dropped", "closed"}]
  /\ nick \in [Conns -> Nicks \cup {None}]
  /\ joined \in [Conns -> SUBSET Channels]
  /\ clients \in [Nicks -> Conns \cup {None}]
  /\ channels \subseteq Channels
  /\ users \in [Channels -> SUBSET (Nicks \cup {None})]
  /\ operators \in [Channels -> SUBSET (Nicks \cup {None})]
  /\ stats \in [Channels -> SUBSET (Nicks \cup {None})]
  /\ settings \in [Channels -> SUBSET {"topic", "modes"}]
  /\ cleanups \subseteq {c \in Conns : conn[c] \in {"dropped", "closed"}}

Init ==
  /\ conn = [c \in Conns |-> "new"]
  /\ nick = [c \in Conns |-> None]
  /\ joined = [c \in Conns |-> {}]
  /\ clients = [n \in Nicks |-> None]
  /\ channels = {}
  /\ users = [ch \in Channels |-> {}]
  /\ operators = [ch \in Channels |-> {}]
  /\ stats = [ch \in Channels |-> {}]
  /\ settings = [ch \in Channels |-> {}]
  /\ cleanups = {}

-----------------------------------------------------------------------------
(* Commands *)

Connect(c) ==
  /\ conn[c] = "new"
  /\ conn' = [conn EXCEPT ![c] = "open"]
  /\ UNCHANGED <<nick, clients, chanVars, cleanups>>

\* The handler task has a command to handle; a client that was disconnected
\* gets what its last read returned handled first.
Handles(c) == conn[c] \in {"open", "dropped"}

\* Mutant: the old nickname stays in the table.
NickKeepsOld(c, n) ==
  /\ Handles(c)
  /\ nick[c] = None \/ c \in Renaming
  /\ clients[n] \in {None, c}
  /\ clients' = [clients EXCEPT ![n] = c]
  /\ nick' = [nick EXCEPT ![c] = n]
  /\ UNCHANGED <<conn, chanVars, cleanups>>

\* NICK; a nickname another client has is refused.
Nick(c, n) ==
  /\ Handles(c)
  /\ nick[c] = None \/ c \in Renaming
  /\ clients[n] \in {None, c}
  /\ clients' = [m \in Nicks |-> IF m = n THEN c ELSE IF m = nick[c] THEN None ELSE clients[m]]
  /\ nick' = [nick EXCEPT ![c] = n]
  /\ UNCHANGED <<conn, chanVars, cleanups>>

\* Mutant: the first two users of a channel become operators.
JoinPromotesTwo(c, ch) ==
  /\ Handles(c)
  /\ nick[c] # None \/ c \in Anonymous
  /\ channels' = channels \cup {ch}
  /\ users' = [users EXCEPT ![ch] = @ \cup {nick[c]}]
  /\ operators' = [operators EXCEPT ![ch] = IF Cardinality(users'[ch]) <= 2 THEN @ \cup {nick[c]} ELSE @]
  /\ joined' = [joined EXCEPT ![c] = @ \cup {ch}]
  /\ UNCHANGED <<conn, nick, clients, stats, settings, cleanups>>

\* JOIN of one channel
Join(c, ch) ==
  /\ Handles(c)
  /\ nick[c] # None \/ c \in Anonymous
  /\ channels' = channels \cup {ch}
  /\ users' = [users EXCEPT ![ch] = @ \cup {nick[c]}]
  /\ operators' = [operators EXCEPT ![ch] = IF users'[ch] = {nick[c]} THEN @ \cup {nick[c]} ELSE @]
  /\ joined' = [joined EXCEPT ![c] = @ \cup {ch}]
  /\ UNCHANGED <<conn, nick, clients, stats, settings, cleanups>>

\* Mutant: the keys of the user stay in the channel.
LeaveKeepsStats(c, S) ==
  LET left == S \cap channels
      Without(f) == [ch \in Channels |-> IF ch \in left THEN f[ch] \ {nick[c]} ELSE f[ch]]
  IN /\ users' = Without(users)
     /\ operators' = Without(operators)
     /\ joined' = [joined EXCEPT ![c] = @ \ left]
     /\ channels' = channels \ {ch \in left \cap Lobbies : users'[ch] = {}}
     /\ settings' = [ch \in Channels |-> IF ch \in channels' THEN settings[ch] ELSE {}]
     /\ UNCHANGED stats

\* Mutant: empty lobbies stay.
LeaveKeepsLobby(c, S) ==
  LET left == S \cap channels
      Without(f) == [ch \in Channels |-> IF ch \in left THEN f[ch] \ {nick[c]} ELSE f[ch]]
  IN /\ users' = Without(users)
     /\ operators' = Without(operators)
     /\ stats' = Without(stats)
     /\ joined' = [joined EXCEPT ![c] = @ \ left]
     /\ UNCHANGED <<channels, settings>>

\* part_channel for each of the channels in S
Leave(c, S) ==
  LET left == S \cap channels
      Without(f) == [ch \in Channels |-> IF ch \in left THEN f[ch] \ {nick[c]} ELSE f[ch]]
  IN /\ users' = Without(users)
     /\ operators' = Without(operators)
     /\ stats' = Without(stats)
     /\ joined' = [joined EXCEPT ![c] = @ \ left]
     /\ channels' = channels \ {ch \in left \cap Lobbies : users'[ch] = {}}
     /\ settings' = [ch \in Channels |-> IF ch \in channels' THEN settings[ch] ELSE {}]

\* PART
Part(c, ch) ==
  /\ Handles(c)
  /\ ch \in joined[c]
  /\ Leave(c, {ch})
  /\ UNCHANGED <<conn, nick, clients, cleanups>>

\* SETCKEY, for the client's own nickname
SetKeys(c, ch) ==
  /\ Handles(c)
  /\ ch \in channels
  /\ nick[c] \in Nicks \cap users[ch]
  /\ stats' = [stats EXCEPT ![ch] = @ \cup {nick[c]}]
  /\ UNCHANGED <<conn, nick, joined, clients, channels, users, operators, settings, cleanups>>

\* TOPIC with a text
SetTopic(c, ch) ==
  /\ Handles(c)
  /\ ch \in channels
  /\ nick[c] \in operators[ch]
  /\ settings' = [settings EXCEPT ![ch] = @ \cup {"topic"}]
  /\ UNCHANGED <<conn, nick, joined, clients, channels, users, operators, stats, cleanups>>

\* MODE of a channel: nobody is refused in a lobby, whether he has joined it or not.
SetModes(c, ch) ==
  /\ Handles(c)
  /\ ch \in channels
  /\ ch \in Lobbies \/ nick[c] \in operators[ch]
  /\ settings' = [settings EXCEPT ![ch] = @ \cup {"modes"}]
  /\ UNCHANGED <<conn, nick, joined, clients, channels, users, operators, stats, cleanups>>

-----------------------------------------------------------------------------
(* The end of a connection *)

\* Mutant: the channels are not left.
CleanupStays(c) ==
  /\ clients' = [n \in Nicks |-> IF n = nick[c] THEN None ELSE clients[n]]
  /\ UNCHANGED chanVars

\* cleanup_client; nothing is cleaned up for a client without a nickname
Cleanup(c) ==
  IF nick[c] = None
  THEN UNCHANGED <<chanVars, clients>>
  ELSE /\ Leave(c, joined[c])
       /\ clients' = [clients EXCEPT ![nick[c]] = None]

\* Mutant: the clean-up is scheduled, the client is not disconnected.
TimesOutStaysConnected(c) ==
  /\ c \in Silent
  /\ conn[c] = "open"
  /\ \E n \in Nicks : clients[n] = c
  /\ cleanups' = cleanups \cup {c}
  /\ UNCHANGED <<conn, nick, clients, chanVars>>

\* A round of the ping thread finds no PONG for 90 seconds, or the PING not sent in time.
TimesOut(c) ==
  /\ c \in Silent
  /\ conn[c] = "open"
  /\ \E n \in Nicks : clients[n] = c
  /\ conn' = [conn EXCEPT ![c] = "dropped"]
  /\ cleanups' = cleanups \cup {c}
  /\ UNCHANGED <<nick, clients, chanVars>>

CleanupRuns(c) ==
  /\ c \in cleanups
  /\ Cleanup(c)
  /\ cleanups' = cleanups \ {c}
  /\ UNCHANGED <<conn, nick>>

\* The read returns nothing, fails, or brings a QUIT; or it returns anything at
\* all and the client was disconnected meanwhile.  The handler task cleans up.
Ends(c) ==
  /\ Handles(c)
  /\ Cleanup(c)
  /\ conn' = [conn EXCEPT ![c] = "closed"]
  /\ UNCHANGED <<nick, cleanups>>

Command(c) ==
  \/ \E n \in Nicks : Nick(c, n)
  \/ \E ch \in Channels : Join(c, ch) \/ Part(c, ch) \/ SetKeys(c, ch)
                              \/ SetTopic(c, ch) \/ SetModes(c, ch)

Next == \E c \in Conns : Connect(c) \/ Command(c) \/ TimesOut(c) \/ CleanupRuns(c) \/ Ends(c)

Spec == Init /\ [][Next]_vars

\* The event loop runs the scheduled clean-ups.  Nothing makes a peer send
\* again or close its connection.
FairSpec == Spec /\ \A c \in Conns : WF_vars(CleanupRuns(c))

-----------------------------------------------------------------------------
(* Properties *)

\* Operator status and lobby keys never outlive the presence of the nickname in
\* the channel: whoever takes a nickname over later starts without them.  Topic and
\* modes never outlive a lobby: one of the same name starts without them.
ChannelData ==
  \A ch \in Channels :
    /\ operators[ch] \cup stats[ch] \subseteq users[ch]
    /\ settings[ch] # {} => ch \in channels

\* A channel never has two operators.
OneOperator == \A ch \in Channels : \A n, m \in operators[ch] : n = m

\* A lobby is in the table exactly as long as it has users, however they left.
LobbiesHaveUsers == \A ch \in Lobbies : ch \in channels <=> users[ch] # {}

\* The tables are well formed, and no lobby is kept without users or lost with them.
PeerchatState == TypeOK /\ LobbiesHaveUsers

\* Whoever is found under a nickname has this nickname, and is not a connection
\* that has ended - after renames, double clean-ups and late commands too.
NickTable == \A n \in Nicks : clients[n] # None => nick[clients[n]] = n /\ conn[clients[n]] # "closed"

\* The clients broadcast_to_channel sends a message of client c to.
Recipients(c, ch) == {clients[n] : n \in (users[ch] \cap Nicks) \ {nick[c]}} \ {None}

\* What WHO and NAMES list of a channel.
Who(ch) == {n \in users[ch] \cap Nicks : clients[n] # None}
Names(ch) == users[ch]

\* A message of a client to a channel reaches all the connected clients that
\* have joined the channel, and no client that has not.
BroadcastReaches ==
  \A c \in Conns : \A ch \in joined[c] : conn[c] = "open" =>
    /\ {d \in Conns : conn[d] = "open" /\ ch \in joined[d]} \ {c} \subseteq Recipients(c, ch)
    /\ \A d \in Recipients(c, ch) : ch \in joined[d]

\* To clients that choose one name before they join, and that answer their PINGs,
\* a channel looks the same from everywhere: NAMES lists the members whom a
\* message to the channel reaches, and WHO lists the same.
ChannelViews ==
  /\ BroadcastReaches
  /\ \A ch \in Channels :
       /\ Names(ch) = Who(ch)
       /\ Names(ch) = {nick[c] : c \in {d \in Conns : conn[d] = "open" /\ ch \in joined[d]}}

\* A nickname in use is refused: two connected clients never have the same one.
NicknamesUnique ==
  \A c, d \in Conns : conn[c] = "open" /\ conn[d] = "open" /\ nick[c] = nick[d] /\ nick[c] # None => c = d

\* A lobby that no client is in any more is gone.
EmptyLobbiesGo == \A ch \in Lobbies \cap channels : \E c \in Conns : ch \in joined[c]

\* The connection of a client that timed out ends.
TimedOutConnectionsEnd == \A c \in Conns : conn[c] = "dropped" ~> conn[c] = "closed"
====
