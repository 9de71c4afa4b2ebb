# Verification of the RA3 LibreLauncher servers

TLA+ modules, TLC configurations and TLAPS proofs for the servers behind the Red
Alert 3 launcher (`src/server/kirov-server-emulator`, called *the server* below).
The game talks to seven of them in turn: FESL for the account, GP for presence and
buddies, Peerchat for lobbies, the master server for the list of games, NAT
negotiation and the UDP relay to connect the players, and SOAP for the report of the
match. Paths below are relative to `src/server/kirov-server-emulator` unless they
begin with `src/`.

## 1. Inventory

Everything but two threads runs on one asyncio event loop: a handler that does not
`await` is atomic, and only awaits, locks, threads, separate commits and the network
make behaviours hard.

| Component | State | Operations | What is hard |
|---|---|---|---|
| UDP relay (`app/servers/relay_server.py`, `port_pool.py`) | port pool, route table, transports, `asyncio.Lock` | `allocate_route`, `release_route`, clean-up loop, datagrams | awaits under a lock, a second listener that fails, double release, traffic during set-up |
| NAT negotiation, sessions (`natneg_server.py`, `sessions.py`, `natneg_types.py`) | sessions by cookie, clients, `connect_sent` | INIT, CONNECT_ACK, delayed announcement, expiry | lost, repeated and reordered datagrams, a delayed task on an old object |
| NAT negotiation, fallback (`natneg_server.py`, `sessions.py`) | attempts and relay ports per address pair, a second `asyncio.Lock` | count, reserve relay ports, CONNECT, clean-up loop | two locks held in nested order, state that outlives what it names |
| Peerchat (`peerchat_server.py`, `peerchat_handlers.py`, `peerchat_state.py`) | `irc_clients`, `irc_channels` | NICK, JOIN, PART, TOPIC, MODE, SETCKEY, QUIT, WHO, NAMES, broadcasts, clean-up | nicknames used as keys, clean-up that runs twice, dead connections |
| Peerchat ping thread (`peerchat_server.py:249`) | `irc_clients_lock`, a `threading.Lock` | rounds of PINGs, disconnecting | a thread lock that is kept over awaits on the loop |
| FESL login (`fesl_server.py`, `fesl_handlers.py`) | `client_data_var`, FeslSession, tickets | NuLogin, NuAddPersona, NuLoginPersona, GameSpyPreAuth | one shared context for all connections |
| FESL memcheck thread (`fesl_server.py:309`) | `fesl_clients_lock` | keep-alive rounds | as for the ping thread |
| GP server (`gp_server.py`, `SessionManager`) | two tables of connections, GameSpySession, buddies | login with a ticket, logout, status, buddies, lost connection | two connections of one persona, a ticket that comes twice |
| Competition (`soap/competition_service.py`, `db/crud.py`) | sessions, intentions, reports, statistics | create, set intention, submit report, finalize | reports in any order, commits that are not one transaction |
| Ratings and ladders (`crud.py:680-794`) | ratings of PlayerStats | Elo for two players and teams | rounding, floor, who is counted |
| Accounts and web pages (`web/auth.py`, `web/routes.py`, `crud.py`) | users, personas, login tokens | register, log in and out, expiry | several commits per registration, tokens that outlive a login |
| Clans (`rest/routes.py`, `soap/clan_service.py`, `crud.py:1323-1620`) | clan, memberships | create, apply, approve, promote, kick, leave | two commits, positions, pages and endpoints that each decide for themselves |
| Master server (`query_master_udp.py`, `_tcp.py`, `_parsing.py`, `sessions.py`) | game registry, heartbeat table | heartbeat, farewell, keepalive, rooms, game list, filters | lost, repeated and overtaking datagrams, queries in pieces, entries nobody removes |
| GameStats server (`gamestats_server.py`) | fields of the connection, PlayerStats | auth, authp, getpd, setpd | a ticket presented to two servers, steps in any order |
| Authentication service (`soap/auth_service.py`) | `_profile_certificates` | LoginRemoteAuth | a certificate that is kept while tickets change |
| Sake, ciphers | rows of the database or nothing | request and answer | formats |
| Game proxy `src/hook`, launcher `src/launcher` | a TLS connection, a form | patching, forwarding, starting the game | the threads of ProxySSL |

How they interact: FESL creates the ticket that GP or GameStats consumes, through the database;
the game shows the same ticket to the authentication service, which consumes nothing.
NAT negotiation calls the relay's `allocate_route` and `release_route` on the same
loop, holding its own lock while it waits for the relay's. The relay's clean-up task
releases routes on its own. The ping threads reach the loop with
`run_coroutine_threadsafe` and wait for it, so that whatever stops the loop reaches both
threads. The web pages and the REST endpoints read the same clan rows and
decide separately what a player may do; the SOAP service looks one row up. Reports of a match come from all its
players as separate requests and meet in the rows of the match.

## 2. Modules

In the order of the plan, the most important behaviour first.

| Module | Models | How it is put together |
|---|---|---|
| `PortLeases` | the abstract lessor of port pairs: one holder per pair, active or not | abstract specification |
| `RelayServer` | pool, routes, listeners, lock queue, clean-up task, datagrams | implements `PortLeases` |
| `NatNegRelay` | attempts, modes, reservation, both clean-up loops | `EXTENDS RelayServer`, whose actions it composes with its own |
| `NatNegSessions` | INIT, announcement, CONNECT, acknowledgement, expiry | on its own |
| `Peerchat` | nicknames, channels, connections, topics and modes, WHO and NAMES | on its own |
| `PeerchatLock` | the Peerchat lock between loop and ping thread | component of `FeslMemcheck` |
| `FeslMemcheck` | the MemCheck thread, its lock, the FESL connections | `EXTENDS PeerchatLock`: two threads and two locks on one loop |
| `FeslLogin` | the FESL handlers and the context they share | component of `GpServer` |
| `GpServer` | the GP login, presence, buddies | `EXTENDS FeslLogin` |
| `GameStats` | the GameStats login and statistics | `EXTENDS GpServer`: three servers and one table of tickets |
| `AuthService` | the certificates that reports of matches bear | `EXTENDS GameStats`: what a ticket says is kept past the ticket |
| `Competition` | sessions, reports, ratings, finalization commit by commit | on its own |
| `Accounts` | registration, login tokens, personas | component of `Clans` |
| `Clans` | memberships, the endpoints, what the pages offer | `EXTENDS Accounts` |
| `MasterServer` | heartbeats, registry, queries in pieces, restarts | on its own |

The `_proofs` modules hold the theorems about the module they are named after and about those it
is composed of: `NatNegRelay_proofs` those about `RelayServer`, `AuthService_proofs` those about `FeslLogin`,
`GpServer` and `GameStats`.
The `MC` modules declare the model values and symmetries for TLC. A
definition whose comment begins with *Mutant* is a version of the definition after it
with a plausible mistake; it is used by no specification and shows that a property
can fail.

### How state and actions correspond to the code

*RelayServer.* `allocated` is `PortPool._allocated`, `routes` is `_routes` keyed by the
first port of a pair, `transports` the keys of `_transports`, `queue` the holder and the
waiters of `_lock`. Each member of `Calls` is one call of `allocate_route` and names the
RelayRoute object it makes. `Call` finds the lock free or queues; `ListenA` and `ListenB`
are the two awaits of `create_datagram_endpoint`; `ListenFails` is the `except` branch
with everything it undoes; `SweepNow`, `SweepWaits`, `SweepCollects` and `SweepReleases`
are the clean-up task, which collects stale routes under no lock and then releases them
one at a time; `Release`, `ReleaseWaits`, `ReleaseWakes` are `release_route` by another task;
`Datagram` is `datagram_received`, which registers the first sender of each port.

*NatNegRelay.* `attempts`, `ports` and `oldPairs` are the PairAttemptInfo objects; `slock` is
the lock of NatNegSessionManager. `SessionReady`, `Count`, `Reserve`, `Connect` and
`RelayStep` are the pieces of `_on_session_ready` between its awaits; `ReleaseEntry` is the
loop body of the natneg clean-up, which looks a route up by port and releases it if it is stale.

*NatNegSessions.* An object of `Objects` is one NatNegSession. `Register` is
`register_client` with its early returns; `SessionReady` is what `_delayed_session_ready`
does after its sleep; `ConnectAck`, `CleanupExpired` are the handlers of these names.

*Peerchat.* `clients` is `irc_clients`, by nickname; channels keep nicknames, not
connections, as in `IRCChannel.users`, `.operators` and `.user_stats`. `TimesOut` sets
`client.connected` to false in the ping thread and schedules `cleanup_client`
(`CleanupRuns`); `Ends` is the handler task that leaves its loop and cleans up once more.

*PeerchatLock.* `lock` is the holder of `irc_clients_lock`, `blocked` the task that called
`acquire` on the loop's own thread while it was taken: from then on nothing on the loop
runs until `Unblock`. `Look`, `Pinged`, `PingTimesOut`, `EndRound` are the ping thread.

*FeslMemcheck.* `table` is `fesl_clients`; `checking` says whether the thread has
`fesl_clients_lock`, which it keeps for a round. `ConnectionMade` and `ConnectionLost` take that
lock on the loop and stop it (`blocked = Fesl`) if the thread has it. `Ask`, `Checked`,
`CheckTimesOut` and `EndCheck` are the thread, `SendMemcheck` the coroutine it puts on the loop.

*Competition.* `request` is the SubmitReport in progress and the commit it has reached; `CutOff`
ends it between two commits. `stats` keeps wins, losses, rated games and the rating. The
logistic curve is tabulated at differences of whole hundreds of points, straight between them and flat from 800 on.
Its values are an odd number of twenty-thousandths, except for equal ratings, so that no change of a rating is
exactly a half and it does not matter which way `round` takes one. In the code none is a half either: `10 ** (d / 400)` is
rational only where `d` is a multiple of 400, and there `1 / (1 + 10 ** n)` times a K-factor of 40, 20 or 10 is no half.
A rating step is computed from the opponents' ratings of that moment, as in `finalize_match`.

*Accounts and Clans.* `logins` are the tokens ever given out: `active` until logout, `fresh` until
expiry. A request that commits several times leaves what is left to do in `request`, and
`CutOff` ends it there. `CurrentUser` is `get_current_user`. `membership` is the table
`clan_membership`. `MayCreate`, `MayJoin`, `MayDecide`, `MayLeave`, `MayKick` and `MayPromote` are what the endpoints ask
before they change it; `CreatePage` and `DetailPage` are the forms and buttons that the pages show an account, and `Shown` is the
`user_membership` that the panel of `clan_detail_page` goes by: one row for all personas of the account.

*MasterServer.* `game_sessions` is the table of heartbeats by client, `registry` the table that queries
read. `net` holds the datagrams that are on their way, which may be taken again or
never; `seen` is the newest heartbeat of a host that arrived. `wire` and `buffer` are the bytes of the queries that have
not been read and not been understood yet; `Size` is the length of a query. `GameQuery(g)` is the filter of the game's own
query for the games of group g (`docs/MASTER_SERVER.md:97`), `CurrentMatches` the page of matches, which shows the games of all groups. A heartbeat of a host in
`BlankPort` may lack its port, and fails after it has changed the first of the two tables.

*FeslLogin, GpServer, GameStats and AuthService.* `context` is the dictionary of `client_data_var`. `sessions`,
`tickets`, `rows`, `friends` and `requests` are database tables; `active` and `found` are
`SessionManager.active_users` and `.users_by_persona`; `shown[g][p]` is the last status of a
persona that connection g was sent. In `GameStats`, `opened` is the ticket behind `user_id` and
`persona_id`, `known` that the connection was sent statistics and `stats` the ticket under which
a row was written last. `LoginRemoteAuth` is `auth_handler` for a ticket that names any account and persona, since it is decoded and never
looked up, and `certificates` is `_profile_certificates`, of
which only the account named is kept.

## 3. What the runs check

| Run | Instance | Shows |
|---|---|---|
| `relay` | 3 calls, 1 other releaser, ports 1024..1028, 2 endpoints | pool, table and listeners agree and peers can be reached (`RelayState`); refinement of `PortLeases` |
| `natneg_relay` | 2 sessions over 2 pairs, 1024..1027 | one allocation at a time, a pair keeps its ports; sessions connect, calls return, idle routes go |
| `natneg_sessions` | 2 cookies, port types 1 and 3, 3 objects | one announcement, completion means both got a CONNECT (`SessionsState`), game ports only; expiry; ordered INITs lead to CONNECTs |
| `peerchat` | 3 connections, 2 nicknames, 1 lobby | channel data, one operator, lobby lifetime, nickname table |
| `peerchat_polite` | 3 connections, 3 nicknames, lobby and room, no renaming or silence | a broadcast, NAMES and WHO all show exactly the members |
| `peerchat_stuck` | 3 clients, one slow | the loop is stopped by its own task |
| `event_loop` | 2 Peerchat clients, one slow and quiet, 2 FESL connections, both threads | locks and tables agree; a stopped loop runs again |
| `login` | 2 players, 2 personas, 2 sessions, 2 tickets, 2 GP connections, 1 GameStats connection | personas owned, tickets used once, presence true, statistics under tickets, certificates of the owner |
| `fesl_shared` | the same | a ticket for somebody else's account |
| `competition` | 1 match of 2, 3 reports, cut-offs, ratings 100 and 500, 29 games before | counted and rated once, for the right side, for both, for every reporter |
| `portal` | 2 accounts, 3 persona names, 2 logins, 2 clans, cut-offs | one leader per clan, what a page offers the endpoints take, only owner or leader changes a membership |
| `master` | 2 hosts, 2 groups, 2 numbers, 2 queries of 3 pieces, 1 restart | the tables agree, answers are in order and true, the latest heartbeat is listed |

### Bounds and why they are enough

- *Relay.* Ports 1024..1028 give two pairs and an odd port that belongs to none. Three calls
  for two pairs make the pool full, the lock contended and a pair reused while an older object of
  it is still held by a releaser. Each object is released at most by the clean-up task and one
  other task, the two that exist in the code.
- *NAT fallback.* Two pairs and two sessions let both be of one pair or of two. `InitialAttempts`
  starts a pair at 0 or 2 attempts, so that two sessions reach LAN as well as relay mode without
  a run of all attempts. Two port pairs; the full pool is reached since routes stay after a pair has gone.
- *NAT sessions.* Type 1 is the one a CONNECT needs, type 3 the other that makes a client
  ready; 0 only probes and 2 is a second game port, which adds states and no step of its own. Three objects let a cookie
  expire and be registered again while the other cookie is live.
- *Peerchat.* Two names for three connections force take-overs; the behaviour of channels is the
  same for each channel, except for the deletion of empty lobbies.
- *Locks.* Two clients suffice for a broadcast from one to the other while the ping thread waits;
  three are needed for a task that suspends in a send and another that takes the lock.
- *Competition.* Three reports of two players include a repeated one; `Cut` may end any request at
  any commit. `MaxLost` allows one report of a session that the server never created. Ratings of 100
  and 500 put one player on the floor and a step of the curve apart from the other; 29 earlier games
  are one short of the change of the K-factor. All players have equally many of them (`Earlier`): a newcomer against a veteran, whose K-factors
  differ (Example 1 of `docs/ELO_AND_RANKINGS.md`), is outside, and there one does not lose what the other gains.
- *Login.* `MaxLogins` and `MaxTickets` are bounds on the rows; two of each are enough to
  interleave two players and to present one ticket on two connections of GP, or of GP and GameStats.
  Two GameStats connections are not in the instance; the theorem `TicketsHaveOneUse` covers any number.
- *Portal.* Three personas of two accounts give a clan a leader, a member and an applicant, of one
  account or of two; two clans let a persona move. Two logins allow a token that is dead beside one that is not.
- *Master server.* The hosts differ in what the network does to them: the datagrams of `near` keep their
  order, those of `far` overtake each other and may lack address and port. `MaxNumber` counts heartbeats with
  new contents per host; each is repeated without bound. A packet of three pieces is cut at every place.
- *Event loop.* One Peerchat client that can be slow or silent and one that cannot, and a connection that comes
  or goes while the other is checked.

`CHECK_DEADLOCK FALSE` stands where a bound ends the behaviour (no call, no report, no
ticket is left) and is not used for `relay` and `peerchat`, where something can always happen.

### Fairness

- The event loop runs every task that can go on: weak fairness of the steps of a call
  and of a session, and of the clean-up loops, which sleep for a fixed time and wake again.
  `asyncio.Lock` wakes its waiters in order, so the queue needs no fairness of its own.
- `create_datagram_endpoint` returns or raises; both are steps of a call.
- A client repeats an INIT until it is acknowledged, so an INIT that is *missing* arrives in the
  end. Nothing is assumed of the order; only the cookies of `Ordered` have their INITs in order.
- In `FeslMemcheck` the blocked acquire has strong fairness: each thread sleeps 60 s between its
  rounds, in which its lock is free. A peer that does not read is never assumed to read again.
- In `MasterServer` a host whose game is open repeats its last heartbeat, so that one of the repetitions
  arrives in the end (`LatestArrives`); nothing is assumed of the hosts whose datagrams overtake each other.
- Clients, new sessions, connection losses and time-outs have no fairness.

## 4. What is proved

For every value of the constants, under the named assumptions of the modules only.

| Module | Theorems about checked properties |
|---|---|
| `NatNegRelay_proofs` | `RelayState`, `LeasesSpec`, `NatNegState`, `PairKeepsPorts` |
| `NatNegSessions_proofs` | `SessionsState`, `PeerIsGamePort` |
| `Peerchat_proofs` | `PeerchatState`, `ChannelData`, `OneOperator`, `NickTable`, `ChannelViews` |
| `FeslMemcheck_proofs` | `LoopState` |
| `AuthService_proofs` | `GsTypeOK`, `SessionOwnsPersona`, `PresenceIsTrue`, `TicketHasOneUse`, `StatsFollowTickets`, `CertificatesAreTrue` |
| `Competition_proofs` | `CompetitionTypeOK`, `CountedOnce`, `EveryoneIsCounted`, `WinsAreTrue`, `OpponentsAgree`, `RatingsMirror` |
| `Clans_proofs` | `PortalTypeOK`, `ClansAreLed`, `OffersAreTaken`, `OnlyOwnerOrLeader` |
| `MasterServer_proofs` | `TablesAgree`, `AnswersInOrder`, `AnswersAreTrue` |

**Relay** (`NatNegRelay_proofs`; `RangeAssumption`, `TasksAssumption`, `NoneAssumption`: a port
range within 1024..65535, distinct tasks, a value that is none of them). The safety properties
are not inductive alone: that a pair without a route has no listener depends on the call that
is setting it up being the one that holds the lock, and on the queue not losing that holder.
`RelayInv` therefore joins `TypeOK`, `PoolMatchesRoutes`, `ListenersMatchRoutes`,
`PeersAreReachable` with `SetUpHoldsLock` and `RouteObjects`, which says what objects, table
and the tasks' hands have in common. There is one lemma per action; `PairsDisjoint` is the
arithmetic of the port pairs and `TailIsQueue` and `QueueingKeepsHolder` the lock queue.
`RelaySafety` gives the invariant, `RelayStateHolds` the property of the run, others its parts, `ReuseThroughPool`
the action property and `ImplementsLeases` the refinement: initial states map to initial states
of `PortLeases` and each step to one of its steps or a stutter.

**NAT fallback** (`NatNegRelay_proofs`; `NatnegAssumption` besides). By the way it is composed, a step of the
composition is a step of the relay or leaves it alone (the lemma `NatNegBehavesAsRelay`), so that `RelayInv` holds here too (`RelayStateUnderNatNeg`).
`NatNegInv` adds `RelayTasks`: a session that is inside `allocate_route` holds the session lock, its pair is tracked
and has no ports yet. That makes allocations one at a time (`NatNegStateHolds`), and a session that
comes back from the relay writes its ports where there are none (`PairsKeepTheirPorts`).

**Competition** (`Competition_proofs`; `CompetitionAssumption`). `StateInv` adds to the types that a request finalizes only
a session that is not finalized, that it has reports left exactly while it updates, and that everyone who sent a report has a
first one. That the average of the opponents' ratings is a number rests on sums over finite sets, for which induction is
done by hand: `SmallestSubset` gives the smallest subset for which a claim fails (`AddsExists`, `SumIsNat`).
The statistics are not inductive by themselves, since a match is credited in many steps. A player is therefore *owed* a
result, or a rated game, while the request has not reached his first report (`Wins`, `Losses`, `Games`): what he has and is
owed stays the same in every step (`AccountsBalance`, `QuietBalances`) except when finalizing begins (`BeginsOwes`) and when it is
cut off (`StopsOwesNothing`); `StepKinds` shows that there are no other steps. `CountsOK`, `WinsOK` and `AgreeOK` say of
these sums what `CountedOnce`, `WinsAreTrue` and `OpponentsAgree` say of the statistics, and `EveryoneOK` is `EveryoneIsCounted`
reporter by reporter. `TruthOK` says that every first report is true if the oldest one of its match is.
`StatisticsAreTrue` has the hypothesis `Readable` and `OpponentsMirror` those of a ladder of two and of readable reports. They are needed:
an unreadable report, and an unnamed one among more than two players, is stored as a win whatever happened (section 6).
`RatingsMirrored` is about a ladder of two again. `RatesOK` follows a ranked match while it is counted: the two ratings noted
before it have the sum the ladder began with, and what a player has now is that rating or already the one `NewElo` gives
him against the other's. `NewElosMirror` is the arithmetic: two chances add up to one (`ExpectedScoresAddUp`) and, as no change is a
half (`NoHalves`), rounding one gain and the other loss keeps the sum (`RoundedMirrors`). The hypothesis on `Ratings` is there
because the sum is lost once the floor of 100 is reached or a player of 2400 gets a K-factor of his own: the players may
win or lose 40 points in each match without coming there (`InRange`). The theorem says more than the property: whenever no
request is at work, the sum is what it was at the start. Ratings at the floor are in the run, where
`RatingsMirror` has one match to hold for.

**Peerchat** (`Peerchat_proofs`; `NamesAssumption`). `ChatInv` is the conjunction of the
checked invariants. `NickTable` is needed to know what a second clean-up takes out of the table, and
`ChannelData` needs `LobbiesHaveUsers` for a lobby that is deleted and made again. `ViewsAgree` has the hypothesis `Polite`: no client asks for a name after its
first one, joins without a name or leaves its PINGs unanswered. It is what the run `peerchat_polite` sets
its constants to, and without it `ChannelViews` is false (`NicknamesUnique` and `EmptyLobbiesGo` in section 6 say how). `PoliteInv` then
says that a connected client is found under its name, and that the users of a channel are the names of those whose
tasks have joined it; one lemma shows that two connected clients never have one name (`NamesAreTaken`).

**NAT sessions** (`NatNegSessions_proofs`; `SessionsAssumption`). `SessionsInv` adds to `SessionsState` which object of a
cookie is the one in the table (`CookieOK`: it is that one or an old one), that an announced session has port
type 3 of both clients (`AnnouncedOK`), and that, while no session of its cookie is old, an acknowledgement
is one of a client that this very session sent a CONNECT (`AckedOK`). `BestIsGamePort` shows that the
port chosen for a CONNECT is never that of a probing type.

**Event loop** (`FeslMemcheck_proofs`; `LockAssumption`, `PeersAssumption`). `LoopState` lacks only the types of three
variables and the fact that a connection whose callback stopped the loop has been made; without
it the callback could enter one that does not exist. `ChatKeeps` is the part about the Peerchat lock:
whatever handlers and ping thread do, they never set or clear the stop of the FESL side.

**Login** (`AuthService_proofs`; `LoginAssumption`, `ConnsAssumption`, `StatsConnsAssumption`). `LoginInv` joins the checked
invariants with three facts. `ContextKey`: the key in the shared dictionary is that of a session of
the dictionary's user, so whoever selects a persona does it for the right row, though perhaps on
behalf of another connection. `TicketsMarked`: a ticket that opened a session is marked.
`PlayersHaveKeys`: persona and session key are set and cleared together. `StatsInv` carries all of it over to
the composition, where spending a ticket on GameStats is one more step that must keep the facts of GP
(`OthersKeepInv`, `AuthPKeepsInv`). That `AuthService` only adds a variable to the other three (the lemma `AuthImplementsGs`) carries it on, and
`CertificatesAreSound` needs that a persona never changes its account once it has one. What the shared
dictionary breaks (section 6) is whom a ticket is for, not who owns the persona in it.

**Clans** (`Clans_proofs`; `ClansAssumption` and the assumptions of `Accounts`). That a clan with members has one
leader is not inductive: between the two commits of `create_clan` the clan exists with nobody in it.
`FoundingOK` says that it stays empty, and its founder clanless, until the second commit. `Led` says `ClansAreLed`
without counting. `OneRowChanges` and `FollowersMove` are the lemmas about a membership row that changes; `FounderOwns` adds,
for the action property, that a founding request has the persona's owner behind it. `PagesAreHonest` rests on the
rows: the pages ask whether a persona's clan is there, the endpoint whether it has a row, which is the same as long as every row
has its clan (`FreeHasNoRow`), and a panel that goes by one row must not be let down by the others.

**Master server** (`MasterServer_proofs`). `TablesInv` is `TablesAgree` entry by entry, with the types and with the fact
that only the hosts of `BlankPort` send heartbeats that cannot be read; the case that matters is such a
heartbeat, which fails between the two tables (`HeartbeatKeepsInv`).
`StreamInv` is the invariant of a TCP connection: buffer and unread bytes together are the packets of exactly the queries
without an answer, in their order (`Carries`), the buffer is shorter than a packet, and the answers are those to the first queries.
`Split`, the loop that takes packets from the buffer, is a recursive function of the bytes. A proof by
induction over data is out of reach, so `SplitsExist` builds functions that do for all buffers up to some length, which
gives the equation (`SplitTakes`), and `AllPacketsAreTaken` is shown by the smallest counterexample (`LeastNumber`).
`QueriesAnsweredTruly` adds `NumbersInv`: a number stands for one announcement of its host (`AnnounceKeepsNumbers`,
`NextKeepsNumbers`), so that an entry of the registry, and the newest heartbeat to have arrived, can be held against what the host said (`EntrySays`). `ConditionsOfGame` works out what the two conditions of `GameQuery` ask of a game, for any mode
and group; a mode the page has no word for is there under its own name, and is no *closedplaying* either.

**Only model-checked.** All liveness (`ReadySessionsConnect`, `CallsReturn`, `IdleRoutesGo`, `ExpiredGo`,
`BothGetConnect`, `LoopRunsAgain`, `LatestIsListed`), because fairness and ENABLED are outside what the proof system
handles, and `RatingsMirror` for ratings near the floor or of elite players, where the sum may rightly change, as it may between players with different numbers of earlier games. Every other
property of a passing run is a theorem, each under the hypotheses named above. No module declares a RECURSIVE operator.

## 5. Properties

The ones to know first:

- `RelayState` and `LeasesSpec`: no failure, double release or interleaving leaves a port open without a
  route or gives one pair to two calls. `datagram_received` indexes the transports by the peer's port; while a
  route is being set up one of the two is missing, and no datagram may reach that case.
- `NatNegState`: because the session lock is kept over the relay call, the relay's own lock
  is never contended by two allocations.
- `SessionsState`: repeated INITs never count as a second attempt, and a session is kept for good only if both sides
  know each other.
- `ChannelData` and `NickTable`: nicknames are keys, so a take-over must not inherit operator status
  or keys, and a clean-up that runs late must not leave a wrong entry.
- `ChannelViews`: the three ways to see a channel (messages, NAMES, WHO) go over different tables.
- `LoopState` and `LoopRunsAgain`: two threads keep locks that the event loop takes without a limit, while they
  wait for that loop with one.
- `CountedOnce`, `EveryoneIsCounted`: at most once per match and, if two have reported, everybody
  before it is marked, with requests that break off at any commit (each may add one repetition).
- `WinsAreTrue`, `OpponentsAgree`, `RatingsMirror`: what is credited follows the first stored report, each win of one opponent
  is a loss of the other, and what one gains in rating the other loses, with the exceptions the code has.
- `TicketHasOneUse`: one row, two servers that consume it, any number of connections.
- `CertificatesAreTrue`: tickets come from a shared dictionary and a certificate is kept for good, so one wrong
  ticket would be remembered; the comparison of account and persona is all that prevents it.
- `ClansAreLed`: leadership is a number in a row, which hand-overs, kicks and a founding in two commits have to keep in one place.
- `OffersAreTaken`: pages and endpoints read it each in their own way. A page may offer less than the endpoints allow (section 6), never
  what they refuse.
- `AnswersAreTrue`: two readers of the registry, the filters of a query and the page of matches, see the same games.
- `OnlyOwnerOrLeader`: a membership changes only for a token that is alive and an account that may do it.
- `TablesAgree`, `LatestIsListed`: the two tables of the master server under every order of datagrams.

## 6. Where the code differs from what it says

Shown by a run:

- *`peerchat_stuck`.* `broadcast_to_channel` keeps a `threading.Lock` over its awaits. If one receiver's
  buffer is full and another task takes the lock, the loop stops itself.
- *`fesl_shared`.* The context variable of FESL is never set, so all connections share its default.

Stated in a module, not checked by a run. Each can be put in place of the invariants of the configuration named:

- `RelayPortsAreLive` (`NatNegRelay.cfg`, with `NatNegSpec`): the ports kept for a pair are handed out again after
  the relay has released their route; `docs/RELAY.md:17` calls the relay a guaranteed fallback.
- `OnlyIdleRoutesGo` (`NatNegRelay.cfg`): staleness is decided before the lock is waited for and not
  looked at again.
- `NicknamesUnique` (`Peerchat.cfg`): a client that times out is cleaned up by the ping thread's task and,
  when its read returns, again by its own; if somebody took its nickname in between, the second clean-up
  removes the new owner's entry, and a third client gets the nickname of a connected one.
- `EmptyLobbiesGo` (`Peerchat.cfg`): a client that joins without a name, or renames after joining, leaves its
  old name in the lobby, which then never becomes empty.
- `TimedOutConnectionsEnd` (`Peerchat.cfg` with `FairSpec` and no symmetry): closing a dead connection does not
  wake its reader.
- `AnnouncedGetConnect` (`NatNegSessions.cfg`, with `Types = {0, 1, 2, 3}`): a session is announced when port type 3 of
  both clients is there; after the delay the CONNECT to a client whose type 1 is late is dropped, and no
  later INIT repairs it.
- `ReportersAreCounted` (`Competition.cfg`): a final report that arrives before the other player's finalizes the match
  with one reporter and counts it for nobody; the other report is then ignored.
- `SessionsKeptAlive` (`FeslMemcheck.cfg`): a connection that is made or lost during a MemCheck round stops the
  loop; the MemChecks that wait then time out, and the round closes connections that answer
  (`fesl_server.py:312` says that it keeps sessions alive). The PINGs of Peerchat time out with them.
- `OnlyUnfitRemoved` (`PeerchatStuck.cfg`): while the loop is stopped the ping thread times out on healthy clients
  and disconnects them.
- `DisconnectsAreStored` (`Competition.cfg`): a result of 3 is never stored, so the disconnect multiplier of
  `docs/ELO_AND_RANKINGS.md:49` is never applied.
- `MembersMayLeave` (`Clans.cfg`): `docs/ui/WEB_PORTAL.md:86` lets a member leave from the clan's page. Of an account with
  several personas the page looks at the last one that has a row (`web/routes.py:400-415`), and shows no button if that one has applied or is in
  another clan. For the same reason such an account gets no form to join with (`:84`), though the endpoint takes its free persona.
- `LoggedInIsFound` (`AuthService.cfg`): a player who reconnects before the old connection is closed cannot be found
  after it is, as `unregister_user` removes the persona whoever has it.

Seen while reading and modelled as the code does it: `docs/NATNEG.md:159` and `:209` send the CONNECT
to four port types, the code to type 1 only; the progressive fallback counts sessions that become
ready, not failures, so two sessions of one pair side by side are both told LAN addresses; a completed NAT session is
never removed; an expired session leaves entries in `_client_endpoints`, which nobody reads;
unnamed final reports that come first, and unreadable ones, are stored as wins; a login that fails after the ticket has been looked
up has consumed it; a lost GP connection tells no buddy and leaves its row active. Further:

- *Ratings.* The first report of a player without a ladder row starts from 1200. The disconnect penalty is never
  reached, since no stored result is 3.
- *Registration.* `models.py:76` calls the display name unique; registration does not look. A registration that is cut off
  leaves its user, and can never be repeated under that name.
- *Clans.* A clan whose creation is cut off keeps its name and tag for ever; those who apply to it stay applicants
  until they leave.
- *Master server.* Nothing expires: a lost farewell leaves a game listed for ever, and a heartbeat that overtakes the
  farewell lists it again. In filters `<=` and `>=` are read as `<` and `>` with a value that begins with `=`, so
  that the first accepts all games and the second none; OR is treated as AND (`query_master_parsing.py:108` says
  "supporting both AND and OR"). A listed game with an empty `localip0` makes every list that has it fail. Clients whose
  ids collide overwrite each other.
- *GameStats.* `setpd` writes back what the game computed from an earlier `getpd`; what a finalized match added in
  between is lost.
- *Certificates.* A comment (`soap/auth_service.py:147`) says that they are kept by profile, user and nickname, to be made
  again if one of them changes; the key is the profile alone. The service looks no ticket up: what it is shown is
decoded and compared with the account's personas. Nothing renames or moves a persona, so no run shows a difference.
- *FESL.* `data_received` takes each read for one packet.
- *Peerchat.* The MODE of a lobby is refused to nobody, although the docstring asks for an operator.

## 7. What is not modelled

Sake answers each request in one transaction: there is nothing between two steps to check. Of a certificate only the
account it names is modelled, and the functions that store certificates (`crud.py:1207-1255`) are called by nothing. Ciphers, challenges, packet formats and parsers are covered by the repository's unit tests, and no
property here is about them, except for the filters of game lists. `RelayServer.stop` runs at shutdown only. Of Peerchat, registration
(USER, PASS, CDKEY, CRYPT), user modes and messages to one nickname are left out, and the suspension of sends is
in `PeerchatLock` only; a task that changes a channel while a broadcast is suspended sends to that channel
next and meets the lock (run `peerchat_stuck`). Of GP, invites and
profiles are left out, and a second login on a connection that is logged in, which the game does not do. The
expiry of tickets (a time limit) is left out: it only refuses more. The SOAP look-up of a persona's clan and the lists of
clans read what `Clans` keeps and decide nothing. Packets to the master server are well formed: a length of 0, which `_process_packet`
(`query_master_tcp.py:295-304`) never gets past, is outside. Of the web, the leaderboard shows what `Competition`
keeps, and `login_for_access` gives out tokens nothing reads. Counters per game type, average length and win ratio of
`PlayerStats` are sums that `Competition` keeps together or leaves out. The C++ proxy and
the C# launcher have no state worth a model except the forwarding threads of ProxySSL.

## 8. Plan

1. `ChatRoom`: an abstract room (members, operator, keys) that `Peerchat` implements for clients
   that do not rename, with the refinement proved from `PoliteInv`.
2. Sends that suspend in `Peerchat`: a broadcast as one step per receiver.
3. `ProxyForwarding`: the two threads of ProxySSL and how they end.
4. Matches of four and two ladders in `Competition`, once its states can be kept few.

## 9. Running

    tlc -workers 4 -config RelayServer.cfg MCRelayServer.tla
    tlapm NatNegRelay_proofs.tla

Every configuration is named after the module it instantiates or the behaviour it shows; each run
takes three minutes at most. `PROJECT.json` lists runs, mutants, hazards and theorems, and maps each
definition to the lines of source it models.
