---- MODULE RelayServer ----
(***************************************************************************)
(* The UDP relay: its port pool, its table of routes, the listeners of the *)
(* routes, the asyncio.Lock that serialises allocate_route, release_route  *)
(* and the clean-up task, and the datagrams that come in at any moment.    *)
(*                                                                         *)
(* A call of allocate_route makes at most one RelayRoute object, so the    *)
(* call also names the object.  The head of "queue" holds the lock, the    *)
(* rest of it waits in the order of arrival (asyncio.Lock is FIFO).  A     *)
(* lock that is free is taken without giving up control, so an operation   *)
(* that finds it free runs on in the same step.                            *)
(*                                                                         *)
(* Time is abstracted: "stale" holds the routes with no activity for       *)
(* longer than session_timeout; a route that is not refreshed can become   *)
(* stale at any moment.                                                    *)
(***************************************************************************)
EXTENDS Integers, Sequences

CONSTANTS PortStart, PortEnd, \* the configured port range
          Calls,              \* the calls of allocate_route
          Releasers,          \* the tasks, other than the clean-up task, that call release_route
          Endpoints,          \* the client addresses datagrams come from
          Sweeper,            \* the clean-up task
          None                \* no route, no endpoint, no port

ASSUME RangeAssumption == /\ PortStart \in Nat
                          /\ PortEnd \in Nat
                          /\ PortStart >= 1024
                          /\ PortStart < PortEnd
                          /\ PortEnd <= 65535

ASSUME TasksAssumption == /\ Sweeper \notin Calls \cup Releasers
                          /\ Calls \cap Releasers = {}

ASSUME NoneAssumption == /\ None \notin Calls
                         /\ None \notin Endpoints
                         /\ None \notin Int

Tasks == Calls \cup Releasers \cup {Sweeper}

\* Mutant: range(port_start, port_end + 1, 2).
FirstPortsToTheEnd == {p \in PortStart..PortEnd : (p - PortStart) % 2 = 0}

\* The first ports of the pairs the pool hands out: range(port_start, port_end, 2).
FirstPorts == {p \in PortStart..(PortEnd - 1) : (p - PortStart) % 2 = 0}

PortsOf(f) == {f, f + 1}
Ports == UNION {PortsOf(f) : f \in FirstPorts}
FirstOf(p) == IF p \in FirstPorts THEN p ELSE p - 1

VARIABLES allocated,  \* PortPool._allocated
          routes,     \* RelayServer._routes by first port: the call that made the route, or None
          transports, \* the ports with an open listener, the keys of RelayServer._transports
          queue,      \* RelayServer._lock: the holder, then the waiters
          pc,         \* where each call of allocate_route is
          portA,      \* RelayRoute.port_a of the route object of each call
          client,     \* client[c][p]: the endpoint the route of c has registered for its port p
          stale,      \* the routes idle for longer than session_timeout
          sweeper,    \* where the clean-up task is
          pending,    \* the routes it has found stale and not released yet
          holding     \* holding[r]: the route releaser r waits to release

allocVars == <<allocated, routes, transports>>
taskVars == <<sweeper, pending, holding>>
vars == <<allocated, routes, transports, queue, pc, portA, client, stale, sweeper, pending, holding>>

\* Task t holds RelayServer._lock.
Holds(t) == queue # <<>> /\ Head(queue) = t

\* The routes in the table.
Live == {c \in Calls : portA[c] # None /\ routes[portA[c]] = c}

\* Mutant: only routes with both clients registered are looked at.
StaleReadyRoutes == {c \in stale \cap Live : \A p \in PortsOf(portA[c]) : client[c][p] # None}

\* The routes is_stale answers True for.
StaleRoutes == stale \cap Live

\* The state stays well typed and the pool inside the configured range, also
\* when the range has an odd number of ports.
TypeOK ==
  /\ allocated \subseteq Ports \cap PortStart..PortEnd
  /\ routes \in [FirstPorts -> Calls \cup {None}]
  /\ transports \subseteq Ports
  /\ queue \in Seq(Tasks)
  /\ pc \in [Calls -> {"new", "waiting", "listenA", "listenB", "returned", "failed"}]
  /\ portA \in [Calls -> FirstPorts \cup {None}]
  /\ client \in [Calls -> [Ports -> Endpoints \cup {None}]]
  /\ stale \subseteq Calls
  /\ sweeper \in {"idle", "collect", "release"}
  /\ pending \subseteq Calls
  /\ holding \in [Releasers -> Calls \cup {None}]

Init ==
  /\ allocated = {}
  /\ routes = [f \in FirstPorts |-> None]
  /\ transports = {}
  /\ queue = <<>>
  /\ pc = [c \in Calls |-> "new"]
  /\ portA = [c \in Calls |-> None]
  /\ client = [c \in Calls |-> [p \in Ports |-> None]]
  /\ stale = {}
  /\ sweeper = "idle"
  /\ pending = {}
  /\ holding = [r \in Releasers |-> None]

-----------------------------------------------------------------------------
(* allocate_route *)

FreePairs == {f \in FirstPorts : PortsOf(f) \cap allocated = {}}

\* PortPool.allocate_pair and the rest of allocate_route up to its first
\* suspension, with q the lock queue c is the head of.
Allocate(c, q) ==
  \/ /\ FreePairs = {}
     /\ pc' = [pc EXCEPT ![c] = "failed"]
     /\ queue' = Tail(q)
     /\ UNCHANGED <<allocated, routes, portA>>
  \/ \E f \in FreePairs :
       /\ \A g \in FreePairs : f <= g
       /\ allocated' = allocated \cup PortsOf(f)
       /\ routes' = [routes EXCEPT ![f] = c]
       /\ portA' = [portA EXCEPT ![c] = f]
       /\ pc' = [pc EXCEPT ![c] = "listenA"]
       /\ queue' = q

Call(c) ==
  /\ pc[c] = "new"
  /\ queue = <<>>
  /\ Allocate(c, <<c>>)
  /\ UNCHANGED <<transports, client, stale, taskVars>>

CallWaits(c) ==
  /\ pc[c] = "new"
  /\ queue # <<>>
  /\ queue' = Append(queue, c)
  /\ pc' = [pc EXCEPT ![c] = "waiting"]
  /\ UNCHANGED <<allocVars, portA, client, stale, taskVars>>

CallWakes(c) ==
  /\ pc[c] = "waiting"
  /\ Holds(c)
  /\ Allocate(c, queue)
  /\ UNCHANGED <<transports, client, stale, taskVars>>

\* create_datagram_endpoint for port_a returns; binding a port that is open fails instead.
ListenA(c) ==
  /\ pc[c] = "listenA"
  /\ portA[c] \notin transports
  /\ transports' = transports \cup {portA[c]}
  /\ pc' = [pc EXCEPT ![c] = "listenB"]
  /\ UNCHANGED <<allocated, routes, queue, portA, client, stale, taskVars>>

ListenB(c) ==
  /\ pc[c] = "listenB"
  /\ portA[c] + 1 \notin transports
  /\ transports' = transports \cup {portA[c] + 1}
  /\ pc' = [pc EXCEPT ![c] = "returned"]
  /\ queue' = Tail(queue)
  /\ UNCHANGED <<allocated, routes, portA, client, stale, taskVars>>

\* started_ports when the second or the first listener cannot be started.
StartedPorts(c) == IF pc[c] = "listenB" THEN {portA[c]} ELSE {}

\* Mutant: the route of a failed call stays in the table.
ListenFailsKeepsRoute(c) ==
  /\ pc[c] \in {"listenA", "listenB"}
  /\ transports' = transports \ StartedPorts(c)
  /\ allocated' = allocated \ PortsOf(portA[c])
  /\ pc' = [pc EXCEPT ![c] = "failed"]
  /\ queue' = Tail(queue)
  /\ UNCHANGED <<routes, portA, client, stale, taskVars>>

\* Mutant: the lock is not given back when a listener cannot be started.
ListenFailsKeepsLock(c) ==
  /\ pc[c] \in {"listenA", "listenB"}
  /\ transports' = transports \ StartedPorts(c)
  /\ allocated' = allocated \ PortsOf(portA[c])
  /\ routes' = [routes EXCEPT ![portA[c]] = None]
  /\ pc' = [pc EXCEPT ![c] = "failed"]
  /\ UNCHANGED <<queue, portA, client, stale, taskVars>>

\* Either listener cannot be started (OSError): what was started is undone.
ListenFails(c) ==
  /\ pc[c] \in {"listenA", "listenB"}
  /\ transports' = transports \ StartedPorts(c)
  /\ allocated' = allocated \ PortsOf(portA[c])
  /\ routes' = [routes EXCEPT ![portA[c]] = None]
  /\ pc' = [pc EXCEPT ![c] = "failed"]
  /\ queue' = Tail(queue)
  /\ UNCHANGED <<portA, client, stale, taskVars>>

-----------------------------------------------------------------------------
(* release_route and the clean-up task *)

\* Mutant: the ports are not given back to the pool.
RetireKeepsPorts(S) ==
  /\ transports' = transports \ UNION {PortsOf(portA[c]) : c \in S}
  /\ routes' = [f \in FirstPorts |-> IF \E c \in S : portA[c] = f THEN None ELSE routes[f]]
  /\ UNCHANGED allocated

\* Mutant: the route stays in the table.
RetireKeepsRoute(S) ==
  /\ transports' = transports \ UNION {PortsOf(portA[c]) : c \in S}
  /\ allocated' = allocated \ UNION {PortsOf(portA[c]) : c \in S}
  /\ UNCHANGED routes

\* The bodies of release_route for the route objects in S: by port, whatever is there now.
Retire(S) ==
  /\ transports' = transports \ UNION {PortsOf(portA[c]) : c \in S}
  /\ allocated' = allocated \ UNION {PortsOf(portA[c]) : c \in S}
  /\ routes' = [f \in FirstPorts |-> IF \E c \in S : portA[c] = f THEN None ELSE routes[f]]

\* The lock is free: collecting and releasing run on without a suspension.
SweepNow ==
  /\ sweeper = "idle"
  /\ queue = <<>>
  /\ Retire(StaleRoutes)
  /\ UNCHANGED <<queue, pc, portA, client, stale, taskVars>>

SweepWaits ==
  /\ sweeper = "idle"
  /\ queue # <<>>
  /\ queue' = Append(queue, Sweeper)
  /\ sweeper' = "collect"
  /\ UNCHANGED <<allocVars, pc, portA, client, stale, pending, holding>>

\* The stale routes are collected; if a task waits behind, the clean-up task
\* lets it go first and queues again for the first release.
SweepCollects ==
  /\ sweeper = "collect"
  /\ Holds(Sweeper)
  /\ IF Tail(queue) = <<>> \/ StaleRoutes = {}
     THEN /\ Retire(StaleRoutes)
          /\ queue' = Tail(queue)
          /\ sweeper' = "idle"
          /\ UNCHANGED pending
     ELSE /\ pending' = StaleRoutes
          /\ queue' = Append(Tail(queue), Sweeper)
          /\ sweeper' = "release"
          /\ UNCHANGED allocVars
  /\ UNCHANGED <<pc, portA, client, stale, holding>>

\* Releases the collected routes that are left, queueing again before each
\* one as long as tasks wait behind.
SweepReleases ==
  /\ sweeper = "release"
  /\ Holds(Sweeper)
  /\ \E S \in (IF Tail(queue) = <<>> THEN {pending} ELSE {{c} : c \in pending}) :
       /\ Retire(S)
       /\ pending' = pending \ S
       /\ IF pending = S
          THEN queue' = Tail(queue) /\ sweeper' = "idle"
          ELSE queue' = Append(Tail(queue), Sweeper) /\ UNCHANGED sweeper
  /\ UNCHANGED <<pc, portA, client, stale, holding>>

\* Mutant: release_route does not take the lock.
ReleaseUnlocked(r, c) ==
  /\ holding[r] = None
  /\ c \in StaleRoutes
  /\ Retire({c})
  /\ UNCHANGED <<queue, pc, portA, client, stale, taskVars>>

\* Another task looks a route up, finds it stale and releases it.
Release(r, c) ==
  /\ holding[r] = None
  /\ c \in StaleRoutes
  /\ queue = <<>>
  /\ Retire({c})
  /\ UNCHANGED <<queue, pc, portA, client, stale, taskVars>>

ReleaseWaits(r, c) ==
  /\ holding[r] = None
  /\ c \in StaleRoutes
  /\ queue # <<>>
  /\ queue' = Append(queue, r)
  /\ holding' = [holding EXCEPT ![r] = c]
  /\ UNCHANGED <<allocVars, pc, portA, client, stale, sweeper, pending>>

ReleaseWakes(r) ==
  /\ holding[r] # None
  /\ Holds(r)
  /\ Retire({holding[r]})
  /\ queue' = Tail(queue)
  /\ holding' = [holding EXCEPT ![r] = None]
  /\ UNCHANGED <<pc, portA, client, stale, sweeper, pending>>

-----------------------------------------------------------------------------
(* Datagrams and time *)

\* RelayPortProtocol.datagram_received on port p from endpoint e: registers the
\* first sender, ignores every other one, refreshes the route.
Datagram(p, e) ==
  /\ p \in transports
  /\ LET c == routes[FirstOf(p)] IN
       /\ c # None
       /\ client[c][p] \in {None, e}
       /\ client' = [client EXCEPT ![c][p] = e]
       /\ stale' = stale \ {c}
  /\ UNCHANGED <<allocVars, queue, pc, portA, taskVars>>

GoesStale(c) ==
  /\ c \in Live \ stale
  /\ stale' = stale \cup {c}
  /\ UNCHANGED <<allocVars, queue, pc, portA, client, taskVars>>

-----------------------------------------------------------------------------

CallStep(c) == CallWakes(c) \/ ListenA(c) \/ ListenB(c) \/ ListenFails(c)
SweeperStep == SweepNow \/ SweepWaits \/ SweepCollects \/ SweepReleases

Next ==
  \/ \E c \in Calls : Call(c) \/ CallWaits(c) \/ CallStep(c) \/ GoesStale(c)
  \/ SweeperStep
  \/ \E r \in Releasers : ReleaseWakes(r) \/ \E c \in Calls : Release(r, c) \/ ReleaseWaits(r, c)
  \/ \E p \in Ports, e \in Endpoints : Datagram(p, e)

Spec == Init /\ [][Next]_vars

\* The event loop runs every task that can go on, create_datagram_endpoint
\* returns or raises, and the clean-up task wakes up again and again.
Fairness ==
  /\ \A c \in Calls : WF_vars(CallStep(c))
  /\ WF_vars(SweeperStep)
  /\ \A r \in Releasers : WF_vars(ReleaseWakes(r))

FairSpec == Spec /\ Fairness

-----------------------------------------------------------------------------
(* Properties *)

\* The pool holds exactly the ports of the routes in the table, whatever is
\* being allocated, released twice or failing to start: no pair leaks out of
\* PortPool._allocated and none is free while a route uses it.
PoolMatchesRoutes == allocated = UNION {PortsOf(f) : f \in {g \in FirstPorts : routes[g] # None}}

\* A route handed to its caller has both its listeners open for as long as it
\* is in the table, and a pair without a route has none: a listener is neither
\* orphaned by a release or a failure nor missing under a route.
ListenersMatchRoutes ==
  \A f \in FirstPorts :
    /\ routes[f] = None => PortsOf(f) \cap transports = {}
    /\ routes[f] # None /\ pc[routes[f]] = "returned" => PortsOf(f) \subseteq transports

\* Where datagram_received knows the peer of a live route it also finds the
\* transport to reach it with, even while the route is being set up.
PeersAreReachable ==
  \A c \in Live : \A p \in PortsOf(portA[c]) : client[c][p] # None => p \in transports

\* Table, pool, listeners and peers agree at every moment.
RelayState == TypeOK /\ PoolMatchesRoutes /\ ListenersMatchRoutes /\ PeersAreReachable

\* The call that is setting up a route is the holder of the lock, so no
\* release and no other allocation touches its pair half-way.
SetUpHoldsLock ==
  \A c \in Calls : pc[c] \in {"listenA", "listenB"} => Holds(c)

\* The table, the route objects and the tasks that hold them agree: a call that
\* has not begun has an untouched object, a route being set up is in the table
\* with just the listeners started so far, a route in the table is the object
\* of its own pair and was not refused to its caller, and the clean-up tasks
\* hold only objects that were made.
RouteObjects ==
  /\ \A c \in Calls :
       /\ pc[c] \in {"new", "waiting"} => portA[c] = None /\ \A p \in Ports : client[c][p] = None
       /\ pc[c] \in {"listenA", "listenB"} =>
            c \in Live /\ PortsOf(portA[c]) \cap transports = StartedPorts(c)
  /\ \A f \in FirstPorts : routes[f] # None =>
       portA[routes[f]] = f /\ pc[routes[f]] \in {"listenA", "listenB", "returned"}
  /\ \A c \in pending : portA[c] # None
  /\ \A r \in Releasers : holding[r] # None => portA[holding[r]] # None

\* A port pair goes from one route to another only through the pool: the table
\* never replaces a route, and a pair given back has no listener left.
PairsReturnBeforeReuse ==
  [][\A f \in FirstPorts : routes[f] # None /\ routes'[f] # routes[f]
       => routes'[f] = None /\ PortsOf(f) \cap (allocated' \cup transports') = {}]_vars

\* Every call of allocate_route gets the lock and comes back, with a route or without.
CallsReturn == \A c \in Calls : pc[c] = "waiting" ~> pc[c] \in {"returned", "failed"}

\* A route that no datagram refreshes any more does not stay in the table.
IdleRoutesGo == \A c \in Calls : []<>(c \notin stale \cap Live)

\* The relay server is a serial lessor of port pairs: the route table is who
\* holds what, and a lease is active when both of its listeners are open.
Leases == INSTANCE PortLeases WITH
            Pairs <- FirstPorts, Holders <- Calls, Nobody <- None,
            holder <- routes,
            active <- {f \in FirstPorts : routes[f] # None /\ PortsOf(f) \subseteq transports},
            spent <- {c \in Calls : portA[c] # None}
LeasesSpec == Leases!Spec
====
