---- MODULE NatNegRelay_proofs ----
(* The relay server, alone and under NAT negotiation: its safety and its   *)
(* implementation of port leases, for any port range, any number of calls  *)
(* and any set of releasing tasks; and what the session manager may do to  *)
(* it, for any sessions and pairs.                                         *)
EXTENDS NatNegRelay, SequenceTheorems, TLAPS

-----------------------------------------------------------------------------
(* Ports *)

\* The pairs of the pool do not overlap, and a port belongs to the pair it is looked up by.
LEMMA PairsDisjoint ==
  /\ \A f \in FirstPorts : f \in Int /\ f + 1 \notin FirstPorts /\ PortsOf(f) \subseteq Ports
  /\ \A f, g \in FirstPorts : f # g => PortsOf(f) \cap PortsOf(g) = {}
  /\ \A f \in FirstPorts : \A p \in PortsOf(f) : FirstOf(p) = f
  /\ \A p \in Ports : FirstOf(p) \in FirstPorts /\ p \in PortsOf(FirstOf(p))
  /\ None \notin FirstPorts
<1>1. \A f \in FirstPorts : f \in Int /\ f + 1 \notin FirstPorts
  BY RangeAssumption DEF FirstPorts
<1>2. \A f, g \in FirstPorts : f # g => PortsOf(f) \cap PortsOf(g) = {}
  BY <1>1 DEF PortsOf
<1>3. \A f \in FirstPorts : PortsOf(f) \subseteq Ports
  BY DEF Ports
<1>4. \A f \in FirstPorts : \A p \in PortsOf(f) : FirstOf(p) = f
  BY <1>1 DEF PortsOf, FirstOf
<1>5. \A p \in Ports : \E f \in FirstPorts : p \in PortsOf(f)
  BY DEF Ports
<1>6. None \notin FirstPorts
  BY <1>1, NoneAssumption
<1>7. QED
  BY <1>1, <1>2, <1>3, <1>4, <1>5, <1>6

\* The pool never hands out a port outside the configured range.
LEMMA PortsInRange == Ports \subseteq PortStart..PortEnd
BY RangeAssumption DEF Ports, PortsOf, FirstPorts

-----------------------------------------------------------------------------
(* The lock queue *)

\* A task that queues behind others leaves the holder of the lock alone.
LEMMA QueueingKeepsHolder ==
  ASSUME queue \in Seq(Tasks), queue # <<>>, NEW t \in Tasks, queue' = Append(queue, t)
  PROVE  queue' \in Seq(Tasks) /\ \A u \in Tasks : Holds(u) => Holds(u)'
BY AppendProperties, HeadTailAppend DEF Holds

\* What is left when the holder gives the lock back is a queue again, also
\* when the holder queues once more behind the others.
LEMMA TailIsQueue ==
  ASSUME NEW q \in Seq(Tasks), q # <<>>
  PROVE  Tail(q) \in Seq(Tasks) /\ \A t \in Tasks : Append(Tail(q), t) \in Seq(Tasks)
BY HeadTailProperties, AppendProperties

-----------------------------------------------------------------------------
(* The inductive invariant *)

RelayInv == /\ TypeOK
            /\ SetUpHoldsLock
            /\ PoolMatchesRoutes
            /\ ListenersMatchRoutes
            /\ PeersAreReachable
            /\ RouteObjects

\* The part of the invariant about the pool, the table, the listeners and the route objects.
TableInv == /\ allocated \subseteq Ports
            /\ routes \in [FirstPorts -> Calls \cup {None}]
            /\ transports \subseteq Ports
            /\ portA \in [Calls -> FirstPorts \cup {None}]
            /\ pc \in [Calls -> {"new", "waiting", "listenA", "listenB", "returned", "failed"}]
            /\ client \in [Calls -> [Ports -> Endpoints \cup {None}]]
            /\ PoolMatchesRoutes
            /\ ListenersMatchRoutes
            /\ PeersAreReachable
            /\ RouteObjects

\* No route is being set up while another task has the lock or nobody has it.
LEMMA NobodySetsUp ==
  ASSUME RelayInv, queue = <<>> \/ \E t \in Tasks \ Calls : Holds(t)
  PROVE  \A c \in Calls : pc[c] \notin {"listenA", "listenB"}
BY TasksAssumption DEF RelayInv, SetUpHoldsLock, Holds, Tasks

\* Releasing any set of route objects, by port, keeps the table consistent as
\* long as no route is being set up - even if the ports have meanwhile gone to
\* another route.
LEMMA RetireKeepsTable ==
  ASSUME TableInv, NEW S \in SUBSET Calls, \A c \in S : portA[c] # None,
         \A c \in Calls : pc[c] \notin {"listenA", "listenB"},
         Retire(S), UNCHANGED <<pc, portA, client>>,
         pending' \subseteq Calls, \A c \in pending' : portA[c] # None,
         \A r \in Releasers : holding'[r] # None => portA[holding'[r]] # None
  PROVE  TableInv'
<1> DEFINE Gone == {portA[c] : c \in S}
<1>1. Gone \subseteq FirstPorts
  BY DEF TableInv
<1>2. \A p \in Ports : p \in UNION {PortsOf(portA[c]) : c \in S} <=> FirstOf(p) \in Gone
  BY <1>1, PairsDisjoint
<1>3. \A f \in FirstPorts : routes'[f] = IF f \in Gone THEN None ELSE routes[f]
  BY DEF Retire
<1>4. routes' \in [FirstPorts -> Calls \cup {None}]
  BY DEF Retire, TableInv
<1>5. allocated' \subseteq Ports /\ transports' \subseteq Ports
  BY DEF Retire, TableInv
<1>6. \A p \in Ports : /\ p \in allocated' <=> p \in allocated /\ FirstOf(p) \notin Gone
                       /\ p \in transports' <=> p \in transports /\ FirstOf(p) \notin Gone
  BY <1>2 DEF Retire
<1>7. PoolMatchesRoutes'
  BY <1>3, <1>5, <1>6, PairsDisjoint DEF TableInv, PoolMatchesRoutes
<1>8. ListenersMatchRoutes'
  BY <1>3, <1>6, PairsDisjoint, NoneAssumption DEF TableInv, ListenersMatchRoutes
<1>9. PeersAreReachable'
  <2> SUFFICES ASSUME NEW c \in Calls, portA[c] # None, routes'[portA[c]] = c,
                      NEW p \in PortsOf(portA[c]), client[c][p] # None
               PROVE  p \in transports'
    BY DEF PeersAreReachable, Live
  <2>1. portA[c] \in FirstPorts /\ portA[c] \notin Gone /\ routes[portA[c]] = c
    BY <1>3, NoneAssumption DEF TableInv
  <2>2. p \in transports
    BY <2>1 DEF TableInv, PeersAreReachable, Live
  <2> QED
    BY <1>6, <2>1, <2>2, PairsDisjoint
<1>10. RouteObjects'
  BY <1>3, NoneAssumption DEF TableInv, RouteObjects, Live
<1> QED
  BY <1>4, <1>5, <1>7, <1>8, <1>9, <1>10 DEF TableInv

\* What allocate_route does when it gets the lock, with q the lock queue.
LEMMA AllocateKeepsInv ==
  ASSUME RelayInv, NEW c \in Calls, pc[c] \in {"new", "waiting"},
         NEW q \in Seq(Tasks), q # <<>>, Head(q) = c,
         \A d \in Calls : pc[d] \notin {"listenA", "listenB"},
         Allocate(c, q), UNCHANGED <<transports, client, stale, taskVars>>
  PROVE  RelayInv'
<1> USE DEF RelayInv, TypeOK, taskVars
<1>1. CASE FreePairs = {} /\ pc' = [pc EXCEPT ![c] = "failed"] /\ queue' = Tail(q)
           /\ UNCHANGED <<allocated, routes, portA>>
  <2>1. queue' \in Seq(Tasks)
    BY <1>1, TailIsQueue
  <2>2. TypeOK' /\ SetUpHoldsLock'
    BY <1>1, <2>1 DEF SetUpHoldsLock
  <2>3. PoolMatchesRoutes' /\ ListenersMatchRoutes' /\ PeersAreReachable'
    BY <1>1, NoneAssumption DEF PoolMatchesRoutes, ListenersMatchRoutes, PeersAreReachable, RouteObjects, Live
  <2>4. RouteObjects'
    BY <1>1 DEF RouteObjects, Live, StartedPorts
  <2> QED
    BY <2>2, <2>3, <2>4
<1>2. CASE \E f \in FreePairs :
             /\ allocated' = allocated \cup PortsOf(f)
             /\ routes' = [routes EXCEPT ![f] = c]
             /\ portA' = [portA EXCEPT ![c] = f]
             /\ pc' = [pc EXCEPT ![c] = "listenA"]
             /\ queue' = q
  <2>1. PICK f \in FreePairs : /\ allocated' = allocated \cup PortsOf(f)
                               /\ routes' = [routes EXCEPT ![f] = c]
                               /\ portA' = [portA EXCEPT ![c] = f]
                               /\ pc' = [pc EXCEPT ![c] = "listenA"]
                               /\ queue' = q
    BY <1>2
  <2>2. f \in FirstPorts /\ PortsOf(f) \cap allocated = {}
    BY DEF FreePairs
  <2>3. routes[f] = None /\ PortsOf(f) \cap transports = {}
    <3>1. f \in PortsOf(f)
      BY DEF PortsOf
    <3>2. routes[f] # None => PortsOf(f) \subseteq allocated
      BY <2>2 DEF PoolMatchesRoutes
    <3> QED
      BY <2>2, <3>1, <3>2 DEF ListenersMatchRoutes
  <2>4. portA[c] = None /\ \A p \in Ports : client[c][p] = None
    BY DEF RouteObjects
  <2>5. \A g \in FirstPorts : routes[g] # c
    <3>1. ASSUME NEW g \in FirstPorts, routes[g] = c
          PROVE  FALSE
      <4>1. portA[routes[g]] = g
        BY <3>1, NoneAssumption DEF RouteObjects
      <4> QED
        BY <2>4, <3>1, <4>1, PairsDisjoint
    <3> QED
      BY <3>1
  <2>6. TypeOK'
    BY <2>1, <2>2, PairsDisjoint, PortsInRange
  <2>7. SetUpHoldsLock'
    BY <2>1 DEF SetUpHoldsLock, Holds
  <2>8. PoolMatchesRoutes'
    BY <2>1, <2>2, NoneAssumption DEF PoolMatchesRoutes
  <2>9. ListenersMatchRoutes'
    BY <2>1, <2>2, <2>5, NoneAssumption DEF ListenersMatchRoutes
  <2>10. PeersAreReachable'
    BY <2>1, <2>2, <2>3, <2>4, <2>5, PairsDisjoint, NoneAssumption DEF PeersAreReachable, Live
  <2>11. RouteObjects'
    BY <2>1, <2>2, <2>3, <2>4, <2>5, PairsDisjoint, NoneAssumption DEF RouteObjects, Live, StartedPorts
  <2> QED
    BY <2>6, <2>7, <2>8, <2>9, <2>10, <2>11
<1> QED
  BY <1>1, <1>2 DEF Allocate

\* A task that finds the lock taken only joins the queue.
LEMMA WaitingKeepsInv ==
  ASSUME RelayInv,
         \/ \E c \in Calls : CallWaits(c)
         \/ SweepWaits
         \/ \E r \in Releasers, c \in Calls : ReleaseWaits(r, c)
  PROVE  RelayInv'
<1> USE DEF RelayInv, TypeOK, allocVars, taskVars
<1>1. PICK t \in Tasks : queue # <<>> /\ queue' = Append(queue, t)
  BY DEF CallWaits, SweepWaits, ReleaseWaits, Tasks
<1>2. queue' \in Seq(Tasks) /\ \A u \in Tasks : Holds(u) => Holds(u)'
  BY <1>1, QueueingKeepsHolder
<1>3. /\ UNCHANGED <<allocated, routes, transports, portA, client, stale, pending>>
      /\ pc' \in [Calls -> {"new", "waiting", "listenA", "listenB", "returned", "failed"}]
      /\ sweeper' \in {"idle", "collect", "release"}
      /\ holding' \in [Releasers -> Calls \cup {None}]
      /\ \A r \in Releasers : holding'[r] # None => portA[holding'[r]] # None
      /\ \A c \in Calls : pc'[c] # pc[c] => pc[c] = "new" /\ pc'[c] = "waiting"
  <2>1. CASE \E c \in Calls : CallWaits(c)
    BY <2>1 DEF CallWaits, RouteObjects
  <2>2. CASE SweepWaits
    BY <2>2 DEF SweepWaits, RouteObjects
  <2>3. CASE \E r \in Releasers, c \in Calls : ReleaseWaits(r, c)
    <3>1. PICK r \in Releasers, c \in Calls : ReleaseWaits(r, c)
      BY <2>3
    <3>2. portA[c] # None /\ c # None
      BY <3>1, NoneAssumption DEF ReleaseWaits, StaleRoutes, Live
    <3>3. \A s \in Releasers : holding[s] # None => portA[holding[s]] # None
      BY DEF RouteObjects
    <3> QED
      BY <3>1, <3>2, <3>3 DEF ReleaseWaits
  <2> QED
    BY <2>1, <2>2, <2>3
<1>4. TypeOK'
  BY <1>2, <1>3
<1>5. SetUpHoldsLock'
  BY <1>2, <1>3 DEF SetUpHoldsLock, Tasks
<1>6. PoolMatchesRoutes' /\ ListenersMatchRoutes' /\ PeersAreReachable'
  BY <1>3, NoneAssumption DEF PoolMatchesRoutes, ListenersMatchRoutes, PeersAreReachable, Live
<1>7. RouteObjects'
  BY <1>3, NoneAssumption DEF RouteObjects, Live, StartedPorts
<1> QED
  BY <1>4, <1>5, <1>6, <1>7

\* A listener is started, or cannot be.
LEMMA ListeningKeepsInv ==
  ASSUME RelayInv, NEW c \in Calls, ListenA(c) \/ ListenB(c) \/ ListenFails(c)
  PROVE  RelayInv'
<1> USE DEF RelayInv, TypeOK, taskVars
<1> DEFINE f == portA[c]
<1>1. /\ pc[c] \in {"listenA", "listenB"}
      /\ Holds(c)
      /\ f \in FirstPorts /\ routes[f] = c
      /\ PortsOf(f) \cap transports = StartedPorts(c)
  BY NoneAssumption DEF ListenA, ListenB, ListenFails, SetUpHoldsLock, RouteObjects, Live
<1>2. \A d \in Calls \ {c} : pc[d] \notin {"listenA", "listenB"}
  BY <1>1 DEF SetUpHoldsLock, Holds
<1>3. Tail(queue) \in Seq(Tasks)
  BY <1>1, TailIsQueue DEF Holds
<1>4. \A g \in FirstPorts \ {f} : routes[g] # c /\ PortsOf(g) \cap PortsOf(f) = {}
  BY <1>1, PairsDisjoint, NoneAssumption DEF RouteObjects
<1>5. \A d \in Calls : pc[d] \in {"new", "waiting"} => portA[d] = None /\ \A p \in Ports : client[d][p] = None
  BY DEF RouteObjects
<1>6. \A g \in FirstPorts : routes[g] # None =>
        portA[routes[g]] = g /\ pc[routes[g]] \in {"listenA", "listenB", "returned"}
  BY DEF RouteObjects
<1>10. f \in PortsOf(f) /\ f + 1 \in PortsOf(f)
  BY DEF PortsOf
<1>7. CASE ListenA(c)
  <2>1. TypeOK' /\ SetUpHoldsLock'
    BY <1>1, <1>2, <1>7, PairsDisjoint DEF ListenA, SetUpHoldsLock, Holds, PortsOf
  <2>2. PoolMatchesRoutes' /\ ListenersMatchRoutes'
    <3>1. PoolMatchesRoutes'
      BY <1>7 DEF ListenA, PoolMatchesRoutes
    <3>2. ASSUME NEW g \in FirstPorts \ {f}
          PROVE  /\ routes[g] = None => PortsOf(g) \cap transports' = {}
                 /\ routes[g] # None /\ pc'[routes[g]] = "returned" => PortsOf(g) \subseteq transports'
      BY <1>4, <1>7, <1>10 DEF ListenA, ListenersMatchRoutes
    <3> QED
      BY <1>1, <1>7, <3>1, <3>2, NoneAssumption DEF ListenA, ListenersMatchRoutes
  <2>3. PeersAreReachable'
    BY <1>7 DEF ListenA, PeersAreReachable, Live
  <2>4. RouteObjects'
    BY <1>1, <1>2, <1>5, <1>6, <1>7, NoneAssumption DEF ListenA, RouteObjects, Live, StartedPorts, PortsOf
  <2> QED
    BY <2>1, <2>2, <2>3, <2>4
<1>8. CASE ListenB(c)
  <2>1. TypeOK' /\ SetUpHoldsLock'
    BY <1>1, <1>2, <1>3, <1>8, PairsDisjoint DEF ListenB, SetUpHoldsLock, PortsOf
  <2>2. PoolMatchesRoutes' /\ ListenersMatchRoutes'
    <3>1. PoolMatchesRoutes'
      BY <1>8 DEF ListenB, PoolMatchesRoutes
    <3>2. ASSUME NEW g \in FirstPorts \ {f}
          PROVE  /\ routes[g] = None => PortsOf(g) \cap transports' = {}
                 /\ routes[g] # None /\ pc'[routes[g]] = "returned" => PortsOf(g) \subseteq transports'
      BY <1>4, <1>8, <1>10 DEF ListenB, ListenersMatchRoutes
    <3>3. PortsOf(f) \subseteq transports'
      BY <1>1, <1>8 DEF ListenB, PortsOf, StartedPorts
    <3> QED
      BY <1>1, <1>8, <3>1, <3>2, <3>3, NoneAssumption DEF ListenB, ListenersMatchRoutes
  <2>3. PeersAreReachable'
    BY <1>8 DEF ListenB, PeersAreReachable, Live
  <2>4. RouteObjects'
    BY <1>1, <1>2, <1>5, <1>6, <1>8, NoneAssumption DEF ListenB, RouteObjects, Live, StartedPorts
  <2> QED
    BY <2>1, <2>2, <2>3, <2>4
<1>9. CASE ListenFails(c)
  <2>1. TypeOK' /\ SetUpHoldsLock'
    BY <1>2, <1>3, <1>9 DEF ListenFails, SetUpHoldsLock
  <2>2. PoolMatchesRoutes'
    BY <1>1, <1>4, <1>9, NoneAssumption DEF ListenFails, PoolMatchesRoutes
  <2>5. ListenersMatchRoutes'
    <3>1. StartedPorts(c) \subseteq PortsOf(f) /\ PortsOf(f) \cap transports' = {}
      BY <1>1, <1>9 DEF ListenFails
    <3>2. ASSUME NEW g \in FirstPorts \ {f}
          PROVE  /\ routes[g] = None => PortsOf(g) \cap transports' = {}
                 /\ routes[g] # None /\ pc'[routes[g]] = "returned" => PortsOf(g) \subseteq transports'
      BY <1>4, <1>9, <3>1 DEF ListenFails, ListenersMatchRoutes
    <3>3. routes'[f] = None /\ \A g \in FirstPorts \ {f} : routes'[g] = routes[g]
      BY <1>1, <1>9 DEF ListenFails
    <3> QED
      BY <3>1, <3>2, <3>3 DEF ListenersMatchRoutes
  <2>3. PeersAreReachable'
    BY <1>1, <1>4, <1>9, NoneAssumption, PairsDisjoint DEF ListenFails, PeersAreReachable, Live, StartedPorts, PortsOf
  <2>4. RouteObjects'
    BY <1>1, <1>2, <1>5, <1>6, <1>9, NoneAssumption DEF ListenFails, RouteObjects, Live, StartedPorts
  <2> QED
    BY <2>1, <2>2, <2>3, <2>4, <2>5
<1> QED
  BY <1>7, <1>8, <1>9

\* The clean-up task and the other releasing tasks release routes, now or after waiting.
LEMMA ReleasingKeepsInv ==
  ASSUME RelayInv,
         \/ SweepNow \/ SweepCollects \/ SweepReleases
         \/ \E r \in Releasers : ReleaseWakes(r) \/ \E c \in Calls : Release(r, c)
  PROVE  RelayInv'
<1> USE DEF RelayInv, TypeOK, allocVars, taskVars
<1>1. /\ UNCHANGED <<pc, portA, client, stale>>
      /\ queue = <<>> \/ \E t \in Tasks \ Calls : Holds(t)
  BY TasksAssumption
     DEF SweepNow, SweepCollects, SweepReleases, ReleaseWakes, Release, Tasks
<1>2. \A c \in Calls : pc[c] \notin {"listenA", "listenB"}
  BY <1>1, NobodySetsUp
<1>3. queue' \in Seq(Tasks)
  BY TailIsQueue DEF SweepNow, SweepCollects, SweepReleases, ReleaseWakes, Release, Holds, Tasks
<1>4. StaleRoutes \subseteq Calls /\ \A c \in StaleRoutes : portA[c] # None
  BY DEF StaleRoutes, Live
<1>5. /\ sweeper' \in {"idle", "collect", "release"}
      /\ pending' \subseteq Calls /\ \A c \in pending' : portA[c] # None
  BY <1>4 DEF SweepNow, SweepCollects, SweepReleases, ReleaseWakes, Release, RouteObjects
<1>6. /\ holding' \in [Releasers -> Calls \cup {None}]
      /\ \A r \in Releasers : holding'[r] # None => portA[holding'[r]] # None
  BY DEF SweepNow, SweepCollects, SweepReleases, ReleaseWakes, Release, RouteObjects
<1>7. \/ UNCHANGED allocVars
      \/ \E S \in SUBSET Calls : (\A c \in S : portA[c] # None) /\ Retire(S)
  <2>1. CASE SweepNow
    BY <1>4, <2>1 DEF SweepNow
  <2>2. CASE SweepCollects
    BY <1>4, <2>2 DEF SweepCollects
  <2>3. CASE SweepReleases
    BY <2>3 DEF SweepReleases, RouteObjects
  <2>4. CASE \E r \in Releasers : ReleaseWakes(r)
    <3>1. PICK r \in Releasers : ReleaseWakes(r)
      BY <2>4
    <3>2. {holding[r]} \in SUBSET Calls /\ portA[holding[r]] # None
      BY <3>1 DEF ReleaseWakes, RouteObjects
    <3> QED
      BY <3>1, <3>2 DEF ReleaseWakes
  <2>5. CASE \E r \in Releasers, c \in Calls : Release(r, c)
    <3>1. PICK r \in Releasers, c \in Calls : Release(r, c)
      BY <2>5
    <3> QED
      BY <1>4, <3>1 DEF Release
  <2> QED
    BY <2>1, <2>2, <2>3, <2>4, <2>5
<1>8. TableInv
  BY DEF TableInv
<1>9. TableInv'
  <2>1. CASE UNCHANGED allocVars
    BY <1>1, <1>5, <1>6, <1>8, <2>1
       DEF TableInv, PoolMatchesRoutes, ListenersMatchRoutes, PeersAreReachable, RouteObjects, Live, StartedPorts
  <2>2. CASE \E S \in SUBSET Calls : (\A c \in S : portA[c] # None) /\ Retire(S)
    <3>1. PICK S \in SUBSET Calls : (\A c \in S : portA[c] # None) /\ Retire(S)
      BY <2>2
    <3> HIDE DEF RelayInv, TypeOK
    <3> QED
      BY <1>1, <1>2, <1>5, <1>6, <1>8, <3>1, RetireKeepsTable
  <2> QED
    BY <1>7, <2>1, <2>2
<1>10. SetUpHoldsLock'
  BY <1>1, <1>2 DEF SetUpHoldsLock
<1>11. TypeOK'
  BY <1>1, <1>3, <1>5, <1>6, <1>9, PortsInRange DEF TableInv
<1> QED
  BY <1>9, <1>10, <1>11 DEF TableInv

\* Datagrams and the passing of time.
LEMMA TrafficKeepsInv ==
  ASSUME RelayInv,
         \/ \E p \in Ports, e \in Endpoints : Datagram(p, e)
         \/ \E c \in Calls : GoesStale(c)
  PROVE  RelayInv'
<1> USE DEF RelayInv, TypeOK, allocVars, taskVars
<1>1. CASE \E c \in Calls : GoesStale(c)
  BY <1>1 DEF GoesStale, SetUpHoldsLock, Holds, PoolMatchesRoutes, ListenersMatchRoutes,
              PeersAreReachable, RouteObjects, Live, StartedPorts
<1>2. CASE \E p \in Ports, e \in Endpoints : Datagram(p, e)
  <2>1. PICK p \in Ports, e \in Endpoints : Datagram(p, e)
    BY <1>2
  <2> DEFINE d == routes[FirstOf(p)]
  <2>2. /\ p \in transports /\ d \in Calls /\ portA[d] = FirstOf(p)
        /\ pc[d] \in {"listenA", "listenB", "returned"}
    BY <2>1, PairsDisjoint DEF Datagram, RouteObjects
  <2>3. /\ client' = [client EXCEPT ![d][p] = e]
        /\ UNCHANGED <<allocated, routes, transports, queue, pc, portA, taskVars>>
        /\ stale' \subseteq stale
    BY <2>1 DEF Datagram
  <2>4. TypeOK' /\ SetUpHoldsLock'
    BY <2>2, <2>3 DEF SetUpHoldsLock, Holds
  <2>5. PoolMatchesRoutes' /\ ListenersMatchRoutes'
    BY <2>3 DEF PoolMatchesRoutes, ListenersMatchRoutes
  <2>6. PeersAreReachable'
    BY <2>2, <2>3, PairsDisjoint DEF PeersAreReachable, Live
  <2>7. RouteObjects'
    BY <2>2, <2>3 DEF RouteObjects, Live, StartedPorts
  <2> QED
    BY <2>4, <2>5, <2>6, <2>7
<1> QED
  BY <1>1, <1>2

-----------------------------------------------------------------------------
(* The theorems *)

\* A relay server that has just started satisfies the inductive invariant.
LEMMA InitEstablishesInv == Init => RelayInv
BY EmptySeq, NoneAssumption, PairsDisjoint
   DEF Init, RelayInv, TypeOK, SetUpHoldsLock, PoolMatchesRoutes, ListenersMatchRoutes,
       PeersAreReachable, RouteObjects, Live

\* No step of a call, the clean-up task, a releasing task, a datagram or of time
\* breaks the inductive invariant.
LEMMA NextKeepsInv == RelayInv /\ [Next]_vars => RelayInv'
<1> SUFFICES ASSUME RelayInv, [Next]_vars
             PROVE  RelayInv'
  OBVIOUS
<1>1. ASSUME NEW c \in Calls, Call(c)
      PROVE  RelayInv'
  <2>1. \A d \in Calls : pc[d] \notin {"listenA", "listenB"}
    BY <1>1, NobodySetsUp DEF Call
  <2>2. <<c>> \in Seq(Tasks) /\ <<c>> # <<>> /\ Head(<<c>>) = c
    BY DEF Tasks
  <2> QED
    BY <1>1, <2>1, <2>2, AllocateKeepsInv DEF Call
<1>2. ASSUME NEW c \in Calls, CallWakes(c)
      PROVE  RelayInv'
  <2>1. \A d \in Calls : pc[d] \notin {"listenA", "listenB"}
    BY <1>2 DEF RelayInv, SetUpHoldsLock, CallWakes, Holds
  <2>2. queue \in Seq(Tasks) /\ queue # <<>> /\ Head(queue) = c
    BY <1>2 DEF CallWakes, Holds, RelayInv, TypeOK
  <2> QED
    BY <1>2, <2>1, <2>2, AllocateKeepsInv DEF CallWakes
<1>3. CASE UNCHANGED vars
  BY <1>3 DEF vars, RelayInv, TypeOK, SetUpHoldsLock, Holds, PoolMatchesRoutes, ListenersMatchRoutes,
              PeersAreReachable, RouteObjects, Live, StartedPorts
<1> QED
  BY <1>1, <1>2, <1>3, WaitingKeepsInv, ListeningKeepsInv, ReleasingKeepsInv, TrafficKeepsInv
     DEF Next, CallStep, SweeperStep

\* Every reachable state of the relay server satisfies the inductive invariant.
THEOREM RelaySafety == Spec => []RelayInv
BY InitEstablishesInv, NextKeepsInv, PTL DEF Spec

\* The state is well typed and no port outside the configured range is handed out.
THEOREM TypeCorrect == Spec => []TypeOK
BY RelaySafety, PTL DEF RelayInv

\* Table, pool, listeners and peers agree in every reachable state.
THEOREM RelayStateHolds == Spec => []RelayState
BY RelaySafety, PTL DEF RelayInv, RelayState

\* The pool and the route table agree: no port pair leaks, none is handed out twice.
THEOREM PoolAccounting == Spec => []PoolMatchesRoutes
BY RelaySafety, PTL DEF RelayInv

\* A returned route has both its listeners and a pair without a route has none.
THEOREM NoOrphanListeners == Spec => []ListenersMatchRoutes
BY RelaySafety, PTL DEF RelayInv

\* The call that starts listeners is the one that holds the lock.
THEOREM SetUpIsExclusive == Spec => []SetUpHoldsLock
BY RelaySafety, PTL DEF RelayInv

\* Table, route objects and the tasks that hold route objects agree.
THEOREM ObjectsAgree == Spec => []RouteObjects
BY RelaySafety, PTL DEF RelayInv

\* A registered peer can always be reached through its transport.
THEOREM PeerTransportsExist == Spec => []PeersAreReachable
BY RelaySafety, PTL DEF RelayInv

-----------------------------------------------------------------------------
(* The relay server implements the serial lessor of port pairs *)

ActivePairs == {f \in FirstPorts : routes[f] # None /\ PortsOf(f) \subseteq transports}
SpentCalls == {c \in Calls : portA[c] # None}

\* While no route is being set up, every route in the table has its two listeners.
LEMMA QuietMeansSettled ==
  ASSUME RelayInv, \A c \in Calls : pc[c] \notin {"listenA", "listenB"}
  PROVE  Leases!Settled
BY DEF Leases!Settled, RelayInv, RouteObjects, ListenersMatchRoutes, TypeOK

\* Getting the lock grants a lease, or changes nothing when the pool is exhausted.
LEMMA AllocateGrants ==
  ASSUME RelayInv, NEW c \in Calls, pc[c] \in {"new", "waiting"}, NEW q,
         \A d \in Calls : pc[d] \notin {"listenA", "listenB"},
         Allocate(c, q), UNCHANGED transports
  PROVE  [Leases!Next]_(Leases!leaseVars)
<1> USE DEF RelayInv, TypeOK
<1>1. CASE UNCHANGED <<allocated, routes, portA>>
  BY <1>1 DEF Leases!leaseVars
<1>2. ASSUME NEW f \in FreePairs,
             routes' = [routes EXCEPT ![f] = c], portA' = [portA EXCEPT ![c] = f]
      PROVE  Leases!Grant(c, f)
  <2>1. f \in FirstPorts /\ f \in PortsOf(f) /\ PortsOf(f) \cap allocated = {}
    BY DEF FreePairs, PortsOf
  <2>2. routes[f] # None => PortsOf(f) \subseteq allocated
    BY <2>1 DEF PoolMatchesRoutes
  <2>3. routes[f] = None /\ PortsOf(f) \cap transports = {}
    BY <2>1, <2>2 DEF ListenersMatchRoutes
  <2>4. portA[c] = None
    BY DEF RouteObjects
  <2>5. ActivePairs' = ActivePairs
    BY <1>2, <2>1, <2>3, NoneAssumption DEF ActivePairs
  <2>6. SpentCalls' = SpentCalls \cup {c}
    BY <1>2, <2>1, PairsDisjoint DEF SpentCalls
  <2> QED
    BY <1>2, <2>3, <2>4, <2>5, <2>6, QuietMeansSettled DEF Leases!Grant, ActivePairs, SpentCalls
<1> QED
  BY <1>1, <1>2 DEF Allocate, Leases!Next, FreePairs

\* Starting the second listener makes the lease active, a failure abandons it.
LEMMA ListeningActivates ==
  ASSUME RelayInv, NEW c \in Calls, ListenA(c) \/ ListenB(c) \/ ListenFails(c)
  PROVE  [Leases!Next]_(Leases!leaseVars)
<1> USE DEF RelayInv, TypeOK, taskVars
<1> DEFINE f == portA[c]
<1>1. /\ f \in FirstPorts /\ routes[f] = c /\ routes[f] # None
      /\ f \in PortsOf(f) /\ f + 1 \in PortsOf(f) /\ f # f + 1
      /\ PortsOf(f) \cap transports = StartedPorts(c)
  BY NoneAssumption, PairsDisjoint DEF ListenA, ListenB, ListenFails, RouteObjects, Live, PortsOf
<1>2. \A g \in FirstPorts \ {f} : PortsOf(g) \cap PortsOf(f) = {}
  BY <1>1, PairsDisjoint
<1>3. f \notin ActivePairs /\ f + 1 \notin transports
  BY <1>1 DEF ActivePairs, StartedPorts
<1>4. CASE ListenA(c)
  <2>1. \A g \in FirstPorts : PortsOf(g) \subseteq transports' => g # f /\ PortsOf(g) \subseteq transports
    BY <1>1, <1>2, <1>3, <1>4 DEF ListenA
  <2>2. ActivePairs' = ActivePairs
    BY <1>4, <2>1 DEF ListenA, ActivePairs
  <2>3. UNCHANGED <<routes, portA>>
    BY <1>4 DEF ListenA
  <2> QED
    BY <2>2, <2>3 DEF Leases!leaseVars, ActivePairs
<1>5. CASE ListenB(c)
  <2>1. f \in transports
    BY <1>1, <1>5 DEF ListenB, StartedPorts
  <2>2. PortsOf(f) \subseteq transports'
    BY <1>5, <2>1 DEF ListenB, PortsOf
  <2>3. \A g \in FirstPorts \ {f} : PortsOf(g) \subseteq transports' => PortsOf(g) \subseteq transports
    BY <1>1, <1>2, <1>5 DEF ListenB
  <2>4. ActivePairs' = ActivePairs \cup {f}
    BY <1>1, <1>5, <2>2, <2>3 DEF ListenB, ActivePairs
  <2>5. PICK g \in FirstPorts : g = f
    BY <1>1
  <2>6. Leases!Activate(g)
    BY <1>1, <1>3, <1>5, <2>4, <2>5 DEF ListenB, Leases!Activate, ActivePairs
  <2> QED
    BY <2>6 DEF Leases!Next
<1>6. CASE ListenFails(c)
  <2>1. routes' = [routes EXCEPT ![f] = None] /\ portA' = portA /\ transports' = transports \ StartedPorts(c)
    BY <1>6 DEF ListenFails
  <2>2. \A g \in FirstPorts \ {f} : PortsOf(g) \subseteq transports => PortsOf(g) \subseteq transports'
    BY <1>1, <1>2, <2>1
  <2>3. ActivePairs' = ActivePairs
    BY <1>1, <1>3, <2>1, <2>2 DEF ActivePairs
  <2>4. PICK g \in FirstPorts : g = f
    BY <1>1
  <2>5. Leases!Abandon(g)
    BY <1>1, <1>3, <2>1, <2>3, <2>4 DEF Leases!Abandon, ActivePairs
  <2> QED
    BY <2>5 DEF Leases!Next
<1> QED
  BY <1>4, <1>5, <1>6

\* Releasing routes ends the leases of their pairs, whoever holds these by now.
LEMMA RetireLapses ==
  ASSUME RelayInv, NEW S \in SUBSET Calls, \A c \in S : portA[c] # None,
         \A c \in Calls : pc[c] \notin {"listenA", "listenB"},
         Retire(S), UNCHANGED portA
  PROVE  [Leases!Next]_(Leases!leaseVars)
<1> USE DEF RelayInv, TypeOK
<1> DEFINE Gone == {portA[c] : c \in S}
           Ended == {f \in Gone : routes[f] # None}
<1>1. Leases!Settled
  BY QuietMeansSettled
<1>2. Gone \subseteq FirstPorts /\ Ended \subseteq ActivePairs
  BY <1>1 DEF Leases!Settled, ActivePairs
<1>3. routes' = [f \in FirstPorts |-> IF f \in Gone THEN None ELSE routes[f]]
  BY DEF Retire
<1>4. \A f \in FirstPorts \ Gone : PortsOf(f) \subseteq transports' <=> PortsOf(f) \subseteq transports
  BY <1>2, PairsDisjoint DEF Retire
<1>5. ActivePairs' = ActivePairs \ Ended
  BY <1>2, <1>3, <1>4 DEF ActivePairs
<1>6. routes' = [f \in FirstPorts |-> IF f \in Ended THEN None ELSE routes[f]]
  BY <1>2, <1>3
<1>7. PICK E \in SUBSET FirstPorts : E = Ended
  BY <1>2
<1>8. Leases!Lapse(E)
  BY <1>1, <1>2, <1>5, <1>6, <1>7 DEF Leases!Lapse, ActivePairs
<1> QED
  BY <1>8 DEF Leases!Next

\* Every step of the relay server is a step of the lessor or leaves the leases alone.
LEMMA StepsImplementLeases ==
  ASSUME RelayInv, [Next]_vars
  PROVE  [Leases!Next]_(Leases!leaseVars)
<1>1. ASSUME NEW c \in Calls, Call(c) \/ CallWakes(c)
      PROVE  [Leases!Next]_(Leases!leaseVars)
  <2>1. \A d \in Calls : pc[d] \notin {"listenA", "listenB"}
    BY <1>1, NobodySetsUp DEF RelayInv, SetUpHoldsLock, Call, CallWakes, Holds
  <2> QED
    BY <1>1, <2>1, AllocateGrants DEF Call, CallWakes
<1>2. CASE \/ SweepNow \/ SweepCollects \/ SweepReleases
           \/ \E r \in Releasers : ReleaseWakes(r) \/ \E c \in Calls : Release(r, c)
  <2>1. UNCHANGED portA /\ (queue = <<>> \/ \E t \in Tasks \ Calls : Holds(t))
    BY <1>2, TasksAssumption
       DEF SweepNow, SweepCollects, SweepReleases, ReleaseWakes, Release, Tasks
  <2>2. \A c \in Calls : pc[c] \notin {"listenA", "listenB"}
    BY <2>1, NobodySetsUp
  <2>3. \/ UNCHANGED <<routes, transports>>
        \/ \E S \in SUBSET Calls : (\A c \in S : portA[c] # None) /\ Retire(S)
    <3>1. CASE SweepNow \/ SweepCollects
      BY <3>1 DEF SweepNow, SweepCollects, StaleRoutes, Live, allocVars
    <3>2. CASE SweepReleases
      BY <3>2 DEF SweepReleases, RelayInv, RouteObjects, TypeOK
    <3>3. ASSUME NEW r \in Releasers, ReleaseWakes(r)
          PROVE  \E S \in SUBSET Calls : (\A c \in S : portA[c] # None) /\ Retire(S)
      <4>1. {holding[r]} \in SUBSET Calls /\ portA[holding[r]] # None
        BY <3>3 DEF ReleaseWakes, RelayInv, RouteObjects, TypeOK
      <4> QED
        BY <3>3, <4>1 DEF ReleaseWakes
    <3>4. ASSUME NEW r \in Releasers, NEW c \in Calls, Release(r, c)
          PROVE  \E S \in SUBSET Calls : (\A d \in S : portA[d] # None) /\ Retire(S)
      BY <3>4 DEF Release, StaleRoutes, Live
    <3> QED
      BY <1>2, <3>1, <3>2, <3>3, <3>4
  <2>4. CASE UNCHANGED <<routes, transports>>
    BY <2>1, <2>4 DEF Leases!leaseVars
  <2> QED
    BY <2>1, <2>2, <2>3, <2>4, RetireLapses
<1>3. CASE \/ UNCHANGED vars
           \/ \E c \in Calls : CallWaits(c) \/ GoesStale(c)
           \/ SweepWaits
           \/ \E r \in Releasers, c \in Calls : ReleaseWaits(r, c)
           \/ \E p \in Ports, e \in Endpoints : Datagram(p, e)
  <2>1. UNCHANGED <<routes, transports, portA>>
    BY <1>3 DEF vars, allocVars, CallWaits, GoesStale, SweepWaits, ReleaseWaits, Datagram
  <2> QED
    BY <2>1 DEF Leases!leaseVars
<1> QED
  BY <1>1, <1>2, <1>3, ListeningActivates DEF Next, CallStep, SweeperStep

\* For any pool and any callers, the relay server is a serial lessor of port
\* pairs: leases are set up one at a time under the lock, a pair goes to the
\* next route only after both of its ports came back, a call gets one lease.
THEOREM ImplementsLeases == Spec => LeasesSpec
<1>1. Init => Leases!Init
  BY PairsDisjoint, NoneAssumption DEF Init, Leases!Init
<1> QED
  BY <1>1, RelaySafety, StepsImplementLeases, PTL DEF Spec, LeasesSpec, Leases!Spec

\* A route leaves the table only together with the ports of its pair.
LEMMA StepsReturnPairs ==
  ASSUME RelayInv, [Next]_vars,
         NEW f \in FirstPorts, routes[f] # None, routes'[f] # routes[f]
  PROVE  routes'[f] = None /\ PortsOf(f) \cap (allocated' \cup transports') = {}
<1>1. ASSUME NEW c \in Calls, NEW q, Allocate(c, q)
      PROVE  FALSE
  <2>1. PICK g \in FreePairs : routes' = [routes EXCEPT ![g] = c]
    BY <1>1 DEF Allocate
  <2>2. g = f
    BY <2>1 DEF RelayInv, TypeOK
  <2>3. f \in PortsOf(f) /\ PortsOf(f) \subseteq allocated
    BY DEF RelayInv, PoolMatchesRoutes, PortsOf
  <2> QED
    BY <2>2, <2>3 DEF FreePairs
<1>2. ASSUME NEW S, Retire(S)
      PROVE  routes'[f] = None /\ PortsOf(f) \cap (allocated' \cup transports') = {}
  BY <1>2 DEF Retire
<1>3. ASSUME NEW c \in Calls, ListenFails(c)
      PROVE  routes'[f] = None /\ PortsOf(f) \cap (allocated' \cup transports') = {}
  <2>1. portA[c] = f /\ routes'[f] = None
    BY <1>3 DEF ListenFails, RelayInv, TypeOK
  <2>2. PortsOf(f) \cap transports = StartedPorts(c)
    BY <1>3, <2>1 DEF ListenFails, RelayInv, RouteObjects
  <2> QED
    BY <1>3, <2>1, <2>2 DEF ListenFails
<1>4. \/ \E c \in Calls : Allocate(c, queue) \/ Allocate(c, <<c>>)
      \/ \E S \in SUBSET Calls : Retire(S)
      \/ \E c \in Calls : ListenFails(c)
  <2>1. ASSUME NEW r \in Releasers, ReleaseWakes(r)
        PROVE  \E S \in SUBSET Calls : Retire(S)
    <3>1. {holding[r]} \in SUBSET Calls
      BY <2>1 DEF ReleaseWakes, RelayInv, TypeOK
    <3> QED
      BY <2>1, <3>1 DEF ReleaseWakes
  <2>2. CASE SweeperStep \/ \E r \in Releasers, c \in Calls : Release(r, c) \/ ReleaseWaits(r, c)
    BY <2>2 DEF SweeperStep, SweepNow, SweepWaits, SweepCollects, SweepReleases, Release, ReleaseWaits,
                allocVars, StaleRoutes, Live, RelayInv, TypeOK
  <2>3. CASE \E c \in Calls : Call(c) \/ CallWaits(c) \/ CallStep(c) \/ GoesStale(c)
    BY <2>3 DEF Call, CallWaits, CallStep, CallWakes, ListenA, ListenB, GoesStale, allocVars
  <2>4. CASE UNCHANGED vars \/ \E p \in Ports, e \in Endpoints : Datagram(p, e)
    BY <2>4 DEF vars, Datagram, allocVars
  <2> QED
    BY <2>1, <2>2, <2>3, <2>4 DEF Next
<1> QED
  BY <1>1, <1>2, <1>3, <1>4

\* A port pair never passes from one route to another without both of its
\* ports being back in the pool and both of its listeners closed.
THEOREM ReuseThroughPool == Spec => PairsReturnBeforeReuse
<1>1. RelayInv /\ [Next]_vars =>
        [\A f \in FirstPorts : routes[f] # None /\ routes'[f] # routes[f]
           => routes'[f] = None /\ PortsOf(f) \cap (allocated' \cup transports') = {}]_vars
  BY StepsReturnPairs
<1> QED
  BY <1>1, RelaySafety, PTL DEF Spec, PairsReturnBeforeReuse

-----------------------------------------------------------------------------
(* NAT negotiation above the relay *)

\* Whatever the session manager, the clients and the natneg clean-up loop do,
\* the relay sees one of its own steps or nothing.
LEMMA NatNegStepsAreRelaySteps == [NatNegNext]_allVars => [Next]_vars
<1> SUFFICES ASSUME [NatNegNext]_allVars
             PROVE  [Next]_vars
  OBVIOUS
<1>1. ASSUME NEW c \in Calls, NEW p, NEW sq, NEW tracked, Reserve(c, p, sq, tracked)
      PROVE  [Next]_vars
  BY <1>1 DEF Reserve, Next
<1>2. ASSUME NEW c \in Calls, NEW p, NEW sq, Count(c, p, sq)
      PROVE  [Next]_vars
  BY <1>1, <1>2 DEF Count
<1>3. ASSUME NEW c \in Calls, NEW p \in Pairs, SessionReady(c, p)
      PROVE  [Next]_vars
  BY <1>2, <1>3 DEF SessionReady
<1>4. ASSUME NEW c \in Calls, SessionStep(c)
      PROVE  [Next]_vars
  BY <1>1, <1>2, <1>4 DEF SessionStep, CountWakes, ReserveWakes, RelayStep, Next
<1>5. ASSUME CleanupStep
      PROVE  [Next]_vars
  <2>1. ASSUME NEW f \in released, ReleaseEntry(f)
        PROVE  [Next]_vars
    BY <2>1, NatnegAssumption DEF ReleaseEntry, StaleRoutes, Live, Next
  <2> QED
    BY <1>5, <2>1 DEF CleanupStep, CleanupNow, CleanupWaits, CleanupWakes
<1>6. ASSUME NEW p \in Pairs, PairGoesStale(p)
      PROVE  [Next]_vars
  BY <1>6 DEF PairGoesStale
<1>7. ASSUME NEW c \in Calls, NEW p \in Ports, NEW e \in Endpoints, ClientSends(c, p, e)
      PROVE  [Next]_vars
  BY <1>7 DEF ClientSends, Next
<1>8. CASE RelayAlone
  BY <1>8, NatnegAssumption DEF RelayAlone, Next
<1>9. CASE UNCHANGED allVars
  BY <1>9 DEF allVars
<1> QED
  BY <1>3, <1>4, <1>5, <1>6, <1>7, <1>8, <1>9 DEF NatNegNext

\* Seen from the relay, the natneg server is one more set of callers: every
\* behaviour of the composition is a behaviour of the relay server's own
\* specification, for any pairs, sessions and numbers of attempts.
LEMMA NatNegBehavesAsRelay == NatNegSpec => Spec
<1>1. NatNegInit => Init
  BY DEF NatNegInit
<1> QED
  BY <1>1, NatNegStepsAreRelaySteps, PTL DEF NatNegSpec, Spec

\* So what is proved of the relay server alone holds under NAT negotiation.
LEMMA RelaySafetyInNatNeg == NatNegSpec => []RelayInv
BY NatNegBehavesAsRelay, RelaySafety

-----------------------------------------------------------------------------
(* Who is in the relay, and what its pair has meanwhile *)

InRelay(c) == pc[c] \in {"waiting", "listenA", "listenB"}

\* A session inside allocate_route holds the session lock, its pair is tracked
\* and has no relay ports; a session knows its pair from its first step.
RelayTasks ==
  \A c \in Calls :
    /\ task[c] = "relay" <=> InRelay(c)
    /\ task[c] = "relay" => /\ HoldsSession(c)
                            /\ attempts[pairOf[c]] > 0
                            /\ ports[pairOf[c]] = None
    /\ task[c] # "new" => pairOf[c] \in Pairs

NatNegInv == RelayInv /\ NatNegTypeOK /\ RelayTasks

\* Nothing is allocated and no task is at work at the start.
LEMMA NatNegInitEstablishesInv == NatNegInit => NatNegInv
<1> SUFFICES ASSUME NatNegInit
             PROVE  NatNegInv
  OBVIOUS
<1>1. RelayInv
  BY InitEstablishesInv DEF NatNegInit
<1>2. NatNegTypeOK
  <2>1. attempts \in [Pairs -> Nat]
    <3>1. InitialAttempts \subseteq Nat
      <4>1. 0..2 \subseteq Nat
        OBVIOUS
      <4> QED
        BY <4>1, NatnegAssumption
    <3> QED
      BY <3>1 DEF NatNegInit
  <2>2. slock \in Seq(Calls \cup {Natneg})
    BY EmptySeq DEF NatNegInit
  <2> QED
    BY <2>1, <2>2 DEF NatNegInit, NatNegTypeOK
<1>3. RelayTasks
  BY DEF NatNegInit, Init, RelayTasks, InRelay
<1> QED
  BY <1>1, <1>2, <1>3 DEF NatNegInv

\* The session lock is handed on by taking its holder off the queue.
LEMMA SessionQueue ==
  ASSUME NEW q \in Seq(Calls \cup {Natneg}), q # <<>>
  PROVE  /\ Tail(q) \in Seq(Calls \cup {Natneg})
         /\ \A t \in Calls \cup {Natneg} : Append(Tail(q), t) \in Seq(Calls \cup {Natneg})
BY HeadTailProperties, AppendProperties

\* Queueing for the session lock leaves its holder alone.
LEMMA SessionQueueing ==
  ASSUME slock \in Seq(Calls \cup {Natneg}), NEW t \in Calls \cup {Natneg}, slock' = Append(slock, t)
  PROVE  slock' \in Seq(Calls \cup {Natneg}) /\ \A u \in Calls : HoldsSession(u) => HoldsSession(u)'
BY AppendProperties, HeadTailAppend DEF HoldsSession

\* The holder of the session lock enters the relay, finds the ports of its
\* pair or falls back; nobody else was in the relay.
LEMMA ReserveKeepsInv ==
  ASSUME NatNegInv, NEW c \in Calls, NEW p \in Pairs,
         NEW sq \in Seq(Calls \cup {Natneg}), sq # <<>>, Head(sq) = c,
         NEW tracked \in BOOLEAN, tracked => attempts'[p] > 0,
         Reserve(c, p, sq, tracked),
         \A d \in Calls : task[d] # "relay",
         attempts' \in [Pairs -> Nat], \A q \in Pairs : attempts'[q] = 0 => ports[q] = None,
         oldPairs' \subseteq {q \in Pairs : attempts'[q] > 0},
         pairOf' = [pairOf EXCEPT ![c] = p], UNCHANGED released
  PROVE  NatNegTypeOK' /\ RelayTasks'
<1> USE DEF NatNegInv, NatNegTypeOK, RelayTasks
<1>1. Tail(sq) \in Seq(Calls \cup {Natneg})
  BY SessionQueue
<1>2. pc \in [Calls -> {"new", "waiting", "listenA", "listenB", "returned", "failed"}]
  BY DEF RelayInv, TypeOK
<1>3. CASE ~InRelay(c)' /\ slock' = Tail(sq) /\ (pc' = pc \/ pc' = [pc EXCEPT ![c] = "failed"])
           /\ UNCHANGED ports /\ \E kind \in {"relay", "fallback"}, first \in FirstPorts \cup {None} : Connect(c, kind, first)
  <2>1. NatNegTypeOK'
    BY <1>1, <1>3 DEF Connect
  <2>2. \A d \in Calls : ~InRelay(d)' /\ task'[d] # "relay"
    BY <1>2, <1>3 DEF Connect, InRelay
  <2>3. \A d \in Calls : task'[d] # "new" => pairOf'[d] \in Pairs
    BY <1>3 DEF Connect
  <2> QED
    BY <2>1, <2>2, <2>3
<1>4. CASE tracked /\ ports[p] = None /\ slock' = sq /\ task' = [task EXCEPT ![c] = "relay"]
           /\ UNCHANGED <<mode, told, ports>> /\ (Call(c) \/ CallWaits(c)) /\ pc'[c] # "failed"
  <2>1. NatNegTypeOK'
    BY <1>4
  <2>2. InRelay(c)' /\ \A d \in Calls \ {c} : pc'[d] = pc[d]
    BY <1>2, <1>4 DEF Call, CallWaits, Allocate, InRelay
  <2>3. RelayTasks'
    BY <1>4, <2>2 DEF InRelay, HoldsSession
  <2> QED
    BY <2>1, <2>3
<1>5. ~InRelay(c)
  OBVIOUS
<1>6. CASE ~tracked
  BY <1>3, <1>5, <1>6 DEF Reserve, vars, InRelay
<1>7. CASE tracked /\ ports[p] # None
  BY <1>3, <1>5, <1>7 DEF Reserve, vars, InRelay
<1>8. CASE tracked /\ ports[p] = None
  <2>1. CASE pc'[c] = "failed"
    <3>1. pc' = [pc EXCEPT ![c] = "failed"]
      BY <1>2, <1>8, <2>1 DEF Reserve, Call, CallWaits, Allocate
    <3> QED
      BY <1>3, <1>8, <2>1, <3>1 DEF Reserve, InRelay
  <2>2. CASE pc'[c] # "failed"
    BY <1>4, <1>8, <2>2 DEF Reserve
  <2> QED
    BY <2>1, <2>2
<1> QED
  BY <1>6, <1>7, <1>8

\* An attempt of the pair is counted by the holder of the session lock, which
\* connects the session at once, reserves the relay or queues for the lock again.
LEMMA CountKeepsInv ==
  ASSUME NatNegInv, NEW c \in Calls, NEW p \in Pairs,
         NEW sq \in Seq(Calls \cup {Natneg}), sq # <<>>, Head(sq) = c,
         Count(c, p, sq), \A d \in Calls : task[d] # "relay",
         pairOf' = [pairOf EXCEPT ![c] = p], UNCHANGED released
  PROVE  NatNegTypeOK' /\ RelayTasks'
<1> USE DEF NatNegInv, NatNegTypeOK, RelayTasks
<1>1. /\ Tail(sq) \in Seq(Calls \cup {Natneg})
      /\ Append(Tail(sq), c) \in Seq(Calls \cup {Natneg})
  BY SessionQueue
<1>2. /\ attempts' \in [Pairs -> Nat] /\ attempts'[p] > 0
      /\ \A q \in Pairs : attempts'[q] = 0 => ports[q] = None
      /\ oldPairs' \subseteq {q \in Pairs : attempts'[q] > 0}
  BY DEF Count
<1>3. CASE Reserve(c, p, sq, TRUE)
  BY <1>2, <1>3, ReserveKeepsInv
<1>4. CASE /\ UNCHANGED <<vars, ports>> /\ slock' = Tail(sq)
           /\ \E kind \in {"wan", "lan"} : Connect(c, kind, None)
  <2>1. NatNegTypeOK'
    BY <1>1, <1>2, <1>4 DEF Connect
  <2>2. RelayTasks'
    BY <1>4 DEF Connect, vars, InRelay
  <2> QED
    BY <2>1, <2>2
<1>5. CASE /\ slock' = Append(Tail(sq), c)
           /\ task' = [task EXCEPT ![c] = "reserve"]
           /\ UNCHANGED <<vars, ports, mode, told>>
  <2>1. NatNegTypeOK'
    BY <1>1, <1>2, <1>5
  <2>2. RelayTasks'
    BY <1>5 DEF vars, InRelay
  <2> QED
    BY <2>1, <2>2
<1> QED
  BY <1>3, <1>4, <1>5 DEF Count

\* A step of the relay inside allocate_route, and what the session does when
\* the call comes back.
LEMMA RelayStepKeepsInv ==
  ASSUME NatNegInv, RelayInv', NEW c \in Calls, RelayStep(c)
  PROVE  NatNegTypeOK' /\ RelayTasks'
<1> USE DEF NatNegInv, NatNegTypeOK, RelayTasks
<1>1. /\ task[c] = "relay" /\ HoldsSession(c) /\ InRelay(c)
      /\ pairOf[c] \in Pairs /\ attempts[pairOf[c]] > 0 /\ ports[pairOf[c]] = None
      /\ UNCHANGED <<attempts, oldPairs, pairOf, released>>
  BY DEF RelayStep
<1>2. Tail(slock) \in Seq(Calls \cup {Natneg})
  BY <1>1, SessionQueue DEF HoldsSession
<1>3. \A d \in Calls \ {c} : task[d] # "relay" /\ ~InRelay(d)
  BY <1>1 DEF HoldsSession
<1>4. pc' \in [Calls -> {"new", "waiting", "listenA", "listenB", "returned", "failed"}]
      /\ pc'[c] \in {"listenA", "listenB", "returned", "failed"}
      /\ \A d \in Calls \ {c} : pc'[d] = pc[d]
  BY DEF RelayInv, TypeOK, RelayStep, CallStep, CallWakes, Allocate, ListenA, ListenB, ListenFails
<1>5. portA[c] \in FirstPorts \cup {None}
  BY DEF RelayInv, TypeOK
<1>6. CASE pc'[c] = "returned"
  <2>1. /\ ports' = [ports EXCEPT ![pairOf[c]] = portA[c]]
        /\ Connect(c, "relay", portA[c])
        /\ slock' = Tail(slock)
    BY <1>6 DEF RelayStep
  <2>2. NatNegTypeOK'
    BY <1>1, <1>2, <1>5, <2>1 DEF Connect
  <2>3. \A d \in Calls : task'[d] # "relay" /\ ~InRelay(d)' /\ pairOf'[d] = pairOf[d]
    BY <1>1, <1>3, <1>4, <1>6, <2>1 DEF Connect, InRelay
  <2>4. \A d \in Calls : task'[d] # "new" => pairOf'[d] \in Pairs
    BY <1>1, <2>1 DEF Connect
  <2> QED
    BY <2>2, <2>3, <2>4
<1>7. CASE pc'[c] = "failed"
  <2>1. Connect(c, "fallback", None) /\ slock' = Tail(slock) /\ UNCHANGED ports
    BY <1>7 DEF RelayStep
  <2>2. NatNegTypeOK'
    BY <1>1, <1>2, <2>1 DEF Connect
  <2>3. \A d \in Calls : task'[d] # "relay" /\ ~InRelay(d)' /\ pairOf'[d] = pairOf[d]
    BY <1>1, <1>3, <1>4, <1>7, <2>1 DEF Connect, InRelay
  <2>4. \A d \in Calls : task'[d] # "new" => pairOf'[d] \in Pairs
    BY <1>1, <2>1 DEF Connect
  <2> QED
    BY <2>2, <2>3, <2>4
<1>8. CASE pc'[c] \in {"listenA", "listenB"}
  <2>1. UNCHANGED <<ports, slock, task, mode, told>>
    BY <1>8 DEF RelayStep
  <2>2. NatNegTypeOK'
    BY <1>1, <2>1
  <2>3. RelayTasks'
    BY <1>1, <1>3, <1>4, <1>8, <2>1 DEF InRelay, HoldsSession
  <2> QED
    BY <2>2, <2>3
<1> QED
  BY <1>4, <1>6, <1>7, <1>8

\* Expired pairs go only while nobody is in the relay, the clean-up loop being
\* the holder of the session lock or alone with it.
LEMMA ExpireKeepsInv ==
  ASSUME NatNegInv, ExpirePairs, \A c \in Calls : task[c] # "relay",
         slock' \in Seq(Calls \cup {Natneg}),
         UNCHANGED <<vars, task, pairOf, mode, told>>
  PROVE  NatNegTypeOK' /\ RelayTasks'
<1> USE DEF NatNegInv, NatNegTypeOK
<1>1. released' \subseteq FirstPorts
  BY DEF ExpirePairs
<1>2. NatNegTypeOK'
  BY <1>1 DEF ExpirePairs
<1>3. RelayTasks'
  BY DEF RelayTasks, vars, InRelay
<1> QED
  BY <1>2, <1>3

\* The steps of the relay that are not steps of a session leave the calls where they are.
LEMMA OtherStepsKeepInv ==
  ASSUME NatNegInv, slock' \in Seq(Calls \cup {Natneg}), \A c \in Calls : HoldsSession(c) => HoldsSession(c)',
         UNCHANGED <<pc, attempts, ports, task, pairOf, mode, told>>,
         oldPairs' \subseteq {p \in Pairs : attempts[p] > 0}, released' \subseteq FirstPorts
  PROVE  NatNegTypeOK' /\ RelayTasks'
<1>1. NatNegTypeOK'
  BY DEF NatNegInv, NatNegTypeOK
<1>2. RelayTasks'
  BY DEF NatNegInv, RelayTasks, InRelay
<1> QED
  BY <1>1, <1>2

\* Every step of the session manager, the clients and the clean-up loops keeps it.
LEMMA NatNegNextKeepsInv == NatNegInv /\ [NatNegNext]_allVars => NatNegInv'
<1> SUFFICES ASSUME NatNegInv, [NatNegNext]_allVars
             PROVE  NatNegInv'
  OBVIOUS
<1> USE DEF NatNegInv
<1>1. RelayInv'
  BY NatNegStepsAreRelaySteps, NextKeepsInv
<1>2. slock \in Seq(Calls \cup {Natneg})
  BY DEF NatNegTypeOK
<1>3. Natneg \notin Calls
  BY NatnegAssumption, TasksAssumption
<1>4. ASSUME NEW c \in Calls, NEW p \in Pairs, SessionReady(c, p)
      PROVE  NatNegTypeOK' /\ RelayTasks'
  <2>1. pairOf' = [pairOf EXCEPT ![c] = p] /\ task[c] = "new" /\ UNCHANGED released
    BY <1>4 DEF SessionReady
  <2>2. CASE slock = <<>>
    <3>1. Count(c, p, <<c>>) /\ \A d \in Calls : task[d] # "relay"
      BY <1>4, <2>2 DEF SessionReady, RelayTasks, HoldsSession
    <3>2. <<c>> \in Seq(Calls \cup {Natneg}) /\ <<c>> # <<>> /\ Head(<<c>>) = c
      OBVIOUS
    <3> QED
      BY <2>1, <3>1, <3>2, CountKeepsInv
  <2>3. CASE slock # <<>>
    <3>1. slock' = Append(slock, c) /\ task' = [task EXCEPT ![c] = "count"]
          /\ UNCHANGED <<vars, pairVars, mode, told>>
      BY <1>4, <2>3 DEF SessionReady
    <3>2. slock' \in Seq(Calls \cup {Natneg}) /\ \A u \in Calls : HoldsSession(u) => HoldsSession(u)'
      BY <1>2, <3>1, SessionQueueing
    <3>3. NatNegTypeOK'
      BY <2>1, <3>1, <3>2 DEF NatNegTypeOK, pairVars
    <3>4. RelayTasks'
      BY <2>1, <3>1, <3>2 DEF RelayTasks, NatNegTypeOK, pairVars, vars, InRelay
    <3> QED
      BY <3>3, <3>4
  <2> QED
    BY <2>2, <2>3
<1>5. ASSUME NEW c \in Calls, CountWakes(c) \/ ReserveWakes(c)
      PROVE  NatNegTypeOK' /\ RelayTasks'
  <2>1. HoldsSession(c) /\ task[c] \in {"count", "reserve"} /\ UNCHANGED <<pairOf, released>>
    BY <1>5 DEF CountWakes, ReserveWakes
  <2>2. slock # <<>> /\ Head(slock) = c /\ \A d \in Calls : task[d] # "relay"
    BY <2>1 DEF HoldsSession, RelayTasks
  <2>3. pairOf[c] \in Pairs /\ pairOf' = [pairOf EXCEPT ![c] = pairOf[c]]
    BY <2>1 DEF RelayTasks, NatNegTypeOK
  <2>4. CASE CountWakes(c)
    BY <1>2, <2>1, <2>2, <2>3, <2>4, CountKeepsInv DEF CountWakes
  <2>5. CASE ReserveWakes(c)
    <3>1. Reserve(c, pairOf[c], slock, attempts[pairOf[c]] > 0) /\ UNCHANGED <<attempts, oldPairs>>
      BY <2>5 DEF ReserveWakes
    <3>2. /\ attempts' \in [Pairs -> Nat] /\ \A q \in Pairs : attempts'[q] = 0 => ports[q] = None
          /\ oldPairs' \subseteq {q \in Pairs : attempts'[q] > 0}
      BY <3>1 DEF NatNegTypeOK
    <3>3. CASE attempts[pairOf[c]] > 0
      <4>1. Reserve(c, pairOf[c], slock, TRUE) /\ attempts'[pairOf[c]] > 0
        BY <3>1, <3>3 DEF Reserve
      <4> HIDE DEF NatNegInv
      <4> QED
        BY <1>2, <2>1, <2>2, <2>3, <3>2, <4>1, ReserveKeepsInv
    <3>4. CASE ~(attempts[pairOf[c]] > 0)
      <4>1. Reserve(c, pairOf[c], slock, FALSE)
        BY <3>1, <3>4 DEF Reserve
      <4> HIDE DEF NatNegInv
      <4> QED
        BY <1>2, <2>1, <2>2, <2>3, <3>2, <4>1, ReserveKeepsInv
    <3> QED
      BY <3>3, <3>4
  <2> QED
    BY <1>5, <2>4, <2>5
<1>6. ASSUME NEW c \in Calls, RelayStep(c)
      PROVE  NatNegTypeOK' /\ RelayTasks'
  BY <1>1, <1>6, RelayStepKeepsInv
<1>7. CASE CleanupNow
  <2>1. ExpirePairs /\ slock = <<>> /\ slock' = slock /\ UNCHANGED <<vars, task, pairOf, mode, told>>
    BY <1>7 DEF CleanupNow, sessionVars
  <2>2. \A c \in Calls : task[c] # "relay"
    BY <2>1 DEF RelayTasks, HoldsSession
  <2>4. NatNegTypeOK' /\ RelayTasks'
    <3> HIDE DEF NatNegInv
    <3> QED
      BY <1>2, <2>1, <2>2, ExpireKeepsInv
  <2> QED
    BY <1>1, <2>4
<1>8. CASE CleanupWakes
  <2>1. Tail(slock) \in Seq(Calls \cup {Natneg})
    BY <1>2, <1>8, SessionQueue DEF CleanupWakes, HoldsSession
  <2>2. \A c \in Calls : task[c] # "relay"
    BY <1>3, <1>8 DEF CleanupWakes, RelayTasks, HoldsSession
  <2>3. ExpirePairs /\ slock' = Tail(slock) /\ UNCHANGED <<vars, task, pairOf, mode, told>>
    BY <1>8 DEF CleanupWakes
  <2>4. NatNegTypeOK' /\ RelayTasks'
    <3> HIDE DEF NatNegInv
    <3> QED
      BY <2>1, <2>2, <2>3, ExpireKeepsInv
  <2> QED
    BY <1>1, <2>4
<1>9. CASE CleanupWaits
  <2>1. slock' = Append(slock, Natneg)
    BY <1>9 DEF CleanupWaits
  <2>2. /\ slock' \in Seq(Calls \cup {Natneg})
        /\ \A u \in Calls : HoldsSession(u) => HoldsSession(u)'
    BY <1>2, <2>1, SessionQueueing
  <2>3. /\ UNCHANGED <<pc, attempts, ports, task, pairOf, mode, told>>
        /\ oldPairs' \subseteq {p \in Pairs : attempts[p] > 0} /\ released' \subseteq FirstPorts
    BY <1>9 DEF CleanupWaits, vars, pairVars, NatNegTypeOK
  <2>4. NatNegTypeOK' /\ RelayTasks'
    <3> HIDE DEF NatNegInv
    <3> QED
      BY <2>2, <2>3, OtherStepsKeepInv
  <2> QED
    BY <1>1, <2>4
<1>10. ASSUME NEW f \in released, ReleaseEntry(f)
       PROVE  NatNegTypeOK' /\ RelayTasks'
  <2>1. UNCHANGED pc
    BY <1>10 DEF ReleaseEntry, Release, ReleaseWaits, vars
  <2> QED
    BY <1>2, <1>10, <2>1, OtherStepsKeepInv DEF ReleaseEntry, pairVars, sessionVars, NatNegTypeOK, HoldsSession
<1>11. ASSUME NEW p \in Pairs, PairGoesStale(p)
       PROVE  NatNegTypeOK' /\ RelayTasks'
  BY <1>2, <1>11, OtherStepsKeepInv DEF PairGoesStale, vars, sessionVars, NatNegTypeOK, HoldsSession
<1>12. CASE UNCHANGED natnegVars /\ UNCHANGED pc
  <2>1. /\ UNCHANGED <<pc, attempts, ports, task, pairOf, mode, told, slock>>
        /\ oldPairs' \subseteq {p \in Pairs : attempts[p] > 0} /\ released' \subseteq FirstPorts
    BY <1>12 DEF natnegVars, NatNegTypeOK
  <2>2. \A u \in Calls : HoldsSession(u) => HoldsSession(u)'
    BY <2>1 DEF HoldsSession
  <2>4. NatNegTypeOK' /\ RelayTasks'
    <3> HIDE DEF NatNegInv
    <3> QED
      BY <1>2, <2>1, <2>2, OtherStepsKeepInv
  <2> QED
    BY <1>1, <2>4
<1>13. ASSUME NEW c \in Calls, NEW p \in Ports, NEW e \in Endpoints, ClientSends(c, p, e)
       PROVE  NatNegTypeOK' /\ RelayTasks'
  BY <1>12, <1>13 DEF ClientSends, Datagram
<1>14. CASE RelayAlone
  BY <1>12, <1>14 DEF RelayAlone, SweeperStep, SweepNow, SweepWaits, SweepCollects, SweepReleases,
                      ReleaseWakes, GoesStale
<1>15. CASE UNCHANGED allVars
  BY <1>12, <1>15 DEF allVars, vars
<1> QED
  BY <1>1, <1>4, <1>5, <1>6, <1>7, <1>8, <1>9, <1>10, <1>11, <1>13, <1>14, <1>15
     DEF NatNegNext, SessionStep, CleanupStep

\* In every state that NAT negotiation reaches with the relay, the relay's tables are
\* sound, the tasks above it are well typed, and a task that is in the relay holds
\* the session lock.
THEOREM NatNegSafety == NatNegSpec => []NatNegInv
BY NatNegInitEstablishesInv, NatNegNextKeepsInv, PTL DEF NatNegSpec

\* The state above the relay is well typed, and the session lock makes the
\* allocations of routes one at a time.
THEOREM NatNegStateHolds == NatNegSpec => []NatNegState
<1>1. NatNegInv => NatNegState
  BY DEF NatNegInv, NatNegState, OneAllocationAtATime, RelayTasks, InRelay, HoldsSession
<1> QED
  BY <1>1, NatNegSafety, PTL

\* Table, pool, listeners and peers of the relay agree while NAT negotiation drives it.
THEOREM RelayStateUnderNatNeg == NatNegSpec => []RelayState
BY RelaySafetyInNatNeg, PTL DEF RelayInv, RelayState

\* A step changes the relay ports of a pair only to give a pair without any its
\* first ones, or to forget those of a pair that expired.
LEMMA NatNegStepsKeepPorts ==
  ASSUME NatNegInv, [NatNegNext]_allVars, NEW p \in Pairs, ports[p] # None
  PROVE  ports'[p] = ports[p] \/ (ports'[p] = None /\ attempts'[p] = 0)
<1>1. CASE UNCHANGED ports
  BY <1>1
<1>2. CASE ExpirePairs
  BY <1>2 DEF ExpirePairs, NatNegInv, NatNegTypeOK
<1>3. ASSUME NEW c \in Calls, RelayStep(c)
      PROVE  ports'[p] = ports[p]
  <2>1. ports[pairOf[c]] = None
    BY <1>3 DEF RelayStep, NatNegInv, RelayTasks
  <2>2. ports' = ports \/ ports' = [ports EXCEPT ![pairOf[c]] = portA[c]]
    BY <1>3 DEF RelayStep
  <2> QED
    BY <2>1, <2>2 DEF NatNegInv, NatNegTypeOK
<1>4. ASSUME NEW c \in Calls, NEW q, NEW sq, NEW tracked, Reserve(c, q, sq, tracked)
      PROVE  UNCHANGED ports
  BY <1>4 DEF Reserve
<1>5. ASSUME NEW c \in Calls, NEW q, NEW sq, Count(c, q, sq)
      PROVE  UNCHANGED ports
  BY <1>4, <1>5 DEF Count
<1>6. ASSUME NEW c \in Calls, NEW q \in Pairs, SessionReady(c, q)
      PROVE  UNCHANGED ports
  BY <1>5, <1>6 DEF SessionReady, pairVars
<1>7. ASSUME NEW c \in Calls, SessionStep(c)
      PROVE  UNCHANGED ports \/ RelayStep(c)
  BY <1>4, <1>5, <1>7 DEF SessionStep, CountWakes, ReserveWakes
<1>8. CASE CleanupStep
  BY <1>1, <1>2, <1>8 DEF CleanupStep, CleanupNow, CleanupWaits, CleanupWakes, ReleaseEntry, pairVars
<1>9. CASE \/ \E q \in Pairs : PairGoesStale(q)
           \/ \E c \in Calls, q \in Ports, e \in Endpoints : ClientSends(c, q, e)
           \/ RelayAlone \/ UNCHANGED allVars
  BY <1>1, <1>9 DEF PairGoesStale, ClientSends, RelayAlone, natnegVars, allVars
<1> QED
  BY <1>1, <1>3, <1>6, <1>7, <1>8, <1>9 DEF NatNegNext

\* A tracked pair keeps the relay ports it was given until it expires, however
\* many of its sessions become ready together.
THEOREM PairsKeepTheirPorts == NatNegSpec => PairKeepsPorts
<1>1. NatNegInv /\ [NatNegNext]_allVars =>
        [\A p \in Pairs : ports[p] # None => ports'[p] = ports[p] \/ (ports'[p] = None /\ attempts'[p] = 0)]_allVars
  BY NatNegStepsKeepPorts
<1> QED
  BY <1>1, NatNegSafety, PTL DEF NatNegSpec, PairKeepsPorts
====
