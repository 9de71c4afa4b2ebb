---- MODULE NatNegRelay ----
(***************************************************************************)
(* NAT negotiation above the relay: the attempts the session manager      *)
(* counts per (host_ip, guest_ip) pair, the address mode a ready session  *)
(* gets (WAN, LAN, relay), the relay ports a pair keeps, and the natneg    *)
(* clean-up loop, composed with the relay server of RelayServer.           *)
(*                                                                         *)
(* A call of allocate_route is made by the on-session-ready task of one    *)
(* session, so Calls is also the set of sessions.  The head of "slock"     *)
(* holds NatNegSessionManager._lock; allocate_pair_relay_if_missing keeps  *)
(* it while it awaits the relay.  The other methods of the session manager *)
(* hold the lock without awaiting anything and are left out here.  The     *)
(* clients of a pair send datagrams to the relay ports they were told in a *)
(* CONNECT packet, nobody else does.                                       *)
(***************************************************************************)
EXTENDS RelayServer

CONSTANTS Pairs,           \* the (host_ip, guest_ip) pairs
          Natneg,          \* the clean-up loop of the natneg server, a releaser of routes
          InitialAttempts  \* how many attempts without a relay a pair may have behind it

ASSUME NatnegAssumption == /\ Natneg \in Releasers
                           /\ InitialAttempts \subseteq 0..2
                           /\ Endpoints = Pairs \X {"host", "guest"}

VARIABLES attempts,  \* PairAttemptInfo.attempt_count, 0 when the pair is not tracked
          ports,     \* PairAttemptInfo.relay_ports (the first of the two), or None
          oldPairs,  \* the tracked pairs with no attempt for longer than pair_ttl
          slock,     \* NatNegSessionManager._lock: the holder, then the waiters
          task,      \* where the on-session-ready task of each session is
          pairOf,    \* the pair of each session
          mode,      \* the kind of address the CONNECT packets of a session named
          told,      \* the relay ports (the first) they named in relay mode, or None
          released   \* relay_ports of expired pairs the clean-up loop has still to look at

pairVars == <<attempts, ports, oldPairs>>
sessionVars == <<slock, task, pairOf, mode, told>>
natnegVars == <<attempts, ports, oldPairs, slock, task, pairOf, mode, told, released>>
allVars == <<vars, natnegVars>>

\* The state stays well typed; no pair keeps relay ports without being tracked.
NatNegTypeOK ==
  /\ attempts \in [Pairs -> Nat]
  /\ ports \in [Pairs -> FirstPorts \cup {None}]
  /\ \A p \in Pairs : attempts[p] = 0 => ports[p] = None
  /\ oldPairs \subseteq {p \in Pairs : attempts[p] > 0}
  /\ slock \in Seq(Calls \cup {Natneg})
  /\ task \in [Calls -> {"new", "count", "reserve", "relay", "done"}]
  /\ pairOf \in [Calls -> Pairs \cup {None}]
  /\ mode \in [Calls -> {"none", "wan", "lan", "relay", "fallback"}]
  /\ told \in [Calls -> FirstPorts \cup {None}]
  /\ released \subseteq FirstPorts

NatNegInit ==
  /\ Init
  /\ attempts \in [Pairs -> InitialAttempts]
  /\ ports = [p \in Pairs |-> None]
  /\ oldPairs = {}
  /\ slock = <<>>
  /\ task = [c \in Calls |-> "new"]
  /\ pairOf = [c \in Calls |-> None]
  /\ mode = [c \in Calls |-> "none"]
  /\ told = [c \in Calls |-> None]
  /\ released = {}

-----------------------------------------------------------------------------
(* The on-session-ready task of session c, for pair p *)

\* CONNECT packets with the given kind of address go out and the task ends.  That
\* a client without port type 1 gets none is in NatNegSessions.
Connect(c, kind, first) ==
  /\ mode' = [mode EXCEPT ![c] = kind]
  /\ told' = [told EXCEPT ![c] = first]
  /\ task' = [task EXCEPT ![c] = "done"]

\* Mutant: the session lock is given back before the relay is asked.
ReserveUnlocked(c, p, sq, tracked) ==
  \/ /\ ~tracked
     /\ Connect(c, "fallback", None)
     /\ slock' = Tail(sq)
     /\ UNCHANGED <<vars, ports>>
  \/ /\ tracked
     /\ ports[p] # None
     /\ Connect(c, "relay", ports[p])
     /\ slock' = Tail(sq)
     /\ UNCHANGED <<vars, ports>>
  \/ /\ tracked
     /\ ports[p] = None
     /\ Call(c) \/ CallWaits(c)
     /\ slock' = Tail(sq)
     /\ IF pc'[c] = "failed"
        THEN Connect(c, "fallback", None)
        ELSE /\ task' = [task EXCEPT ![c] = "relay"]
             /\ UNCHANGED <<mode, told>>
     /\ UNCHANGED ports

\* Mutant: the ports a pair already has are not looked at.
ReserveAlways(c, p, sq, tracked) ==
  \/ /\ ~tracked
     /\ Connect(c, "fallback", None)
     /\ slock' = Tail(sq)
     /\ UNCHANGED <<vars, ports>>
  \/ /\ tracked
     /\ Call(c) \/ CallWaits(c)
     /\ IF pc'[c] = "failed"
        THEN Connect(c, "fallback", None) /\ slock' = Tail(sq)
        ELSE /\ task' = [task EXCEPT ![c] = "relay"]
             /\ slock' = sq
             /\ UNCHANGED <<mode, told>>
     /\ UNCHANGED ports

\* allocate_pair_relay_if_missing up to its first suspension, c at the head of sq.
Reserve(c, p, sq, tracked) ==
  \/ /\ ~tracked
     /\ Connect(c, "fallback", None)
     /\ slock' = Tail(sq)
     /\ UNCHANGED <<vars, ports>>
  \/ /\ tracked
     /\ ports[p] # None
     /\ Connect(c, "relay", ports[p])
     /\ slock' = Tail(sq)
     /\ UNCHANGED <<vars, ports>>
  \/ /\ tracked
     /\ ports[p] = None
     /\ Call(c) \/ CallWaits(c)
     /\ IF pc'[c] = "failed"
        THEN Connect(c, "fallback", None) /\ slock' = Tail(sq)
        ELSE /\ task' = [task EXCEPT ![c] = "relay"]
             /\ slock' = sq
             /\ UNCHANGED <<mode, told>>
     /\ UNCHANGED ports

\* get_pair_attempt, c at the head of sq, and _on_session_ready after it.  The
\* lock is taken again for the ports: at once, unless a task waits for it (also
\* one that only holds it for a moment, such as register_client).
Count(c, p, sq) ==
  /\ attempts' = [attempts EXCEPT ![p] = @ + 1]
  /\ oldPairs' = oldPairs \ {p}
  /\ \/ /\ attempts'[p] \in {1, 2}
        /\ Connect(c, IF attempts'[p] = 1 THEN "wan" ELSE "lan", None)
        /\ slock' = Tail(sq)
        /\ UNCHANGED <<vars, ports>>
     \/ /\ attempts'[p] > 2
        /\ \/ /\ Tail(sq) = <<>>
              /\ Reserve(c, p, sq, TRUE)
           \/ /\ Tail(sq) # <<>> \/ task[c] = "count"
              /\ slock' = Append(Tail(sq), c)
              /\ task' = [task EXCEPT ![c] = "reserve"]
              /\ UNCHANGED <<vars, ports, mode, told>>

\* The delay after register_client is over; the session lock is free or not.
SessionReady(c, p) ==
  /\ task[c] = "new"
  /\ pairOf' = [pairOf EXCEPT ![c] = p]
  /\ IF slock = <<>>
     THEN Count(c, p, <<c>>)
     ELSE /\ slock' = Append(slock, c)
          /\ task' = [task EXCEPT ![c] = "count"]
          /\ UNCHANGED <<vars, pairVars, mode, told>>
  /\ UNCHANGED released

HoldsSession(t) == slock # <<>> /\ Head(slock) = t

CountWakes(c) ==
  /\ task[c] = "count"
  /\ HoldsSession(c)
  /\ Count(c, pairOf[c], slock)
  /\ UNCHANGED <<pairOf, released>>

ReserveWakes(c) ==
  /\ task[c] = "reserve"
  /\ HoldsSession(c)
  /\ Reserve(c, pairOf[c], slock, attempts[pairOf[c]] > 0)
  /\ UNCHANGED <<attempts, oldPairs, pairOf, released>>

\* Mutant: a failed allocation is only logged, without the WAN fallback.
RelayStepNoFallback(c) ==
  /\ task[c] = "relay"
  /\ CallStep(c)
  /\ CASE pc'[c] = "returned" -> /\ ports' = [ports EXCEPT ![pairOf[c]] = portA[c]]
                                 /\ Connect(c, "relay", portA[c])
                                 /\ slock' = Tail(slock)
       [] pc'[c] = "failed"   -> /\ slock' = Tail(slock)
                                 /\ UNCHANGED <<ports, task, mode, told>>
       [] OTHER               -> UNCHANGED <<ports, slock, task, mode, told>>
  /\ UNCHANGED <<attempts, oldPairs, pairOf, released>>

\* The relay goes on with allocate_route; when it returns, the rest of
\* allocate_pair_relay_if_missing and _send_connect_relay runs on with it.
RelayStep(c) ==
  /\ task[c] = "relay"
  /\ CallStep(c)
  /\ CASE pc'[c] = "returned" -> /\ ports' = [ports EXCEPT ![pairOf[c]] = portA[c]]
                                 /\ Connect(c, "relay", portA[c])
                                 /\ slock' = Tail(slock)
       [] pc'[c] = "failed"   -> /\ Connect(c, "fallback", None)
                                 /\ slock' = Tail(slock)
                                 /\ UNCHANGED ports
       [] OTHER               -> UNCHANGED <<ports, slock, task, mode, told>>
  /\ UNCHANGED <<attempts, oldPairs, pairOf, released>>

-----------------------------------------------------------------------------
(* NatNegServer._cleanup_loop *)

CleanupIdle == released = {} /\ holding[Natneg] = None

\* Mutant: the attempts are reset, the relay ports stay.
ExpirePairsKeepsPorts ==
  /\ attempts' = [p \in Pairs |-> IF p \in oldPairs THEN 0 ELSE attempts[p]]
  /\ released' = {ports[p] : p \in oldPairs} \ {None}
  /\ oldPairs' = {}
  /\ UNCHANGED ports

\* cleanup_stale_pairs
ExpirePairs ==
  /\ attempts' = [p \in Pairs |-> IF p \in oldPairs THEN 0 ELSE attempts[p]]
  /\ ports' = [p \in Pairs |-> IF p \in oldPairs THEN None ELSE ports[p]]
  /\ released' = {ports[p] : p \in oldPairs} \ {None}
  /\ oldPairs' = {}

CleanupNow ==
  /\ CleanupIdle
  /\ slock = <<>>
  /\ ExpirePairs
  /\ UNCHANGED <<vars, sessionVars>>

CleanupWaits ==
  /\ CleanupIdle
  /\ slock # <<>>
  /\ \A i \in 1..Len(slock) : slock[i] # Natneg
  /\ slock' = Append(slock, Natneg)
  /\ UNCHANGED <<vars, pairVars, task, pairOf, mode, told, released>>

CleanupWakes ==
  /\ HoldsSession(Natneg)
  /\ ExpirePairs
  /\ slock' = Tail(slock)
  /\ UNCHANGED <<vars, task, pairOf, mode, told>>

\* One entry of released_pairs: its route, looked up by port, is released if it is stale.
ReleaseEntry(f) ==
  /\ f \in released
  /\ holding[Natneg] = None
  /\ IF routes[f] \in StaleRoutes
     THEN Release(Natneg, routes[f]) \/ ReleaseWaits(Natneg, routes[f])
     ELSE UNCHANGED vars
  /\ released' = released \ {f}
  /\ UNCHANGED <<pairVars, sessionVars>>

CleanupStep == CleanupNow \/ CleanupWaits \/ CleanupWakes \/ \E f \in released : ReleaseEntry(f)

-----------------------------------------------------------------------------
(* The environment and the other steps of the relay *)

PairGoesStale(p) ==
  /\ attempts[p] > 0
  /\ p \notin oldPairs
  /\ oldPairs' = oldPairs \cup {p}
  /\ UNCHANGED <<vars, attempts, ports, sessionVars, released>>

\* A client sends to the relay port of its side: the guest was told port_a, the host port_b.
ClientSends(c, p, e) ==
  /\ told[c] # None
  /\ \/ p = told[c] /\ e = <<pairOf[c], "guest">>
     \/ p = told[c] + 1 /\ e = <<pairOf[c], "host">>
  /\ Datagram(p, e)
  /\ UNCHANGED natnegVars

RelayAlone ==
  /\ SweeperStep \/ ReleaseWakes(Natneg) \/ \E c \in Calls : GoesStale(c)
  /\ UNCHANGED natnegVars

SessionStep(c) == CountWakes(c) \/ ReserveWakes(c) \/ RelayStep(c)

NatNegNext ==
  \/ \E c \in Calls, p \in Pairs : SessionReady(c, p)
  \/ \E c \in Calls : SessionStep(c)
  \/ CleanupStep
  \/ \E p \in Pairs : PairGoesStale(p)
  \/ \E c \in Calls, p \in Ports, e \in Endpoints : ClientSends(c, p, e)
  \/ RelayAlone

NatNegSpec == NatNegInit /\ [][NatNegNext]_allVars

\* The event loop runs every task that can go on, create_datagram_endpoint
\* returns or raises, and both clean-up loops wake up again and again.
NatNegFairness ==
  /\ \A c \in Calls : WF_allVars(SessionStep(c))
  /\ WF_allVars(CleanupStep)
  /\ WF_allVars(SweeperStep /\ UNCHANGED natnegVars)
  /\ WF_allVars(ReleaseWakes(Natneg) /\ UNCHANGED natnegVars)

NatNegFairSpec == NatNegSpec /\ NatNegFairness

-----------------------------------------------------------------------------
(* Properties *)

\* The session lock makes the calls of allocate_route one at a time, so the
\* relay never starts listeners for two routes at once.
OneAllocationAtATime ==
  \A c, d \in Calls : pc[c] \in {"waiting", "listenA", "listenB"} /\ pc[d] \in {"waiting", "listenA", "listenB"}
                      => c = d /\ HoldsSession(c)

\* The counts and ports of the pairs are in range, and allocations never overlap.
NatNegState == NatNegTypeOK /\ OneAllocationAtATime

\* A tracked pair is given relay ports once: two sessions of the pair that
\* become ready together never get different ports, and no route is orphaned
\* by a second allocation.
PairKeepsPorts ==
  [][\A p \in Pairs : ports[p] # None => ports'[p] = ports[p] \/ (ports'[p] = None /\ attempts'[p] = 0)]_allVars

\* Every session that becomes ready is answered with CONNECT packets, whatever
\* waits for the locks and whether or not the relay can allocate.
ReadySessionsConnect == \A c \in Calls : task[c] # "new" ~> task[c] = "done"

\* The ports a session is told in relay mode are those of a live route that was
\* allocated for its pair.
RelayPortsAreLive ==
  [][\A c \in Calls : mode'[c] = "relay" /\ mode[c] # "relay" =>
       /\ routes'[told'[c]] # None
       /\ pairOf'[routes'[told'[c]]] = pairOf'[c]]_allVars

\* A route that was handed to its caller leaves the table only while it is idle:
\* neither the relay's clean-up task nor the natneg clean-up loop takes a route
\* that has had traffic again in the meantime.
OnlyIdleRoutesGo ==
  [][\A c \in Live : pc[c] = "returned" /\ c \notin stale => c \in Live']_allVars
====
