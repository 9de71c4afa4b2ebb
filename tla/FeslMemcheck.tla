---- MODULE FeslMemcheck ----
(***************************************************************************)
(* The MemCheck thread of the FESL server (fesl_server.py) beside the ping *)
(* thread of the Peerchat server, on the event loop they share.            *)
(*                                                                         *)
(* The thread keeps fesl_clients_lock for a whole round and waits for the  *)
(* loop to send each MemCheck; connection_made and connection_lost take    *)
(* the same lock on the loop, which stops if the round has it.  A MemCheck *)
(* never suspends, so that its five seconds are over only if the loop is   *)
(* stopped; while it is, the PINGs of the other thread run out as well.    *)
(***************************************************************************)
EXTENDS PeerchatLock

CONSTANT Peers  \* FESL connections

VARIABLES
  peer,       \* connection -> how far it is
  table,      \* fesl_clients
  callback,   \* the connection whose callback stopped the loop, or None
  checking,   \* whether the MemCheck thread has fesl_clients_lock
  unchecked,  \* the connections its round has still to look at
  awaited,    \* the one it waits to have checked, or None
  memcheck,   \* the MemChecks on the loop, and how they ended
  failed      \* clients_to_remove

peerVars == <<peer, table, callback>>
checkVars == <<checking, unchecked, awaited, memcheck, failed>>
feslVars == <<peerVars, checkVars>>
allVars == <<vars, feslVars>>

ASSUME PeersAssumption == None \notin Peers

FeslInit ==
  /\ Init
  /\ peer = [p \in Peers |-> "new"]
  /\ table = {}
  /\ callback = None
  /\ checking = FALSE
  /\ unchecked = {}
  /\ awaited = None
  /\ memcheck = [p \in Peers |-> "none"]
  /\ failed = {}

ChatUnchanged == UNCHANGED <<lock, todo, full, silent, ping, pingVars>>

-----------------------------------------------------------------------------
(* The event loop *)

\* Mutant: the lock that the thread has is not waited for.
LockedCallbackSkipped(p, new) ==
  /\ table' = IF checking THEN table ELSE new
  /\ UNCHANGED <<callback, blocked>>

\* A callback changes the table under the lock, or stops the loop for it.
LockedCallback(p, new) ==
  IF checking
  THEN blocked' = Fesl /\ callback' = p /\ UNCHANGED table
  ELSE table' = new /\ UNCHANGED <<callback, blocked>>

ConnectionMade(p) ==
  /\ LoopRuns
  /\ peer[p] = "new"
  /\ peer' = [peer EXCEPT ![p] = "open"]
  /\ LockedCallback(p, table \cup {p})
  /\ UNCHANGED checkVars /\ ChatUnchanged

\* The end of the stream closes the transport, and connection_lost is called later.
Closes(p) ==
  /\ LoopRuns
  /\ peer[p] = "open"
  /\ peer' = [peer EXCEPT ![p] = "closing"]
  /\ UNCHANGED <<table, callback, blocked, checkVars>> /\ ChatUnchanged

ConnectionLost(p) ==
  /\ LoopRuns
  /\ peer[p] \in {"open", "closing"}
  /\ peer' = [peer EXCEPT ![p] = "gone"]
  /\ LockedCallback(p, table \ {p})
  /\ UNCHANGED checkVars /\ ChatUnchanged

\* The callback that stopped the loop gets the lock.
CallbackGoesOn ==
  /\ blocked = Fesl
  /\ ~checking
  /\ table' = IF peer[callback] = "gone" THEN table \ {callback} ELSE table \cup {callback}
  /\ callback' = None
  /\ blocked' = None
  /\ UNCHANGED <<peer, checkVars>> /\ ChatUnchanged

\* send_memcheck returns False for a transport that is closing; nobody looks at
\* the result of a MemCheck that was given up on.
SendMemcheck(p) ==
  /\ LoopRuns
  /\ memcheck[p] = "queued"
  /\ memcheck' = [memcheck EXCEPT ![p] = IF awaited # p THEN "none"
                                        ELSE IF peer[p] = "open" THEN "sent" ELSE "failed"]
  /\ UNCHANGED <<peerVars, blocked, checking, unchecked, awaited, failed>>
  /\ ChatUnchanged

-----------------------------------------------------------------------------
(* The MemCheck thread *)

StartCheck ==
  /\ ~checking
  /\ table # {}
  /\ checking' = TRUE
  /\ unchecked' = table
  /\ UNCHANGED <<vars, peerVars, awaited, memcheck, failed>>

Ask(p) ==
  /\ awaited = None
  /\ p \in unchecked
  /\ unchecked' = unchecked \ {p}
  /\ awaited' = p
  /\ memcheck' = [memcheck EXCEPT ![p] = "queued"]
  /\ UNCHANGED <<vars, peerVars, checking, failed>>

\* future.result returns.
Checked ==
  /\ awaited # None
  /\ memcheck[awaited] \in {"sent", "failed"}
  /\ failed' = IF memcheck[awaited] = "failed" THEN failed \cup {awaited} ELSE failed
  /\ memcheck' = [memcheck EXCEPT ![awaited] = "none"]
  /\ awaited' = None
  /\ UNCHANGED <<vars, peerVars, checking, unchecked>>

\* Mutant: the thread waits without a limit.
CheckNeverTimesOut == FALSE /\ UNCHANGED allVars

\* future.result(timeout=5) raises; the MemCheck stays on the loop.
CheckTimesOut ==
  /\ awaited # None
  /\ memcheck[awaited] = "queued"
  /\ ~LoopRuns
  /\ failed' = failed \cup {awaited}
  /\ awaited' = None
  /\ UNCHANGED <<vars, peerVars, checking, unchecked, memcheck>>

\* The transports of the failed clients are closed and the lock is given back.
EndCheck ==
  /\ checking
  /\ unchecked = {} /\ awaited = None
  /\ peer' = [p \in Peers |-> IF p \in failed /\ peer[p] = "open" THEN "closing" ELSE peer[p]]
  /\ failed' = {}
  /\ checking' = FALSE
  /\ UNCHANGED <<vars, table, callback, unchecked, awaited, memcheck>>

-----------------------------------------------------------------------------

FeslLoopStep == CallbackGoesOn \/ \E p \in Peers : SendMemcheck(p)
CheckStep == Checked \/ CheckTimesOut \/ EndCheck \/ \E p \in Peers : Ask(p)

ChatNext == Next /\ UNCHANGED feslVars

FeslNext ==
  \/ ChatNext
  \/ FeslLoopStep \/ CheckStep \/ StartCheck
  \/ \E p \in Peers : ConnectionMade(p) \/ Closes(p) \/ ConnectionLost(p)

ServerSpec == FeslInit /\ [][FeslNext]_allVars

\* The threads go on with their rounds, and a loop that waits for a lock gets it in
\* the end: each thread sleeps for 60 seconds after a round.
FairServerSpec ==
  /\ ServerSpec
  /\ SF_allVars((Unblock /\ UNCHANGED feslVars) \/ CallbackGoesOn)
  /\ WF_allVars(PingStep /\ UNCHANGED feslVars)
  /\ WF_allVars(CheckStep)

-----------------------------------------------------------------------------
(* Properties *)

\* fesl_clients has exactly the connections that are made and not lost, but for
\* the one whose callback stopped the loop; each lock is held exactly for the
\* broadcast or the round that took it.
LoopState ==
  /\ LockState
  /\ peer \in [Peers -> {"new", "open", "closing", "gone"}]
  /\ memcheck \in [Peers -> {"none", "queued", "sent", "failed"}]
  /\ blocked = Fesl <=> callback # None
  /\ \A p \in Peers : memcheck[p] \in {"sent", "failed"} => awaited = p
  /\ unchecked # {} \/ awaited # None \/ failed # {} => checking
  /\ unchecked \cup failed \subseteq Peers
  /\ \A p \in Peers :
       p \in table <=> IF callback = p THEN peer[p] = "gone"
                       ELSE peer[p] \in {"open", "closing"}

\* An event loop that a FESL callback stopped for the lock of the MemCheck thread,
\* or a handler for the lock of the ping thread, runs again, although both threads
\* wait for the loop while they have their locks.
LoopRunsAgain ==
  blocked = Fesl \/ (blocked \in Clients /\ lock = Pinger) ~> blocked = None

\* The MemCheck thread, which is there to keep sessions alive, closes no connection
\* that is open.
SessionsKeptAlive == [][checking /\ ~checking' => peer' = peer]_allVars
====
