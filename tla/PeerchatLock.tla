---- MODULE PeerchatLock ----
(***************************************************************************)
(* irc_clients_lock, a threading.Lock that two threads take: the event     *)
(* loop, whose handlers keep it while they await a send to each user of a  *)
(* channel, and the ping thread, which keeps it for a whole round and      *)
(* waits for the loop to send each PING.                                   *)
(*                                                                         *)
(* A send suspends its task only when the receiver's buffer is full.  A    *)
(* task that takes the lock while it is taken stops the event loop itself. *)
(* A send is given up on by the ping thread after two seconds, which are   *)
(* over only if the loop is stopped or the receiver's buffer is full.      *)
(***************************************************************************)
EXTENDS FiniteSets, Naturals

CONSTANTS Clients,  \* the clients in irc_clients, each with its handler task
          Slow,     \* the clients whose buffer can be full
          Quiet,    \* the clients that can leave a PING unanswered for 90 seconds
          Pinger,   \* the ping thread
          Fesl,     \* the FESL server, whose callbacks can stop the loop too
          None      \* nobody

ASSUME LockAssumption == /\ Pinger \notin Clients
                         /\ None \notin Clients \cup {Pinger, Fesl}
                         /\ Fesl \notin Clients
                         /\ Slow \cup Quiet \subseteq Clients

VARIABLES lock,      \* who holds irc_clients_lock
          blocked,   \* the task that stopped the event loop waiting for a lock, or None
          todo,      \* todo[c]: the receivers the broadcast of task c has still to send to
          full,      \* the clients whose buffer is full
          silent,    \* the clients that have not sent a PONG for 90 seconds
          round,     \* the clients the ping thread has still to look at
          asked,     \* the client it waits to have pinged, or None
          ping,      \* the PINGs on the loop: "queued", then "sending" if the buffer is full
          remove,    \* clients_to_remove
          dropped    \* the clients it disconnected

pingVars == <<round, asked, remove, dropped>>
vars == <<lock, blocked, todo, full, silent, round, asked, ping, remove, dropped>>

\* The state stays well typed; nobody waits for a PING outside of a round.
TypeOK ==
  /\ lock \in Clients \cup {Pinger, None}
  /\ blocked \in Clients \cup {Fesl, None}
  /\ todo \in [Clients -> SUBSET Clients]
  /\ full \subseteq Slow
  /\ silent \subseteq Quiet
  /\ round \subseteq Clients
  /\ asked \in Clients \cup {None}
  /\ ping \in [Clients -> {"none", "queued", "sending"}]
  /\ remove \cup dropped \subseteq Clients
  /\ round # {} \/ asked # None \/ remove # {} => lock = Pinger

Init ==
  /\ lock = None
  /\ blocked = None
  /\ todo = [c \in Clients |-> {}]
  /\ full = {}
  /\ silent = {}
  /\ round = {}
  /\ asked = None
  /\ ping = [c \in Clients |-> "none"]
  /\ remove = {}
  /\ dropped = {}

-----------------------------------------------------------------------------
(* The event loop *)

LoopRuns == blocked = None

\* The broadcast of c to the clients in R goes on until it meets a full buffer.
Broadcast(c, R) ==
  /\ \E S \in SUBSET (R \ full) :
       /\ S = R \/ R \cap full # {}
       /\ todo' = [todo EXCEPT ![c] = R \ S]
  /\ lock' = IF todo'[c] = {} THEN None ELSE c

\* The handler of c, or a clean-up of c, takes the lock, for a broadcast to R.
Command(c, R) ==
  /\ LoopRuns
  /\ todo[c] = {}
  /\ IF lock = None
     THEN Broadcast(c, R) /\ UNCHANGED blocked
     ELSE blocked' = c /\ todo' = [todo EXCEPT ![c] = R] /\ UNCHANGED lock
  /\ UNCHANGED <<full, silent, ping, pingVars>>

\* The buffer that a send of c waits for has room again.
Resume(c) ==
  /\ LoopRuns
  /\ lock = c
  /\ ~ todo[c] \subseteq full
  /\ Broadcast(c, todo[c])
  /\ UNCHANGED <<blocked, full, silent, ping, pingVars>>

\* The lock the loop was stopped for is free.
Unblock ==
  /\ blocked \in Clients
  /\ lock = None
  /\ Broadcast(blocked, todo[blocked])
  /\ blocked' = None
  /\ UNCHANGED <<full, silent, ping, pingVars>>

\* The loop gets to a PING of the ping thread.
SendPing(c) ==
  /\ LoopRuns
  /\ ping[c] # "none"
  /\ IF c \in full
     THEN ping[c] = "queued" /\ ping' = [ping EXCEPT ![c] = "sending"]
     ELSE ping' = [ping EXCEPT ![c] = "none"]
  /\ UNCHANGED <<lock, blocked, todo, full, silent, pingVars>>

-----------------------------------------------------------------------------
(* The ping thread *)

\* The ping thread wakes up and takes the lock.
StartRound ==
  /\ lock = None
  /\ lock' = Pinger
  /\ round' = Clients \ dropped
  /\ round' # {}
  /\ UNCHANGED <<blocked, todo, full, silent, asked, ping, remove, dropped>>

\* The client goes to clients_to_remove.
GiveUp(c) == remove' = remove \cup {c}

\* The next client of the round: no PONG for 90 seconds, or a PING is put on the loop.
Look(c) ==
  /\ asked = None
  /\ c \in round
  /\ round' = round \ {c}
  /\ IF c \in silent
     THEN GiveUp(c) /\ UNCHANGED <<asked, ping>>
     ELSE /\ asked' = c
          /\ ping' = [ping EXCEPT ![c] = "queued"]
          /\ UNCHANGED remove
  /\ UNCHANGED <<lock, blocked, todo, full, silent, dropped>>

\* future.result returns.
Pinged ==
  /\ asked # None
  /\ ping[asked] = "none"
  /\ asked' = None
  /\ UNCHANGED <<lock, blocked, todo, full, silent, ping, round, remove, dropped>>

\* future.result(timeout=2) raises; the PING stays on the loop.
PingTimesOut ==
  /\ asked # None
  /\ ping[asked] # "none"
  /\ ~LoopRuns \/ asked \in full
  /\ GiveUp(asked)
  /\ asked' = None
  /\ UNCHANGED <<lock, blocked, todo, full, silent, ping, round, dropped>>

\* The clients to remove are disconnected and the lock is given back.
EndRound ==
  /\ lock = Pinger
  /\ round = {} /\ asked = None
  /\ lock' = None
  /\ dropped' = dropped \cup remove
  /\ remove' = {}
  /\ UNCHANGED <<blocked, todo, full, silent, round, asked, ping>>

-----------------------------------------------------------------------------

Congests(c) ==
  /\ c \in Slow \ full
  /\ full' = full \cup {c}
  /\ UNCHANGED <<lock, blocked, todo, silent, ping, pingVars>>

Drains(c) ==
  /\ c \in full
  /\ full' = full \ {c}
  /\ UNCHANGED <<lock, blocked, todo, silent, ping, pingVars>>

FallsSilent(c) ==
  /\ c \in Quiet \ silent
  /\ silent' = silent \cup {c}
  /\ UNCHANGED <<lock, blocked, todo, full, ping, pingVars>>

LoopStep == Unblock \/ \E c \in Clients : Resume(c) \/ SendPing(c)
PingStep == Pinged \/ PingTimesOut \/ EndRound \/ \E c \in Clients : Look(c)

Next ==
  \/ LoopStep \/ PingStep \/ StartRound
  \/ \E c \in Clients : \E R \in SUBSET Clients : Command(c, R)
  \/ \E c \in Clients : Congests(c) \/ Drains(c) \/ FallsSilent(c)

Spec == Init /\ [][Next]_vars

-----------------------------------------------------------------------------
(* Properties *)

\* A handler holds the lock exactly as long as its broadcast is not done: the
\* lock is not left behind, and no two broadcasts overlap.
LockMatchesWork == \A c \in Clients : lock = c <=> todo[c] # {} /\ blocked # c

\* The lock, the broadcasts and the round of the ping thread fit together.
LockState == TypeOK /\ LockMatchesWork

\* The event loop is never stopped by a lock that one of its own tasks holds,
\* which could only give it back if the loop ran.
LoopNotStoppedByItself == blocked \in Clients => lock \notin Clients

\* The ping thread gives up only on clients that do not answer or do not read.
OnlyUnfitRemoved == [][remove' \subseteq remove \cup full \cup silent]_vars
====
