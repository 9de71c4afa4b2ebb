------------------------- MODULE FeslMemcheck_proofs --------------------------
(***************************************************************************)
(* The locks, the broadcasts, the rounds of the two threads and the table  *)
(* of the FESL connections fit together, for any number of clients and     *)
(* connections.                                                            *)
(***************************************************************************)
EXTENDS FeslMemcheck, TLAPS

USE LockAssumption, PeersAssumption

\* What a step of the Peerchat side keeps: its locks, and whether the FESL server
\* has stopped the loop.
Kept == LockState' /\ (blocked' = Fesl <=> blocked = Fesl)

\* A broadcast types the work it leaves behind, and the lock is its own or free.
LEMMA BroadcastLeaves ==
  ASSUME TypeOK, NEW c \in Clients, NEW R \in SUBSET Clients, Broadcast(c, R)
  PROVE  /\ todo' \in [Clients -> SUBSET Clients]
         /\ lock' = IF todo'[c] = {} THEN None ELSE c
         /\ \A d \in Clients \ {c} : todo'[d] = todo[d]
BY DEF TypeOK, Broadcast

LEMMA CommandKeeps ==
  ASSUME LockState, NEW c \in Clients, NEW R \in SUBSET Clients, Command(c, R)
  PROVE  Kept
<1>0. TypeOK /\ LockMatchesWork
  BY DEF LockState
<1>1. CASE lock = None
  <2>1. Broadcast(c, R) /\ blocked' = blocked
    BY <1>1 DEF Command
  <2>2. /\ todo' \in [Clients -> SUBSET Clients]
        /\ lock' = IF todo'[c] = {} THEN None ELSE c
        /\ \A d \in Clients \ {c} : todo'[d] = todo[d]
    BY <1>0, <2>1, BroadcastLeaves
  <2>3. TypeOK'
    BY <1>0, <1>1, <2>1, <2>2 DEF TypeOK, Command, pingVars
  <2>4. LockMatchesWork'
    BY <1>0, <1>1, <2>1, <2>2 DEF LockMatchesWork, Command, LoopRuns
  <2>5. QED
    BY <2>1, <2>3, <2>4 DEF Kept, LockState
<1>2. CASE lock # None
  <2>1. TypeOK'
    BY <1>0, <1>2 DEF TypeOK, Command, pingVars
  <2>2. LockMatchesWork'
    BY <1>0, <1>2 DEF LockMatchesWork, Command, LoopRuns, TypeOK
  <2>3. blocked' # Fesl /\ blocked # Fesl
    BY <1>2 DEF Command, LoopRuns
  <2>4. QED
    BY <2>1, <2>2, <2>3 DEF Kept, LockState
<1>3. QED
  BY <1>1, <1>2

LEMMA ResumeKeeps ==
  ASSUME LockState, NEW c \in Clients, Resume(c)
  PROVE  Kept
<1>0. TypeOK /\ LockMatchesWork
  BY DEF LockState
<1>1. todo[c] \in SUBSET Clients
  BY <1>0 DEF TypeOK
<1>2. /\ todo' \in [Clients -> SUBSET Clients]
      /\ lock' = IF todo'[c] = {} THEN None ELSE c
      /\ \A d \in Clients \ {c} : todo'[d] = todo[d]
  <2>1. Broadcast(c, todo[c])
    BY DEF Resume
  <2>2. QED
    BY <1>0, <1>1, <2>1, BroadcastLeaves
<1>3. TypeOK'
  BY <1>0, <1>2 DEF TypeOK, Resume, pingVars
<1>4. LockMatchesWork'
  BY <1>0, <1>2 DEF LockMatchesWork, Resume, LoopRuns
<1>5. QED
  BY <1>3, <1>4 DEF Kept, LockState, Resume

LEMMA UnblockKeeps ==
  ASSUME LockState, Unblock
  PROVE  Kept
<1>0. TypeOK /\ LockMatchesWork
  BY DEF LockState
<1>1. blocked \in Clients /\ todo[blocked] \in SUBSET Clients
  BY <1>0 DEF TypeOK, Unblock
<1>2. /\ todo' \in [Clients -> SUBSET Clients]
      /\ lock' = IF todo'[blocked] = {} THEN None ELSE blocked
      /\ \A d \in Clients \ {blocked} : todo'[d] = todo[d]
  <2>1. Broadcast(blocked, todo[blocked])
    BY DEF Unblock
  <2>2. QED
    BY <1>0, <1>1, <2>1, BroadcastLeaves
<1>3. TypeOK'
  BY <1>0, <1>1, <1>2 DEF TypeOK, Unblock, pingVars
<1>4. LockMatchesWork'
  BY <1>0, <1>1, <1>2 DEF LockMatchesWork, Unblock
<1>5. QED
  BY <1>1, <1>3, <1>4 DEF Kept, LockState, Unblock

LEMMA RoundKeeps ==
  ASSUME LockState, StartRound \/ EndRound
  PROVE  Kept
<1>0. TypeOK /\ LockMatchesWork
  BY DEF LockState
<1>1. CASE StartRound
  <2>1. TypeOK'
    BY <1>0, <1>1 DEF TypeOK, StartRound
  <2>2. LockMatchesWork'
    BY <1>0, <1>1 DEF LockMatchesWork, StartRound
  <2>3. QED
    BY <1>1, <2>1, <2>2 DEF Kept, LockState, StartRound
<1>2. CASE EndRound
  <2>1. TypeOK'
    BY <1>0, <1>2 DEF TypeOK, EndRound
  <2>2. LockMatchesWork'
    BY <1>0, <1>2 DEF LockMatchesWork, EndRound
  <2>3. QED
    BY <1>2, <2>1, <2>2 DEF Kept, LockState, EndRound
<1>3. QED
  BY <1>1, <1>2

\* The steps that leave the lock and the broadcasts alone
LEMMA OthersKeep ==
  ASSUME LockState,
         \/ Pinged \/ PingTimesOut
         \/ \E c \in Clients : \/ SendPing(c) \/ Look(c)
                               \/ Congests(c) \/ Drains(c) \/ FallsSilent(c)
  PROVE  Kept
<1>0. TypeOK /\ LockMatchesWork
  BY DEF LockState
<1>1. UNCHANGED <<lock, blocked, todo>>
  BY DEF Pinged, PingTimesOut, SendPing, Look, Congests, Drains, FallsSilent
<1>2. LockMatchesWork'
  BY <1>0, <1>1 DEF LockMatchesWork
<1>3. TypeOK'
  <2>1. CASE Pinged
    BY <1>0, <2>1 DEF TypeOK, Pinged
  <2>2. CASE PingTimesOut
    BY <1>0, <2>2 DEF TypeOK, PingTimesOut, GiveUp
  <2>3. ASSUME NEW c \in Clients, SendPing(c)  PROVE TypeOK'
    BY <1>0, <2>3 DEF TypeOK, SendPing, pingVars
  <2>4. ASSUME NEW c \in Clients, Look(c)  PROVE TypeOK'
    BY <1>0, <2>4 DEF TypeOK, Look, GiveUp
  <2>5. ASSUME NEW c \in Clients, Congests(c)  PROVE TypeOK'
    BY <1>0, <2>5 DEF TypeOK, Congests, pingVars
  <2>6. ASSUME NEW c \in Clients, Drains(c)  PROVE TypeOK'
    BY <1>0, <2>6 DEF TypeOK, Drains, pingVars
  <2>7. ASSUME NEW c \in Clients, FallsSilent(c)  PROVE TypeOK'
    BY <1>0, <2>7 DEF TypeOK, FallsSilent, pingVars
  <2>8. QED
    BY <2>1, <2>2, <2>3, <2>4, <2>5, <2>6, <2>7
<1>4. QED
  BY <1>1, <1>2, <1>3 DEF Kept, LockState

LEMMA ChatKeeps ==
  ASSUME LockState, Next
  PROVE  Kept
<1>1. ASSUME NEW c \in Clients, NEW R \in SUBSET Clients, Command(c, R)  PROVE Kept
  BY <1>1, CommandKeeps
<1>2. ASSUME NEW c \in Clients, Resume(c)  PROVE Kept
  BY <1>2, ResumeKeeps
<1>3. CASE Unblock
  BY <1>3, UnblockKeeps
<1>4. CASE StartRound \/ EndRound
  BY <1>4, RoundKeeps
<1>5. CASE \/ Pinged \/ PingTimesOut
           \/ \E c \in Clients : \/ SendPing(c) \/ Look(c)
                                 \/ Congests(c) \/ Drains(c) \/ FallsSilent(c)
  BY <1>5, OthersKeep
<1>6. QED
  BY <1>1, <1>2, <1>3, <1>4, <1>5 DEF Next, LoopStep, PingStep

-----------------------------------------------------------------------------
(* The FESL side *)

\* The types of what LoopState does not speak about; a connection whose callback
\* stopped the loop has been made.
FeslTypes ==
  /\ table \subseteq Peers
  /\ callback \in Peers \cup {None}
  /\ awaited \in Peers \cup {None}
  /\ checking \in BOOLEAN
  /\ callback # None => peer[callback] # "new"

IInv == LoopState /\ FeslTypes

LEMMA InitHolds == FeslInit => IInv
<1> SUFFICES ASSUME FeslInit  PROVE IInv
  OBVIOUS
<1>1. TypeOK
  BY DEF FeslInit, Init, TypeOK
<1>2. LockMatchesWork
  BY DEF FeslInit, Init, LockMatchesWork
<1>3. FeslTypes
  BY DEF FeslInit, FeslTypes
<1>4. LoopState
  <2>1. LockState
    BY <1>1, <1>2 DEF LockState
  <2>2. blocked # Fesl /\ callback = None
    BY DEF FeslInit, Init
  <2>3. /\ peer \in [Peers -> {"new", "open", "closing", "gone"}]
        /\ memcheck \in [Peers -> {"none", "queued", "sent", "failed"}]
        /\ \A p \in Peers : memcheck[p] \notin {"sent", "failed"}
    BY DEF FeslInit
  <2>4. unchecked = {} /\ awaited = None /\ failed = {}
    BY DEF FeslInit
  <2>5. \A p \in Peers : p \notin table /\ peer[p] = "new" /\ callback # p
    BY DEF FeslInit
  <2>6. QED
    BY <2>1, <2>2, <2>3, <2>4, <2>5 DEF LoopState
<1>5. QED
  BY <1>3, <1>4 DEF IInv

\* A callback that finds the lock taken stops a loop that runs.
LEMMA LoopLocks ==
  ASSUME LockState, blocked \in {None, Fesl}, blocked' \in {None, Fesl}, ChatUnchanged
  PROVE  LockState'
BY DEF LockState, TypeOK, LockMatchesWork, ChatUnchanged, pingVars

LEMMA ConnectionMadeHolds ==
  ASSUME IInv, NEW p \in Peers, ConnectionMade(p)
  PROVE  IInv'
<1>1. LockState'
  <2>1. LockState /\ blocked = None /\ ChatUnchanged /\ blocked' \in {None, Fesl}
    BY DEF IInv, LoopState, ConnectionMade, LoopRuns, LockedCallback
  <2>2. QED
    BY <2>1, LoopLocks
<1>2. FeslTypes'
  BY DEF IInv, LoopState, FeslTypes, ConnectionMade, LockedCallback, checkVars
<1>3. LoopState'
  BY <1>1 DEF IInv, LoopState, FeslTypes, ConnectionMade, LockedCallback, LoopRuns, checkVars
<1>4. QED
  BY <1>2, <1>3 DEF IInv

LEMMA ClosesHolds ==
  ASSUME IInv, NEW p \in Peers, Closes(p)
  PROVE  IInv'
<1>1. LockState'
  <2>1. LockState /\ blocked = None /\ ChatUnchanged /\ blocked' = None
    BY DEF IInv, LoopState, Closes, LoopRuns
  <2>2. QED
    BY <2>1, LoopLocks
<1>2. FeslTypes'
  BY DEF IInv, LoopState, FeslTypes, Closes, checkVars
<1>3. LoopState'
  BY <1>1 DEF IInv, LoopState, FeslTypes, Closes, LoopRuns, checkVars
<1>4. QED
  BY <1>2, <1>3 DEF IInv

LEMMA ConnectionLostHolds ==
  ASSUME IInv, NEW p \in Peers, ConnectionLost(p)
  PROVE  IInv'
<1>1. LockState'
  <2>1. LockState /\ blocked = None /\ ChatUnchanged /\ blocked' \in {None, Fesl}
    BY DEF IInv, LoopState, ConnectionLost, LoopRuns, LockedCallback
  <2>2. QED
    BY <2>1, LoopLocks
<1>2. FeslTypes'
  BY DEF IInv, LoopState, FeslTypes, ConnectionLost, LockedCallback, checkVars
<1>3. LoopState'
  BY <1>1 DEF IInv, LoopState, FeslTypes, ConnectionLost, LockedCallback, LoopRuns, checkVars
<1>4. QED
  BY <1>2, <1>3 DEF IInv

LEMMA CallbackGoesOnHolds ==
  ASSUME IInv, CallbackGoesOn
  PROVE  IInv'
<1>1. LockState'
  <2>1. LockState /\ blocked = Fesl /\ ChatUnchanged /\ blocked' = None
    BY DEF IInv, LoopState, CallbackGoesOn
  <2>2. QED
    BY <2>1, LoopLocks
<1>2. callback \in Peers
  BY DEF IInv, LoopState, FeslTypes, CallbackGoesOn
<1>3. FeslTypes'
  BY <1>2 DEF IInv, LoopState, FeslTypes, CallbackGoesOn, checkVars
<1>4. \A p \in Peers : p \in table' <=> peer[p] \in {"open", "closing"}
  BY <1>2 DEF IInv, LoopState, FeslTypes, CallbackGoesOn
<1>5. LoopState'
  BY <1>1, <1>4 DEF IInv, LoopState, FeslTypes, CallbackGoesOn, checkVars
<1>6. QED
  BY <1>3, <1>5 DEF IInv

LEMMA SendMemcheckHolds ==
  ASSUME IInv, NEW p \in Peers, SendMemcheck(p)
  PROVE  IInv'
<1>1. LockState'
  <2>1. LockState /\ blocked = None /\ ChatUnchanged /\ blocked' = None
    BY DEF IInv, LoopState, SendMemcheck, LoopRuns
  <2>2. QED
    BY <2>1, LoopLocks
<1>2. FeslTypes'
  BY DEF IInv, LoopState, FeslTypes, SendMemcheck, peerVars
<1>3. LoopState'
  BY <1>1 DEF IInv, LoopState, FeslTypes, SendMemcheck, LoopRuns, peerVars
<1>4. QED
  BY <1>2, <1>3 DEF IInv

\* The MemCheck thread leaves the Peerchat side and the loop alone.
LEMMA ThreadLocks ==
  ASSUME LockState, UNCHANGED vars
  PROVE  LockState' /\ blocked' = blocked
BY DEF LockState, TypeOK, LockMatchesWork, vars

LEMMA CheckHolds ==
  ASSUME IInv, CheckStep \/ StartCheck
  PROVE  IInv'
<1>1. UNCHANGED vars
  BY DEF CheckStep, StartCheck, Checked, CheckTimesOut, EndCheck, Ask
<1>2. LockState' /\ blocked' = blocked
  BY <1>1, ThreadLocks DEF IInv, LoopState
<1>3. CASE StartCheck
  BY <1>2, <1>3 DEF IInv, LoopState, FeslTypes, StartCheck, peerVars
<1>4. CASE Checked
  BY <1>2, <1>4 DEF IInv, LoopState, FeslTypes, Checked, peerVars
<1>5. CASE CheckTimesOut
  BY <1>2, <1>5 DEF IInv, LoopState, FeslTypes, CheckTimesOut, peerVars
<1>6. CASE EndCheck
  <2>1. /\ peer' \in [Peers -> {"new", "open", "closing", "gone"}]
        /\ \A p \in Peers : /\ peer'[p] = "gone" <=> peer[p] = "gone"
                            /\ peer'[p] = "new" <=> peer[p] = "new"
                            /\ peer'[p] \in {"open", "closing"} <=> peer[p] \in {"open", "closing"}
    BY <1>6 DEF IInv, LoopState, EndCheck
  <2>2. FeslTypes'
    BY <1>6, <2>1 DEF IInv, FeslTypes, EndCheck
  <2>3. LoopState'
    BY <1>2, <1>6, <2>1 DEF IInv, LoopState, EndCheck
  <2>4. QED
    BY <2>2, <2>3 DEF IInv
<1>7. ASSUME NEW p \in Peers, Ask(p)  PROVE IInv'
  BY <1>2, <1>7 DEF IInv, LoopState, FeslTypes, Ask, peerVars
<1>8. QED
  BY <1>3, <1>4, <1>5, <1>6, <1>7 DEF CheckStep

LEMMA ChatNextHolds ==
  ASSUME IInv, ChatNext
  PROVE  IInv'
<1>1. Kept
  BY ChatKeeps DEF IInv, LoopState, ChatNext
<1>2. UNCHANGED feslVars
  BY DEF ChatNext
<1>3. FeslTypes'
  BY <1>2 DEF IInv, FeslTypes, feslVars, peerVars, checkVars
<1>4. LoopState'
  BY <1>1, <1>2 DEF IInv, LoopState, Kept, feslVars, peerVars, checkVars
<1>5. QED
  BY <1>3, <1>4 DEF IInv

LEMMA NextHolds == IInv /\ [FeslNext]_allVars => IInv'
<1> SUFFICES ASSUME IInv, [FeslNext]_allVars  PROVE IInv'
  OBVIOUS
<1>1. CASE ChatNext
  BY <1>1, ChatNextHolds
<1>2. CASE CallbackGoesOn
  BY <1>2, CallbackGoesOnHolds
<1>3. ASSUME NEW p \in Peers, SendMemcheck(p)  PROVE IInv'
  BY <1>3, SendMemcheckHolds
<1>4. CASE CheckStep \/ StartCheck
  BY <1>4, CheckHolds
<1>5. ASSUME NEW p \in Peers, ConnectionMade(p)  PROVE IInv'
  BY <1>5, ConnectionMadeHolds
<1>6. ASSUME NEW p \in Peers, Closes(p)  PROVE IInv'
  BY <1>6, ClosesHolds
<1>7. ASSUME NEW p \in Peers, ConnectionLost(p)  PROVE IInv'
  BY <1>7, ConnectionLostHolds
<1>8. CASE UNCHANGED allVars
  BY <1>8 DEF IInv, LoopState, FeslTypes, LockState, TypeOK, LockMatchesWork,
              allVars, vars, feslVars, peerVars, checkVars
<1>9. QED
  BY <1>1, <1>2, <1>3, <1>4, <1>5, <1>6, <1>7, <1>8 DEF FeslNext, FeslLoopStep

\* The two locks and the tables they guard agree, whatever the event loop and
\* the two threads do (peerchat_server.py, fesl_server.py).
THEOREM LoopStateHolds == ServerSpec => []LoopState
<1>1. IInv => LoopState
  BY DEF IInv
<1>2. QED
  BY <1>1, InitHolds, NextHolds, PTL DEF ServerSpec
=============================================================================
