---- MODULE PortLeases ----
(***************************************************************************)
(* What the relay server promises about its port pairs, without its lock, *)
(* its tasks or its sockets: a pair is leased to at most one route, a      *)
(* route gets at most one lease, and the leases are set up one at a time - *)
(* while one is being set up no other lease starts or ends.                *)
(***************************************************************************)

CONSTANTS Pairs,    \* the port pairs of the pool
          Holders,  \* the routes that may ever hold a lease
          Nobody    \* the holder of a pair that is not leased

VARIABLES holder,   \* holder[p] is the route that p is leased to, or Nobody
          active,   \* the leased pairs whose two ports both listen
          spent     \* the routes that have been given their lease

leaseVars == <<holder, active, spent>>

\* Every lease has been set up completely.
Settled == \A p \in Pairs : holder[p] # Nobody => p \in active

Init == /\ holder = [p \in Pairs |-> Nobody]
        /\ active = {}
        /\ spent = {}

Grant(h, p) == /\ Settled
               /\ holder[p] = Nobody
               /\ h \notin spent
               /\ holder' = [holder EXCEPT ![p] = h]
               /\ spent' = spent \cup {h}
               /\ UNCHANGED active

Activate(p) == /\ holder[p] # Nobody
               /\ p \notin active
               /\ active' = active \cup {p}
               /\ UNCHANGED <<holder, spent>>

\* The pair that is being set up is given back.
Abandon(p) == /\ holder[p] # Nobody
              /\ p \notin active
              /\ holder' = [holder EXCEPT ![p] = Nobody]
              /\ UNCHANGED <<active, spent>>

\* A set of leases ends; their pairs are free again.
Lapse(S) == /\ Settled
            /\ S \subseteq active
            /\ holder' = [p \in Pairs |-> IF p \in S THEN Nobody ELSE holder[p]]
            /\ active' = active \ S
            /\ UNCHANGED spent

Next == \/ \E h \in Holders, p \in Pairs : Grant(h, p)
        \/ \E p \in Pairs : Activate(p) \/ Abandon(p)
        \/ \E S \in SUBSET Pairs : Lapse(S)

Spec == Init /\ [][Next]_leaseVars
====
