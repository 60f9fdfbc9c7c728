------------------------------ MODULE Delivery ------------------------------
(***************************************************************************)
(* What the outbox promises the ledger: an event that a transaction        *)
(* recorded is delivered, that is its handler's effects are committed,     *)
(* at most once, and it counts as published in the very step in which     *)
(* they are.  Several events may be delivered in one step (a batch), and   *)
(* a delivery may record further events.                                   *)
(***************************************************************************)
EXTENDS Naturals

CONSTANT Event

VARIABLES state, delivered

vars == <<state, delivered>>

Init ==
    /\ state = [e \in Event |-> "absent"]
    /\ delivered = [e \in Event |-> 0]

\* A step of the ledger: the events in new are recorded and the pending
\* events in done are delivered.
Step(new, done) ==
    /\ \A e \in new : state[e] = "absent"
    /\ \A e \in done : state[e] = "pending"
    /\ state' = [e \in Event |-> IF e \in done THEN "published"
                                 ELSE IF e \in new THEN "pending" ELSE state[e]]
    /\ delivered' = [e \in Event |-> IF e \in done THEN delivered[e] + 1
                                     ELSE delivered[e]]

Next == \E new, done \in SUBSET Event : Step(new, done)

Spec == Init /\ [][Next]_vars
=============================================================================
