------------------------------ MODULE Requests ------------------------------
(***************************************************************************)
(* What the request handlers of the core service have in common: threads   *)
(* that each serve a request in one transaction (READ COMMITTED).  A       *)
(* request is received, reads in one or more steps, and writes and commits *)
(* in its last; at any point the transaction may be gone.                  *)
(*                                                                         *)
(* As in Documents: in the service row security hides what is asked before *)
(* tenant_scope; on the connections of the repository's test fixtures it   *)
(* does not; in both a pointer function fails, because the row it names is *)
(* not flushed.  "repaired" is neither, it is the handlers with their      *)
(* queries in the scope and that flush in its place.                       *)
(***************************************************************************)
EXTENDS Naturals, FiniteSets

CONSTANTS
    Handlers,       \* threads that serve requests
    Parts,          \* parts of the service to consider
    Deployments,    \* which of the three to consider for each
    MaxRequests     \* bound: requests served in each

ASSUME RequestsAssumption ==
    /\ Deployments \in [Parts -> SUBSET {"service", "fixture", "repaired"}]
    /\ MaxRequests \in [Parts -> Nat]

VARIABLES
    part,           \* the part of the service that is used; fixed
    deployment,     \* what sessions see; fixed
    tx,             \* what each handler is at, with its request q and what it read
    served          \* requests received so far

requestVars == <<part, deployment, tx, served>>

Phase == {"read", "next", "then", "flush", "locked", "commit"}
NoRow == [made |-> FALSE]
Idle == [at |-> "idle"]
Busy(h) == tx[h] # Idle
At(h, op, phase) == Busy(h) /\ tx[h].q.op = op /\ tx[h].at = phase

RequestsInit ==
    /\ part \in Parts /\ deployment \in Deployments[part]
    /\ tx = [h \in Handlers |-> Idle]
    /\ served = 0

RequestsTypeOK(Request) ==
    /\ part \in Parts /\ deployment \in Deployments[part]
    /\ \A h \in Handlers : Busy(h) => tx[h].q \in Request /\ tx[h].at \in Phase
    /\ served \in 0 .. MaxRequests[part]

\* What a query outside tenant_scope finds.
Seen(x, nothing) == IF deployment # "service" THEN x ELSE nothing

Receive(h, q) ==
    /\ ~Busy(h) /\ served < MaxRequests[part]
    /\ tx' = [tx EXCEPT ![h] = [at |-> "read", q |-> q, seen |-> NoRow, known |-> NoRow]]
    /\ served' = served + 1
    /\ UNCHANGED <<part, deployment>>

\* The handler has read and goes on to another step.
Goto(h, phase, seen, known) ==
    /\ tx' = [tx EXCEPT ![h].at = phase, ![h].seen = seen, ![h].known = known]
    /\ UNCHANGED <<part, deployment, served>>

\* The request is over: it is answered and what it wrote is committed.
End(h) ==
    /\ tx' = [tx EXCEPT ![h] = Idle]
    /\ UNCHANGED <<part, deployment, served>>

\* The transaction is gone with all it wrote: an exception reaches
\* tenant_scope or get_db_session, the connection is lost or the process dies.
Undo(h) == Busy(h) /\ End(h)

\* Others that have read and may still write.
Rivals(h) == {g \in Handlers \ {h} : Busy(g) /\ tx[g].at # "read"}
=============================================================================
