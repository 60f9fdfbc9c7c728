------------------------------- MODULE Outbox -------------------------------
(***************************************************************************)
(* The transactional outbox: the outbox_event table, the SQL functions     *)
(* memdot_claim_outbox_events and memdot_ack_outbox_event, and the         *)
(* dispatcher dispatch_outbox_batch that drives them.                      *)
(*                                                                         *)
(* A dispatcher works inside a database transaction.  What it writes       *)
(* (claims, acknowledgements, the effects of the handlers it runs) is      *)
(* private to it until Commit and vanishes on Rollback; the rows it        *)
(* claimed stay locked until then.  dispatch_outbox_batch never commits,   *)
(* so a whole batch is one transaction (OneTransaction = TRUE); a caller   *)
(* of claim_outbox_batch and process_claimed_event that commits in between *)
(* is OneTransaction = FALSE, the usage the lease and token are for.       *)
(***************************************************************************)
EXTENDS Naturals, FiniteSets

CONSTANTS
    NEvents,        \* events are 1 .. NEvents, numbered in created_at order
    Workers,        \* concurrent dispatchers
    BatchSize,      \* LIMIT of a claim
    NTokens,        \* bound on the number of claim tokens in use at once
    MaxRuns,        \* bound on the committed runs of one handler
    OneTransaction  \* TRUE: the caller commits only after the whole batch

ASSUME OutboxAssumption ==
    /\ NEvents \in Nat
    /\ BatchSize \in Nat \ {0}
    /\ NTokens \in Nat
    /\ MaxRuns \in Nat \ {0}
    /\ OneTransaction \in BOOLEAN

Event == 1 .. NEvents

\* claim_token: 0 stands for NULL.
NoToken == 0
Token == 0 .. NTokens

VARIABLES
    row,        \* committed: is the row there, and is published_at set
    owned,      \* the inserted events whose type this dispatcher handles
    token,      \* committed claim_token
    lease,      \* committed claim_expires_at: NULL, in the future, in the past
    myToken,    \* the claim_token each worker got with its batch
    todo,       \* claimed events a worker has still to look at
    locked,     \* rows a worker's open transaction has claimed or acknowledged
    acked,      \* acknowledgements in a worker's open transaction
    ran,        \* handler effects in a worker's open transaction
    runs        \* how often an event's handler effects have been committed

dbVars == <<row, owned, token, lease, runs>>
txVars == <<myToken, todo, locked, acked, ran>>
vars == <<dbVars, txVars>>

\* claim_token and claim_expires_at are set and cleared together, and a
\* worker with rows in hand has the token it claimed them under.
ClaimsWhole ==
    /\ \A e \in Event : token[e] = NoToken <=> lease[e] = "none"
    /\ \A w \in Workers : locked[w] # {} \/ todo[w] # {} => myToken[w] # NoToken

\* What the columns and the workers hold, claims as a whole: two workers,
\* an expiry and a late acknowledgement never leave half a claim on a row.
TypeOK ==
    /\ row \in [Event -> {"absent", "pending", "published"}]
    /\ owned \subseteq Event
    /\ token \in [Event -> Token]
    /\ lease \in [Event -> {"none", "live", "expired"}]
    /\ myToken \in [Workers -> Token]
    /\ todo \in [Workers -> SUBSET Event]
    /\ locked \in [Workers -> SUBSET Event]
    /\ acked \in [Workers -> SUBSET Event]
    /\ ran \in [Workers -> SUBSET Event]
    /\ runs \in [Event -> Nat]
    /\ ClaimsWhole

Init ==
    /\ row = [e \in Event |-> "absent"]
    /\ owned = {}
    /\ token = [e \in Event |-> NoToken]
    /\ lease = [e \in Event |-> "none"]
    /\ myToken = [w \in Workers |-> NoToken]
    /\ todo = [w \in Workers |-> {}]
    /\ locked = [w \in Workers |-> {}]
    /\ acked = [w \in Workers |-> {}]
    /\ ran = [w \in Workers |-> {}]
    /\ runs = [e \in Event |-> 0]

-----------------------------------------------------------------------------
(* Producers: every writer of the ledger inserts its event in the          *)
(* transaction that makes the change.  created_at is the start of that     *)
(* transaction, so events may appear out of their order.                   *)

Insert(e, handled) ==
    /\ row[e] = "absent"
    /\ row' = [row EXCEPT ![e] = "pending"]
    /\ owned' = IF handled THEN owned \cup {e} ELSE owned
    /\ UNCHANGED <<token, lease, runs, txVars>>

-----------------------------------------------------------------------------
(* memdot_claim_outbox_events: the oldest BatchSize rows that are not      *)
(* published, not under a live lease and not locked by another transaction *)
(* (FOR UPDATE SKIP LOCKED) get one fresh token and a new lease.           *)

LockedByOther(w, e) == \E v \in Workers \ {w} : e \in locked[v]

Claimable(w) ==
    {e \in Event : /\ row[e] = "pending"
                   /\ lease[e] # "live"
                   /\ ~LockedByOther(w, e)}

\* Mutant: a batch that is one short.
CandidatesOneShort(w) ==
    LET free == Claimable(w)
    IN  {e \in free : Cardinality({f \in free : f < e}) + 1 < BatchSize}

Candidates(w) ==
    LET free == Claimable(w)
    IN  {e \in free : Cardinality({f \in free : f < e}) < BatchSize}

Idle(w) == todo[w] = {} /\ locked[w] = {} /\ ran[w] = {}

\* gen_random_uuid: a token no row and no worker knows.
FreshTokens ==
    {t \in Token \ {NoToken} : /\ \A e \in Event : token[e] # t
                              /\ \A w \in Workers : myToken[w] # t}

Claim(w) ==
    /\ Idle(w)
    /\ FreshTokens # {}
    /\ Candidates(w) # {}
    /\ myToken' = [myToken EXCEPT ![w] = CHOOSE t \in FreshTokens : TRUE]
    /\ todo' = [todo EXCEPT ![w] = Candidates(w)]
    /\ locked' = [locked EXCEPT ![w] = Candidates(w)]
    /\ UNCHANGED <<dbVars, acked, ran>>

\* now() passes claim_expires_at.
Expire(e) ==
    /\ lease[e] = "live"
    /\ lease' = [lease EXCEPT ![e] = "expired"]
    /\ UNCHANGED <<row, owned, token, runs, txVars>>

-----------------------------------------------------------------------------
(* process_claimed_event.  The rows of a batch come back in no particular  *)
(* order.                                                                  *)

\* Mutant: an event of an unknown type is acknowledged.
SkipAcks(w, e) ==
    /\ e \in todo[w] \ owned
    /\ todo' = [todo EXCEPT ![w] = @ \ {e}]
    /\ acked' = [acked EXCEPT ![w] = @ \cup {e}]
    /\ UNCHANGED <<dbVars, myToken, locked, ran>>

\* An event the dispatcher does not own, or whose payload does not match
\* its digest, is passed over and left unacknowledged.
Skip(w, e) ==
    /\ e \in todo[w] \ owned
    /\ todo' = [todo EXCEPT ![w] = @ \ {e}]
    /\ UNCHANGED <<dbVars, myToken, locked, acked, ran>>

\* Mutants: acknowledging on a connection that does not see the claim, and
\* without comparing the token.
AckMatchesCommitted(w, e) == row[e] = "pending" /\ token[e] = myToken[w]
AckMatchesAnyToken(w, e) == e \notin acked[w] /\ row[e] = "pending"

\* memdot_ack_outbox_event updates the row only if the token is still the
\* worker's and the event unpublished; an expired lease does not matter.
AckMatches(w, e) ==
    \/ e \in locked[w] \ acked[w]
    \/ /\ e \notin locked[w]
       /\ row[e] = "pending"
       /\ token[e] = myToken[w]

\* The handler runs, then the event is acknowledged.  The UPDATE waits for
\* a row another transaction has locked.  The effects of the handler stay
\* in the transaction whether or not the acknowledgement took.
Handle(w, e) ==
    /\ e \in todo[w] \cap owned
    /\ ~LockedByOther(w, e)
    /\ runs[e] < MaxRuns
    /\ todo' = [todo EXCEPT ![w] = @ \ {e}]
    /\ ran' = [ran EXCEPT ![w] = @ \cup {e}]
    /\ IF AckMatches(w, e)
       THEN /\ acked' = [acked EXCEPT ![w] = @ \cup {e}]
            /\ locked' = [locked EXCEPT ![w] = @ \cup {e}]
       ELSE UNCHANGED <<acked, locked>>
    /\ UNCHANGED <<dbVars, myToken>>

-----------------------------------------------------------------------------
(* The end of a transaction.                                               *)

Claimed(w) == locked[w] \ acked[w]

\* Mutant: an acknowledgement clears the token and leaves the lease.
LeaseKept(w) == [e \in Event |-> IF e \in locked[w] THEN "live" ELSE lease[e]]

\* The lease of each row once the transaction is committed.
LeaseAfter(w) ==
    [e \in Event |-> IF e \in acked[w] THEN "none"
                     ELSE IF e \in Claimed(w) THEN "live" ELSE lease[e]]

\* Handlers may have inserted events of their own (new) in the transaction.
Commit(w, new, handled) ==
    /\ locked[w] # {} \/ ran[w] # {}
    /\ OneTransaction => todo[w] = {}
    /\ new \subseteq {e \in Event : row[e] = "absent"}
    /\ new # {} => ran[w] # {}
    /\ handled \subseteq new
    /\ row' = [e \in Event |-> IF e \in acked[w] THEN "published"
                               ELSE IF e \in new THEN "pending" ELSE row[e]]
    /\ owned' = owned \cup handled
    /\ token' = [e \in Event |-> IF e \in acked[w] THEN NoToken
                                 ELSE IF e \in Claimed(w) THEN myToken[w] ELSE token[e]]
    /\ lease' = LeaseAfter(w)
    /\ runs' = [e \in Event |-> IF e \in ran[w] THEN runs[e] + 1 ELSE runs[e]]
    /\ locked' = [locked EXCEPT ![w] = {}]
    /\ acked' = [acked EXCEPT ![w] = {}]
    /\ ran' = [ran EXCEPT ![w] = {}]
    /\ myToken' = [myToken EXCEPT ![w] = IF todo[w] = {} THEN NoToken ELSE @]
    /\ UNCHANGED todo

\* Mutant: handlers commit on their own, so a rollback keeps their effects.
RollbackKeepsEffects(w) ==
    /\ ~Idle(w)
    /\ runs' = [e \in Event |-> IF e \in ran[w] THEN runs[e] + 1 ELSE runs[e]]
    /\ todo' = [todo EXCEPT ![w] = {}]
    /\ locked' = [locked EXCEPT ![w] = {}]
    /\ acked' = [acked EXCEPT ![w] = {}]
    /\ ran' = [ran EXCEPT ![w] = {}]
    /\ myToken' = [myToken EXCEPT ![w] = NoToken]
    /\ UNCHANGED <<row, owned, token, lease>>

\* A handler raises, the connection drops or the process dies: the open
\* transaction is undone and the worker forgets its batch.
Rollback(w) ==
    /\ ~Idle(w)
    /\ todo' = [todo EXCEPT ![w] = {}]
    /\ locked' = [locked EXCEPT ![w] = {}]
    /\ acked' = [acked EXCEPT ![w] = {}]
    /\ ran' = [ran EXCEPT ![w] = {}]
    /\ myToken' = [myToken EXCEPT ![w] = NoToken]
    /\ UNCHANGED dbVars

Next ==
    \/ \E e \in Event : \/ \E handled \in BOOLEAN : Insert(e, handled)
                        \/ Expire(e)
    \/ \E w \in Workers :
          \/ Claim(w)
          \/ \E e \in Event : Skip(w, e) \/ Handle(w, e)
          \/ \E new \in SUBSET Event : \E handled \in SUBSET new : Commit(w, new, handled)
          \/ Rollback(w)

Spec == Init /\ [][Next]_vars

\* A deployed worker keeps calling the dispatcher, and a call that does not
\* raise runs through its batch and returns to a caller that commits.
Fairness ==
    \A w \in Workers :
       /\ WF_vars(Claim(w))
       /\ WF_vars(\E e \in Event : Skip(w, e) \/ Handle(w, e))
       /\ WF_vars(Commit(w, {}, {}))

FairSpec == Spec /\ Fairness

-----------------------------------------------------------------------------
(* Properties. *)

\* Exactly-once effects: when a batch is one transaction, the effects of an
\* event's handler are in the database exactly once if the event is
\* published and not at all if it is not, whatever workers race, raise or
\* die (dispatch_outbox_batch, memdot_claim_outbox_events).
ExactlyOnce ==
    OneTransaction =>
        \A e \in Event : runs[e] = (IF row[e] = "published" THEN 1 ELSE 0)

\* No fact is discarded: an event is marked published only by a dispatcher
\* that owns it, after its handler's effects were committed at least once
\* ("A worker must never silently discard an outbox fact it does not own",
\* process_claimed_event), also when claims are committed on their own.
NeverDiscarded ==
    \A e \in Event : row[e] = "published" => e \in owned /\ runs[e] >= 1

\* No two open transactions have claimed or acknowledged the same row: the
\* row lock of FOR UPDATE SKIP LOCKED and the lock an acknowledgement takes.
OneTransactionPerRow ==
    \A v, w \in Workers : v # w => locked[v] \cap locked[w] = {}

\* A late worker does not take an event away from the worker that holds a
\* live lease on it: memdot_ack_outbox_event fails for a superseded token.
LeaseRespected ==
    \A v, w \in Workers : \A e \in acked[w] :
        v # w => ~(lease[e] = "live" /\ e \in todo[v] /\ token[e] = myToken[v])

\* A published event is never offered to a dispatcher again.
PublishedIsFinal ==
    [][\A e \in Event : row[e] = "published" =>
          /\ row'[e] = "published"
          /\ \A w \in Workers : e \in locked'[w] => e \in locked[w]]_vars

\* The outbox implements the delivery contract when a batch is one
\* transaction.
D == INSTANCE Delivery WITH state <- row, delivered <- runs
ImplementsDelivery == D!Spec

\* Every owned event is eventually published, provided transactions stop
\* failing and fewer than BatchSize pending rows belong to nobody: then
\* neither rival workers, expiring leases nor the foreign rows, which are
\* claimed again and again and never acknowledged, keep it out of a batch
\* for ever (the ORDER BY created_at LIMIT of memdot_claim_outbox_events).
Foreign == {e \in Event \ owned : row[e] = "pending"}
EventuallyPublished ==
    /\ <>[][\A w \in Workers : ~Rollback(w)]_vars
    /\ [](Cardinality(Foreign) < BatchSize)
    => \A e \in Event :
          (row[e] = "pending" /\ e \in owned) ~> (row[e] = "published")
=============================================================================
