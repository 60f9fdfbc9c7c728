----------------------------- MODULE Documents ------------------------------
(***************************************************************************)
(* Authored documents: create_document and save_revision with their        *)
(* idempotency keys.                                                       *)
(*                                                                         *)
(* A handler thread serves a request in one transaction (READ COMMITTED):  *)
(* every statement sees what was committed before it, a unique key or a    *)
(* pointer that another open transaction has written makes it wait, and    *)
(* the commit comes after the answer, when FastAPI closes the session      *)
(* dependency.                                                             *)
(*                                                                         *)
(* In the service a query outside tenant_scope finds nothing, because row  *)
(* security hides the rows.  On the connections of the repository's test   *)
(* fixtures, which row security does not bind, it finds them.  In both the *)
(* pointer function fails: it is called before the session has flushed the *)
(* revision that it names.  "repaired" is neither, it is the same handlers *)
(* with the queries in the scope and that flush in its place: what is said *)
(* of it is what the keys, the waits and the commits are good for once a   *)
(* revision can be saved.                                                  *)
(***************************************************************************)
EXTENDS Naturals

CONSTANTS
    Docs,
    Keys,           \* values of the header Idempotency-Key
    Handlers,       \* threads that serve requests
    MaxRev,         \* bound: revision ids
    Deployments     \* which of the three to consider

ASSUME DocumentsAssumption ==
    /\ MaxRev \in Nat
    /\ Deployments \subseteq {"service", "fixture", "repaired"}
    /\ "none" \notin Keys

VARIABLES
    deployment,     \* what sessions see; fixed
    rev,            \* document_revision: the request each id was saved for
    current,        \* current_document_revision of each document, 0 for none
    record,         \* idempotency_record of each key
    events,         \* revisions announced by document.current_revision_changed
    tx,             \* what each handler is at
    answered,       \* revisions some client was told of
    refused         \* keys recorded for a request that saved nothing

vars == <<deployment, rev, current, record, events, tx, answered, refused>>

RevId == 1 .. MaxRev
Request == [op : {"create", "save"}, doc : Docs, key : Keys \cup {"none"},
            base : 0 .. MaxRev, valid : BOOLEAN]
None == [made |-> FALSE]
Revision == [made : {TRUE}, of : Request]
Record == [made : {TRUE}, of : Request, answer : 0 .. MaxRev]

Phase == {"lookup", "insert", "check", "write", "complete", "close"}
Idle == [busy |-> FALSE]
Busy == [busy : {TRUE}, at : Phase, q : Request, id : RevId,
         inserted : BOOLEAN, saved : BOOLEAN]

TypeOK ==
    /\ deployment \in Deployments
    /\ rev \in [RevId -> {None} \cup Revision]
    /\ current \in [Docs -> 0 .. MaxRev]
    /\ record \in [Keys -> {None} \cup Record]
    /\ events \subseteq RevId
    /\ tx \in [Handlers -> {Idle} \cup Busy]
    /\ answered \subseteq RevId
    /\ refused \subseteq Keys

Init ==
    /\ deployment \in Deployments
    /\ rev = [i \in RevId |-> None]
    /\ current = [d \in Docs |-> 0]
    /\ record = [k \in Keys |-> None]
    /\ events = {}
    /\ tx = [h \in Handlers |-> Idle]
    /\ answered = {}
    /\ refused = {}

Committed == {i \in RevId : rev[i].made}
ledger == <<deployment, rev, current, record, events, refused>>

-----------------------------------------------------------------------------
(* What other transactions hold.                                           *)

Others(h) == {g \in Handlers \ {h} : tx[g].busy}

\* An id or a document that nobody else is using: both are fresh UUIDs.  Of
\* the ids, which are all alike, the first is taken.
Unused(h, i) == i \notin Committed \cup answered /\ \A g \in Others(h) : tx[g].id # i
Fresh(h, i) == Unused(h, i) /\ \A j \in 1 .. i - 1 : ~Unused(h, j)
NewDoc(h, d) ==
    current[d] = 0 /\ \A g \in Others(h) : tx[g].q.op = "create" => tx[g].q.doc # d

\* The unique index of idempotency_record, and the row that
\* complete_idempotency updates.
KeyFree(h, k) ==
    \A g \in Others(h) : tx[g].q.key = k =>
        ~tx[g].inserted /\ ~(tx[g].at = "close" /\ tx[g].saved)

\* Mutant: the base is read FOR SHARE, and the lock raised when writing.
PointerShared(h, d) ==
    \A g \in Others(h) : tx[g].at \in {"write", "complete", "close"} => tx[g].q.doc # d

\* The row of current_document_revision.
PointerFree(h, d) == \A g \in Others(h) : tx[g].saved => tx[g].q.doc # d

\* What a query outside tenant_scope finds.
Seen(x, nothing) == IF deployment # "service" THEN x ELSE nothing

-----------------------------------------------------------------------------
(* A request.                                                              *)

\* The client repeats an old request or makes a new one, from a base it was
\* told of.  create_document knows neither keys nor bases.
Receive(h, q, i) ==
    /\ ~tx[h].busy
    /\ Fresh(h, i)
    /\ q.base \in answered \cup {0}
    /\ q.op = "create" => q.key = "none" /\ q.base = 0 /\ q.valid /\ NewDoc(h, q.doc)
    /\ tx' = [tx EXCEPT ![h] =
                 [busy |-> TRUE, q |-> q, id |-> i, inserted |-> FALSE, saved |-> FALSE,
                  at |-> IF q.op = "create" THEN "write"
                         ELSE IF q.key = "none" THEN "check" ELSE "lookup"]]
    /\ UNCHANGED <<ledger, answered>>

At(h, phase) == tx[h].busy /\ tx[h].at = phase
Goto(h, phase) == tx' = [tx EXCEPT ![h].at = phase]

\* begin_idempotency, first half: another fingerprint is a conflict, a
\* recorded answer is replayed, a record without answer is taken up again.
Lookup(h) ==
    LET q == tx[h].q
        known == Seen(record[q.key], None)
    IN /\ At(h, "lookup")
       /\ Goto(h, IF ~known.made THEN "insert"
                  ELSE IF known.of # q \/ known.answer # 0 THEN "close" ELSE "check")
       /\ answered' = IF known.made /\ known.of = q /\ known.answer # 0
                      THEN answered \cup {known.answer} ELSE answered
       /\ UNCHANGED ledger

\* Mutant: the record is kept in a session of its own.
UndoKeepsRecord(h) ==
    LET t == tx[h] IN
    /\ t.busy
    /\ record' = [k \in Keys |->
                     IF k = t.q.key /\ t.at = "close" /\ t.saved
                     THEN [made |-> TRUE, of |-> t.q, answer |-> t.id]
                     ELSE record[k]]
    /\ tx' = [tx EXCEPT ![h] = Idle]
    /\ UNCHANGED <<deployment, rev, current, events, refused, answered>>

\* The transaction is gone: the exception reaches get_db_session or
\* tenant_scope, the connection is lost, or the process dies.
Undo(h) ==
    /\ tx[h].busy
    /\ tx' = [tx EXCEPT ![h] = Idle]
    /\ UNCHANGED <<ledger, answered>>

\* Mutant: the index does not stop a repetition of the same request.
InsertAgain(h) ==
    LET q == tx[h].q IN
    /\ At(h, "insert")
    /\ \A g \in Others(h) : tx[g].q.key = q.key => tx[g].q = q
    /\ record[q.key].made => record[q.key].of = q
    /\ tx' = [tx EXCEPT ![h].at = "check", ![h].inserted = TRUE]
    /\ UNCHANGED <<ledger, answered>>

\* Second half: the flush waits for a rival with the same key.  It raises if
\* the rival has committed, and where row security is in force.
Insert(h) ==
    /\ At(h, "insert")
    /\ KeyFree(h, tx[h].q.key)
    /\ IF deployment # "service" /\ ~record[tx[h].q.key].made
       THEN tx' = [tx EXCEPT ![h].at = "check", ![h].inserted = TRUE]
       ELSE tx' = [tx EXCEPT ![h] = Idle]
    /\ UNCHANGED <<ledger, answered>>

\* validate_or_raise (422), the base (409) and the document (404): each of
\* these answers leaves the transaction to be committed.
Check(h) ==
    LET q == tx[h].q
        seen == Seen(current[q.doc], 0)
    IN /\ At(h, "check")
       /\ Goto(h, IF q.valid /\ q.base = seen /\ seen # 0 THEN "write" ELSE "close")
       /\ UNCHANGED <<ledger, answered>>

\* The revision is added and memdot_set_current_document_revision called,
\* which waits for the pointer's row.  Nothing was flushed (execute(text())
\* does not), so the pointer's foreign key fails: tenant_scope rolls back and
\* the answer is 404.
Write(h) ==
    /\ deployment # "repaired"
    /\ At(h, "write")
    /\ PointerFree(h, tx[h].q.doc)
    /\ tx' = [tx EXCEPT ![h] = Idle]
    /\ UNCHANGED <<ledger, answered>>

\* The same after a flush.  No code does this yet.
WriteRepaired(h) ==
    /\ deployment = "repaired"
    /\ At(h, "write")
    /\ PointerFree(h, tx[h].q.doc)
    /\ tx' = [tx EXCEPT ![h].at = "complete", ![h].saved = TRUE]
    /\ UNCHANGED <<ledger, answered>>

\* complete_idempotency, and the answer with the new revision.
Complete(h) ==
    /\ At(h, "complete")
    /\ tx[h].q.key # "none" => KeyFree(h, tx[h].q.key)
    /\ Goto(h, "close")
    /\ answered' = answered \cup {tx[h].id}
    /\ UNCHANGED ledger

\* Mutants of what a commit leaves: the status in place of the answer, the
\* pointer without its event.
CommitStatus(h) ==
    /\ At(h, "close")
    /\ record' = [k \in Keys |-> IF k = tx[h].q.key
                                 THEN [made |-> TRUE, of |-> tx[h].q, answer |-> 200]
                                 ELSE record[k]]
    /\ tx' = [tx EXCEPT ![h] = Idle]
    /\ UNCHANGED <<deployment, rev, current, events, refused, answered>>
CommitUnannounced(h) ==
    LET t == tx[h] IN
    /\ At(h, "close")
    /\ rev' = IF t.saved THEN [rev EXCEPT ![t.id] = [made |-> TRUE, of |-> t.q]] ELSE rev
    /\ current' = IF t.saved THEN [current EXCEPT ![t.q.doc] = t.id] ELSE current
    /\ tx' = [tx EXCEPT ![h] = Idle]
    /\ UNCHANGED <<deployment, record, events, refused, answered>>

\* get_db_session commits when the dependency is closed, after the answer.
Commit(h) ==
    LET t == tx[h] IN
    /\ At(h, "close")
    /\ IF t.saved
       THEN /\ rev' = [rev EXCEPT ![t.id] = [made |-> TRUE, of |-> t.q]]
            /\ current' = [current EXCEPT ![t.q.doc] = t.id]
            /\ events' = events \cup {t.id}
       ELSE UNCHANGED <<rev, current, events>>
    /\ record' = [k \in Keys |->
                     IF k = t.q.key /\ (t.inserted \/ t.saved)
                     THEN [made |-> TRUE, of |-> t.q, answer |-> IF t.saved THEN t.id ELSE 0]
                     ELSE record[k]]
    /\ refused' = IF t.inserted /\ ~t.saved THEN refused \cup {t.q.key} ELSE refused
    /\ tx' = [tx EXCEPT ![h] = Idle]
    /\ UNCHANGED <<deployment, answered>>

Step(h) ==
    \/ Lookup(h) \/ Insert(h) \/ Check(h)
    \/ Write(h) \/ WriteRepaired(h)
    \/ Complete(h) \/ Commit(h)

Next ==
    \E h \in Handlers :
        \/ \E q \in Request, i \in RevId : Receive(h, q, i)
        \/ Step(h)
        \/ Undo(h)

Spec == Init /\ [][Next]_vars

\* A thread goes on unless it waits, and PostgreSQL serves those who wait for
\* a row in their order.
FairSpec == Spec /\ \A h \in Handlers : SF_vars(Step(h))

-----------------------------------------------------------------------------
(* Properties.                                                             *)

\* Requests that overlap, are lost between two of their steps or repeated
\* have the effects of requests served one at a time, each in one step: the
\* revision, the pointer and the recorded answer appear together, no saved
\* revision changes, and no recorded answer is replaced unless the key's
\* first request was refused.
H == INSTANCE History
     WITH Doc <- Docs, Key <- Keys, Revision <- RevId, Query <- Request,
          saved <- rev, latest <- current, settled <- record
ImplementsHistory == H!Spec

\* A key stands for one request ("a different fingerprint returns 409",
\* TRD-API-002), which takes effect once, whatever was lost, repeated or
\* running at the same time; except that a key whose first request was
\* refused may be taken up by two of its repetitions.
EffectOnce ==
    \A i, j \in Committed :
        rev[i].of.key = rev[j].of.key /\ rev[i].of.key # "none" =>
            /\ rev[i].of = rev[j].of
            /\ rev[i].of.key \notin refused => i = j

\* A recorded answer is true: the revision it names was saved for this very
\* request, and it is what a repetition is told.
RecordedAnswerIsTrue ==
    \A k \in Keys : record[k].made /\ record[k].answer # 0 =>
        rev[record[k].answer] = [made |-> TRUE, of |-> record[k].of]

\* Mutable pointers change in the same transaction as their outbox event
\* (TRD-DATA-012): a revision is announced when and only when it was saved.
\* The history of a document hangs together: it points to a saved revision
\* of its own, and each was saved on a saved one of the same document or is
\* the first.
PointersAnnounced ==
    LET SavedIn(d, i) == i \in Committed /\ rev[i].of.doc = d
    IN /\ events = Committed
       /\ \A d \in Docs : current[d] # 0 => SavedIn(d, current[d])
       /\ \A i \in Committed : rev[i].of.base # 0 => SavedIn(rev[i].of.doc, rev[i].of.base)

\* Every request comes to its end: handlers that wait for each other's keys
\* and pointers never do so in a circle.
RequestsEnd == \A h \in Handlers : tx[h].busy ~> ~tx[h].busy
=============================================================================
