----------------------------- MODULE Ingestion ------------------------------
(***************************************************************************)
(* Ingestion of sources: the requests that enqueue, cancel and delete, the *)
(* durable job of every ingestion event, and the handler that the outbox   *)
(* dispatcher runs for it (process_claimed_event and                       *)
(* run_ingestion_for_revision).  The outbox itself is module Outbox, with  *)
(* a batch of events handled in one transaction.                           *)
(*                                                                         *)
(* A handler has two steps: Start reads (snapshot, job, source, earlier    *)
(* parse run) and records the attempt; the parse follows, which takes its  *)
(* time, and a Finish step writes the result and acknowledges the event.   *)
(* A request likewise reads, and later writes and commits.  The database   *)
(* is READ COMMITTED: a writer waits for the row locks of open             *)
(* transactions, and a column is written only if the value differs from    *)
(* the one the session had read.                                           *)
(***************************************************************************)
EXTENDS Naturals, FiniteSets

CONSTANTS
    NEvents, Workers, BatchSize, NTokens,   \* see Outbox
    Sources,
    Revisions,
    SourceOf,       \* the source a revision belongs to
    Contents,       \* what the uploaded bytes may turn out to be
    Requests,       \* the operations the user makes use of
    Shadows,        \* values of the shadow flag users pass to reprocess
    SystemActor     \* TRUE: every account has a system actor with its own id

ASSUME IngestionAssumption ==
    /\ NEvents \in Nat /\ BatchSize \in Nat \ {0} /\ NTokens \in Nat
    /\ SourceOf \in [Revisions -> Sources]
    /\ Contents \subseteq {"good", "poor", "unparsable", "oversize"}
    /\ Requests \subseteq {"begin_upload", "complete_upload", "retry", "reprocess", "cancel",
                           "tombstone"}
    /\ Shadows \subseteq BOOLEAN
    /\ SystemActor \in BOOLEAN

VARIABLES
    row, owned, token, lease, myToken, todo, locked, acked, ran, runs,  \* Outbox
    ev,         \* type and payload of each event
    job,        \* status of the durable job of each ingestion event
    attempt,    \* status of that job's attempt
    expired,    \* jobs whose authorization snapshot has expired
    intent,     \* is there an open upload intent for these bytes
    revs,       \* revisions that exist
    content,    \* what the bytes of each revision are
    status,     \* processing_status of each source
    run,        \* parse run of each revision under its (deterministic) id
    active,     \* revisions with an active parse pointer, always to that run
    workflow,   \* deletion workflow of each source; "none": no tombstone
    req,        \* the user's request in progress
    cur,        \* per worker: the handler in progress and what it has read
    out,        \* per worker: outcome of each event handled in the transaction
    put         \* per worker: source rows written in the transaction

outboxVars == <<row, owned, token, lease, myToken, todo, locked, acked, ran, runs>>
ledgerVars == <<ev, job, attempt, expired, intent, revs, content, status, run, active, workflow>>
handlerVars == <<cur, out, put>>
vars == <<outboxVars, ledgerVars, req, handlerVars>>

OB == INSTANCE Outbox WITH OneTransaction <- TRUE, MaxRuns <- 2
Event == 1 .. NEvents
NoEvent == 0

SourceStatus == {"draft", "upload_pending", "queued", "running", "succeeded",
                 "partial", "failed", "cancelled"}
RunStatus == {"none", "failed", "succeeded", "shadow"}
Outcome == {"dead_letter", "reused", "promoted", "shadowed", "partial", "failed",
            "oversize", "advanced"}

NoPayload == [type |-> "none"]
Foreign == [type |-> "active_parse_changed"]
IngestEvent(r, shadow) == [type |-> "ingest", rev |-> r, shadow |-> shadow]
DeletionEvent(s) == [type |-> "deletion", source |-> s]

NoRequest == [op |-> "none"]
Waiting == [e |-> NoEvent]

TypeOK ==
    /\ OB!TypeOK
    /\ ev \in [Event -> {NoPayload, Foreign}
                        \cup {IngestEvent(r, b) : r \in Revisions, b \in BOOLEAN}
                        \cup {DeletionEvent(s) : s \in Sources}]
    /\ job \in [Event -> {"none", "queued", "succeeded", "failed", "cancelled", "dead_letter"}]
    /\ attempt \in [Event -> {"none", "succeeded", "failed"}]
    /\ expired \subseteq Event
    /\ intent \in [Revisions -> BOOLEAN]
    /\ revs \subseteq Revisions
    /\ content \in [Revisions -> Contents]
    /\ status \in [Sources -> SourceStatus]
    /\ run \in [Revisions -> RunStatus]
    /\ active \subseteq Revisions
    /\ workflow \in [Sources -> {"none", "tombstoned", "revoking_grants",
                                "purging_projections", "completed"}]
    /\ req \in {NoRequest}
              \cup [op : Requests, rev : Revisions, shadow : BOOLEAN,
                    seen : SourceStatus, job : Event \cup {NoEvent}]
    /\ cur \in [Workers -> {Waiting} \cup [e : Event, seen : SourceStatus, run : RunStatus]]
    /\ out \in [Workers -> [Event -> Outcome \cup {"none"}]]
    /\ put \in [Workers -> [Sources -> SourceStatus \cup {"untouched", "unchanged"}]]

Init ==
    /\ OB!Init
    /\ ev = [e \in Event |-> NoPayload]
    /\ job = [e \in Event |-> "none"]
    /\ attempt = [e \in Event |-> "none"]
    /\ expired = {}
    /\ intent = [r \in Revisions |-> FALSE]
    /\ revs = {}
    /\ content \in [Revisions -> Contents]
    /\ status = [s \in Sources |-> "draft"]
    /\ run = [r \in Revisions |-> "none"]
    /\ active = {}
    /\ workflow = [s \in Sources |-> "none"]
    /\ req = NoRequest
    /\ cur = [w \in Workers |-> Waiting]
    /\ out = [w \in Workers |-> [e \in Event |-> "none"]]
    /\ put = [w \in Workers |-> [s \in Sources |-> "untouched"]]

-----------------------------------------------------------------------------
(* Row locks and the space left in the bounded event log.                  *)

SourceLocked(w, s) == put[w][s] # "untouched"
JobLocked(w, e) == e \in Event /\ (cur[w].e = e \/ out[w][e] # "none")

Absent == {e \in Event : row[e] = "absent"}
NextEvents == {e \in Absent : \A f \in Absent : e <= f}

IsIngest(e) == ev[e].type = "ingest"
Ingests(s) == {e \in Event : IsIngest(e) /\ SourceOf[ev[e].rev] = s}
Open(s) == {e \in Ingests(s) : row[e] = "pending"}

Enqueues(op) == op \in {"complete_upload", "retry", "reprocess"}

\* Bound: every event still to be handled may emit one more, and a request
\* in progress may add an event that does.
Room(n) ==
    Cardinality(Absent) >= n + Cardinality(UNION {Open(s) : s \in Sources})
                             + (IF Enqueues(req.op) THEN 2 ELSE 0)

-----------------------------------------------------------------------------
(* Requests of the account's user: begin_upload, complete_upload,          *)
(* retry_processing, reprocess_revision and cancel_processing.             *)

\* cancel_processing takes the newest unfinished job of the account, and
\* drops it if it belongs to another source.
CancelTarget(s) ==
    LET live == {e \in Event : job[e] = "queued"}
        newest == CHOOSE e \in live : \A f \in live : f <= e
    IN  IF live # {} /\ newest \in Ingests(s) THEN newest ELSE NoEvent

Permitted(op, r, shadow) ==
    \/ op = "begin_upload" /\ ~intent[r] /\ ~shadow
    \/ op = "complete_upload" /\ intent[r] /\ ~shadow
    \/ op = "retry" /\ r \in revs /\ ~shadow
    \/ op = "reprocess" /\ r \in revs /\ shadow \in Shadows
    \/ op = "cancel" /\ ~shadow

Request(op, r, shadow) ==
    /\ req = NoRequest
    /\ Permitted(op, r, shadow)
    /\ Enqueues(op) => Room(2)
    /\ req' = [op |-> op, rev |-> r, shadow |-> shadow, seen |-> status[SourceOf[r]],
               job |-> IF op = "cancel" THEN CancelTarget(SourceOf[r]) ELSE NoEvent]
    /\ UNCHANGED <<outboxVars, ledgerVars, handlerVars>>

NewStatus(op) ==
    CASE op = "begin_upload" -> "upload_pending"
      [] op = "cancel" -> "cancelled"
      [] OTHER -> "queued"

\* enqueue_job_with_outbox: a queued job and its event.
Enqueue(r, shadow) ==
    \E e \in NextEvents :
        /\ OB!Insert(e, TRUE)
        /\ ev' = [ev EXCEPT ![e] = IngestEvent(r, shadow)]
        /\ job' = [job EXCEPT ![e] = "queued"]

\* The request writes what it decided on when it read, and commits.
FinishRequest ==
    LET s == SourceOf[req.rev] IN
    /\ req # NoRequest
    /\ \A w \in Workers : ~SourceLocked(w, s) /\ ~JobLocked(w, req.job)
    /\ status' = [status EXCEPT ![s] = IF req.seen = NewStatus(req.op) THEN @
                                       ELSE NewStatus(req.op)]
    /\ intent' = [intent EXCEPT ![req.rev] =
                     req.op = "begin_upload" \/ (@ /\ req.op # "complete_upload")]
    /\ revs' = revs \cup (IF req.op = "complete_upload" THEN {req.rev} ELSE {})
    /\ IF Enqueues(req.op)
       THEN Enqueue(req.rev, req.shadow)
       ELSE /\ job' = [e \in Event |-> IF e = req.job THEN "cancelled" ELSE job[e]]
            /\ UNCHANGED <<ev, outboxVars>>
    /\ req' = NoRequest
    /\ UNCHANGED <<attempt, expired, content, run, active, workflow, handlerVars>>

\* create_tombstone: the tombstone, the workflow and the event in one
\* transaction that touches no source row.
Tombstone(s) ==
    /\ "tombstone" \in Requests
    /\ workflow[s] = "none"
    /\ Room(1)
    /\ \E e \in NextEvents : /\ OB!Insert(e, TRUE)
                             /\ ev' = [ev EXCEPT ![e] = DeletionEvent(s)]
    /\ workflow' = [workflow EXCEPT ![s] = "tombstoned"]
    /\ UNCHANGED <<job, attempt, expired, intent, revs, content, status, run, active,
                   req, handlerVars>>

\* The snapshot signed with the job outlives its hour.
ExpireSnapshot(e) ==
    /\ IsIngest(e) /\ row[e] = "pending" /\ e \notin expired
    /\ expired' = expired \cup {e}
    /\ UNCHANGED <<ev, job, attempt, intent, revs, content, status, run, active, workflow,
                   outboxVars, req, handlerVars>>

-----------------------------------------------------------------------------
(* The dispatcher: claim, then handle the events of the batch.             *)

Claim(w) == OB!Claim(w) /\ UNCHANGED <<ledgerVars, req, handlerVars>>
ExpireLease(e) == OB!Expire(e) /\ UNCHANGED <<ledgerVars, req, handlerVars>>

Skip(w, e) ==
    /\ cur[w] = Waiting
    /\ OB!Skip(w, e)
    /\ UNCHANGED <<ledgerVars, req, handlerVars>>

\* Mutant: the expiry of the snapshot is not checked.
SnapshotNeverExpires(e) == workflow[SourceOf[ev[e].rev]] = "none"

\* validate_auth_snapshot
SnapshotValid(e) == e \notin expired /\ workflow[SourceOf[ev[e].rev]] = "none"

\* An invalid snapshot is terminal: the job is dead-lettered and the event
\* acknowledged; the source is left as it is.
DeadLetter(w, e) ==
    /\ cur[w] = Waiting
    /\ IsIngest(e) /\ ~SnapshotValid(e)
    /\ OB!Handle(w, e)
    /\ out' = [out EXCEPT ![w][e] = "dead_letter"]
    /\ UNCHANGED <<ledgerVars, req, cur, put>>

\* What a transaction sees: its own writes over the committed ones.
SeenStatus(w, s) == IF put[w][s] \in SourceStatus THEN put[w][s] ELSE status[s]

\* Mutant: the promoted run is not marked as succeeded.
RunOfUnmarked(o) ==
    CASE o = "shadowed" -> "shadow"
      [] o \in {"promoted", "partial", "failed"} -> "failed"
      [] OTHER -> "none"

RunOf(o) ==
    CASE o = "promoted" -> "succeeded"
      [] o = "shadowed" -> "shadow"
      [] o \in {"partial", "failed"} -> "failed"
      [] OTHER -> "none"

RunsOf(w, r) ==
    {RunOf(out[w][e]) : e \in {f \in Event : IsIngest(f) /\ ev[f].rev = r}} \ {"none"}
SeenRun(w, r) == IF RunsOf(w, r) = {} THEN run[r] ELSE CHOOSE x \in RunsOf(w, r) : TRUE

\* start_job_attempt, and the reads before the parse.
Start(w, e) ==
    /\ cur[w] = Waiting
    /\ e \in todo[w]
    /\ IsIngest(e) /\ SnapshotValid(e)
    /\ cur' = [cur EXCEPT ![w] = [e |-> e, seen |-> SeenStatus(w, SourceOf[ev[e].rev]),
                                  run |-> SeenRun(w, ev[e].rev)]]
    /\ UNCHANGED <<outboxVars, ledgerVars, req, out, put>>

\* Mutant: any earlier run is reused, whatever its status.
ResultReusesAny(r, shadow, seenRun) ==
    IF seenRun # "none" /\ ~shadow THEN "reused"
    ELSE CASE content[r] = "oversize" -> "oversize"
           [] content[r] = "unparsable" -> "failed"
           [] content[r] = "poor" -> IF shadow THEN "shadowed" ELSE "partial"
           [] OTHER -> IF shadow THEN "shadowed" ELSE "promoted"

\* run_ingestion_for_revision.  An oversize body fails under a run id of its
\* own; a run that has succeeded is reused; otherwise the parse decides.
Result(r, shadow, seenRun) ==
    CASE content[r] = "oversize" -> "oversize"
      [] content[r] # "oversize" /\ seenRun \in {"succeeded", "shadow"} /\ ~shadow -> "reused"
      [] OTHER -> IF content[r] = "unparsable" THEN "failed"
                  ELSE IF shadow THEN "shadowed"
                  ELSE IF content[r] = "poor" THEN "partial" ELSE "promoted"

\* Mutant: a status the table's CHECK does not know.
StatusOfUnknown(o) == IF o \in {"reused", "promoted"} THEN "ready" ELSE "failed"

StatusOf(o) ==
    CASE o \in {"reused", "promoted"} -> "succeeded"
      [] o = "shadowed" -> "running"
      [] o = "partial" -> "partial"
      [] OTHER -> "failed"

\* Mutant: a path that forgets to set the source's status.
WritesNotOnFailure(o, seen) == o # "failed"

\* The columns that differ from what was read: "running" is written before
\* the result, except when a run is reused.
Writes(o, seen) == /\ o = "reused" => seen # "succeeded"
                   /\ o = "shadowed" => seen # "running"

CurResult(w) == LET e == cur[w].e IN Result(ev[e].rev, ev[e].shadow, cur[w].run)

\* Mutant: the run is written over an earlier one (ON CONFLICT DO UPDATE).
Overwrites(w) == FALSE

\* The primary key of parse_run: the revision already has a run.
Collides(w) ==
    /\ cur[w] # Waiting
    /\ RunOf(CurResult(w)) # "none"
    /\ SeenRun(w, ev[cur[w].e].rev) # "none"

Finish(w) ==
    LET e == cur[w].e
        s == SourceOf[ev[e].rev]
        o == CurResult(w)
    IN
    /\ cur[w] # Waiting
    /\ ~Collides(w)
    /\ \A v \in Workers \ {w} : ~SourceLocked(v, s)
    /\ OB!Handle(w, e)
    /\ out' = [out EXCEPT ![w][e] = o]
    /\ put' = [put EXCEPT ![w][s] = IF Writes(o, cur[w].seen) THEN StatusOf(o)
                                    ELSE IF @ = "untouched" THEN "unchanged" ELSE @]
    /\ cur' = [cur EXCEPT ![w] = Waiting]
    /\ UNCHANGED <<ledgerVars, req>>

Progression(state) ==
    CASE state = "tombstoned" -> "revoking_grants"
      [] state = "revoking_grants" -> "purging_projections"
      [] state = "purging_projections" -> "completed"
      [] OTHER -> state

\* _process_deletion_event: the workflow takes one step, under a worker
\* tenant context that only a system actor can open.
AdvanceDeletion(w, e) ==
    /\ cur[w] = Waiting
    /\ ev[e].type = "deletion"
    /\ SystemActor
    /\ OB!Handle(w, e)
    /\ out' = [out EXCEPT ![w][e] = "advanced"]
    /\ UNCHANGED <<ledgerVars, req, cur, put>>

-----------------------------------------------------------------------------
(* The end of the batch.                                                   *)

\* Mutant: an invalid snapshot only fails the job.
JobOfFails(o) == IF o \in {"reused", "promoted", "partial"} THEN "succeeded" ELSE "failed"

JobOf(o) ==
    CASE o \in {"reused", "promoted", "partial"} -> "succeeded"
      [] o = "dead_letter" -> "dead_letter"
      [] OTHER -> "failed"

Did(w, outcomes) == {e \in Event : out[w][e] \in outcomes}
Ran(w) == Did(w, {"reused", "promoted", "partial", "failed", "oversize", "shadowed"})

\* Mutant: the pointer moves without an event.
NoEmission(w) == {{}}

\* promote_active_parse_run emits one event per promotion.
Emissions(w) ==
    {new \in SUBSET Absent : /\ Cardinality(new) = Cardinality(Did(w, {"promoted"}))
                             /\ \A e \in new : \A f \in Absent \ new : e < f}

Forget(w) ==
    /\ cur' = [cur EXCEPT ![w] = Waiting]
    /\ out' = [out EXCEPT ![w] = [e \in Event |-> "none"]]
    /\ put' = [put EXCEPT ![w] = [s \in Sources |-> "untouched"]]

Commit(w) ==
    /\ cur[w] = Waiting
    /\ \E new \in Emissions(w) :
          /\ OB!Commit(w, new, {})
          /\ ev' = [e \in Event |-> IF e \in new THEN Foreign ELSE ev[e]]
    /\ job' = [e \in Event |-> IF e \in Ran(w) \cup Did(w, {"dead_letter"})
                               THEN JobOf(out[w][e]) ELSE job[e]]
    /\ attempt' = [e \in Event |-> IF e \in Ran(w) THEN JobOf(out[w][e]) ELSE attempt[e]]
    /\ status' = [s \in Sources |-> SeenStatus(w, s)]
    /\ run' = [r \in Revisions |-> SeenRun(w, r)]
    /\ active' = active \cup {ev[e].rev : e \in Did(w, {"promoted"})}
    /\ workflow' = [s \in Sources |-> IF \E e \in Did(w, {"advanced"}) : ev[e].source = s
                                      THEN Progression(workflow[s]) ELSE workflow[s]]
    /\ Forget(w)
    /\ UNCHANGED <<expired, intent, revs, content, req>>

Undo(w) == OB!Rollback(w) /\ Forget(w) /\ UNCHANGED <<ledgerVars, req>>

\* A handler raises: the insert of a parse run collides, or no system actor
\* exists.  dispatch_outbox_batch does not catch it, so the batch is undone.
Raise(w) ==
    /\ \/ Collides(w)
       \/ /\ cur[w] = Waiting /\ ~SystemActor
          /\ \E e \in todo[w] : ev[e].type = "deletion"
    /\ Undo(w)

\* Anything else that ends the transaction: a storage error, a deadlock
\* victim, a lost connection, the death of the process.
Crash(w) == Undo(w)

Handlers(w) ==
    \/ \E e \in Event : Skip(w, e) \/ DeadLetter(w, e) \/ Start(w, e) \/ AdvanceDeletion(w, e)
    \/ Finish(w)

Next ==
    \/ \E op \in Requests, r \in Revisions, shadow \in BOOLEAN : Request(op, r, shadow)
    \/ FinishRequest
    \/ \E s \in Sources : Tombstone(s)
    \/ \E e \in Event : ExpireSnapshot(e) \/ ExpireLease(e)
    \/ \E w \in Workers : Claim(w) \/ Handlers(w) \/ Commit(w) \/ Raise(w) \/ Crash(w)

Spec == Init /\ [][Next]_vars

\* Requests end and a deployed worker keeps calling the dispatcher; crashes
\* are left to chance.
Fairness ==
    /\ WF_vars(FinishRequest)
    /\ \A w \in Workers : /\ WF_vars(Claim(w))
                          /\ WF_vars(Handlers(w))
                          /\ WF_vars(Commit(w))
                          /\ WF_vars(Raise(w))

FairSpec == Spec /\ Fairness

\* Time passes: every snapshot of an unhandled job expires in the end.
TimedSpec == FairSpec /\ \A e \in Event : WF_vars(ExpireSnapshot(e))

-----------------------------------------------------------------------------
(* Properties.                                                             *)

\* The job, its attempt and its event agree whatever the workers' schedule:
\* a pending event has a job that is waiting (or was cancelled) and has no
\* attempt, and the acknowledgement commits together with exactly one
\* attempt or with the dead letter (start_job_attempt, complete_job,
\* mark_dead_letter and memdot_ack_outbox_event are one transaction).
JobFollowsEvent ==
    \A e \in Event : IsIngest(e) =>
        /\ row[e] = "pending" => job[e] \in {"queued", "cancelled"} /\ attempt[e] = "none"
        /\ row[e] = "published" =>
              \/ attempt[e] # "none" /\ job[e] \in {attempt[e], "cancelled"}
              \/ attempt[e] = "none" /\ job[e] \in {"dead_letter", "cancelled"}

\* What readers are served comes from a good parse: an active pointer leads
\* to a succeeded run that is not a shadow run and whose text passed the
\* quality threshold (run_ingestion_for_revision, promote_active_parse_run).
ActiveRunIsGood ==
    \A r \in active : run[r] = "succeeded" /\ content[r] = "good" /\ r \in revs

\* A succeeded run and the pointer to it appear together, and every
\* promotion is announced: there are as many active_parse_changed events as
\* active revisions (memdot_set_current_active_parse_run inserts both).
PromotionAnnounced ==
    /\ \A r \in Revisions : run[r] = "succeeded" => r \in active
    /\ Cardinality({e \in Event : ev[e] = Foreign}) = Cardinality(active)

\* A source that waits waits for something: one shown as queued has an event
\* still to be handled or a job that was dead-lettered, which leaves the
\* source as it was, and one shown as running has had a shadow run, which
\* ends there.  No crash, rollback or overtaken request leaves a source
\* waiting for work that nobody will do.
WaitingHasReason ==
    \A s \in Sources :
        /\ status[s] = "queued" =>
              Open(s) # {} \/ \E e \in Ingests(s) : job[e] = "dead_letter"
        /\ status[s] = "running" => \E r \in Revisions : SourceOf[r] = s /\ run[r] = "shadow"

\* A successful state is not made up: a source shown as succeeded has an
\* active parse of one of its revisions, for every order of uploads, retries,
\* crashes and workers.  A source whose run was a shadow is excepted: the next
\* ordinary run reuses that run and reports its success, promoting nothing.
SuccessWithoutShadow ==
    \A s \in Sources :
        status[s] = "succeeded" /\ (\A r \in Revisions : SourceOf[r] = s => run[r] # "shadow")
        => \E r \in active : SourceOf[r] = s

RunsStay ==
    /\ active \subseteq active'
    /\ \A r \in Revisions : run[r] # "none" => run'[r] = run[r]
SettledStays ==
    \A e \in Event : row[e] = "published" =>
        /\ ev'[e] = ev[e] /\ attempt'[e] = attempt[e]
        /\ job'[e] \in {job[e], "cancelled"}

\* "parse_run ...: revision immutable" (SCHEMA_OWNERSHIP.md): two workers that
\* parse the same revision, a retry, a reprocessing or a shadow run never
\* change a run that is there or withdraw a pointer, and no job is settled
\* twice; the one change a settled job may see is the cancellation by a
\* request that had read it before (cancel_processing compares nothing).
RecordsFinal == [][RunsStay /\ SettledStays]_vars

\* A tombstone cancels further promotion: no revision of a tombstoned source
\* becomes active.
NoPromotionAfterTombstone ==
    [][\A r \in active' \ active : workflow[SourceOf[r]] = "none"]_vars

\* Transactions stop failing for reasons from outside, and fewer than
\* BatchSize rows belong to nobody.
Quiet == /\ <>[][\A w \in Workers : Crash(w) => Raise(w)]_vars
         /\ [](Cardinality(OB!Foreign) < BatchSize)

\* A pending deletion event that no system actor can handle raises each time
\* it is claimed, has no snapshot to expire, and undoes its batch.
Poison == {e \in Event : row[e] = "pending" /\ ev[e].type = "deletion" /\ ~SystemActor}

\* Every ingestion request is settled in the end where nothing is poison: its
\* job leaves the queue, also when its handler raises each time and undoes its
\* neighbours, for then its snapshot expires and it is dead-lettered.  Poison
\* is excepted, and without a system actor, which no code creates, every
\* deletion event is poison: it is never dead-lettered, against TRD-OPS-009,
\* and the jobs that share its batches may stay queued with it.
JobsSettle ==
    Quiet /\ [](Poison = {}) => \A e \in Event : (job[e] = "queued") ~> (job[e] # "queued")

\* Retry adds an attempt: while snapshots last, a queued job of a source
\* that is neither cancelled nor deleted comes to be attempted.
QueuedJobIsAttempted ==
    Quiet /\ [](expired = {}) =>
        \A e \in Event : (job[e] = "queued") ~>
            (attempt[e] # "none" \/ job[e] \in {"cancelled", "dead_letter"})
=============================================================================
