# Memdot: a verification project

Memdot is a personal memory service.  A FastAPI core keeps a ledger in
PostgreSQL (sources, documents, memory items, learning state, conversations), a
transactional outbox hands work to background dispatchers, and a web client and
an MCP edge read and write through the core.  This directory holds TLA+ models of
the parts that are hard to get right and hard to test, TLC configurations
that check them on small instances, and TLAPS proofs of the central results.

`core/` below stands for `services/core/src/memdot_core/`, `phase3.sql` for
`services/core/alembic/versions/20260716_0001_phase3_canonical.sql` and
`phase4.sql` for `20260717_0002_phase4_runtime.sql` beside it.

## 1. Inventory

| part | state | operations | interacts with | what makes it correct |
|---|---|---|---|---|
| Outbox and dispatcher (`core/jobs/service.py`, `core/jobs/processor.py`, `phase4.sql`) | `outbox_event`: `published_at`, `claim_token`, `claim_expires_at` | insert, claim, acknowledge, dispatch a batch | written by every producer; runs the handlers | each fact is handled exactly once, none is discarded, a late worker cannot acknowledge |
| Durable jobs (`core/jobs/service.py`, `core/jobs/auth_snapshot.py`) | `durable_job`, `job_attempt`, the signed snapshot | enqueue, start, complete, dead-letter, cancel | outbox, ingestion | the job, its attempt and its event agree; every job settles |
| Ingestion (`core/ingestion/`, `core/parsers/`) | `parse_run`, elements, active pointer, `processing_status` | run, promote, shadow | jobs, sources, storage | readers see good parses only, promotions are announced, states are true |
| Sources and uploads (`core/sources/`) | `source`, `source_revision`, upload intents | create, begin/complete upload, retry, reprocess, cancel | jobs, storage | no source waits for nothing; one upload makes one revision |
| Deletion (`core/deletion/`) | tombstones, workflows | tombstone, advance, replay after restore | outbox, everything that reads | a deletion happens once, wins over retry and promotion, and survives a restore |
| Documents (`core/documents/`, `core/idempotency.py`) | documents, revisions, current pointer, idempotency records | create, save on a base | outbox, web client | no lost update, a repeated request has its effect once |
| Memory (`core/memory/`) | items, versions, proposals | propose, approve, reject | outbox, MCP | a proposal is applied once if it stands approved and not at all otherwise |
| Learning (`core/learning/`, `packages/domain-python/`) | curriculum, attempts, learner events, review cards, evidence | start, reveal, submit, link, append, rebuild | sessions | graded once, no credit after a reveal, evidence that follows the log, no prerequisite cycle |
| Conversations (`core/conversations/`) | turns with an index and a client id, encrypted text | create, append, record, delete | MCP, deletion | a repeated interaction is captured once, a deleted conversation stays deleted |
| Notion (`core/notion/`) | connection, page bindings, snapshots | connect, list, select, sync, resolve | sources | sync pauses on a conflict; one source per page |
| Authentication (`core/auth/`, `core/policy.py`) | OIDC challenges, token ids, accounts, sessions, nonces, grants, rate windows | login, attest, rotate, log out, verify an envelope | every request | a challenge or a token makes one login, a session has one live successor, a replay is told from an original |
| Tenant context and row security (`core/db/tenant.py`, `phase3.sql`) | transaction-local settings | open a scope | every statement | no row of another account is read or written |
| Retrieval and context (`core/retrieval/`, `core/context/`, `core/external_context.py`) | none | query, fuse, pack | projections, grants | only permitted text within the budget |
| MCP (`core/mcp/`, `apps/mcp/`) | none of its own | tools | memory, context | a tool does what its grant allows |
| Export, projections, storage, workers' canary, model router, adapters, web stores | small or none | see `PROJECT.json` | | |

Hard behaviours: two dispatchers on one table; batches that are one database
transaction, so that a handler that raises undoes its neighbours; a parse that
takes minutes between what it read and what it writes; users who cancel, retry,
reprocess and delete meanwhile; leases and signed snapshots that expire; rows
that no dispatcher in the repository handles; handlers that read, decide and
write without a lock and answer before they commit; unique indexes that are all
that stops the second of two requests; object storage outside the transaction; a
restore that takes tombstones away.  `PROJECT.json` lists each under
"hazards" at the line where it bites.

## 2. Modules

    Delivery          what the outbox promises (abstract)
      ^ refined by
    Outbox            outbox_event, claim, acknowledge, dispatch, transactions
      ^ composed in                         ^ proved in OutboxProofs
    Ingestion         requests, jobs, parse runs, pointers, deletion
                                            ^ proved in IngestionProofs

    Tenancy           tenant contexts, pooled connections, row security
                                            ^ proved in TenancyProofs
    History           what saving promises a client (abstract)
      ^ refined by
    Documents         create and save, idempotency keys, pointer function
                                            ^ proved in DocumentsProofs
    Access            login, accounts, sessions, signed envelopes of the MCP edge
                                            ^ proved in AccessProofs

    Evidence          pure rules of learning: eligibility, evidence, cycles, cards
      ^ used by
    Learning          curriculum, attempts, reveals, grades, cards, the log
                                            ^ proved in LearningProofs

    Requests          a handler's transaction: read, go on, end or be undone
      ^ extended by
    Proposals   Conversations   NotionSync   Uploads
      ^ composed in
    Exchange                                ^ proved in ExchangeProofs (the first
                                              two) and ConnectorProofs

Each `MC...` module gives one of these its constants for TLC.

### Outbox

A dispatcher works in a transaction: `todo`, `locked`, `acked` and `ran` are
what worker *w* has claimed, locked, acknowledged and handled in it; `row`,
`token`, `lease`, `runs` are what is committed.  `Commit` publishes the first
into the second, `Rollback` (a raising handler, a lost connection, a death)
forgets it.

| code | model |
|---|---|
| insert of an `outbox_event` by a producer | `Insert` |
| `memdot_claim_outbox_events` (`FOR UPDATE SKIP LOCKED`, `LIMIT`, `ORDER BY created_at`) | `Claimable`, `Candidates`, `FreshTokens`, `Claim` |
| `now()` passing `claim_expires_at` | `Expire` |
| `process_claimed_event`, event not owned or digest wrong | `Skip` |
| handler and `memdot_ack_outbox_event` | `Handle`, `AckMatches` |
| `session_scope`, `tenant_scope` | `Commit`, `Rollback` |

`dispatch_outbox_batch` never commits, so a batch is one transaction of its
caller: `OneTransaction = TRUE`.  Nothing in the repository calls it outside tests; the
caller is an external worker, assumed to use a fresh session per batch and to
see the rows of all accounts.  `OneTransaction = FALSE` is a caller that
commits between `claim_outbox_batch` and `process_claimed_event`, which is what
lease and token are for.  Events are numbered in the order of `created_at`,
and may appear out of that order, since it is the time their transaction began.

`Delivery` is the contract: an event goes from absent to pending to published,
its handler's effects appear with the publication, once.

### Ingestion

Composes Outbox (`OB == INSTANCE Outbox`, one transaction per batch) with the
ledger the handlers write.

| code | model |
|---|---|
| `begin_upload`, `complete_upload`, `retry_processing`, `reprocess_revision`, `cancel_processing` | `Request` (reads), `FinishRequest` (writes and commits) |
| `enqueue_job_with_outbox` | `Enqueue` |
| `create_tombstone` | `Tombstone` |
| `validate_auth_snapshot` | `SnapshotValid`; the hour runs out in `ExpireSnapshot` |
| `process_claimed_event`, invalid snapshot | `DeadLetter` |
| `start_job_attempt` and the reads of `run_ingestion_for_revision` | `Start` |
| parse, `_persist_parse_run`, `promote_active_parse_run`, `complete_job`, acknowledgement | `Result`, `Finish` |
| `_process_deletion_event` | `Progression`, `AdvanceDeletion` |
| a handler that raises | `Collides`, `Raise` |
| anything else that ends a transaction | `Crash` |

Details that matter and are kept.  The session has `autoflush=False` and
`expire_on_commit=False` and writes a column only if it differs from the value
it had read; so `status` is written from `seen`, a value read before the parse
(`Writes`).  A parse run has a deterministic id, so a second insert for the
revision raises (`Collides`); an oversize body has an id of its own that no
later run meets.  A dead-lettered job leaves its source as it was.  A shadow
run ends with the source `running` and the job `failed`.
`memdot_begin_tenant_context` wants an actor of kind `system` whose id is the
account's; no code creates one, so `SystemActor = FALSE` is the deployed state
and makes every deletion event raise (`Poison`); `TRUE` is the state the handler was
written for.  `ingestion_jobs` runs with `FALSE`, `ingestion_live` with `TRUE`.

Abstractions.  Bytes are one of four contents (good, poor, unparsable,
oversize), fixed by the upload; elements, artifacts and warnings go with their
run; OCR's outcome is part of the content.  One user makes one request at a
time; the requests themselves interleave with the workers.  A revision has one
parse run of interest, the one under its deterministic id.

Visibility.  `Ingestion` takes the rows a handler asks for to be visible.  That
is how the repository's tests run (their role is not bound by row security).  Under the
service's role the routes that query before they open a scope,
`complete_upload` among them, find nothing: see `Tenancy`.

### Tenancy

A request takes a connection from the pool, opens tenant scopes, reads and
writes in one transaction, and gives the connection back.

| code | model |
|---|---|
| `get_db_session`, `session_scope` | `Checkout`, `Commit`, `Fail` (both end in `Release`) |
| `tenant_scope`, `build_external_request_context` | `Scope` |
| `memdot_begin_tenant_context`: actor, kind, membership or newest grant | `Admits`, `KindFor`, `Context` |
| `memdot_rls_ok`: seal, minute, account, revocation | `RlsOk` |
| the policies and `memdot_external_space_ok` | `Table`, `Readable`, `Shown`, `Writable` |
| the order of scope, query and write in the services | `Handler`, `Suits`, `Read`, `Write` |
| `_eligible_non_private_spaces`; `fetch`, `_space_is_private` | `Search`; `Fetch` |
| the clock; an operator who revokes an actor, ends a membership or a grant | `Age`, `Revoke`, `Lapse` |

The settings are transaction-local (`set_config(..., true)`), so they end with
the transaction; the reset in `finally` runs in a transaction that is then
closed.  A scope stays in force after its block until then.  Signatures are taken as
unforgeable.  A row is reduced to its account, whether its space is private,
and its table: the spaces, the conversations, the other tables of the first
migration, whose policies name purposes, or one that is *open*.  Open are the
tables added later (`memory_item`, `memory_revision`, `current_memory_revision`,
`projection`, `upload_intent`, `current_active_parse_run`, those of learning,
Notion, deletion and export): their `tenant_first_party` names no purpose, and
since permissive policies are OR-ed, every purpose of the account is shown
everything there (`Shown`).  What keeps private rows of those tables from an external client
is then the handler alone.  A search asks in the spaces that the
request was shown when it was loaded.  A fetch drops what lies in a space known
to be private, and takes a space it was not shown for general.  No policy lets
`external_propose` insert anything, which `Writable` keeps.

### Documents

Handlers serve creations and saves, each in a transaction of its own, with the
waits that the unique index and the pointer's row impose.

| code | model |
|---|---|
| the routes up to the service call | `Receive` |
| `begin_idempotency`: query, then insert and flush | `Lookup`, `Insert` |
| validation, base and document: 422, 409, 404 | `Check` |
| add the revision, `memdot_set_current_document_revision` | `Write` |
| `complete_idempotency` and the answer | `Complete` |
| the end of `get_db_session` | `Commit`, `Undo` |

FastAPI (0.139 in `uv.lock`) closes dependencies with `yield` after the response
was sent, so `Commit` follows the answer, and a client can act on a revision
that is not there yet, or never will be (`answered`).

`deployment` says which sessions the handlers work with.  `"service"` is the code
with the locked library versions: row security hides what is asked outside a
scope, and `Session.execute(text(...))` does not flush (`autoflush=False`), so
the pointer function violates its foreign key, `tenant_scope` rolls back and
the route answers 404.  `"fixture"` is a connection of the repository's test
fixtures, which row security does not bind: queries outside a scope find their
rows, and the pointer function fails as before.  So nothing can be saved in
either, against TRD-DOC-002, and no test of the repository calls these routes against a
database.  `"repaired"` is not a deployment of this code: it is the same
handlers with the queries in the scope and the flush in its place
(`WriteRepaired`).  The protocol of keys, locks and commits is checked and
proved in all three; in the first two it is easy, and what is said of
the third is what the protocol would be good for once revisions can be
saved.  No finding rests on it.

`History` is the contract towards clients, an atomic object: one step saves a
revision on a saved one of its document, moves the pointer and settles the
answer of its key, or settles a refusal; a settled answer is replaced only where
it was a refusal.  The mapping reads the committed tables (`saved <- rev`,
`latest <- current`, `settled <- record`), so only `Commit` takes such a step,
and every lookup, wait, answer and rollback is a stutter.  History does
not ask for the base to be current: `save_revision` compares it without a lock
and the pointer function sets the pointer unconditionally, so in `"repaired"`
two saves on one base would both be accepted.

### Access

How a request gets its identity.  A handler is one transaction; `locks` are the
rows and unique keys it has written, which others wait for.  A refusal is an answer and
commits what was done before it (a token id, a consumed challenge); an exception rolls all of it back.

| code | model |
|---|---|
| `oidc_begin` | `oidc_begin` |
| `oidc_callback`: challenge and cookie, code exchange, token id, consumption, account, session | `LoadChallenge`, `exchange_code`, `RecordReplay`, `Consume`, `Provision`, `InsertAccount`, `CommitLogin` |
| `memdot_auth_load_session`, `is_session_active`, `recent_auth_satisfied` | `Active`, `LoadSession`, `load_session_context` |
| adult attestation, logout, rotation | `record_adult_attestation`, `logout`, `rotate_session` |
| `build_service_auth_headers` of the edge | `Sign` |
| `parse_service_auth`, `consume_service_auth_nonce`, `load_external_context` | the actions of those names, `resolve_external_grant`, `CommitExternal` |

Time counts half seconds, because Python truncates to seconds and PostgreSQL's
`now()` does not, and the difference decides whether a nonce is still
remembered.  Signatures and token validation are taken as correct.  Kept as they are in the
code: the idle limit is set with the session and refreshed by no request; a rotation renews
both limits but not the time of the login; an envelope that is late or
replayed is not an error by itself, the request falls back to its bearer token.

### Learning

| code | model |
|---|---|
| `memdot_domain`: `classify_event_eligibility`, `replay_evidence`, `would_create_cycle`, `schedule` | `Evidence` |
| `create_course`, `add_curriculum_node`, `create_assessment` | one step each, nothing can race them |
| `add_prerequisite_edge` | `ReadEdges`, `FlushEdge`, `CommitEdge` |
| `start_assessment_attempt`, `record_attempt_reveal` | `ReadStart` ..., `ReadReveal` ... |
| `submit_assessment_attempt`, `apply_review_rating` | `ReadSubmit`, `FlushSubmit`, `ReadCard`, `FlushCard`, `CommitSubmit` |
| `append_learner_event`, `rebuild_evidence_projections` | `append_learner_event`, `ReadLog`, `FlushEvidence`, `CommitEvidence` |

A handler reads, flushes when its `tenant_scope` ends (a key of an open transaction makes it
wait, a committed one fails it), and commits after the answer.  The rules of
`Evidence` are operators: evidence is a fold over the events in order of
occurrence, a cycle is reachability.  Stability, difficulty and due times of a
card are left out.  Two things the model makes visible: an attempt's events
carry no `concept_node_id` and `correct` is stripped from appended ones, so
replayed evidence never becomes `demonstrated` in a running system (a property
about that state would say nothing); and of two submissions of
different attempts that overlap, the second overwrites the first's card,
which is why `GradedOnce` bounds the card's counts from above only.

### Exchange: proposals, conversations, Notion, uploads

`Requests` holds what these handlers share: `Receive`, reading steps (`Goto`),
a last step that writes and commits (`End`), `Undo` at any point, and the
deployments of Documents, with `Seen` for what a query outside a scope finds.
`Deployments` gives the ones to consider for each part.  Only proposals call a
pointer function, so only they differ in `"repaired"`.
`Exchange` composes the four; they write different tables, so a behaviour uses one part.

| code | model |
|---|---|
| `create_memory_item`, `create_proposal`, `propose_memory` | `create_memory_item`, `create_proposal` |
| `resolve_proposal`, `memdot_set_current_memory_revision` | `ReadProposal`, `ReadCurrent`, `DecideOnly`, `DecideAndRewrite`, `set_current_memory_revision` |
| `create_conversation`, `append_turn`, `record_interaction` | `create_conversation`, `FindConversation`, `FindByClient`, `LookForTurn`, `AddTurn` |
| `delete_conversation`, the route for any entity's tombstone, `create_tombstone` | `Deletions`, `FindTombstone`, `create_tombstone` |
| the operator's backup and restore, `replay_tombstones_after_restore` | `Backup`, `Restore`, `replay_tombstones_after_restore` |
| `connect`, `list_pages`, `select_pages`, `sync_binding_snapshot`, `resolve_conflict` | the actions of those names; `Synced` is what a fetch does to a binding |
| `create_source`, `begin_upload`, the client's PUT | `create_source`, `SignUpload`, `begin_upload`, `Put`, `ExpireAddress` |
| `complete_upload`, `promote_from_quarantine`, `enqueue_job_with_outbox` | `VerifyUpload`, `Promote`, `LookForRevision`, `FlushCompletion`, `LookForJob`, `complete_upload` |

Kept as they are in the code.  A proposal of an external client has the target
type `memory` by default, so its approval creates no version, against
FSD-MEM-002; in the service no policy admits its insert, and no proposal can be
resolved at all, because it is looked up before the scope.  The index of a turn is `(last or -1) + 1`, so
the second turn has index 0 too, and with two turns the query for the last one raises
(`NextIndex`, `Numberable`): a third can only come in beside another.  In the
service `delete_conversation`, which looks the conversation up before the scope,
deletes nothing, and the route for tombstones, which looks nothing up, does.  The route
`restore-replay` lists the tombstones of the restored database itself, and so brings
back none; the operator's own list does, on a connection that row security does
not bind.  A resolved Notion conflict
makes no version, against FSD-NOT-006, and leaves the remembered hash, so the
next fetch of the new content conflicts again.  `decided` (pages whose conflict was
resolved) and the field `after` of a turn (what its conversation was when the turn was
added: live, deleted, or brought back by a restore) are histories and no columns.
`verify_upload_completion` reads the object's metadata and not its bytes, and
an intent's expiry is never looked at.  Abstracted: text, roles, completeness labels
and encryption of turns, the patch of a proposal, the pages' text.

## 3. Runs

| run | checks | shows |
|---|---|---|
| `outbox_dispatch` | `TypeOK`, `ExactlyOnce`, `NeverDiscarded`, `ImplementsDelivery`, `EventuallyPublished` | 3 events, 2 workers, batches of 2, undone anywhere: effects appear exactly once, and owned events get through although foreign rows are claimed again and again |
| `outbox_lease` | `LeaseRespected` | the same with committed claims and expiring leases: a worker whose lease was taken over cannot acknowledge |
| `ingestion_jobs` | `TypeOK`, `JobFollowsEvent`, `ActiveRunIsGood`, `PromotionAnnounced`, `WaitingHasReason`, `SuccessWithoutShadow`, `RecordsFinal` | one source, all requests, all contents, 2 workers, no system actor |
| `ingestion_live` | `JobsSettle` | two sources share the queue and a batch: where no deletion event is poison, every job leaves the queue, in the worst case as a dead letter |
| `ingestion_tombstone` | `NoPromotionAfterTombstone`, violated | the tombstone is not looked at again after the parse |
| `ingestion_retry` | `QueuedJobIsAttempted`, violated | the retry of a failed parse raises each time |
| `tenancy` | `TypeOK`, `Isolation`, `PrivateByPolicy`, `RevocationIsImmediate` | 2 connections, 2 accounts, 2 users and an external client, every handler shape, tables of both kinds |
| `documents` | `TypeOK`, `EffectOnce`, `PointersAnnounced`, `RequestsEnd`, `ImplementsHistory` | 2 handlers, 1 document, 1 key, 4 revisions, the three deployments |
| `access` | `TypeOK`, `LoginOnce`, `OneLivePerLogin`, `RecentAuthIsRecent`, `ReplayNeedsASkew` | logins that share a challenge, a token or a new subject; rotations, logouts and old sessions; two envelopes that come late and again, to calls that delete each other's expired nonces |
| `learning` | `TypeOK`, `GradedOnce`, `RevealedNeverCounts`, `EvidenceFollowsLog`, `AcyclicUnlessRaced` | two handlers on one course, two users, with reveals and submissions that overtake each other, and rebuilds that overlap while events are appended out of order |
| `exchange` | `TypeOK`, `ProposalAppliedOnce`, `CapturedOnce`, `DeletionHolds`, `SyncPauses`, `CompletedTogether`, `RevisionsImmutable` | two handlers in each of the four parts, in the service and on the fixtures' connections (proposals also repaired), repeated requests, a restore, an object that is put again |
| `exchange_restore` | `DeletedNeverReappears`, violated | in the service a conversation whose tombstone a restore took away gains a turn |

The violated runs are disagreements with a sentence of the repository's
documents, quoted under "findings".  `JobsSettle` is what does hold beside
`QueuedJobIsAttempted`, and `DeletionHolds` beside `DeletedNeverReappears`.

Four action properties say what no step may do to what is there already.  All of
the handlers write rows they read earlier, so each of them could be broken by a
request that is overtaken.  `RecordsFinal` (Ingestion): parse runs, pointers and
settled jobs.  `RevisionsImmutable` (Exchange): memory revisions, decisions,
snapshots, source revisions, completed uploads.  `LedgerOnlyGrows` (Learning): the log, prerequisites, reveals and
grades.  `SpentStaysSpent` (Access): revoked sessions, consumed challenges,
token ids, accounts, grants.  The first two are checked in the runs above; the other
two are proved (section 4) and no run repeats them.

Several passing properties make an exception, recorded by a history variable,
and each exception marks a flaw or a limit of the code:

* `JobsSettle` assumes that no deletion event is poison.  Without a system actor
  each of them is: it raises whenever it is claimed, has neither snapshot nor
  attempt to run out, is never dead-lettered (TRD-OPS-009 says it would be), and
  undoes the whole batch, so that ingestion jobs that share its batches stay queued.
  TLC finds this when the assumption is dropped.
* `PrivateByPolicy` excepts one way to a private row: a fetch by id from an open
  table.  The row is shown, the space that would tell it private is not, and
  the fetch takes it for general; TRD-DATA-005 allows no such way.
* `SuccessWithoutShadow` excepts sources with a shadow run: the next ordinary
  run reuses it (`orchestrator.py:248`) and reports a success that promoted
  nothing.
* `EffectOnce` excepts keys whose first request was refused.  A client that was
  told of a revision before its commit saves on it and gets 409; the
  key's record stays without an answer; two repetitions then both take it up,
  pass the base check together and save twice.  TLC finds this in 22 steps
  when the exception is dropped.
* `AcyclicUnlessRaced`: two confirmed edges, each checked while the
  other was not committed, close a cycle.
* `OneLivePerLogin` excepts logins of which two handlers loaded the same live
  session: two rotations leave two successors, and a rotation can outlive a logout.
* `ReplayNeedsASkew` allows a second use that ends a skew after the first
  began: an envelope stamped in the future is still in time when its nonce has
  expired, and any call deletes expired nonces (`consume_service_auth_nonce`)
  whosever they are.  With one envelope the stronger claim holds, that
  the second call *began* a skew after the first; with two it fails, because
  the other envelope's call deletes the nonce while the second call waits.
* `ProposalAppliedOnce` excepts proposals that two requests resolve at a time
  (`contested`) and items that two approvals rewrite at a time (`forked`): `resolve_proposal`
  locks nothing and compares no base.  It leaves open what an approved proposal
  makes that names no item: FSD-MEM-002 wants a version, the code makes none.
* `CapturedOnce` excepts clients whose first two interactions overlap: each makes
  a conversation, and every later one raises.
* `DeletionHolds` excepts a turn whose request had looked for the tombstone
  before it was there, and a replayed tombstone, which comes without its event.
  It speaks of the time the tombstone is there; what happens after a restore took it
  away is the run `exchange_restore`.
* `SyncPauses` excepts pages on which two requests write the binding at a time.  That
  a page has no other version holds until one of its conflicts was resolved (`decided`);
  what FSD-NOT-006 wants then, a new version, the code does not make.
* `RecordsFinal` lets a settled job become `cancelled`: `cancel_job` looks at no
  status, and the job it was told to cancel may have run since.
* `RevisionsImmutable` excepts the decision on a contested proposal.
* `CompletedTogether` excepts uploads that two requests complete at a time from
  the immutability of the object: the second may copy what was put since.

Visible in the models without a property of their own: no document and no memory
item can be created or rewritten today (section 2, Documents); the ingestion handler does not
look at the status of its job, so a cancelled job is run; a deletion
workflow takes one step per event and no code emits the second
(`core/jobs/processor.py:98`, `advance_deletion_workflow` has no caller), so it
ends in `revoking_grants`; handlers that query before their `tenant_scope`
(`core/documents/service.py:133` and others) find nothing in the service; the
second reveal of a kind fails on its event's key; a keyless second interaction
collides with the first one's generated key; the answer to a repeated
completion names a job that may not exist (`core/sources/service.py:186`).

**Bounds.**  Three events and two workers with batches of two are the smallest
instance in which a batch is full, a row is left for the rival, and the rival's
batch overlaps an expired one.  `NTokens` is large enough that a fresh token
exists whenever a claim does.  `MaxRuns` bounds how often a handler's effects
can be committed when the claim is committed on its own.  In Ingestion `Room`
keeps a request from using up the event numbers that running handlers need for
the events they emit; four events allow an upload, a retry or a reprocess and
their promotions, or a deletion.  A passing run may stop, since its events run
out, so deadlock is not checked there.

Tenancy has no counters; two connections let a request follow another
tenant's on the same one while a third is under way.  Documents needs two handlers for
each race and four revisions for the longest scenario above; ids are taken in order,
since they are all alike.

Access and Learning let a behaviour use one of several `Mixes` of operations
that share rows, each with its bound on requests.  Access: three callbacks on
two challenges, with and without a self-hosted operator; four
requests on the sessions of one login over two half seconds, past the idle limit and
the recent login; two calls of one envelope with any purposes and scopes, two over
five half seconds, so that a skew of one second passes, and three calls of two
envelopes.  Learning: four requests on the
edges of three nodes, four on two attempts of one item by two users, and two
rebuilds over two events; four suffice for a start, a reveal and two racing submissions.
Exchange: six requests for proposals (create, propose and resolve twice, with one to
spare), five for conversations (three turns, a deletion, a repetition), eight
for Notion (connect, list, select and a conflict that is resolved and met again),
seven for uploads (two uploads of one digest, one completed twice).  Backup and
restore happen while no request is open.  Handlers, ids, keys and contents are
symmetric; accounts, sessions and revisions are taken in order and are not.
Bounded requests end, so deadlock is not checked there either: a handler that waits for
another is released by `Undo` or by the other's end.

**Fairness.**  A deployed worker calls the dispatcher in a loop and a call that
does not raise returns to a caller that commits: weak fairness of `Claim`, of
the handlers and of `Commit`.  Crashes, rollbacks and lease expiry have none.
`TimedSpec` adds that the hour of a snapshot passes.  The liveness properties
state what else they need.  Transactions must stop failing for outside
reasons.  And fewer than `BatchSize` pending rows may belong to nobody: a
row no dispatcher owns (`active_parse_changed` and the document and memory
events) is never acknowledged and returns to the head of the queue with every expired
lease, so that a full batch of them can keep younger owned rows out for
ever.  `JobsSettle` also needs that no deletion event is poison, which the code as it is
deployed does not guarantee (see the exceptions above).

In Documents every step of a handler is strongly fair: threads go on, and
PostgreSQL serves those who wait for a row in order.  `Receive` and `Undo` are not.
Access, Learning and Exchange are checked for safety only.

## 4. Proofs

`OutboxProofs` proves for any number of events, workers, tokens and any batch
size: `TypeCorrect`, `ExactlyOnceHolds`, `NeverDiscardedHolds`,
`RowsExclusive`, `PublishedStays`, `LeasesRespected` and, for
`OneTransaction = TRUE`, `OutboxImplementsDelivery`.

`TypeOK` includes `ClaimsWhole`: a row has a token exactly when it has a lease,
and a worker with rows in hand has the token it claimed them under, through
expiry, takeover and late acknowledgements.

None of the invariants is inductive alone.  The induction is on
`IInv == TypeOK /\ TxOK /\ BatchOK /\ NeverDiscarded /\ ExactlyOnce`.
`TxOK` ties a transaction to the table: locks of two workers are disjoint, a
locked row is not published, what was acknowledged was locked and handled and
is owned.  `BatchOK` adds, for one transaction per batch, that every row a worker has
still to look at is locked by it and has not been handled, and that what was
handled is exactly what was acknowledged; it is what makes the handler's effects and the
publication commit together.  `LeaseOK`, on top of `IInv`, says that a worker that
holds a token of a live lease is the only one that does, from which an
acknowledgement under a superseded token is impossible.  The refinement maps
`state` to `row` and `delivered` to `runs`; `Commit` is the abstract publish
step and everything else but `Insert` a stutter.

The assumptions on constants are in the modules that declare them and only type
them: `OutboxAssumption` (numbers are numbers, `BatchSize` and `MaxRuns` are
positive) and its like elsewhere.  Beyond types they say that the values which
stand for "no key", "no token" or "the user" are none of the keys, tokens or
proposals, that session and account ids are not 0, and that Notion has finitely
many pages and at least one.

`IngestionProofs` proves for any sources, revisions, workers, numbers of events
and tokens and any batch size `TypeCorrect`, `JobsFollow`, `ActiveRunsGood`,
`PromotionsAnnounced`, `WaitsHaveAReason` and `SuccessesReal`.  The handlers
write when their batch commits, minutes after they read, so the invariant speaks
of what an open transaction is going to write.  `TxOK` has the rows in batches
disjoint and pending.  `OutcomeOK` says that an outcome which inserts a parse run
holds the lock on its source, has found no run of its revision, and is the only
one of its kind, so that the unique index on runs is never hit; `SourcesApart`
that no two workers hold that lock.  `PutOK` says where a pending status comes
from, `CurOK` that a run found reusable stays so.  `WaitingHasReason` needs the
most: a queued source has a dead-lettered job or an event that `WillSettle` it,
which is one that is open and that nobody has taken without writing a status, or
being about to.  `RecordsAreFinal` is an action property from the same invariant:
an outcome that inserts a run has found none, and what a batch settles was pending.

`RunsTheOutbox` proves that Ingestion is an outbox with one transaction per
batch: every step of it is a step of `OB!Spec` or leaves the outbox alone.  The
theorems of `OutboxProofs` are then used as they stand, through an INSTANCE:
`EffectsExactlyOnce`, `EventsNeverDiscarded` and `DeliveryKept`, that Ingestion
implements `Delivery`.

`DocumentsProofs` proves `TypeCorrect`, `EffectsOnce`, `AnswersTrue` and
`HistoryAnnounced`.  A handler that goes on under a key has either inserted the
key's record, and no other handler has one, or found a record of the same
request left by a refused one (`HoldsKey`); `KeysOK` says the same of what is
committed.  Ids are fresh (`IdsFresh`) and a saved revision's base was made
(`Progress`).  `DocumentsImplementHistory` is the refinement: a commit that
writes a revision is `Save`, one that leaves a key without an answer is `Refuse`, and
that the key it settles was free, or its own and refused, is `HoldsKey` again.

`ExchangeProofs` proves `ProposalsOnce`, `InteractionsOnce` and `DeletionsHold`,
and `ConnectorProofs`, which extends it, `SyncsPause`, `UploadsTogether`, the
types of all four parts, and `RevisionsStay` (`RevisionsImmutable`).  Each part has an invariant of its own; the four meet in
one induction, since a behaviour uses one part.  None of the handlers takes a
lock, so each invariant says what a request that has read still knows: exactly
what it read, unless the history variable records that a rival was there.  These
proofs show that the histories are complete: whatever goes wrong in these parts
goes wrong in one of the ways the exceptions name.  They also show that the index
of a turn stays below its bound, so no behaviour is cut off there.  `RevisionsStay` rests
on the same knowledge: who holds the source's row knows whether the digest has
a revision, and an uncontested resolver's proposal is still pending.

`AccessProofs` proves `TypeCorrect`, `LoginsOnce`, `OneLive`, `RecentAuthHolds`,
`ReplaysNeedASkew` and `SpentForGood` (`SpentStaysSpent`).  The invariant says for each phase of a handler what
still holds of what it read, because of the row it keeps locked (the token, the
challenge, the subject, the operator, the nonce) or because nobody changes it (a
session's row but for its revocation).  For envelopes `NoncesOK` is the heart: a
call that consumed an envelope is covered by the nonce's row until a skew after
it began, or that time is over.

`LearningProofs` proves `TypeCorrect`, `GradesOnce`, `RevealsHold`,
`CyclesNeedARace`, `EvidenceIsOfTheLog`, `LedgerGrows` and `ReplayCounts`.
`CyclesNeedARace` needs a fact about `would_create_cycle`, which searches only from the
source of the new edge: in an acyclic graph every cycle that the edge closes can
be reached from there (`SearchIsEnough`).  It takes no induction, since
reachability is defined by the sets that are closed under edges.

`ReplayCounts` does take one.  `replay_evidence` folds over a log of any length,
and the library's induction theorems have an operator as parameter, which the
provers cannot instantiate.  So the induction is done by hand: of the lengths at
which the claim fails there would be a least (`LeastNumber`, from `WFMin` on a
set of numbers), and the log without its latest event is shorter.  First it shows
that the fold is a function on the subsets of the log that obeys the
recursive equation, then that its value counts every eligible correct grade
and every ineligible event once, and is `demonstrated` on exactly one such
grade.  It assumes that events have distinct ids, which the log guarantees.
From it follow `TypeCorrect` and, with a second invariant `LogInv` on top of the
first, `EvidenceIsOfTheLog`.  `LogInv` says that the log is filled from the
front and never changed, so that what a rebuild has read is a prefix of
the log and stays one while others append, and that what is stored, or about to be, counts
exactly such a prefix.

Two attempts led to corrections.  The deletion of expired nonces and the
insertion of the new one are one step that waits for whoever has locked them, as
PostgreSQL runs the two statements; and `ReplayNeedsASkew` is counted from the
beginning of the first call, as said above.

`TenancyProofs` proves for any accounts, actors and pool `TypeCorrect`,
`ContextsDoNotLeak`, `TenantsIsolated`, `PrivateRowsHidden` and
`RevocationHolds`.  Isolation follows from two facts about contexts, that the one in force
is the requester's and that it was admitted for an actor of the right kind
(`KindFits`), and one about the pool, that a free connection has shown nothing
(`FreeIsEmpty`); that a request is at a step of its handler is `StepsFit`; the conjunction of these with the invariants is inductive.  `ShownIsOwn`
carries the argument: whatever passes a policy is the requester's own, in an open table
or not private for an external client, and neither late nor revoked.  For the
searches a private row of an open table is ruled out by its space, which lies in a
table that is not open.

Six properties are proved and in no run's list: the action properties
`PublishedIsFinal`, `LedgerOnlyGrows` and `SpentStaysSpent`, and the invariants
`OneTransactionPerRow`, `ContextIsRequesters` and `RecordedAnswerIsTrue`.

Only model-checked: `JobsSettle`, `EventuallyPublished` and `RequestsEnd`.  They
are liveness properties, and fairness and `ENABLED` are outside the prover.  Every invariant, action property and
refinement that a run checks and finds to hold is a theorem.

## 5. Plan

1. Outbox, Delivery and their proofs: done.
2. Ingestion and its proofs, that it implements `OB!Spec` among them: done.
3. Tenancy and its proofs: done.
4. Documents with the idempotency record, History, and their proofs: done.
5. Learning with Evidence and its proofs, the fold over the log included: done.
6. Access and its proofs: done.
7. Exchange with proposals, conversations, Notion and uploads, and its proofs: done.
8. Action properties of the four ledgers and the refinement of History, with their
   proofs: done.
9. Left: the web client's stores (read, change and save over two
   awaits), the packing of the context compiler as operators.

## 6. Not modelled

* Text extraction, embeddings, ranking and the HTTP adapters: library code or
  pure I/O.
* Retrieval, the context compiler and the reading tools of the MCP service: they read, and write
  a receipt nobody else touches.
* Export: one transaction of fresh rows that nothing takes further.
* Rate limits and the overload breaker: counters of one process.  The breaker's slot is
  taken before the context is loaded and not given back if that raises
  (`core/mcp/routes.py:76`).
* The canary of the workers, which tests the Hatchet engine and carries none of the
  product's jobs; the model router, a lookup before a stub.
* The web client, generated contracts, infrastructure and scripts.

`PROJECT.json` gives the reason for each component.
