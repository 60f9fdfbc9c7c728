------------------------------ MODULE Learning ------------------------------
(***************************************************************************)
(* The learning service of one course: prerequisites, assessment attempts  *)
(* with their reveals and grades, review cards, and evidence rebuilt from  *)
(* the log of learner events.                                              *)
(*                                                                         *)
(* A handler serves a request in one transaction (READ COMMITTED).  What   *)
(* it writes reaches the database when tenant_scope flushes (a row or a    *)
(* unique key of another open transaction makes it wait there, one that    *)
(* was committed makes it fail and undoes everything) and is committed     *)
(* after the answer was sent.                                              *)
(*                                                                         *)
(* Prerequisites, attempts and the log share no row, so a behaviour uses   *)
(* one of several mixes of operations and not all of them at once.         *)
(***************************************************************************)
EXTENDS Evidence, FiniteSets

CONSTANTS
    Users,
    Nodes,          \* curriculum nodes, the concepts of the evidence
    Items,          \* assessment items; each is made with its one revision
    LoggedTypes,    \* the event types that are appended
    ClientIds,      \* client_attempt_id
    Handlers,       \* threads that serve requests
    MaxAttempts,    \* bound: attempts
    MaxLogged,      \* bound: events appended in process
    Mixes           \* operations that are used together, and a bound on requests

ASSUME LearningAssumption ==
    /\ MaxAttempts \in Nat /\ MaxLogged \in Nat
    /\ \A m \in Mixes : m.requests \in Nat
    /\ "none" \notin ClientIds
    /\ LoggedTypes \subseteq EventType

VARIABLES
    course,         \* has the course been created
    nodes,          \* curriculum_node
    items,          \* assessment_item with its assessment_revision
    edges,          \* curriculum_edge
    attempt,        \* assessment_attempt
    event,          \* learner_event of the attempts
    logged,         \* learner_event appended with a concept
    card,           \* review_item of each user and item
    evidence,       \* learner_projection of each user and concept
    tx,             \* what each handler is at
    requests,       \* requests served so far
    mix,            \* the operations in use; fixed
    raced           \* an edge was committed after a check that did not see another

ledger == <<course, nodes, items, edges, attempt, event, logged, card, evidence>>
vars == <<ledger, tx, requests, mix, raced>>

Client == ClientIds \cup {"none"}
None == [made |-> FALSE]

AttemptId == 1 .. MaxAttempts
Attempt == [made : {TRUE}, user : Users, item : Items, client : Client,
            status : {"in_progress", "graded"}, hint : BOOLEAN, answer : BOOLEAN]
Edge == [from : Nodes, to : Nodes, confirmed : BOOLEAN]

\* The client_event_id of an attempt's event is made of its type and attempt,
\* and its concept_node_id is never set.  "shown" is no column: a reveal had
\* been committed when the request came in.
Event == [type : EventType, attempt : AttemptId, eligible : BOOLEAN,
          correct : BOOLEAN, shown : BOOLEAN]

LoggedId == 1 .. MaxLogged
Time == 1 .. 2
Logged == [made : {TRUE}, id : LoggedId, user : Users, concept : Nodes, type : EventType,
           eligible : BOOLEAN, correct : BOOLEAN, rating : {"again", "good"}, at : Time]

\* Requests, as the bodies of the routes have them.  A submission says
\* whether it selects the sealed option: grade_mcq compares the two.
EdgeRequest == [op : {"edge"}, from : Nodes, to : Nodes, confirmed : BOOLEAN]
StartRequest == [op : {"start"}, user : Users, item : Items, client : Client]
RevealRequest == [op : {"reveal"}, user : Users, attempt : AttemptId,
                  hint : BOOLEAN, answer : BOOLEAN]
SubmitRequest == [op : {"submit"}, user : Users, item : Items, client : ClientIds,
                  right : BOOLEAN]
RebuildRequest == [op : {"rebuild"}, user : Users]
Request == EdgeRequest \cup StartRequest \cup RevealRequest \cup SubmitRequest
           \cup RebuildRequest

\* A transaction: the request, the id it writes under, the rows and unique
\* keys it has written, and what it has read.
Phase == {"read", "flush", "card", "flush_card", "commit"}
Idle == [at |-> "idle", q |-> None, id |-> 0, locks |-> {}, seen |-> None, card |-> None,
         shown |-> FALSE]

TypeOK ==
    /\ course \in BOOLEAN
    /\ nodes \subseteq Nodes
    /\ items \subseteq Items
    /\ edges \subseteq Edge
    /\ attempt \in [AttemptId -> {None} \cup Attempt]
    /\ event \subseteq Event
    /\ logged \in [LoggedId -> {None} \cup Logged]
    /\ \A u \in Users, i \in Items : card[<<u, i>>] = None \/ card[<<u, i>>] \in Card
    /\ \A u \in Users, c \in Nodes :
          evidence[<<u, c>>] = None \/ evidence[<<u, c>>] \in ConceptEvidence
    /\ \A h \in Handlers :
          tx[h] = Idle \/ (tx[h].at \in Phase /\ tx[h].q \in Request)
    /\ requests \in 0 .. mix.requests
    /\ mix \in Mixes
    /\ raced \in BOOLEAN

Init ==
    /\ mix \in Mixes
    /\ course = FALSE
    /\ nodes = {} /\ items = {} /\ edges = {} /\ event = {}
    /\ attempt = [a \in AttemptId |-> None]
    /\ logged = [l \in LoggedId |-> None]
    /\ card = [k \in Users \X Items |-> None]
    /\ evidence = [k \in Users \X Nodes |-> None]
    /\ tx = [h \in Handlers |-> Idle]
    /\ requests = 0
    /\ raced = FALSE

-----------------------------------------------------------------------------
(* Rows nobody else can have seen: one step, since nothing depends on when *)
(* it is committed.                                                        *)

create_course ==
    /\ ~course
    /\ course' = TRUE
    /\ UNCHANGED <<nodes, items, edges, attempt, event, logged, card, evidence,
                   tx, requests, mix, raced>>

add_curriculum_node(n) ==
    /\ course /\ "node" \in mix.ops
    /\ nodes' = nodes \cup {n}
    /\ UNCHANGED <<course, items, edges, attempt, event, logged, card, evidence,
                   tx, requests, mix, raced>>

create_assessment(i) ==
    /\ course /\ "assessment" \in mix.ops
    /\ items' = items \cup {i}
    /\ UNCHANGED <<course, nodes, edges, attempt, event, logged, card, evidence,
                   tx, requests, mix, raced>>

-----------------------------------------------------------------------------
(* Transactions.                                                           *)

At(h, phase) == tx[h].at = phase
Others(h) == Handlers \ {h}
Free(h, keys) == \A g \in Others(h) : tx[g].locks \cap keys = {}
unchanged == UNCHANGED <<ledger, requests, mix, raced>>

\* The answer sends nothing to the database, or the session is rolled back.
End(h) == tx' = [tx EXCEPT ![h] = Idle] /\ unchanged
ToFlush(h, id, seen) ==
    tx' = [tx EXCEPT ![h].at = "flush", ![h].id = id, ![h].seen = seen] /\ unchanged

\* tenant_scope flushes: IntegrityError if a key is taken, and a route that
\* answers 404 or an error to any exception.
Flush(h, keys, taken, next) ==
    /\ Free(h, keys)
    /\ IF taken THEN End(h)
       ELSE tx' = [tx EXCEPT ![h].at = next, ![h].locks = @ \cup keys] /\ unchanged

Unmade(f, h, i) ==
    /\ f[i] = None
    /\ \A g \in Others(h) : tx[g].q # None /\ tx[g].q.op = tx[h].q.op => tx[g].id # i
FirstFree(f, h) == {i \in DOMAIN f : Unmade(f, h, i) /\ \A j \in 1 .. i - 1 : ~Unmade(f, h, j)}

\* A route has a session's context and the account's rate limit (Access
\* models both); its body has been validated.
Receive(h, q) ==
    /\ tx[h] = Idle
    /\ q.op \in mix.ops
    /\ requests < mix.requests
    /\ requests' = requests + 1
    /\ tx' = [tx EXCEPT ![h].at = "read", ![h].q = q,
                        ![h].shown = /\ q.op = "submit"
                                     /\ \E a \in AttemptId :
                                           /\ attempt[a] # None
                                           /\ attempt[a].client = q.client
                                           /\ attempt[a].user = q.user
                                           /\ attempt[a].hint \/ attempt[a].answer]
    /\ UNCHANGED <<ledger, mix, raced>>

ReceiveEdge(h) ==
    course /\ \E q \in EdgeRequest : q.from \in nodes /\ q.to \in nodes /\ Receive(h, q)
ReceiveStart(h) == \E q \in StartRequest : Receive(h, q)
ReceiveReveal(h) == \E q \in RevealRequest : attempt[q.attempt] # None /\ Receive(h, q)
ReceiveSubmit(h) == \E q \in SubmitRequest : Receive(h, q)
ReceiveRebuild(h) == course /\ \E q \in RebuildRequest : Receive(h, q)

-----------------------------------------------------------------------------
(* add_prerequisite_edge.                                                  *)

Confirmed(E) == {<<e.from, e.to>> : e \in {x \in E : x.confirmed}}

ReadEdges(h) ==
    LET q == tx[h].q IN
    /\ At(h, "read") /\ q.op = "edge"
    /\ IF q.confirmed /\ would_create_cycle(Confirmed(edges), q.from, q.to)
       THEN End(h)      \* 409
       ELSE ToFlush(h, 0, edges)

\* The index on the pair, and the constraint that an edge is no loop.
FlushEdge(h) ==
    LET q == tx[h].q IN
    /\ At(h, "flush") /\ q.op = "edge"
    /\ Flush(h, {<<"edge", q.from, q.to>>},
             q.from = q.to \/ \E e \in edges : e.from = q.from /\ e.to = q.to, "commit")

CommitEdge(h) ==
    LET q == tx[h].q IN
    /\ At(h, "commit") /\ q.op = "edge"
    /\ edges' = edges \cup {[from |-> q.from, to |-> q.to, confirmed |-> q.confirmed]}
    /\ raced' = (raced \/ (q.confirmed /\ Confirmed(tx[h].seen) # Confirmed(edges)))
    /\ tx' = [tx EXCEPT ![h] = Idle]
    /\ UNCHANGED <<course, nodes, items, attempt, event, logged, card, evidence, requests, mix>>

-----------------------------------------------------------------------------
(* start_assessment_attempt.                                               *)

WithClient(c) == {a \in AttemptId : c # "none" /\ attempt[a] # None /\ attempt[a].client = c}

\* An attempt of this client id is answered again, or refused when it is for
\* another user or item; the item has to be there.
ReadStart(h) ==
    LET q == tx[h].q IN
    /\ At(h, "read") /\ q.op = "start"
    /\ \/ (q.item \notin items \/ WithClient(q.client) # {}) /\ End(h)
       \/ /\ q.item \in items /\ WithClient(q.client) = {}
          /\ \E a \in FirstFree(attempt, h) : ToFlush(h, a, None)

FlushStart(h) ==
    LET q == tx[h].q IN
    /\ At(h, "flush") /\ q.op = "start"
    /\ Flush(h, {<<"client", c>> : c \in {q.client} \ {"none"}},
             WithClient(q.client) # {}, "commit")

EventOf(type, a) ==
    [type |-> type, attempt |-> a, eligible |-> FALSE, correct |-> FALSE, shown |-> FALSE]

CommitStart(h) ==
    LET q == tx[h].q IN
    /\ At(h, "commit") /\ q.op = "start"
    /\ attempt' = [attempt EXCEPT ![tx[h].id] =
                      [made |-> TRUE, user |-> q.user, item |-> q.item, client |-> q.client,
                       status |-> "in_progress", hint |-> FALSE, answer |-> FALSE]]
    /\ event' = event \cup {EventOf("attempt_started", tx[h].id)}
    /\ tx' = [tx EXCEPT ![h] = Idle]
    /\ UNCHANGED <<course, nodes, items, edges, logged, card, evidence, requests, mix, raced>>

-----------------------------------------------------------------------------
(* record_attempt_reveal.                                                  *)

\* Mutant: the event is named for the body's field.
RevealedField(q) == IF q.answer THEN "answer" ELSE "hint"

Revealed(q) == IF q.answer THEN "answer_revealed" ELSE "hint_revealed"
Recorded(type, a) == \E e \in event : e.type = type /\ e.attempt = a

ReadReveal(h) ==
    LET q == tx[h].q
        row == attempt[q.attempt]
    IN /\ At(h, "read") /\ q.op = "reveal"
       /\ IF row.user = q.user /\ row.status = "in_progress" /\ (q.hint \/ q.answer)
          THEN ToFlush(h, q.attempt, None) ELSE End(h)

\* The second event of one kind has the client_event_id of the first.
FlushReveal(h) ==
    LET q == tx[h].q IN
    /\ At(h, "flush") /\ q.op = "reveal"
    /\ Flush(h, {<<"attempt", q.attempt>>, <<"event", Revealed(q), q.attempt>>},
             Recorded(Revealed(q), q.attempt), "commit")

CommitReveal(h) ==
    LET q == tx[h].q IN
    /\ At(h, "commit") /\ q.op = "reveal"
    /\ attempt' = [attempt EXCEPT ![q.attempt].hint = @ \/ q.hint,
                                  ![q.attempt].answer = @ \/ q.answer]
    /\ event' = event \cup {EventOf(Revealed(q), q.attempt)}
    /\ tx' = [tx EXCEPT ![h] = Idle]
    /\ UNCHANGED <<course, nodes, items, edges, logged, card, evidence, requests, mix, raced>>

-----------------------------------------------------------------------------
(* submit_assessment_attempt, and apply_review_rating that it calls.       *)

\* The attempt in progress, for the same item; one that is graded is
\* answered again, and everything else refused.
ReadSubmit(h) ==
    LET q == tx[h].q
        mine == {a \in WithClient(q.client) : attempt[a].user = q.user}
        open == {a \in mine : /\ attempt[a].status = "in_progress"
                              /\ attempt[a].item = q.item}
    IN /\ At(h, "read") /\ q.op = "submit"
       /\ IF open = {} THEN End(h)
          ELSE \E a \in open : ToFlush(h, a, attempt[a])

Eligible(h) ==
    classify_event_eligibility("grade_recorded", tx[h].seen.answer, tx[h].seen.hint, TRUE)

\* Mutant: the grade's event has a client_event_id of its own each time.
FlushSubmitFreshKey(h) ==
    LET a == tx[h].id IN
    /\ At(h, "flush") /\ tx[h].q.op = "submit"
    /\ Flush(h, {<<"attempt", a>>}, FALSE, IF Eligible(h) THEN "card" ELSE "commit")

\* The row is updated whatever its status has become; a second grade fails
\* on its event's key.
FlushSubmit(h) ==
    LET a == tx[h].id IN
    /\ At(h, "flush") /\ tx[h].q.op = "submit"
    /\ Flush(h, {<<"attempt", a>>, <<"event", "grade_recorded", a>>},
             Recorded("grade_recorded", a), IF Eligible(h) THEN "card" ELSE "commit")

ReadCard(h) ==
    LET q == tx[h].q IN
    /\ At(h, "card")
    /\ tx' = [tx EXCEPT ![h].at = "flush_card", ![h].card = card[<<q.user, q.item>>]]
    /\ unchanged

\* A card that was absent is inserted and fails if another is there by now,
\* with the grade; one that was there is overwritten.
FlushCard(h) ==
    LET q == tx[h].q IN
    /\ At(h, "flush_card")
    /\ Flush(h, {<<"card", q.user, q.item>>},
             tx[h].card = None /\ card[<<q.user, q.item>>] # None, "commit")

CommitSubmit(h) ==
    LET q == tx[h].q
        before == IF tx[h].card = None THEN initial_card ELSE tx[h].card
    IN /\ At(h, "commit") /\ q.op = "submit"
       /\ attempt' = [attempt EXCEPT ![tx[h].id].status = "graded"]
       /\ event' = event \cup {[type |-> "grade_recorded", attempt |-> tx[h].id,
                                eligible |-> Eligible(h), correct |-> q.right,
                                shown |-> tx[h].shown]}
       /\ card' = IF Eligible(h)
                  THEN [card EXCEPT ![<<q.user, q.item>>] =
                           schedule(before, map_outcome_to_rating(q.right, FALSE, FALSE))]
                  ELSE card
       /\ tx' = [tx EXCEPT ![h] = Idle]
       /\ UNCHANGED <<course, nodes, items, edges, logged, evidence, requests, mix, raced>>

-----------------------------------------------------------------------------
(* append_learner_event and rebuild_evidence_projections.                  *)

\* correct, grade and eligibility are taken out of the caller's payload.
Payload(claimed) == FALSE

\* POST /events answers 410; append_learner_event is left to callers in the
\* process.  A client id that is known changes nothing, whether the query or
\* the index finds it out, so one step does for the whole transaction.
append_learner_event(u, c, type, hinted, claimed, rating, at) ==
    \E l \in LoggedId :
        /\ "append" \in mix.ops
        /\ c \in nodes
        /\ logged[l] = None /\ \A k \in 1 .. l - 1 : logged[k] # None
        /\ logged' = [logged EXCEPT ![l] =
              [made |-> TRUE, id |-> l, user |-> u, concept |-> c, type |-> type,
               correct |-> Payload(claimed), rating |-> rating, at |-> at,
               eligible |-> classify_event_eligibility(type, FALSE, hinted, TRUE)]]
        /\ UNCHANGED <<course, nodes, items, edges, attempt, event, card, evidence,
                       tx, requests, mix, raced>>

LogEvent ==
    \E u \in Users, c \in Nodes, type \in LoggedTypes, at \in Time, hinted \in BOOLEAN :
        \/ append_learner_event(u, c, type, hinted, FALSE, "again", at)
        \/ type = "grade_recorded" /\ append_learner_event(u, c, type, hinted, TRUE, "again", at)
        \/ type = "review_rated" /\ append_learner_event(u, c, type, hinted, FALSE, "good", at)

\* The events of attempts have no concept, so what is replayed is what was
\* appended.
ReadLog(h) ==
    LET u == tx[h].q.user
        mine == {logged[l] : l \in {x \in LoggedId : logged[x] # None /\ logged[x].user = u}}
        new == [c \in {e.concept : e \in mine} |-> replay_evidence(mine, c)]
    IN /\ At(h, "read") /\ tx[h].q.op = "rebuild"
       /\ IF mine = {} THEN End(h)
          ELSE ToFlush(h, 0, [new |-> new,
                              absent |-> {c \in DOMAIN new : evidence[<<u, c>>] = None}])

FlushEvidence(h) ==
    LET u == tx[h].q.user IN
    /\ At(h, "flush") /\ tx[h].q.op = "rebuild"
    /\ Flush(h, {<<"evidence", u, c>> : c \in DOMAIN tx[h].seen.new},
             \E c \in tx[h].seen.absent : evidence[<<u, c>>] # None, "commit")

CommitEvidence(h) ==
    LET q == tx[h].q
        new == tx[h].seen.new
    IN /\ At(h, "commit") /\ q.op = "rebuild"
       /\ evidence' = [k \in Users \X Nodes |->
                          IF k[1] = q.user /\ k[2] \in DOMAIN new THEN new[k[2]] ELSE evidence[k]]
       /\ tx' = [tx EXCEPT ![h] = Idle]
       /\ UNCHANGED <<course, nodes, items, edges, attempt, event, logged, card, requests, mix,
                      raced>>

-----------------------------------------------------------------------------
\* The exception, the lost connection or the end of the process: nothing of
\* the transaction remains, although it may have been answered.
Undo(h) == tx[h] # Idle /\ End(h)

Step(h) ==
    \/ ReadEdges(h) \/ FlushEdge(h) \/ CommitEdge(h)
    \/ ReadStart(h) \/ FlushStart(h) \/ CommitStart(h)
    \/ ReadReveal(h) \/ FlushReveal(h) \/ CommitReveal(h)
    \/ ReadSubmit(h) \/ FlushSubmit(h) \/ ReadCard(h) \/ FlushCard(h) \/ CommitSubmit(h)
    \/ ReadLog(h) \/ FlushEvidence(h) \/ CommitEvidence(h)

Next ==
    \/ create_course
    \/ \E n \in Nodes : add_curriculum_node(n)
    \/ \E i \in Items : create_assessment(i)
    \/ LogEvent
    \/ \E h \in Handlers :
          \/ ReceiveEdge(h) \/ ReceiveStart(h) \/ ReceiveReveal(h)
          \/ ReceiveSubmit(h) \/ ReceiveRebuild(h)
          \/ Step(h)
          \/ Undo(h)

Spec == Init /\ [][Next]_vars

-----------------------------------------------------------------------------
(* Properties.                                                             *)

GradesOf(a) == {e \in event : e.type = "grade_recorded" /\ e.attempt = a}
EligibleGrades(u, i) ==
    {e \in event : /\ e.type = "grade_recorded" /\ e.eligible
                   /\ attempt[e.attempt].user = u /\ attempt[e.attempt].item = i}

\* An attempt is graded at most once and exactly when its status says so,
\* although two submissions may both find it in progress; and the review card
\* moves with the grade or not at all.
GradedOnce ==
    /\ \A a \in AttemptId : attempt[a] # None =>
          Cardinality(GradesOf(a)) = IF attempt[a].status = "graded" THEN 1 ELSE 0
    /\ \A u \in Users, i \in Items :
          LET grades == EligibleGrades(u, i) IN
          /\ card[<<u, i>>] = None <=> grades = {}
          /\ card[<<u, i>>] # None =>
                /\ card[<<u, i>>].lapses <= Cardinality({e \in grades : ~e.correct})
                /\ card[<<u, i>>].reps <= Cardinality({e \in grades : e.correct})

\* Demonstrated evidence requires no revealed answer and no substantive hint
\* (TRD-LRN-006): a grade that came in after a reveal was committed does not
\* count, whatever the submission claims and whoever overtakes it.
RevealedNeverCounts ==
    \A e \in event : e.type = "grade_recorded" /\ e.shown => ~e.eligible

\* What the evidence of a concept has to say of the events S of a log: how
\* many count and how many do not, whether the last of them to have occurred
\* that says anything of recall was a lapse, and whether any was an attempt.
Ignored(S) == {e \in S : ~e.eligible}
Counted(S) == {e \in S : e.eligible /\ e.type = "grade_recorded" /\ e.correct}
Recalls(S) == {e \in S : e.eligible /\ e.type \in {"grade_recorded", "review_rated"}}
Lapse(e) == IF e.type = "review_rated" THEN e.rating = "again" ELSE ~e.correct
Passive(S) == \A e \in S : e.eligible /\ e.type \notin {"attempt_started", "grade_recorded"}

Tells(v, S) ==
    /\ v.ineligible_hits = Cardinality(Ignored(S))
    /\ v.eligible_grades = Cardinality(Counted(S))
    /\ v.recall = "lapsed" <=>
          \E e \in Recalls(S) : Lapse(e) /\ \A f \in Recalls(S) : Occurred(f, e)
    /\ v.state = "unassessed" <=> Passive(S)

LogUpTo(n, u, c) ==
    {logged[l] : l \in {x \in 1 .. n : /\ logged[x] # None /\ logged[x].user = u
                                       /\ logged[x].concept = c}}

\* "Replay events deterministically under duplicates and reordering"
\* (evidence_twin.py): whatever is appended while rebuilds are running, in
\* whichever order it occurred and whichever rebuild commits last, the stored
\* evidence of a concept is that of the log as it stood at one moment.
EvidenceFollowsLog ==
    \A u \in Users, c \in Nodes : evidence[<<u, c>>] # None =>
        \E n \in LoggedId : /\ logged[n] # None /\ LogUpTo(n, u, c) # {}
                            /\ Tells(evidence[<<u, c>>], LogUpTo(n, u, c))

\* Confirmed prerequisites stay acyclic (FSD-SPC-008) as long as no two of
\* them are checked at the same time: a cycle takes a race.
AcyclicUnlessRaced == Cyclic(Confirmed(edges)) => raced

\* What a step may do to an attempt.
Advances(old, new) ==
    /\ new.user = old.user /\ new.item = old.item /\ new.client = old.client
    /\ old.status = "graded" => new.status = "graded"
    /\ old.hint => new.hint
    /\ old.answer => new.answer

Grows ==
    /\ edges \subseteq edges' /\ event \subseteq event'
    /\ \A l \in LoggedId : logged[l] # None => logged'[l] = logged[l]
    /\ \A a \in AttemptId : attempt[a] # None => Advances(attempt[a], attempt'[a])

\* "Events are append-only" (ADR 0012), and an attempt only advances: a grade
\* that was read before a reveal and committed after it does not cover the
\* reveal up, nor is a graded attempt ever open again.
LedgerOnlyGrows == [][Grows]_vars
=============================================================================
