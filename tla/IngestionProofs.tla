-------------------------- MODULE IngestionProofs ---------------------------
(***************************************************************************)
(* Ingestion, proved for any number of sources, revisions, events and      *)
(* workers, any batch size and whatever the uploaded bytes are.            *)
(***************************************************************************)
EXTENDS Ingestion, FiniteSetTheorems, TLAPS

-----------------------------------------------------------------------------
(* The rows in open transactions.                                          *)

\* They are pending and locked by one worker, and what a worker has handled
\* it has acknowledged.
TxOK ==
    /\ \A v, w \in Workers : v # w => locked[v] \cap locked[w] = {}
    /\ \A w \in Workers :
          /\ \A e \in locked[w] : row[e] = "pending"
          /\ acked[w] \subseteq locked[w]
          /\ ran[w] = acked[w]
          /\ todo[w] \subseteq locked[w] \ acked[w]

EventsOK ==
    \A e \in Event :
        /\ row[e] = "absent" <=> ev[e] = NoPayload
        /\ IsIngest(e) => ev[e].rev \in revs
        /\ row[e] = "absent" => job[e] = "none" /\ attempt[e] = "none"

-----------------------------------------------------------------------------
(* What a worker's transaction will write.                                 *)

\* The outcomes that insert a parse run.
Parsed == {"promoted", "shadowed", "partial", "failed"}

\* An outcome belongs to an acknowledged event, and one that inserts a run
\* has locked the source and found no run.
OutcomeOK(w, e) ==
    /\ out[w][e] # "none" <=> e \in acked[w]
    /\ out[w][e] \notin {"none", "advanced"} => IsIngest(e)
    /\ out[w][e] = "advanced" => ~IsIngest(e)
    /\ out[w][e] = "promoted" => content[ev[e].rev] = "good"
    /\ out[w][e] \in Parsed =>
          /\ run[ev[e].rev] = "none"
          /\ SourceLocked(w, SourceOf[ev[e].rev])
          /\ \A f \in Event : out[w][f] \in Parsed /\ ev[f].rev = ev[e].rev => f = e

SourcesApart ==
    \A v, w \in Workers, s \in Sources : v # w => ~(SourceLocked(v, s) /\ SourceLocked(w, s))

\* The revision has a run that can be reused, for the transaction of w.
Reusable(w, r) ==
    \/ run[r] \in {"succeeded", "shadow"}
    \/ \E e \in Event : out[w][e] \in {"promoted", "shadowed"} /\ ev[e].rev = r

CurOK(w) ==
    cur[w] # Waiting =>
        /\ cur[w].e \in todo[w] /\ IsIngest(cur[w].e)
        /\ cur[w].run \in {"succeeded", "shadow"} => Reusable(w, ev[cur[w].e].rev)

PutOK(w, s) ==
    /\ put[w][s] \in {"untouched", "unchanged", "succeeded", "running", "partial", "failed"}
    /\ put[w][s] = "running" =>
          \E e \in Event : out[w][e] = "shadowed" /\ SourceOf[ev[e].rev] = s
    /\ put[w][s] = "succeeded" =>
          \E r \in Revisions : SourceOf[r] = s /\ Reusable(w, r)

WorkersOK ==
    /\ \A w \in Workers : CurOK(w)
    /\ \A w \in Workers, e \in Event : OutcomeOK(w, e)
    /\ \A w \in Workers, s \in Sources : PutOK(w, s)
    /\ SourcesApart

-----------------------------------------------------------------------------
(* Requests, runs and the status of a source.                              *)

\* Only requests make a source queued, so one that is queued now was queued
\* when the request in progress read it.
ReqOK ==
    req # NoRequest =>
        /\ req.op # "tombstone"
        /\ req.op \in {"retry", "reprocess"} => req.rev \in revs
        /\ req.job # NoEvent => /\ req.op = "cancel"
                                /\ req.job \in Ingests(SourceOf[req.rev])
        /\ status[SourceOf[req.rev]] = "queued" => req.seen = "queued"

RunsOK ==
    /\ IsFiniteSet(active)
    /\ ActiveRunIsGood
    /\ PromotionAnnounced

\* The event will give the source another status: whoever has it has written
\* one, or will write one, or has dead-lettered its job.
WillSettle(s, e) ==
    /\ e \in Open(s)
    /\ \A w \in Workers : e \in locked[w] /\ put[w][s] \notin SourceStatus =>
          /\ e \in acked[w] => out[w][e] = "dead_letter"
          /\ cur[w] # Waiting /\ cur[w].e = e => cur[w].seen = "queued"

Abandoned(s) == \E e \in Ingests(s) : job[e] = "dead_letter"
Parsable(s, kinds) == \E r \in Revisions : SourceOf[r] = s /\ run[r] \in kinds

StatusOK ==
    \A s \in Sources :
        /\ status[s] = "succeeded" => Parsable(s, {"succeeded", "shadow"})
        /\ status[s] = "running" => Parsable(s, {"shadow"})
        /\ status[s] = "queued" => Abandoned(s) \/ \E e \in Event : WillSettle(s, e)

IInv ==
    /\ TypeOK
    /\ TxOK
    /\ EventsOK
    /\ JobFollowsEvent
    /\ WorkersOK
    /\ ReqOK
    /\ RunsOK
    /\ StatusOK

-----------------------------------------------------------------------------
(* Facts about the data.                                                   *)

LEMMA EventFacts == NoEvent \notin Event /\ IsFiniteSet(Event)
<1>1. NoEvent \notin Event
  BY IngestionAssumption DEF Event, NoEvent
<1>2. IsFiniteSet(1 .. NEvents)
  BY IngestionAssumption, FS_Interval
<1> QED
  BY <1>1, <1>2 DEF Event

LEMMA IngestPayload ==
    ASSUME TypeOK, NEW e \in Event, IsIngest(e)
    PROVE  /\ ev[e].rev \in Revisions /\ ev[e].shadow \in BOOLEAN
           /\ SourceOf[ev[e].rev] \in Sources
           /\ ev[e] # NoPayload /\ ev[e] # Foreign
<1>1. NoPayload.type # "ingest" /\ Foreign.type # "ingest"
  BY DEF NoPayload, Foreign
<1>2. \A s : DeletionEvent(s).type # "ingest"
  BY DEF DeletionEvent
<1>3. \E r \in Revisions, b \in BOOLEAN : ev[e] = IngestEvent(r, b)
  <2>1. ev[e] \in {NoPayload, Foreign} \cup {IngestEvent(r, b) : r \in Revisions, b \in BOOLEAN}
                  \cup {DeletionEvent(s) : s \in Sources}
    BY DEF TypeOK
  <2>2. ev[e].type = "ingest"
    BY DEF IsIngest
  <2> QED
    BY <1>1, <1>2, <2>1, <2>2
<1>4. ev[e].rev \in Revisions /\ ev[e].shadow \in BOOLEAN
  BY <1>3 DEF IngestEvent
<1> QED
  BY <1>1, <1>4, IngestionAssumption DEF IsIngest

LEMMA PayloadsDiffer ==
    \A r, b, s : /\ IngestEvent(r, b) # NoPayload /\ IngestEvent(r, b) # Foreign
                 /\ IngestEvent(r, b).type = "ingest" /\ IngestEvent(r, b).rev = r
                 /\ DeletionEvent(s) # NoPayload /\ DeletionEvent(s) # Foreign
                 /\ DeletionEvent(s).type # "ingest"
                 /\ Foreign # NoPayload /\ Foreign.type # "ingest"
<1>1. \A r, b : IngestEvent(r, b).type = "ingest" /\ IngestEvent(r, b).rev = r
  BY DEF IngestEvent
<1>2. \A s : DeletionEvent(s).type = "deletion"
  BY DEF DeletionEvent
<1>3. NoPayload.type = "none" /\ Foreign.type = "active_parse_changed"
  BY DEF NoPayload, Foreign
<1> QED
  BY <1>1, <1>2, <1>3

-----------------------------------------------------------------------------
(* What each part of the invariant is about.                               *)

LEMMA TypeFrame ==
    ASSUME TypeOK, OB!TypeOK',
           UNCHANGED <<ev, job, attempt, expired, intent, revs, content, status, run, active,
                       workflow, req>>,
           cur' \in [Workers -> {Waiting} \cup [e : Event, seen : SourceStatus, run : RunStatus]],
           out' \in [Workers -> [Event -> Outcome \cup {"none"}]],
           put' \in [Workers -> [Sources -> SourceStatus \cup {"untouched", "unchanged"}]]
    PROVE  TypeOK'
  BY DEF TypeOK, Event

LEMMA TxFrame == ASSUME TxOK, UNCHANGED <<row, locked, acked, ran, todo>> PROVE TxOK'
  BY DEF TxOK

LEMMA EventsFrame ==
    ASSUME EventsOK, JobFollowsEvent, UNCHANGED <<row, ev, revs, job, attempt>>
    PROVE  EventsOK' /\ JobFollowsEvent'
  BY DEF EventsOK, JobFollowsEvent, IsIngest

LEMMA WorkersFrame ==
    ASSUME WorkersOK, UNCHANGED <<cur, out, put, acked, todo, ev, run, content>>
    PROVE  WorkersOK'
<1>1. \A w \in Workers : CurOK(w)'
  BY DEF WorkersOK, CurOK, IsIngest, Reusable
<1>2. \A w \in Workers, e \in Event : OutcomeOK(w, e)'
  BY DEF WorkersOK, OutcomeOK, IsIngest, SourceLocked
<1>3. \A w \in Workers, s \in Sources : PutOK(w, s)'
  BY DEF WorkersOK, PutOK, Reusable
<1>4. SourcesApart'
  BY DEF WorkersOK, SourcesApart, SourceLocked
<1> QED
  BY <1>1, <1>2, <1>3, <1>4 DEF WorkersOK, Event

LEMMA ReqFrame == ASSUME ReqOK, UNCHANGED <<req, revs, ev, status>> PROVE ReqOK'
  BY DEF ReqOK, Ingests, IsIngest

LEMMA RunsFrame ==
    ASSUME RunsOK, UNCHANGED <<active, run, content, revs, ev>> PROVE RunsOK'
  BY DEF RunsOK, ActiveRunIsGood, PromotionAnnounced

LEMMA StatusFrame ==
    ASSUME StatusOK, UNCHANGED <<status, run, ev, row, job, locked, acked, out, put, cur>>
    PROVE  StatusOK'
<1>1. \A s, e : WillSettle(s, e)' = WillSettle(s, e)
  BY DEF WillSettle, Open, Ingests, IsIngest
<1>2. \A s : Abandoned(s)' = Abandoned(s)
  BY DEF Abandoned, Ingests, IsIngest
<1>3. \A s, k : Parsable(s, k)' = Parsable(s, k)
  BY DEF Parsable
<1> QED
  BY <1>1, <1>2, <1>3 DEF StatusOK

-----------------------------------------------------------------------------
(* Steps that write nothing of the ledger.                                 *)

LEMMA StutterStep == ASSUME IInv, UNCHANGED vars PROVE IInv'
<1>1. /\ UNCHANGED <<row, owned, token, lease, myToken, todo, locked, acked, ran, runs>>
      /\ UNCHANGED <<ev, job, attempt, expired, intent, revs, content, status, run, active,
                     workflow, req, cur, out, put>>
  BY DEF vars, outboxVars, ledgerVars, handlerVars
<1>2. TypeOK'
  <2>1. OB!TypeOK'
    BY <1>1 DEF IInv, TypeOK, OB!TypeOK, OB!ClaimsWhole, OB!NoToken
  <2> QED
    BY <1>1, <2>1 DEF IInv, TypeOK
<1> QED
  BY <1>1, <1>2, TxFrame, EventsFrame, WorkersFrame, ReqFrame, RunsFrame, StatusFrame
     DEF IInv

LEMMA RequestStep ==
    ASSUME IInv, NEW op \in Requests, NEW r \in Revisions, NEW shadow \in BOOLEAN,
           Request(op, r, shadow)
    PROVE  IInv'
<1>1. /\ UNCHANGED <<row, owned, token, lease, myToken, todo, locked, acked, ran, runs>>
      /\ UNCHANGED <<ev, job, attempt, expired, intent, revs, content, status, run, active,
                     workflow, cur, out, put>>
  BY DEF Request, outboxVars, ledgerVars, handlerVars
<1>2. PICK s \in Sources : s = SourceOf[r]
  BY IngestionAssumption
<1>3. PICK j : j = IF op = "cancel" THEN CancelTarget(s) ELSE NoEvent
  OBVIOUS
<1>4. /\ j \in Event \cup {NoEvent}
      /\ j # NoEvent => op = "cancel" /\ j \in Ingests(s)
  BY <1>3 DEF CancelTarget, Ingests
<1>5. PICK seen \in SourceStatus : seen = status[s]
  BY DEF IInv, TypeOK
<1>6. req' = [op |-> op, rev |-> r, shadow |-> shadow, seen |-> seen, job |-> j]
  BY <1>2, <1>3, <1>5 DEF Request
<1>7. req' \in [op : Requests, rev : Revisions, shadow : BOOLEAN, seen : SourceStatus,
                job : Event \cup {NoEvent}]
  BY <1>4, <1>6
<1>8. TypeOK'
  <2>1. OB!TypeOK'
    BY <1>1 DEF IInv, TypeOK, OB!TypeOK, OB!ClaimsWhole, OB!NoToken
  <2> QED
    BY <1>1, <1>7, <2>1 DEF IInv, TypeOK, Event
<1>9. ReqOK'
  <2>1. req'.op = op /\ req'.rev = r /\ req'.job = j /\ req'.seen = seen
    BY <1>6
  <2>2. op # "tombstone" /\ (op \in {"retry", "reprocess"} => r \in revs)
    BY DEF Request, Permitted
  <2> QED
    BY <1>1, <1>2, <1>4, <1>5, <2>1, <2>2 DEF ReqOK, Ingests, IsIngest, Event
<1> QED
  BY <1>1, <1>8, <1>9, TxFrame, EventsFrame, WorkersFrame, RunsFrame, StatusFrame DEF IInv

LEMMA ClockSteps ==
    ASSUME IInv, NEW e \in Event, ExpireSnapshot(e) \/ ExpireLease(e)
    PROVE  IInv'
<1>1. /\ UNCHANGED <<row, owned, token, myToken, todo, locked, acked, ran, runs>>
      /\ UNCHANGED <<ev, job, attempt, intent, revs, content, status, run, active,
                     workflow, req, cur, out, put>>
  BY DEF ExpireSnapshot, ExpireLease, OB!Expire, OB!txVars, outboxVars, ledgerVars,
         handlerVars
<1>2. /\ lease' \in [Event -> {"none", "live", "expired"}]
      /\ \A f \in Event : lease'[f] = "none" <=> lease[f] = "none"
  <2>1. lease \in [Event -> {"none", "live", "expired"}]
    BY DEF IInv, TypeOK, OB!TypeOK, OB!Event, Event
  <2>2. lease' = lease \/ (lease[e] = "live" /\ lease' = [lease EXCEPT ![e] = "expired"])
    BY DEF ExpireSnapshot, ExpireLease, OB!Expire, outboxVars
  <2> QED
    BY <2>1, <2>2
<1>3. expired' \subseteq Event
  BY DEF IInv, TypeOK, ExpireSnapshot, ExpireLease, ledgerVars
<1>4. OB!TypeOK'
  BY <1>1, <1>2 DEF IInv, TypeOK, OB!TypeOK, OB!ClaimsWhole, OB!NoToken, OB!Event, Event
<1>5. TypeOK'
  BY <1>1, <1>3, <1>4 DEF IInv, TypeOK, Event
<1> QED
  BY <1>1, <1>5, TxFrame, EventsFrame, WorkersFrame, ReqFrame, RunsFrame, StatusFrame
     DEF IInv

-----------------------------------------------------------------------------
(* Steps of the outbox.                                                    *)

LEMMA OutboxInsert ==
    ASSUME OB!TypeOK, TxOK, NEW e \in Event, OB!Insert(e, TRUE)
    PROVE  /\ OB!TypeOK' /\ TxOK'
           /\ row[e] = "absent" /\ row' = [row EXCEPT ![e] = "pending"]
           /\ UNCHANGED <<todo, locked, acked, ran>>
           /\ \A w \in Workers : e \notin locked[w]
<1> USE DEF OB!TypeOK, OB!ClaimsWhole, OB!NoToken, OB!Event, Event
<1>1. /\ row[e] = "absent" /\ row' = [row EXCEPT ![e] = "pending"]
      /\ owned' = owned \cup {e}
      /\ UNCHANGED <<token, lease, runs, myToken, todo, locked, acked, ran>>
  BY DEF OB!Insert, OB!txVars
<1>2. OB!TypeOK'
  BY <1>1
<1>3. TxOK' /\ \A w \in Workers : e \notin locked[w]
  BY <1>1 DEF TxOK
<1> QED
  BY <1>1, <1>2, <1>3

LEMMA OutboxClaim ==
    ASSUME OB!TypeOK, TxOK, NEW w \in Workers, OB!Claim(w)
    PROVE  /\ OB!TypeOK' /\ TxOK'
           /\ todo[w] = {} /\ acked[w] = {}
           /\ \A v \in Workers : v # w => todo'[v] = todo[v] /\ locked'[v] = locked[v]
           /\ UNCHANGED <<row, acked, ran>>
<1> USE DEF OB!TypeOK, OB!ClaimsWhole, OB!NoToken, OB!Event, Event
<1>1. PICK C, t : C = OB!Candidates(w) /\ t = CHOOSE u \in OB!FreshTokens : TRUE
  OBVIOUS
<1>2. C \subseteq Event /\ \A e \in C : /\ row[e] = "pending"
                                       /\ \A v \in Workers : v # w => e \notin locked[v]
  BY <1>1 DEF OB!Candidates, OB!Claimable, OB!LockedByOther
<1>3. t \in OB!Token /\ t # 0
  BY <1>1 DEF OB!Claim, OB!FreshTokens
<1>4. /\ todo[w] = {} /\ locked[w] = {}
      /\ myToken' = [myToken EXCEPT ![w] = t]
      /\ todo' = [todo EXCEPT ![w] = C]
      /\ locked' = [locked EXCEPT ![w] = C]
      /\ UNCHANGED <<row, owned, token, lease, runs, acked, ran>>
  BY <1>1 DEF OB!Claim, OB!Idle, OB!dbVars
<1>5. acked[w] = {}
  BY <1>4 DEF TxOK
<1>6. OB!TypeOK'
  BY <1>2, <1>3, <1>4
<1>7. TxOK'
  BY <1>2, <1>4, <1>5 DEF TxOK
<1> QED
  BY <1>4, <1>5, <1>6, <1>7

LEMMA OutboxSkip ==
    ASSUME OB!TypeOK, TxOK, NEW w \in Workers, NEW e \in Event, OB!Skip(w, e)
    PROVE  /\ OB!TypeOK' /\ TxOK'
           /\ \A v \in Workers : v # w => todo'[v] = todo[v]
           /\ UNCHANGED <<row, locked, acked, ran>>
<1> USE DEF OB!TypeOK, OB!ClaimsWhole, OB!NoToken, OB!Event, Event
<1>1. /\ todo' = [todo EXCEPT ![w] = @ \ {e}]
      /\ UNCHANGED <<row, owned, token, lease, runs, myToken, locked, acked, ran>>
  BY DEF OB!Skip, OB!dbVars
<1> QED
  BY <1>1 DEF TxOK

\* A batch is one transaction, so an acknowledgement never fails.
LEMMA OutboxHandle ==
    ASSUME OB!TypeOK, TxOK, NEW w \in Workers, NEW e \in Event, OB!Handle(w, e)
    PROVE  /\ OB!TypeOK' /\ TxOK'
           /\ e \in todo[w] /\ e \in locked[w] /\ e \notin acked[w]
           /\ todo' = [todo EXCEPT ![w] = @ \ {e}]
           /\ acked' = [acked EXCEPT ![w] = @ \cup {e}]
           /\ locked' = locked /\ row' = row
<1> USE DEF OB!TypeOK, OB!ClaimsWhole, OB!NoToken, OB!Event, Event
<1>1. e \in todo[w] /\ e \in locked[w] /\ e \notin acked[w]
  BY DEF OB!Handle, TxOK
<1>2. OB!AckMatches(w, e)
  BY <1>1 DEF OB!AckMatches
<1>3. /\ todo' = [todo EXCEPT ![w] = @ \ {e}]
      /\ ran' = [ran EXCEPT ![w] = @ \cup {e}]
      /\ acked' = [acked EXCEPT ![w] = @ \cup {e}]
      /\ locked' = [locked EXCEPT ![w] = @ \cup {e}]
      /\ UNCHANGED <<row, owned, token, lease, runs, myToken>>
  BY <1>2 DEF OB!Handle, OB!dbVars
<1>4. locked' = locked
  <2>1. locked[w] \cup {e} = locked[w]
    BY <1>1
  <2>2. PICK L \in SUBSET Event : L = locked[w]
    OBVIOUS
  <2>3. locked' = [locked EXCEPT ![w] = L]
    BY <1>3, <2>1, <2>2
  <2>4. locked \in [Workers -> SUBSET Event]
    OBVIOUS
  <2> HIDE DEF OB!TypeOK, OB!ClaimsWhole
  <2> QED
    BY <2>2, <2>3, <2>4
<1>5. OB!TypeOK'
  <2>1. todo'[w] \subseteq todo[w] /\ \A v \in Workers : v # w => todo'[v] = todo[v]
    BY <1>3
  <2>2. OB!ClaimsWhole'
    BY <1>3, <1>4, <2>1
  <2> HIDE DEF OB!ClaimsWhole
  <2> QED
    BY <1>3, <2>2
<1>6. TxOK'
  <2>1. \A v \in Workers : acked'[v] = IF v = w THEN acked[w] \cup {e} ELSE acked[v]
    BY <1>3
  <2>2. \A v \in Workers : todo'[v] = IF v = w THEN todo[w] \ {e} ELSE todo[v]
    BY <1>3
  <2>3. \A v \in Workers : ran'[v] = IF v = w THEN ran[w] \cup {e} ELSE ran[v]
    BY <1>3
  <2>4. row' = row
    BY <1>3
  <2> HIDE DEF OB!TypeOK, OB!ClaimsWhole, OB!Event, Event
  <2>5. ASSUME NEW v \in Workers
        PROVE  /\ \A f \in locked'[v] : row'[f] = "pending"
               /\ acked'[v] \subseteq locked'[v]
               /\ ran'[v] = acked'[v]
               /\ todo'[v] \subseteq locked'[v] \ acked'[v]
    <3>1. /\ \A f \in locked[v] : row[f] = "pending"
          /\ acked[v] \subseteq locked[v] /\ ran[v] = acked[v]
          /\ todo[v] \subseteq locked[v] \ acked[v]
      BY DEF TxOK
    <3>2. CASE v = w
      BY <1>1, <1>4, <2>1, <2>2, <2>3, <2>4, <3>1, <3>2
    <3>3. CASE v # w
      BY <1>4, <2>1, <2>2, <2>3, <2>4, <3>1, <3>3
    <3> QED
      BY <3>2, <3>3
  <2>6. \A u, v \in Workers : u # v => locked'[u] \cap locked'[v] = {}
    BY <1>4 DEF TxOK
  <2> QED
    BY <2>5, <2>6 DEF TxOK
<1> QED
  BY <1>1, <1>3, <1>4, <1>5, <1>6

LEMMA OutboxRollback ==
    ASSUME OB!TypeOK, TxOK, NEW w \in Workers, OB!Rollback(w)
    PROVE  /\ OB!TypeOK' /\ TxOK'
           /\ locked'[w] = {} /\ acked'[w] = {} /\ todo'[w] = {}
           /\ \A v \in Workers : v # w => /\ locked'[v] = locked[v] /\ acked'[v] = acked[v]
                                          /\ todo'[v] = todo[v]
           /\ row' = row
<1> USE DEF OB!TypeOK, OB!ClaimsWhole, OB!NoToken, OB!Event, Event
<1>1. /\ todo' = [todo EXCEPT ![w] = {}]
      /\ locked' = [locked EXCEPT ![w] = {}]
      /\ acked' = [acked EXCEPT ![w] = {}]
      /\ ran' = [ran EXCEPT ![w] = {}]
      /\ myToken' = [myToken EXCEPT ![w] = 0]
      /\ UNCHANGED <<row, owned, token, lease, runs>>
  BY DEF OB!Rollback, OB!dbVars, OB!NoToken
<1>2. 0 \in OB!Token
  BY IngestionAssumption DEF OB!Token
<1>3. OB!TypeOK'
  BY <1>1, <1>2
<1>4. TxOK'
  BY <1>1 DEF TxOK
<1> QED
  BY <1>1, <1>3, <1>4

\* The acknowledged events of the transaction are published and the new ones
\* appear.
LEMMA OutboxCommit ==
    ASSUME OB!TypeOK, TxOK, NEW w \in Workers, NEW new \in SUBSET Event,
           OB!Commit(w, new, {})
    PROVE  /\ OB!TypeOK' /\ TxOK'
           /\ \A e \in new : row[e] = "absent"
           /\ \A e \in Event : row'[e] = IF e \in acked[w] THEN "published"
                                         ELSE IF e \in new THEN "pending" ELSE row[e]
           /\ locked'[w] = {} /\ acked'[w] = {} /\ todo[w] = {} /\ todo' = todo
           /\ \A v \in Workers : v # w => locked'[v] = locked[v] /\ acked'[v] = acked[v]
<1> USE DEF OB!TypeOK, OB!ClaimsWhole, OB!NoToken, OB!Event, Event
<1>1. /\ \A e \in new : row[e] = "absent"
      /\ row' = [e \in Event |-> IF e \in acked[w] THEN "published"
                                 ELSE IF e \in new THEN "pending" ELSE row[e]]
      /\ owned' = owned
      /\ locked' = [locked EXCEPT ![w] = {}]
      /\ acked' = [acked EXCEPT ![w] = {}]
      /\ ran' = [ran EXCEPT ![w] = {}]
      /\ todo[w] = {} /\ todo' = todo
  BY DEF OB!Commit
<1>2. 0 \in OB!Token
  BY IngestionAssumption DEF OB!Token
<1>3. token' \in [Event -> OB!Token] /\ myToken' \in [Workers -> OB!Token]
  BY <1>2 DEF OB!Commit, OB!NoToken
<1>4. lease' \in [Event -> {"none", "live", "expired"}] /\ runs' \in [Event -> Nat]
  BY DEF OB!Commit, OB!LeaseAfter, OB!Claimed
<1>5. row' \in [Event -> {"absent", "pending", "published"}]
  BY <1>1
<1>6. OB!TypeOK'
  <2>1. ASSUME NEW e \in Event PROVE token'[e] = 0 <=> lease'[e] = "none"
    <3>1. /\ token'[e] = IF e \in acked[w] THEN 0
                         ELSE IF e \in OB!Claimed(w) THEN myToken[w] ELSE token[e]
          /\ lease'[e] = IF e \in acked[w] THEN "none"
                         ELSE IF e \in OB!Claimed(w) THEN "live" ELSE lease[e]
      BY DEF OB!Commit, OB!LeaseAfter
    <3>2. e \in OB!Claimed(w) => myToken[w] # 0
      BY DEF OB!Claimed
    <3> QED
      BY <3>1, <3>2
  <2>2. myToken' = [myToken EXCEPT ![w] = 0]
    BY <1>1 DEF OB!Commit
  <2> QED
    BY <1>1, <1>3, <1>4, <1>5, <2>1, <2>2
<1>7. TxOK'
  BY <1>1 DEF TxOK
<1> QED
  BY <1>1, <1>6, <1>7

-----------------------------------------------------------------------------
(* The dispatcher claims, passes over and gives up.                        *)

LEMMA ClaimStep ==
    ASSUME IInv, NEW w \in Workers, Claim(w)
    PROVE  IInv'
<1>1. UNCHANGED <<ev, job, attempt, expired, intent, revs, content, status, run, active,
                  workflow, req, cur, out, put>>
  BY DEF Claim, ledgerVars, handlerVars
<1>2. /\ OB!TypeOK' /\ TxOK'
      /\ todo[w] = {} /\ acked[w] = {}
      /\ \A v \in Workers : v # w => todo'[v] = todo[v] /\ locked'[v] = locked[v]
      /\ UNCHANGED <<row, acked, ran>>
  BY OutboxClaim DEF Claim, IInv, TypeOK
<1>3. TypeOK'
  BY <1>1, <1>2 DEF IInv, TypeOK, Event
<1>4. cur[w] = Waiting
  BY <1>2 DEF IInv, WorkersOK, CurOK
<1>5. WorkersOK'
  <2>1. \A v \in Workers : CurOK(v)'
    BY <1>1, <1>2, <1>4 DEF IInv, WorkersOK, CurOK, IsIngest, Reusable
  <2>2. \A v \in Workers, e \in Event : OutcomeOK(v, e)'
    BY <1>1, <1>2 DEF IInv, WorkersOK, OutcomeOK, IsIngest, SourceLocked
  <2>3. \A v \in Workers, s \in Sources : PutOK(v, s)'
    BY <1>1 DEF IInv, WorkersOK, PutOK, Reusable
  <2>4. SourcesApart'
    BY <1>1 DEF IInv, WorkersOK, SourcesApart, SourceLocked
  <2> QED
    BY <2>1, <2>2, <2>3, <2>4 DEF WorkersOK, Event
<1>6. StatusOK'
  <2>1. ASSUME NEW s, NEW e, WillSettle(s, e) PROVE WillSettle(s, e)'
    <3>1. e \in Open(s)'
      BY <1>1, <1>2, <2>1 DEF WillSettle, Open, Ingests, IsIngest
    <3>2. ASSUME NEW v \in Workers, e \in locked'[v], put'[v][s] \notin SourceStatus
          PROVE  /\ e \in acked'[v] => out'[v][e] = "dead_letter"
                 /\ cur'[v] # Waiting /\ cur'[v].e = e => cur'[v].seen = "queued"
      <4>1. CASE v = w
        BY <1>1, <1>2, <1>4, <4>1
      <4>2. CASE v # w
        BY <1>1, <1>2, <2>1, <3>2, <4>2 DEF WillSettle
      <4> QED
        BY <4>1, <4>2
    <3> QED
      BY <3>1, <3>2 DEF WillSettle, Waiting, SourceStatus
  <2>2. \A s : Abandoned(s)' = Abandoned(s)
    BY <1>1 DEF Abandoned, Ingests, IsIngest
  <2>3. \A s, k : Parsable(s, k)' = Parsable(s, k)
    BY <1>1 DEF Parsable
  <2> QED
    BY <1>1, <2>1, <2>2, <2>3 DEF IInv, StatusOK, Event
<1> QED
  BY <1>1, <1>2, <1>3, <1>5, <1>6, EventsFrame, ReqFrame, RunsFrame DEF IInv

LEMMA SkipStep ==
    ASSUME IInv, NEW w \in Workers, NEW e \in Event, Skip(w, e)
    PROVE  IInv'
<1>1. /\ cur[w] = Waiting
      /\ UNCHANGED <<ev, job, attempt, expired, intent, revs, content, status, run, active,
                     workflow, req, cur, out, put>>
  BY DEF Skip, ledgerVars, handlerVars
<1>2. /\ OB!TypeOK' /\ TxOK'
      /\ \A v \in Workers : v # w => todo'[v] = todo[v]
      /\ UNCHANGED <<row, locked, acked, ran>>
  BY OutboxSkip DEF Skip, IInv, TypeOK
<1>3. TypeOK'
  BY <1>1, <1>2 DEF IInv, TypeOK, Event
<1>4. WorkersOK'
  <2>1. \A v \in Workers : CurOK(v)'
    BY <1>1, <1>2 DEF IInv, WorkersOK, CurOK, IsIngest, Reusable
  <2>2. \A v \in Workers, f \in Event : OutcomeOK(v, f)'
    BY <1>1, <1>2 DEF IInv, WorkersOK, OutcomeOK, IsIngest, SourceLocked
  <2>3. \A v \in Workers, s \in Sources : PutOK(v, s)'
    BY <1>1 DEF IInv, WorkersOK, PutOK, Reusable
  <2>4. SourcesApart'
    BY <1>1 DEF IInv, WorkersOK, SourcesApart, SourceLocked
  <2> QED
    BY <2>1, <2>2, <2>3, <2>4 DEF WorkersOK, Event
<1> QED
  BY <1>1, <1>2, <1>3, <1>4, EventsFrame, ReqFrame, RunsFrame, StatusFrame DEF IInv

\* A worker's rows are as if it had done nothing.
Forgotten(w) ==
    /\ cur'[w] = Waiting
    /\ \A e \in Event : out'[w][e] = "none"
    /\ \A s \in Sources : put'[w][s] = "untouched"
    /\ \A v \in Workers : v # w => cur'[v] = cur[v] /\ out'[v] = out[v] /\ put'[v] = put[v]

LEMMA Forgets ==
    ASSUME TypeOK, NEW w \in Workers, Forget(w)
    PROVE  /\ Forgotten(w)
           /\ cur' \in [Workers -> {Waiting} \cup [e : Event, seen : SourceStatus, run : RunStatus]]
           /\ out' \in [Workers -> [Event -> Outcome \cup {"none"}]]
           /\ put' \in [Workers -> [Sources -> SourceStatus \cup {"untouched", "unchanged"}]]
  BY DEF TypeOK, Forget, Forgotten

LEMMA UndoStep ==
    ASSUME IInv, NEW w \in Workers, Undo(w)
    PROVE  IInv'
<1>1. UNCHANGED <<ev, job, attempt, expired, intent, revs, content, status, run, active,
                  workflow, req>>
  BY DEF Undo, ledgerVars
<1>2. /\ OB!TypeOK' /\ TxOK'
      /\ locked'[w] = {} /\ acked'[w] = {} /\ todo'[w] = {}
      /\ \A v \in Workers : v # w => /\ locked'[v] = locked[v] /\ acked'[v] = acked[v]
                                     /\ todo'[v] = todo[v]
      /\ row' = row
  BY OutboxRollback DEF Undo, IInv, TypeOK
<1>3. /\ Forgotten(w)
      /\ cur' \in [Workers -> {Waiting} \cup [e : Event, seen : SourceStatus, run : RunStatus]]
      /\ out' \in [Workers -> [Event -> Outcome \cup {"none"}]]
      /\ put' \in [Workers -> [Sources -> SourceStatus \cup {"untouched", "unchanged"}]]
  BY Forgets DEF Undo, IInv
<1>4. TypeOK'
  BY <1>1, <1>2, <1>3 DEF IInv, TypeOK, Event
<1>5. WorkersOK'
  <2>1. ASSUME NEW v \in Workers PROVE CurOK(v)'
    <3>1. CASE v = w
      BY <1>3, <3>1 DEF CurOK, Forgotten, Waiting
    <3>2. CASE v # w
      <4>1. cur'[v] = cur[v] /\ out'[v] = out[v] /\ todo'[v] = todo[v]
        BY <1>2, <1>3, <3>2 DEF Forgotten
      <4>2. CurOK(v)
        BY DEF IInv, WorkersOK
      <4> QED
        BY <1>1, <4>1, <4>2 DEF CurOK, IsIngest, Reusable, Waiting, Event, NoEvent
    <3> QED
      BY <3>1, <3>2
  <2>2. ASSUME NEW v \in Workers, NEW e \in Event PROVE OutcomeOK(v, e)'
    <3>1. CASE v = w
      BY <1>2, <1>3, <3>1 DEF OutcomeOK, Forgotten, Parsed
    <3>2. CASE v # w
      BY <1>1, <1>2, <1>3, <3>2
         DEF IInv, WorkersOK, OutcomeOK, IsIngest, SourceLocked, Forgotten
    <3> QED
      BY <3>1, <3>2
  <2>3. ASSUME NEW v \in Workers, NEW s \in Sources PROVE PutOK(v, s)'
    <3>1. CASE v = w
      BY <1>3, <3>1 DEF PutOK, Forgotten
    <3>2. CASE v # w
      BY <1>1, <1>3, <3>2 DEF IInv, WorkersOK, PutOK, Reusable, Forgotten
    <3> QED
      BY <3>1, <3>2
  <2>4. SourcesApart'
    BY <1>3 DEF IInv, WorkersOK, SourcesApart, SourceLocked, Forgotten
  <2> QED
    BY <2>1, <2>2, <2>3, <2>4 DEF WorkersOK, Event
<1>6. StatusOK'
  <2>1. ASSUME NEW s, NEW e, WillSettle(s, e) PROVE WillSettle(s, e)'
    <3>1. e \in Open(s)'
      BY <1>1, <1>2, <2>1 DEF WillSettle, Open, Ingests, IsIngest
    <3>2. ASSUME NEW v \in Workers, e \in locked'[v], put'[v][s] \notin SourceStatus
          PROVE  /\ e \in acked'[v] => out'[v][e] = "dead_letter"
                 /\ cur'[v] # Waiting /\ cur'[v].e = e => cur'[v].seen = "queued"
      BY <1>2, <1>3, <2>1, <3>2 DEF WillSettle, Forgotten
    <3> QED
      BY <3>1, <3>2 DEF WillSettle, Waiting, SourceStatus
  <2>2. \A s : Abandoned(s)' = Abandoned(s)
    BY <1>1 DEF Abandoned, Ingests, IsIngest
  <2>3. \A s, k : Parsable(s, k)' = Parsable(s, k)
    BY <1>1 DEF Parsable
  <2> QED
    BY <1>1, <2>1, <2>2, <2>3 DEF IInv, StatusOK, Event
<1> QED
  BY <1>1, <1>2, <1>4, <1>5, <1>6, EventsFrame, ReqFrame, RunsFrame DEF IInv


-----------------------------------------------------------------------------
(* Handlers.                                                               *)

\* An outcome recorded by w for e changes no other.
Records(w, e, o) ==
    /\ out[w][e] = "none" /\ out'[w][e] = o
    /\ \A f \in Event : f # e => out'[w][f] = out[w][f]
    /\ \A v \in Workers : v # w => out'[v] = out[v]

LEMMA OutcomeRecorded ==
    ASSUME IInv, NEW w \in Workers, NEW e \in Event, NEW o \in Outcome, OB!Handle(w, e),
           out' = [out EXCEPT ![w][e] = o]
    PROVE  /\ Records(w, e, o)
           /\ out' \in [Workers -> [Event -> Outcome \cup {"none"}]]
<1>1. e \notin acked[w]
  BY OutboxHandle DEF IInv, TypeOK
<1>2. out[w][e] = "none"
  BY <1>1 DEF IInv, WorkersOK, OutcomeOK
<1>3. out \in [Workers -> [Event -> Outcome \cup {"none"}]]
  BY DEF IInv, TypeOK
<1> QED
  BY <1>2, <1>3 DEF Records

\* The outcomes that leave the source alone.
LEMMA SettleStep ==
    ASSUME IInv, NEW w \in Workers, NEW e \in Event, NEW o \in {"dead_letter", "advanced"},
           (o = "dead_letter") = IsIngest(e),
           cur[w] = Waiting, OB!Handle(w, e), out' = [out EXCEPT ![w][e] = o],
           UNCHANGED <<ledgerVars, req, cur, put>>
    PROVE  IInv'
<1>1. UNCHANGED <<ev, job, attempt, expired, intent, revs, content, status, run, active,
                  workflow, req, cur, put>>
  BY DEF ledgerVars
<1>2. /\ OB!TypeOK' /\ TxOK'
      /\ e \in todo[w] /\ e \in locked[w] /\ e \notin acked[w]
      /\ todo' = [todo EXCEPT ![w] = @ \ {e}]
      /\ acked' = [acked EXCEPT ![w] = @ \cup {e}]
      /\ locked' = locked /\ row' = row
  BY OutboxHandle DEF IInv, TypeOK
<1>3. /\ Records(w, e, o)
      /\ out' \in [Workers -> [Event -> Outcome \cup {"none"}]]
  <2>1. o \in Outcome
    BY DEF Outcome
  <2> QED
    BY <2>1, OutcomeRecorded
<1>4. TypeOK'
  BY <1>1, <1>2, <1>3 DEF IInv, TypeOK, Event
<1>5. /\ acked'[w] = acked[w] \cup {e}
      /\ \A v \in Workers : v # w => acked'[v] = acked[v] /\ todo'[v] = todo[v]
  BY <1>2 DEF IInv, TypeOK, OB!TypeOK
<1>6. \A v \in Workers : \A r : Reusable(v, r) => Reusable(v, r)'
  BY <1>1, <1>3 DEF Reusable, Records
<1>7. WorkersOK'
  <2>1. ASSUME NEW v \in Workers PROVE CurOK(v)'
    <3>1. CASE v = w
      BY <1>1, <3>1 DEF CurOK, Waiting
    <3>2. CASE v # w
      <4>1. CurOK(v)
        BY DEF IInv, WorkersOK
      <4> QED
        BY <1>1, <1>5, <1>6, <3>2, <4>1 DEF CurOK, IsIngest, Waiting, NoEvent
    <3> QED
      BY <3>1, <3>2
  <2>2. ASSUME NEW v \in Workers, NEW f \in Event PROVE OutcomeOK(v, f)'
    <3>1. OutcomeOK(v, f)
      BY DEF IInv, WorkersOK
    <3>2. CASE v # w
      BY <1>1, <1>3, <1>5, <3>1, <3>2 DEF OutcomeOK, IsIngest, SourceLocked, Records
    <3>3. CASE v = w /\ f = e
      <4>1. out'[v][f] = o
        BY <1>3, <3>3 DEF Records
      <4> QED
        BY <1>1, <1>5, <3>3, <4>1 DEF OutcomeOK, IsIngest, Parsed
    <3>4. CASE v = w /\ f # e
      <4>1. out'[v][f] = out[v][f]
        BY <1>3, <3>4 DEF Records
      <4>2. \A g \in Event : out'[v][g] \in Parsed => out'[v][g] = out[v][g]
        BY <1>3, <3>4 DEF Records, Parsed
      <4> QED
        BY <1>1, <1>5, <3>1, <3>4, <4>1, <4>2 DEF OutcomeOK, IsIngest, SourceLocked
    <3> QED
      BY <3>2, <3>3, <3>4
  <2>3. ASSUME NEW v \in Workers, NEW s \in Sources PROVE PutOK(v, s)'
    <3>1. PutOK(v, s)
      BY DEF IInv, WorkersOK
    <3>2. \A f \in Event : out[v][f] = "shadowed" => out'[v][f] = "shadowed"
      BY <1>3 DEF Records
    <3> QED
      BY <1>1, <1>6, <3>1, <3>2 DEF PutOK
  <2>4. SourcesApart'
    BY <1>1 DEF IInv, WorkersOK, SourcesApart, SourceLocked
  <2> QED
    BY <2>1, <2>2, <2>3, <2>4 DEF WorkersOK, Event
<1>8. StatusOK'
  <2>1. ASSUME NEW s, NEW f, WillSettle(s, f) PROVE WillSettle(s, f)'
    <3>1. f \in Open(s)'
      BY <1>1, <1>2, <2>1 DEF WillSettle, Open, Ingests, IsIngest
    <3>2. ASSUME NEW v \in Workers, f \in locked'[v], put'[v][s] \notin SourceStatus
          PROVE  /\ f \in acked'[v] => out'[v][f] = "dead_letter"
                 /\ cur'[v] # Waiting /\ cur'[v].e = f => cur'[v].seen = "queued"
      <4>1. /\ f \in acked[v] => out[v][f] = "dead_letter"
            /\ cur[v] # Waiting /\ cur[v].e = f => cur[v].seen = "queued"
        BY <1>1, <1>2, <2>1, <3>2 DEF WillSettle
      <4>2. f \in Event /\ IsIngest(f)
        BY <2>1 DEF WillSettle, Open, Ingests
      <4>3. CASE v = w /\ f = e
        BY <1>1, <1>3, <4>1, <4>2, <4>3 DEF Records
      <4>4. CASE v # w \/ f # e
        BY <1>1, <1>3, <1>5, <4>1, <4>2, <4>4 DEF Records
      <4> QED
        BY <4>3, <4>4
    <3> QED
      BY <3>1, <3>2 DEF WillSettle, Waiting, SourceStatus
  <2>2. \A s : Abandoned(s)' = Abandoned(s)
    BY <1>1 DEF Abandoned, Ingests, IsIngest
  <2>3. \A s, k : Parsable(s, k)' = Parsable(s, k)
    BY <1>1 DEF Parsable
  <2> QED
    BY <1>1, <2>1, <2>2, <2>3 DEF IInv, StatusOK, Event
<1> QED
  BY <1>1, <1>2, <1>4, <1>7, <1>8, EventsFrame, ReqFrame, RunsFrame DEF IInv

LEMMA DeadLetterStep ==
    ASSUME IInv, NEW w \in Workers, NEW e \in Event, DeadLetter(w, e)
    PROVE  IInv'
  BY SettleStep, Zenon DEF DeadLetter

LEMMA AdvanceStep ==
    ASSUME IInv, NEW w \in Workers, NEW e \in Event, AdvanceDeletion(w, e)
    PROVE  IInv'
<1>1. ~IsIngest(e)
  BY DEF AdvanceDeletion, IsIngest
<1>2. /\ cur[w] = Waiting /\ OB!Handle(w, e)
      /\ out' = [out EXCEPT ![w][e] = "advanced"]
      /\ UNCHANGED <<ledgerVars, req, cur, put>>
  BY DEF AdvanceDeletion
<1>3. ("advanced" = "dead_letter") = IsIngest(e)
  BY <1>1 DEF IsIngest
<1> QED
  BY <1>2, <1>3, SettleStep


\* What a transaction sees of a revision's run.
LEMMA SeenRuns ==
    ASSUME TypeOK, NEW w \in Workers, NEW r \in Revisions
    PROVE  /\ SeenRun(w, r) \in RunStatus
           /\ SeenRun(w, r) \in {"succeeded", "shadow"} => Reusable(w, r)
           /\ SeenRun(w, r) = "none" =>
                 /\ run[r] = "none"
                 /\ \A e \in Event : IsIngest(e) /\ ev[e].rev = r => out[w][e] \notin Parsed
<1>1. \A o : /\ RunOf(o) \in RunStatus
             /\ RunOf(o) \in {"succeeded", "shadow"} => o \in {"promoted", "shadowed"}
             /\ o \in Parsed => RunOf(o) # "none"
  BY DEF RunOf, RunStatus, Parsed
<1>2. run[r] \in RunStatus
  BY DEF TypeOK
<1>3. PICK R : R = RunsOf(w, r)
  OBVIOUS
<1>4. \A x \in R : /\ x # "none"
                   /\ \E e \in Event : IsIngest(e) /\ ev[e].rev = r /\ x = RunOf(out[w][e])
  BY <1>3 DEF RunsOf
<1>5. ASSUME NEW e \in Event, IsIngest(e), ev[e].rev = r, out[w][e] \in Parsed
      PROVE  R # {}
  <2>1. RunOf(out[w][e]) \in R
    BY <1>1, <1>3, <1>5 DEF RunsOf
  <2> QED
    BY <2>1
<1>6. CASE R = {}
  <2>1. SeenRun(w, r) = run[r]
    BY <1>3, <1>6 DEF SeenRun
  <2> QED
    BY <1>2, <1>5, <1>6, <2>1 DEF Reusable
<1>7. CASE R # {}
  <2>1. SeenRun(w, r) \in R
    BY <1>3, <1>7 DEF SeenRun
  <2>2. PICK e \in Event : IsIngest(e) /\ ev[e].rev = r /\ SeenRun(w, r) = RunOf(out[w][e])
    BY <1>4, <2>1
  <2>3. SeenRun(w, r) # "none"
    BY <1>4, <2>1
  <2> QED
    BY <1>1, <2>2, <2>3 DEF Reusable
<1> QED
  BY <1>6, <1>7

LEMMA StartStep ==
    ASSUME IInv, NEW w \in Workers, NEW e \in Event, Start(w, e)
    PROVE  IInv'
<1>1. UNCHANGED <<row, owned, token, lease, myToken, todo, locked, acked, ran, runs,
                  ev, job, attempt, expired, intent, revs, content, status, run, active,
                  workflow, req, out, put>>
  BY DEF Start, outboxVars, ledgerVars
<1>2. cur[w] = Waiting /\ e \in todo[w] /\ IsIngest(e)
  BY DEF Start
<1>3. PICK r \in Revisions : r = ev[e].rev
  BY <1>2, IngestPayload DEF IInv
<1>4. PICK z \in Sources : z = SourceOf[r]
  BY IngestionAssumption
<1>5. PICK x : x = SeenRun(w, r)
  OBVIOUS
<1>6. x \in RunStatus /\ (x \in {"succeeded", "shadow"} => Reusable(w, r))
  BY <1>5, SeenRuns DEF IInv
<1>7. PICK q : q = SeenStatus(w, z)
  OBVIOUS
<1>8. q \in SourceStatus /\ (put[w][z] \notin SourceStatus => q = status[z])
  BY <1>7 DEF SeenStatus, IInv, TypeOK
<1>9. PICK c : c = [e |-> e, seen |-> q, run |-> x]
  OBVIOUS
<1>10. /\ c \in [e : Event, seen : SourceStatus, run : RunStatus]
       /\ c.e = e /\ c.seen = q /\ c.run = x
  BY <1>6, <1>8, <1>9
<1>11. cur' = [cur EXCEPT ![w] = c]
  BY <1>3, <1>4, <1>5, <1>7, <1>9 DEF Start
<1>12. /\ cur' \in [Workers -> {Waiting} \cup [e : Event, seen : SourceStatus, run : RunStatus]]
       /\ cur'[w] = c /\ \A v \in Workers : v # w => cur'[v] = cur[v]
  BY <1>10, <1>11 DEF IInv, TypeOK
<1>13. TypeOK'
  <2>1. OB!TypeOK'
    BY <1>1 DEF IInv, TypeOK, OB!TypeOK, OB!ClaimsWhole, OB!NoToken
  <2>2. /\ out' \in [Workers -> [Event -> Outcome \cup {"none"}]]
        /\ put' \in [Workers -> [Sources -> SourceStatus \cup {"untouched", "unchanged"}]]
    BY <1>1 DEF IInv, TypeOK
  <2> QED
    BY <1>1, <1>12, <2>1, <2>2, TypeFrame DEF IInv
<1>14. WorkersOK'
  <2>1. ASSUME NEW v \in Workers PROVE CurOK(v)'
    <3>1. CASE v = w
      BY <1>1, <1>2, <1>3, <1>6, <1>10, <1>12, <3>1 DEF CurOK, IsIngest, Reusable
    <3>2. CASE v # w
      <4>1. CurOK(v)
        BY DEF IInv, WorkersOK
      <4> QED
        BY <1>1, <1>12, <3>2, <4>1 DEF CurOK, IsIngest, Waiting, NoEvent, Reusable
    <3> QED
      BY <3>1, <3>2
  <2>2. \A v \in Workers, f \in Event : OutcomeOK(v, f)'
    BY <1>1 DEF IInv, WorkersOK, OutcomeOK, IsIngest, SourceLocked
  <2>3. \A v \in Workers, s \in Sources : PutOK(v, s)'
    BY <1>1 DEF IInv, WorkersOK, PutOK, Reusable
  <2>4. SourcesApart'
    BY <1>1 DEF IInv, WorkersOK, SourcesApart, SourceLocked
  <2> QED
    BY <2>1, <2>2, <2>3, <2>4 DEF WorkersOK, Event
<1>15. StatusOK'
  <2>1. ASSUME NEW s, NEW f, WillSettle(s, f), status[s] = "queued" PROVE WillSettle(s, f)'
    <3>1. f \in Open(s)'
      BY <1>1, <2>1 DEF WillSettle, Open, Ingests, IsIngest
    <3>2. ASSUME NEW v \in Workers, f \in locked'[v], put'[v][s] \notin SourceStatus
          PROVE  /\ f \in acked'[v] => out'[v][f] = "dead_letter"
                 /\ cur'[v] # Waiting /\ cur'[v].e = f => cur'[v].seen = "queued"
      <4>1. /\ f \in acked[v] => out[v][f] = "dead_letter"
            /\ cur[v] # Waiting /\ cur[v].e = f => cur[v].seen = "queued"
        BY <1>1, <2>1, <3>2 DEF WillSettle
      <4>2. f \in acked'[v] => out'[v][f] = "dead_letter"
        BY <1>1, <4>1
      <4>3. CASE v = w /\ f = e
        <5>1. s = z
          BY <1>3, <1>4, <2>1, <4>3 DEF WillSettle, Open, Ingests
        <5> QED
          BY <1>1, <1>8, <1>10, <1>12, <2>1, <3>2, <4>2, <4>3, <5>1
      <4>4. CASE v = w /\ f # e
        BY <1>10, <1>12, <4>2, <4>4
      <4>5. CASE v # w
        BY <1>12, <4>1, <4>2, <4>5
      <4> QED
        BY <4>3, <4>4, <4>5
    <3> QED
      BY <3>1, <3>2 DEF WillSettle, Waiting, SourceStatus
  <2>2. \A s : Abandoned(s)' = Abandoned(s)
    BY <1>1 DEF Abandoned, Ingests, IsIngest
  <2>3. \A s, k : Parsable(s, k)' = Parsable(s, k)
    BY <1>1 DEF Parsable
  <2> QED
    BY <1>1, <2>1, <2>2, <2>3 DEF IInv, StatusOK, Event
<1> QED
  BY <1>1, <1>13, <1>14, <1>15, TxFrame, EventsFrame, ReqFrame, RunsFrame DEF IInv


LEMMA Results ==
    ASSUME TypeOK, NEW r \in Revisions, NEW b \in BOOLEAN, NEW x
    PROVE  /\ Result(r, b, x) \in Parsed \cup {"reused", "oversize"}
           /\ Result(r, b, x) = "promoted" => content[r] = "good"
           /\ Result(r, b, x) = "reused" => x \in {"succeeded", "shadow"}
<1>1. content[r] \in {"good", "poor", "unparsable", "oversize"}
  <2>1. content[r] \in Contents
    BY DEF TypeOK
  <2> QED
    BY <2>1, IngestionAssumption
<1> QED
  BY <1>1 DEF Result, Parsed

\* What Finish leaves in a row of the source, over what was there.
LEMMA Written ==
    ASSUME NEW o \in Parsed \cup {"reused", "oversize"}, NEW seen \in SourceStatus,
           NEW p \in {"untouched", "unchanged", "succeeded", "running", "partial", "failed"},
           NEW n, n = IF Writes(o, seen) THEN StatusOf(o)
                      ELSE IF p = "untouched" THEN "unchanged" ELSE p
    PROVE  /\ n \in {"unchanged", "succeeded", "running", "partial", "failed"}
           /\ n = "running" => o = "shadowed" \/ p = "running"
           /\ n = "succeeded" => o \in {"reused", "promoted"} \/ p = "succeeded"
           /\ p \in SourceStatus \/ seen = "queued" => n \in SourceStatus
<1>1. seen = "queued" => Writes(o, seen)
  BY DEF Writes
<1>2. /\ StatusOf(o) \in {"succeeded", "running", "partial", "failed"}
      /\ StatusOf(o) = "running" => o = "shadowed"
      /\ StatusOf(o) = "succeeded" => o \in {"reused", "promoted"}
  BY DEF StatusOf
<1>3. StatusOf(o) \in SourceStatus
  BY <1>2 DEF SourceStatus
<1>4. CASE Writes(o, seen)
  BY <1>2, <1>3, <1>4
<1>5. CASE ~Writes(o, seen)
  BY <1>1, <1>5 DEF SourceStatus
<1> QED
  BY <1>4, <1>5

LEMMA FinishStep ==
    ASSUME IInv, NEW w \in Workers, Finish(w)
    PROVE  IInv'
<1>1. UNCHANGED <<ev, job, attempt, expired, intent, revs, content, status, run, active,
                  workflow, req>>
  BY DEF Finish, ledgerVars
<1>2. cur[w] # Waiting
  BY DEF Finish
<1>3. PICK c \in [e : Event, seen : SourceStatus, run : RunStatus] : c = cur[w]
  BY <1>2 DEF IInv, TypeOK
<1>4. PICK e \in Event : e = c.e
  BY <1>3
<1>5. /\ e \in todo[w] /\ IsIngest(e)
      /\ c.run \in {"succeeded", "shadow"} => Reusable(w, ev[e].rev)
  BY <1>2, <1>3, <1>4 DEF IInv, WorkersOK, CurOK
<1>6. PICK r \in Revisions : r = ev[e].rev
  BY <1>5, IngestPayload DEF IInv
<1>7. PICK z \in Sources : z = SourceOf[r]
  BY IngestionAssumption
<1>8. PICK b \in BOOLEAN : b = ev[e].shadow
  BY <1>5, IngestPayload DEF IInv
<1>9. PICK o : o = CurResult(w)
  OBVIOUS
<1>10. /\ o \in Parsed \cup {"reused", "oversize"}
       /\ o = "promoted" => content[r] = "good"
       /\ o = "reused" => Reusable(w, r)
  <2>1. o = Result(r, b, c.run)
    BY <1>3, <1>4, <1>6, <1>8, <1>9 DEF CurResult
  <2> QED
    BY <1>5, <1>6, <2>1, Results DEF IInv
<1>11. o \in Parsed =>
          /\ run[r] = "none"
          /\ \A f \in Event : IsIngest(f) /\ ev[f].rev = r => out[w][f] \notin Parsed
  <2>1. ASSUME o \in Parsed PROVE SeenRun(w, r) = "none"
    <3>1. RunOf(o) # "none"
      BY <2>1 DEF RunOf, Parsed
    <3>2. ~Collides(w)
      BY DEF Finish
    <3> QED
      BY <1>2, <1>3, <1>4, <1>6, <1>9, <3>1, <3>2 DEF Collides
  <2> QED
    BY <2>1, SeenRuns DEF IInv
<1>12. OB!Handle(w, e) /\ out' = [out EXCEPT ![w][e] = o]
  BY <1>3, <1>4, <1>9 DEF Finish
<1>13. /\ OB!TypeOK' /\ TxOK'
       /\ e \in todo[w] /\ e \in locked[w] /\ e \notin acked[w]
       /\ todo' = [todo EXCEPT ![w] = @ \ {e}]
       /\ acked' = [acked EXCEPT ![w] = @ \cup {e}]
       /\ locked' = locked /\ row' = row
  BY <1>12, OutboxHandle DEF IInv, TypeOK
<1>14. /\ Records(w, e, o)
       /\ out' \in [Workers -> [Event -> Outcome \cup {"none"}]]
  <2>1. o \in Outcome
    BY <1>10 DEF Outcome, Parsed
  <2> QED
    BY <1>12, <2>1, OutcomeRecorded
<1>15. /\ acked'[w] = acked[w] \cup {e}
       /\ \A v \in Workers : v # w => acked'[v] = acked[v] /\ todo'[v] = todo[v]
  BY <1>13 DEF IInv, TypeOK, OB!TypeOK
<1>16. PICK p \in {"untouched", "unchanged", "succeeded", "running", "partial", "failed"} :
          p = put[w][z]
  BY DEF IInv, WorkersOK, PutOK
<1>17. PICK n : n = IF Writes(o, c.seen) THEN StatusOf(o)
                    ELSE IF p = "untouched" THEN "unchanged" ELSE p
  OBVIOUS
<1>18. /\ n \in {"unchanged", "succeeded", "running", "partial", "failed"}
       /\ n = "running" => o = "shadowed" \/ p = "running"
       /\ n = "succeeded" => o \in {"reused", "promoted"} \/ p = "succeeded"
       /\ p \in SourceStatus \/ c.seen = "queued" => n \in SourceStatus
  BY <1>3, <1>10, <1>16, <1>17, Written
<1>19. put \in [Workers -> [Sources -> SourceStatus \cup {"untouched", "unchanged"}]]
  BY DEF IInv, TypeOK
<1>20. /\ put'[w][z] = n
       /\ \A s \in Sources : s # z => put'[w][s] = put[w][s]
       /\ \A v \in Workers : v # w => put'[v] = put[v]
       /\ put' \in [Workers -> [Sources -> SourceStatus \cup {"untouched", "unchanged"}]]
  <2>1. put' = [put EXCEPT ![w][z] = n]
    BY <1>3, <1>4, <1>6, <1>7, <1>9, <1>16, <1>17 DEF Finish
  <2>2. n \in SourceStatus \cup {"untouched", "unchanged"}
    BY <1>18 DEF SourceStatus
  <2> QED
    BY <1>19, <2>1, <2>2
<1>21. /\ cur'[w] = Waiting /\ \A v \in Workers : v # w => cur'[v] = cur[v]
       /\ cur' \in [Workers -> {Waiting} \cup [e : Event, seen : SourceStatus, run : RunStatus]]
  BY DEF Finish, IInv, TypeOK
<1>22. TypeOK'
  BY <1>1, <1>13, <1>14, <1>20, <1>21, TypeFrame DEF IInv
<1>23. \A v \in Workers : \A q : Reusable(v, q) => Reusable(v, q)'
  BY <1>1, <1>14 DEF Reusable, Records
<1>24. WorkersOK'
  <2>1. ASSUME NEW v \in Workers PROVE CurOK(v)'
    <3>1. CASE v = w
      BY <1>21, <3>1 DEF CurOK, Waiting
    <3>2. CASE v # w
      <4>1. CurOK(v)
        BY DEF IInv, WorkersOK
      <4> QED
        BY <1>1, <1>15, <1>21, <1>23, <3>2, <4>1 DEF CurOK, IsIngest, Waiting, NoEvent
    <3> QED
      BY <3>1, <3>2
  <2>2. ASSUME NEW v \in Workers, NEW f \in Event PROVE OutcomeOK(v, f)'
    <3>1. OutcomeOK(v, f)
      BY DEF IInv, WorkersOK
    <3>2. CASE v # w
      BY <1>1, <1>14, <1>15, <1>20, <3>1, <3>2
         DEF OutcomeOK, IsIngest, SourceLocked, Records
    <3>3. \A g \in Event : out[w][g] \in Parsed => IsIngest(g)
      BY DEF IInv, WorkersOK, OutcomeOK, Parsed
    <3>4. CASE v = w /\ f = e
      <4>1. out'[v][f] = o
        BY <1>14, <3>4 DEF Records
      <4>2. o \in Parsed =>
               /\ run'[r] = "none" /\ SourceLocked(w, z)'
               /\ \A g \in Event : out'[w][g] \in Parsed /\ ev'[g].rev = r => g = e
        BY <1>1, <1>11, <1>14, <1>18, <1>20, <3>3 DEF SourceLocked, Records
      <4>3. ev'[f].rev = r /\ SourceOf[ev'[f].rev] = z /\ IsIngest(f)' /\ f \in acked'[v]
        BY <1>1, <1>5, <1>6, <1>7, <1>15, <3>4 DEF IsIngest
      <4>4. o \notin {"none", "advanced"} /\ (o = "promoted" => content'[r] = "good")
        BY <1>1, <1>10 DEF Parsed
      <4> QED
        BY <3>4, <4>1, <4>2, <4>3, <4>4 DEF OutcomeOK, Event
    <3>5. CASE v = w /\ f # e
      <4>1. out'[v][f] = out[v][f] /\ (f \in acked'[v] <=> f \in acked[v])
        BY <1>14, <1>15, <3>5 DEF Records
      <4>2. ASSUME out[v][f] \in Parsed
            PROVE  /\ SourceLocked(v, SourceOf[ev[f].rev])'
                   /\ \A g \in Event : out'[v][g] \in Parsed /\ ev[g].rev = ev[f].rev => g = f
        <5>1. /\ SourceLocked(v, SourceOf[ev[f].rev])
              /\ \A g \in Event : out[v][g] \in Parsed /\ ev[g].rev = ev[f].rev => g = f
          BY <3>1, <4>2 DEF OutcomeOK
        <5>2. IsIngest(f)
          BY <3>3, <3>5, <4>2
        <5>3. PICK s \in Sources : s = SourceOf[ev[f].rev]
          BY <5>2, IngestPayload DEF IInv
        <5>4. SourceLocked(v, s)'
          BY <1>18, <1>20, <3>5, <5>1, <5>3 DEF SourceLocked
        <5>5. o \in Parsed => ev[f].rev # ev[e].rev
          BY <1>6, <1>11, <3>5, <4>2, <5>2
        <5>6. \A g \in Event : g # e => out'[v][g] = out[v][g]
          BY <1>14, <3>5 DEF Records
        <5>7. out'[v][e] = o
          BY <1>14, <3>5 DEF Records
        <5> QED
          BY <1>1, <5>1, <5>3, <5>4, <5>5, <5>6, <5>7 DEF SourceLocked
      <4> QED
        BY <1>1, <3>1, <4>1, <4>2 DEF OutcomeOK, IsIngest, SourceLocked, Event
    <3> QED
      BY <3>2, <3>4, <3>5
  <2>3. ASSUME NEW v \in Workers, NEW s \in Sources PROVE PutOK(v, s)'
    <3>1. PutOK(v, s)
      BY DEF IInv, WorkersOK
    <3>2. \A f \in Event : out[v][f] = "shadowed" => out'[v][f] = "shadowed"
      BY <1>14 DEF Records
    <3>3. CASE v # w \/ s # z
      BY <1>1, <1>20, <1>23, <3>1, <3>2, <3>3 DEF PutOK
    <3>4. CASE v = w /\ s = z
      <4>1. put'[v][s] = n /\ put[v][s] = p
        BY <1>16, <1>20, <3>4
      <4>2. out'[v][e] = o /\ SourceOf[ev'[e].rev] = s /\ SourceOf[r] = s /\ ev'[e].rev = r
        BY <1>1, <1>6, <1>7, <1>14, <3>4 DEF Records
      <4>3. n = "running" =>
               \E f \in Event : out'[v][f] = "shadowed" /\ SourceOf[ev'[f].rev] = s
        BY <1>1, <1>18, <3>1, <3>2, <4>1, <4>2 DEF PutOK
      <4>4. o \in {"reused", "promoted"} => Reusable(v, r)'
        BY <1>10, <1>23, <3>4, <4>2 DEF Reusable
      <4>5. n = "succeeded" => \E q \in Revisions : SourceOf[q] = s /\ Reusable(v, q)'
        BY <1>18, <1>23, <3>1, <4>1, <4>2, <4>4 DEF PutOK
      <4> QED
        BY <1>18, <4>1, <4>3, <4>5 DEF PutOK, Event
    <3> QED
      BY <3>3, <3>4
  <2>4. SourcesApart'
    <3>1. \A v \in Workers : v # w => ~SourceLocked(v, z)
      BY <1>3, <1>4, <1>6, <1>7 DEF Finish
    <3> QED
      BY <1>20, <3>1 DEF IInv, WorkersOK, SourcesApart, SourceLocked
  <2> QED
    BY <2>1, <2>2, <2>3, <2>4 DEF WorkersOK, Event
<1>25. StatusOK'
  <2>1. ASSUME NEW s \in Sources, NEW f, WillSettle(s, f) PROVE WillSettle(s, f)'
    <3>1. f \in Open(s)'
      BY <1>1, <1>13, <2>1 DEF WillSettle, Open, Ingests, IsIngest
    <3>2. ASSUME NEW v \in Workers, f \in locked'[v], put'[v][s] \notin SourceStatus
          PROVE  /\ f \in acked'[v] => out'[v][f] = "dead_letter"
                 /\ cur'[v] # Waiting /\ cur'[v].e = f => cur'[v].seen = "queued"
      <4>1. put[v][s] \notin SourceStatus
        BY <1>16, <1>18, <1>20, <3>2
      <4>2. /\ f \in acked[v] => out[v][f] = "dead_letter"
            /\ cur[v] # Waiting /\ cur[v].e = f => cur[v].seen = "queued"
        BY <1>13, <2>1, <3>2, <4>1 DEF WillSettle
      <4>3. f \in Event /\ (f = e => s = z)
        BY <1>6, <1>7, <2>1 DEF WillSettle, Open, Ingests
      <4>4. CASE v # w
        BY <1>14, <1>15, <1>21, <4>2, <4>4 DEF Records
      <4>5. CASE v = w /\ f # e
        BY <1>14, <1>15, <1>21, <4>2, <4>3, <4>5 DEF Records
      <4>6. CASE v = w /\ f = e
        BY <1>2, <1>3, <1>4, <1>18, <1>20, <3>2, <4>2, <4>3, <4>6
      <4> QED
        BY <4>4, <4>5, <4>6
    <3> QED
      BY <3>1, <3>2 DEF WillSettle, Waiting, SourceStatus
  <2>2. \A s : Abandoned(s)' = Abandoned(s)
    BY <1>1 DEF Abandoned, Ingests, IsIngest
  <2>3. \A s, k : Parsable(s, k)' = Parsable(s, k)
    BY <1>1 DEF Parsable
  <2> QED
    BY <1>1, <2>1, <2>2, <2>3 DEF IInv, StatusOK, Event
<1> QED
  BY <1>1, <1>13, <1>22, <1>24, <1>25, EventsFrame, ReqFrame, RunsFrame DEF IInv


-----------------------------------------------------------------------------
(* Requests that insert an event.                                          *)

\* The new row is in nobody's transaction.
LEMMA InsertFrame ==
    ASSUME IInv, NEW e \in Event, NEW p, OB!Insert(e, TRUE), ev' = [ev EXCEPT ![e] = p],
           p # Foreign, revs \subseteq revs', UNCHANGED <<cur, out, put, run, content, active>>
    PROVE  /\ OB!TypeOK' /\ TxOK' /\ WorkersOK' /\ RunsOK'
           /\ row[e] = "absent" /\ row' = [row EXCEPT ![e] = "pending"]
           /\ ev[e] = NoPayload /\ ~IsIngest(e)
           /\ ev'[e] = p /\ \A f \in Event : f # e => ev'[f] = ev[f]
           /\ \A w \in Workers : e \notin locked'[w]
           /\ \A s \in Sources, f \in Event : WillSettle(s, f) => WillSettle(s, f)'
<1>1. /\ OB!TypeOK' /\ TxOK'
      /\ row[e] = "absent" /\ row' = [row EXCEPT ![e] = "pending"]
      /\ UNCHANGED <<todo, locked, acked, ran>>
      /\ \A w \in Workers : e \notin locked[w]
  <2>1. OB!TypeOK /\ TxOK
    BY DEF IInv, TypeOK
  <2> QED
    BY <2>1, OutboxInsert
<1>2. ev'[e] = p /\ \A f \in Event : f # e => ev'[f] = ev[f]
  BY DEF IInv, TypeOK
<1>3. ev[e] = NoPayload
  BY <1>1 DEF IInv, EventsOK
<1>4. ~IsIngest(e) /\ ev[e] # Foreign
  BY <1>3 DEF IsIngest, NoPayload, Foreign
<1>5. \A w \in Workers, f \in Event : out[w][f] # "none" => f # e
  BY <1>1 DEF IInv, TxOK, WorkersOK, OutcomeOK
<1>6. \A w \in Workers : \A q : Reusable(w, q) => Reusable(w, q)'
  BY <1>2, <1>5 DEF Reusable
<1>7. WorkersOK'
  <2>1. ASSUME NEW v \in Workers PROVE CurOK(v)'
    <3>1. CurOK(v)
      BY DEF IInv, WorkersOK
    <3>2. ASSUME cur[v] # Waiting PROVE cur[v].e \in Event /\ ev'[cur[v].e] = ev[cur[v].e]
      <4>1. cur[v].e \in locked[v] /\ cur[v].e \in Event
        BY <3>1, <3>2 DEF CurOK, IInv, TxOK, TypeOK, OB!TypeOK, OB!Event, Event
      <4> QED
        BY <1>1, <1>2, <4>1
    <3> QED
      BY <1>1, <1>6, <3>1, <3>2 DEF CurOK, IsIngest, Waiting, NoEvent
  <2>2. ASSUME NEW v \in Workers, NEW f \in Event PROVE OutcomeOK(v, f)'
    <3>1. OutcomeOK(v, f)
      BY DEF IInv, WorkersOK
    <3>2. \A g \in Event : out[v][g] # "none" => ev'[g] = ev[g]
      BY <1>2, <1>5
    <3>3. \A g \in Event : out[v][g] \in Parsed => out[v][g] # "none"
      BY DEF Parsed
    <3> QED
      BY <1>1, <3>1, <3>2, <3>3 DEF OutcomeOK, IsIngest, SourceLocked, Event
  <2>3. ASSUME NEW v \in Workers, NEW s \in Sources PROVE PutOK(v, s)'
    <3>1. PutOK(v, s)
      BY DEF IInv, WorkersOK
    <3> QED
      BY <1>2, <1>5, <1>6, <3>1 DEF PutOK
  <2>4. SourcesApart'
    BY DEF IInv, WorkersOK, SourcesApart, SourceLocked
  <2> QED
    BY <2>1, <2>2, <2>3, <2>4 DEF WorkersOK, Event
<1>8. RunsOK'
  <2>1. {f \in Event : ev'[f] = Foreign} = {f \in Event : ev[f] = Foreign}
    BY <1>2, <1>4
  <2>2. ActiveRunIsGood'
    BY DEF IInv, RunsOK, ActiveRunIsGood
  <2>3. PromotionAnnounced'
    BY <2>1 DEF IInv, RunsOK, PromotionAnnounced, Event, Foreign
  <2> QED
    BY <2>2, <2>3 DEF IInv, RunsOK
<1>9. ASSUME NEW s \in Sources, NEW f \in Event, WillSettle(s, f) PROVE WillSettle(s, f)'
  <2>1. f # e
    BY <1>4, <1>9 DEF WillSettle, Open, Ingests
  <2>2. row'[f] = row[f] /\ ev'[f] = ev[f]
    BY <1>1, <1>2, <2>1 DEF IInv, TypeOK, OB!TypeOK, OB!Event, Event
  <2>3. f \in Open(s)'
    BY <1>9, <2>2 DEF WillSettle, Open, Ingests, IsIngest, Event
  <2>4. ASSUME NEW v \in Workers, f \in locked'[v], put'[v][s] \notin SourceStatus
        PROVE  /\ f \in acked'[v] => out'[v][f] = "dead_letter"
               /\ cur'[v] # Waiting /\ cur'[v].e = f => cur'[v].seen = "queued"
    BY <1>1, <1>9, <2>4 DEF WillSettle
  <2> QED
    BY <2>3, <2>4 DEF WillSettle, Waiting, SourceStatus
<1> QED
  BY <1>1, <1>2, <1>3, <1>4, <1>7, <1>8, <1>9

LEMMA TombstoneStep ==
    ASSUME IInv, NEW z \in Sources, Tombstone(z)
    PROVE  IInv'
<1>1. UNCHANGED <<job, attempt, expired, intent, revs, content, status, run, active, req,
                  cur, out, put>>
  BY DEF Tombstone, handlerVars
<1>2. PICK e \in Event : OB!Insert(e, TRUE) /\ ev' = [ev EXCEPT ![e] = DeletionEvent(z)]
  BY DEF Tombstone, NextEvents, Absent
<1>3. PICK p : p = DeletionEvent(z)
  OBVIOUS
<1>4. p # Foreign /\ p # NoPayload /\ p.type # "ingest"
  BY <1>3, PayloadsDiffer
<1>5. OB!Insert(e, TRUE) /\ ev' = [ev EXCEPT ![e] = p]
  BY <1>2, <1>3
<1>6. /\ OB!TypeOK' /\ TxOK' /\ WorkersOK' /\ RunsOK'
      /\ row[e] = "absent" /\ row' = [row EXCEPT ![e] = "pending"]
      /\ ev[e] = NoPayload /\ ~IsIngest(e)
      /\ ev'[e] = p /\ \A f \in Event : f # e => ev'[f] = ev[f]
      /\ \A s \in Sources, f \in Event : WillSettle(s, f) => WillSettle(s, f)'
  BY <1>1, <1>4, <1>5, InsertFrame
<1>7. row'[e] = "pending" /\ \A f \in Event : f # e => row'[f] = row[f]
  BY <1>6 DEF IInv, TypeOK, OB!TypeOK, OB!Event, Event
<1>8. \A s : Ingests(s)' = Ingests(s)
  BY <1>4, <1>6 DEF Ingests, IsIngest, Event
<1>9. TypeOK'
  <2>1. ev' \in [Event -> {NoPayload, Foreign}
                          \cup {IngestEvent(r, b) : r \in Revisions, b \in BOOLEAN}
                          \cup {DeletionEvent(s) : s \in Sources}]
    BY <1>3, <1>5 DEF IInv, TypeOK
  <2>2. workflow' \in [Sources -> {"none", "tombstoned", "revoking_grants",
                                   "purging_projections", "completed"}]
    BY DEF Tombstone, IInv, TypeOK
  <2> QED
    BY <1>1, <1>6, <2>1, <2>2
       DEF IInv, TypeOK, Event, NoPayload, Foreign, IngestEvent, DeletionEvent
<1>10. EventsOK' /\ JobFollowsEvent'
  <2>1. ASSUME NEW f \in Event
        PROVE  /\ row'[f] = "absent" <=> ev'[f] = NoPayload
               /\ IsIngest(f)' => ev'[f].rev \in revs'
               /\ row'[f] = "absent" => job'[f] = "none" /\ attempt'[f] = "none"
    BY <1>1, <1>4, <1>6, <1>7 DEF IInv, EventsOK, IsIngest
  <2>2. EventsOK'
    BY <2>1 DEF EventsOK, Event, NoPayload
  <2>3. JobFollowsEvent'
    BY <1>1, <1>4, <1>6, <1>7 DEF IInv, JobFollowsEvent, IsIngest, Event
  <2> QED
    BY <2>2, <2>3
<1>11. ReqOK'
  BY <1>1, <1>8 DEF IInv, ReqOK, NoRequest, NoEvent
<1>12. StatusOK'
  <2>1. \A s : Abandoned(s)' = Abandoned(s)
    BY <1>1, <1>8 DEF Abandoned
  <2>2. \A s, k : Parsable(s, k)' = Parsable(s, k)
    BY <1>1 DEF Parsable
  <2> QED
    BY <1>1, <1>6, <2>1, <2>2 DEF IInv, StatusOK, Event
<1> QED
  BY <1>6, <1>9, <1>10, <1>11, <1>12 DEF IInv


\* The request in progress, and what it writes whatever it asks for.
Writing(op, r, z, seen) ==
    /\ req # NoRequest /\ req' = NoRequest
    /\ req.op = op /\ req.rev = r /\ req.seen = seen /\ z = SourceOf[r]
    /\ status' = [status EXCEPT ![z] = IF seen = NewStatus(op) THEN @ ELSE NewStatus(op)]
    /\ UNCHANGED <<attempt, expired, content, run, active, workflow, cur, out, put>>

LEMMA RequestWrites ==
    ASSUME TypeOK, FinishRequest
    PROVE  \E op \in Requests, r \in Revisions, z \in Sources, seen \in SourceStatus :
              /\ Writing(op, r, z, seen)
              /\ req.shadow \in BOOLEAN /\ req.job \in Event \cup {NoEvent}
              /\ status' \in [Sources -> SourceStatus]
              /\ intent' \in [Revisions -> BOOLEAN]
<1>1. req # NoRequest
  BY DEF FinishRequest
<1>2. PICK q \in [op : Requests, rev : Revisions, shadow : BOOLEAN, seen : SourceStatus,
                  job : Event \cup {NoEvent}] : q = req
  BY <1>1 DEF TypeOK
<1>3. /\ req.op \in Requests /\ req.rev \in Revisions /\ req.shadow \in BOOLEAN
      /\ req.seen \in SourceStatus /\ req.job \in Event \cup {NoEvent}
  BY <1>2
<1>4. PICK op \in Requests, r \in Revisions, seen \in SourceStatus :
         req.op = op /\ req.rev = r /\ req.seen = seen
  BY <1>3
<1>5. PICK z \in Sources : z = SourceOf[r]
  BY IngestionAssumption
<1>6. status' = [status EXCEPT ![z] = IF seen = NewStatus(op) THEN @ ELSE NewStatus(op)]
  BY <1>4, <1>5 DEF FinishRequest
<1>7. NewStatus(op) \in SourceStatus
  BY DEF NewStatus, SourceStatus
<1>8. status' \in [Sources -> SourceStatus]
  BY <1>6, <1>7 DEF TypeOK
<1>9. intent' \in [Revisions -> BOOLEAN]
  <2>1. PICK b \in BOOLEAN : b = (req.op = "begin_upload" \/ (intent[r] /\ req.op # "complete_upload"))
    BY DEF TypeOK
  <2>2. intent' = [intent EXCEPT ![r] = b]
    BY <1>4, <2>1 DEF FinishRequest
  <2> QED
    BY <2>2 DEF TypeOK
<1>10. Writing(op, r, z, seen)
  BY <1>1, <1>4, <1>5, <1>6 DEF FinishRequest, Writing, handlerVars
<1> QED
  BY <1>3, <1>8, <1>9, <1>10

\* A request that enqueues: the new event will settle the source.
LEMMA EnqueueStep ==
    ASSUME IInv, FinishRequest, Enqueues(req.op)
    PROVE  IInv'
<1>1. PICK op \in Requests, r \in Revisions, z \in Sources, seen \in SourceStatus :
         /\ Writing(op, r, z, seen)
         /\ req.shadow \in BOOLEAN /\ req.job \in Event \cup {NoEvent}
         /\ status' \in [Sources -> SourceStatus]
         /\ intent' \in [Revisions -> BOOLEAN]
  BY RequestWrites DEF IInv
<1>2. UNCHANGED <<attempt, expired, content, run, active, workflow, cur, out, put>>
  BY <1>1 DEF Writing
<1>3. PICK e \in Event : /\ OB!Insert(e, TRUE)
                         /\ ev' = [ev EXCEPT ![e] = IngestEvent(req.rev, req.shadow)]
                         /\ job' = [job EXCEPT ![e] = "queued"]
  BY DEF FinishRequest, Enqueue, NextEvents, Absent
<1>4. PICK p : p = IngestEvent(req.rev, req.shadow)
  OBVIOUS
<1>5. /\ p # Foreign /\ p # NoPayload /\ p.type = "ingest" /\ p.rev = r
      /\ p \in {IngestEvent(t, b) : t \in Revisions, b \in BOOLEAN}
  BY <1>1, <1>4, PayloadsDiffer DEF Writing
<1>6. revs' \subseteq Revisions /\ revs \subseteq revs' /\ r \in revs'
  <2>1. op = "complete_upload" => revs' = revs \cup {r}
    BY <1>1 DEF FinishRequest, Writing
  <2>2. op # "complete_upload" => revs' = revs
    BY <1>1 DEF FinishRequest, Writing
  <2>3. op # "complete_upload" => r \in revs
    BY <1>1 DEF IInv, ReqOK, Writing, Enqueues
  <2> QED
    BY <2>1, <2>2, <2>3 DEF IInv, TypeOK
<1>7. OB!Insert(e, TRUE) /\ ev' = [ev EXCEPT ![e] = p]
  BY <1>3, <1>4
<1>8. /\ OB!TypeOK' /\ TxOK' /\ WorkersOK' /\ RunsOK'
      /\ row[e] = "absent" /\ row' = [row EXCEPT ![e] = "pending"]
      /\ ev[e] = NoPayload /\ ~IsIngest(e)
      /\ ev'[e] = p /\ \A f \in Event : f # e => ev'[f] = ev[f]
      /\ \A w \in Workers : e \notin locked'[w]
      /\ \A s \in Sources, f \in Event : WillSettle(s, f) => WillSettle(s, f)'
  <2>1. UNCHANGED <<cur, out, put, run, content, active>>
    BY <1>2
  <2>2. p # Foreign /\ revs \subseteq revs'
    BY <1>5, <1>6
  <2> QED
    BY <1>7, <2>1, <2>2, InsertFrame
<1>9. row'[e] = "pending" /\ \A f \in Event : f # e => row'[f] = row[f]
  BY <1>8 DEF IInv, TypeOK, OB!TypeOK, OB!Event, Event
<1>10. job'[e] = "queued" /\ \A f \in Event : f # e => job'[f] = job[f]
  BY <1>3 DEF IInv, TypeOK
<1>11. \A s \in Sources : Ingests(s) \subseteq Ingests(s)'
  BY <1>8 DEF Ingests, IsIngest, Event
<1>12. TypeOK'
  <2>1. ev' \in [Event -> {NoPayload, Foreign}
                          \cup {IngestEvent(t, b) : t \in Revisions, b \in BOOLEAN}
                          \cup {DeletionEvent(s) : s \in Sources}]
    BY <1>5, <1>7 DEF IInv, TypeOK
  <2>2. job' \in [Event -> {"none", "queued", "succeeded", "failed", "cancelled",
                            "dead_letter"}]
    BY <1>3 DEF IInv, TypeOK
  <2>3. req' = NoRequest
    BY <1>1 DEF Writing
  <2>4. TypeOK
    BY DEF IInv
  <2> QED
    BY <1>1, <1>2, <1>6, <1>8, <2>1, <2>2, <2>3, <2>4
       DEF TypeOK, Event, NoPayload, Foreign, IngestEvent, DeletionEvent, NoRequest
<1>13. EventsOK' /\ JobFollowsEvent'
  <2>1. ASSUME NEW f \in Event
        PROVE  /\ row'[f] = "absent" <=> ev'[f] = NoPayload
               /\ IsIngest(f)' => ev'[f].rev \in revs'
               /\ row'[f] = "absent" => job'[f] = "none" /\ attempt'[f] = "none"
    BY <1>2, <1>5, <1>6, <1>8, <1>9, <1>10 DEF IInv, EventsOK, IsIngest
  <2>2. EventsOK'
    BY <2>1 DEF EventsOK, Event, NoPayload
  <2>3. attempt[e] = "none"
    BY <1>8 DEF IInv, EventsOK
  <2>4. JobFollowsEvent'
    BY <1>2, <1>8, <1>9, <1>10, <2>3 DEF IInv, JobFollowsEvent, IsIngest, Event
  <2> QED
    BY <2>2, <2>4
<1>14. ReqOK'
  BY <1>1 DEF ReqOK, Writing, NoRequest
<1>15. StatusOK'
  <2>1. ASSUME NEW s \in Sources, Abandoned(s) PROVE Abandoned(s)'
    <3>1. PICK f \in Ingests(s) : job[f] = "dead_letter"
      BY <2>1 DEF Abandoned
    <3>2. f \in Event /\ f # e
      BY <1>8, <3>1 DEF Ingests
    <3> QED
      BY <1>10, <1>11, <3>1, <3>2 DEF Abandoned
  <2>2. \A s, k : Parsable(s, k)' = Parsable(s, k)
    BY <1>2 DEF Parsable
  <2>3. WillSettle(z, e)'
    <3>1. e \in Open(z)'
      BY <1>1, <1>5, <1>8, <1>9 DEF Open, Ingests, IsIngest, Writing, Event
    <3> QED
      BY <1>8, <3>1 DEF WillSettle
  <2>4. \A s \in Sources : s # z => status'[s] = status[s]
    BY <1>1 DEF Writing, IInv, TypeOK
  <2>5. status'[z] = "queued" \/ status'[z] = status[z]
    BY <1>1 DEF Writing, IInv, TypeOK, Enqueues, NewStatus
  <2> QED
    BY <1>8, <2>1, <2>2, <2>3, <2>4, <2>5 DEF IInv, StatusOK, Event
<1> QED
  BY <1>8, <1>12, <1>13, <1>14, <1>15 DEF IInv

\* A request that does not: begin_upload and cancel.
LEMMA OverwriteStep ==
    ASSUME IInv, FinishRequest, ~Enqueues(req.op)
    PROVE  IInv'
<1>1. PICK op \in Requests, r \in Revisions, z \in Sources, seen \in SourceStatus :
         /\ Writing(op, r, z, seen)
         /\ req.shadow \in BOOLEAN /\ req.job \in Event \cup {NoEvent}
         /\ status' \in [Sources -> SourceStatus]
         /\ intent' \in [Revisions -> BOOLEAN]
  BY RequestWrites DEF IInv
<1>2. UNCHANGED <<attempt, expired, content, run, active, workflow, cur, out, put>>
  BY <1>1 DEF Writing
<1>3. /\ UNCHANGED <<ev, row, owned, token, lease, myToken, todo, locked, acked, ran, runs>>
      /\ job' = [e \in Event |-> IF e = req.job THEN "cancelled" ELSE job[e]]
  BY DEF FinishRequest, outboxVars
<1>4. revs' = revs
  BY DEF FinishRequest, Enqueues
<1>5. PICK j \in Event \cup {NoEvent} : j = req.job
  BY <1>1
<1>6. j # NoEvent => j \in Ingests(z)
  BY <1>1, <1>5 DEF IInv, ReqOK, Writing
<1>7. /\ job' \in [Event -> {"none", "queued", "succeeded", "failed", "cancelled", "dead_letter"}]
      /\ \A e \in Event : job'[e] = IF e = j THEN "cancelled" ELSE job[e]
  BY <1>3, <1>5 DEF IInv, TypeOK
<1>8. TypeOK'
  <2>1. OB!TypeOK'
    BY <1>3 DEF IInv, TypeOK, OB!TypeOK, OB!ClaimsWhole, OB!NoToken
  <2>2. req' = NoRequest
    BY <1>1 DEF Writing
  <2>3. TypeOK
    BY DEF IInv
  <2> QED
    BY <1>1, <1>2, <1>3, <1>4, <1>7, <2>1, <2>2, <2>3 DEF TypeOK, Event, NoRequest
<1>9. EventsOK' /\ JobFollowsEvent'
  <2>1. \A e \in Event : e = j => IsIngest(e)
    BY <1>6, EventFacts DEF Ingests
  <2>2. \A e \in Event : IsIngest(e) => row[e] # "absent"
    BY DEF IInv, EventsOK, IsIngest, NoPayload
  <2>3. EventsOK'
    BY <1>2, <1>3, <1>4, <1>7, <2>1, <2>2 DEF IInv, EventsOK, IsIngest, Event, NoPayload
  <2>4. JobFollowsEvent'
    BY <1>2, <1>3, <1>7 DEF IInv, JobFollowsEvent, IsIngest, Event
  <2> QED
    BY <2>3, <2>4
<1>10. ReqOK'
  BY <1>1 DEF ReqOK, Writing, NoRequest
<1>11. StatusOK'
  <2>1. ASSUME NEW s \in Sources, s # z, Abandoned(s) PROVE Abandoned(s)'
    <3>1. PICK f \in Ingests(s) : job[f] = "dead_letter"
      BY <2>1 DEF Abandoned
    <3>2. f \in Event /\ f # j
      BY <1>6, <2>1, <3>1, EventFacts DEF Ingests
    <3> QED
      BY <1>3, <1>7, <3>1, <3>2 DEF Abandoned, Ingests, IsIngest, Event
  <2>2. \A s, k : Parsable(s, k)' = Parsable(s, k)
    BY <1>2 DEF Parsable
  <2>3. \A s, e : WillSettle(s, e)' = WillSettle(s, e)
    BY <1>2, <1>3 DEF WillSettle, Open, Ingests, IsIngest, Event, Waiting, NoEvent, SourceStatus
  <2>4. \A s \in Sources : s # z => status'[s] = status[s]
    BY <1>1 DEF Writing, IInv, TypeOK
  <2>5. NewStatus(op) \in {"upload_pending", "cancelled"}
    <3>1. op # "tombstone"
      BY <1>1 DEF Writing, IInv, ReqOK
    <3> QED
      BY <1>1, <3>1, IngestionAssumption DEF Writing, Enqueues, NewStatus
  <2>6. status'[z] = IF seen = NewStatus(op) THEN status[z] ELSE NewStatus(op)
    BY <1>1 DEF Writing, IInv, TypeOK
  <2>7. status[z] = "queued" => seen = "queued"
    BY <1>1 DEF Writing, IInv, ReqOK
  <2>8. /\ status'[z] # "queued"
        /\ status'[z] \in {"succeeded", "running"} => status'[z] = status[z]
    BY <2>5, <2>6, <2>7
  <2> QED
    BY <2>1, <2>2, <2>3, <2>4, <2>8 DEF IInv, StatusOK, Event
<1> QED
  BY <1>2, <1>3, <1>4, <1>8, <1>9, <1>10, <1>11, TxFrame, WorkersFrame, RunsFrame DEF IInv


-----------------------------------------------------------------------------
(* The end of a batch.                                                     *)

\* A run inserted by the transaction is the only one of its revision.
LEMMA CommittedRuns ==
    ASSUME IInv, NEW w \in Workers, NEW r \in Revisions
    PROVE  /\ \A e \in Event : out[w][e] \in Parsed /\ ev[e].rev = r =>
                 run[r] = "none" /\ SeenRun(w, r) = RunOf(out[w][e])
           /\ (\A e \in Event : ev[e].rev = r => out[w][e] \notin Parsed) =>
                 SeenRun(w, r) = run[r]
<1>1. \A o : /\ RunOf(o) # "none" => o \in Parsed
             /\ o \in Parsed => RunOf(o) # "none"
  BY DEF RunOf, Parsed
<1>2. PICK R : R = RunsOf(w, r)
  OBVIOUS
<1>3. \A x \in R : \E f \in Event : /\ IsIngest(f) /\ ev[f].rev = r
                                    /\ x = RunOf(out[w][f]) /\ out[w][f] \in Parsed
  BY <1>1, <1>2 DEF RunsOf
<1>4. ASSUME NEW e \in Event, out[w][e] \in Parsed, ev[e].rev = r
      PROVE  run[r] = "none" /\ SeenRun(w, r) = RunOf(out[w][e])
  <2>1. /\ IsIngest(e) /\ run[r] = "none"
        /\ \A f \in Event : out[w][f] \in Parsed /\ ev[f].rev = r => f = e
    BY <1>4 DEF IInv, WorkersOK, OutcomeOK, Parsed
  <2>2. RunOf(out[w][e]) \in R
    BY <1>1, <1>2, <1>4, <2>1 DEF RunsOf
  <2>3. \A x \in R : x = RunOf(out[w][e])
    BY <1>3, <2>1
  <2>4. SeenRun(w, r) \in R
    BY <1>2, <2>2 DEF SeenRun
  <2> QED
    BY <2>1, <2>3, <2>4
<1>5. ASSUME \A e \in Event : ev[e].rev = r => out[w][e] \notin Parsed
      PROVE  SeenRun(w, r) = run[r]
  <2>1. R = {}
    BY <1>3, <1>5
  <2> QED
    BY <1>2, <2>1 DEF SeenRun
<1> QED
  BY <1>4, <1>5

\* What a commit does to the runs.
LEMMA RunsCommitted ==
    ASSUME IInv, NEW w \in Workers, run' = [r \in Revisions |-> SeenRun(w, r)]
    PROVE  /\ run' \in [Revisions -> RunStatus]
           /\ \A r \in Revisions : run[r] # "none" => run'[r] = run[r]
           /\ \A r \in Revisions : Reusable(w, r) => run'[r] \in {"succeeded", "shadow"}
           /\ \A e \in Event : out[w][e] = "shadowed" => run'[ev[e].rev] = "shadow"
           /\ \A e \in Event : out[w][e] = "promoted" => run'[ev[e].rev] = "succeeded"
           /\ \A r \in Revisions : run'[r] = "succeeded" =>
                 \/ run[r] = "succeeded"
                 \/ \E e \in Event : out[w][e] = "promoted" /\ ev[e].rev = r
           /\ \A r \in Revisions : run[r] = "none" =>
                 \/ run'[r] = "none"
                 \/ \E e \in Event : out[w][e] \in Parsed /\ ev[e].rev = r
<1>1. \A r \in Revisions : run'[r] = SeenRun(w, r)
  OBVIOUS
<1>2. \A r \in Revisions, e \in Event : out[w][e] \in Parsed /\ ev[e].rev = r =>
         run[r] = "none" /\ run'[r] = RunOf(out[w][e])
  BY <1>1, CommittedRuns
<1>3. \A r \in Revisions : (\A e \in Event : ev[e].rev = r => out[w][e] \notin Parsed) =>
         run'[r] = run[r]
  BY <1>1, CommittedRuns
<1>4. \A r \in Revisions : SeenRun(w, r) \in RunStatus
  BY SeenRuns DEF IInv
<1>5. run' \in [Revisions -> RunStatus]
  BY <1>4
<1>6. \A e \in Event : out[w][e] \in Parsed => ev[e].rev \in Revisions
  BY IngestPayload DEF IInv, WorkersOK, OutcomeOK, Parsed
<1>7. /\ RunOf("promoted") = "succeeded" /\ RunOf("shadowed") = "shadow"
      /\ RunOf("partial") = "failed" /\ RunOf("failed") = "failed"
      /\ "promoted" \in Parsed /\ "shadowed" \in Parsed
  BY DEF RunOf, Parsed
<1>8. \A r \in Revisions : run[r] # "none" => run'[r] = run[r]
  BY <1>2, <1>3
<1>9. /\ \A e \in Event : out[w][e] = "shadowed" => run'[ev[e].rev] = "shadow"
      /\ \A e \in Event : out[w][e] = "promoted" => run'[ev[e].rev] = "succeeded"
  BY <1>2, <1>6, <1>7
<1>10. \A r \in Revisions : Reusable(w, r) => run'[r] \in {"succeeded", "shadow"}
  BY <1>8, <1>9 DEF Reusable
<1>11. ASSUME NEW r \in Revisions, run'[r] = "succeeded"
       PROVE  \/ run[r] = "succeeded"
              \/ \E e \in Event : out[w][e] = "promoted" /\ ev[e].rev = r
  <2>1. CASE \A e \in Event : ev[e].rev = r => out[w][e] \notin Parsed
    BY <1>3, <1>11, <2>1
  <2>2. CASE \E e \in Event : ev[e].rev = r /\ out[w][e] \in Parsed
    BY <1>2, <1>7, <1>11, <2>2 DEF Parsed
  <2> QED
    BY <2>1, <2>2
<1>12. \A r \in Revisions : run[r] = "none" =>
          \/ run'[r] = "none"
          \/ \E e \in Event : out[w][e] \in Parsed /\ ev[e].rev = r
  BY <1>3
<1> QED
  BY <1>5, <1>8, <1>9, <1>10, <1>11, <1>12


LEMMA InjectiveImage ==
    ASSUME NEW S, IsFiniteSet(S), NEW T, NEW h \in [S -> T],
           \A t \in T : \E s \in S : h[s] = t,
           \A a, b \in S : h[a] = h[b] => a = b
    PROVE  IsFiniteSet(T) /\ Cardinality(T) = Cardinality(S)
<1>1. h \in Bijection(S, T)
  BY DEF Bijection, Injection, Surjection, IsInjective
<1>2. ExistsBijection(S, T)
  BY <1>1 DEF ExistsBijection
<1> QED
  BY <1>2, FS_Bijection

\* A commit announces as many promotions as it makes.
LEMMA PromotionsCounted ==
    ASSUME IInv, NEW w \in Workers, NEW new \in SUBSET Event,
           \A e \in new : ev[e] # Foreign,
           Cardinality(new) = Cardinality(Did(w, {"promoted"})),
           ev' = [e \in Event |-> IF e \in new THEN Foreign ELSE ev[e]],
           active' = active \cup {ev[e].rev : e \in Did(w, {"promoted"})}
    PROVE  /\ IsFiniteSet(active')
           /\ Cardinality({e \in Event : ev'[e] = Foreign}) = Cardinality(active')
<1>1. PICK P \in SUBSET Event : P = Did(w, {"promoted"})
  BY DEF Did
<1>2. PICK A : A = {ev[e].rev : e \in P}
  OBVIOUS
<1>3. \A e \in P : /\ out[w][e] = "promoted" /\ run[ev[e].rev] = "none"
                   /\ \A f \in P : ev[f].rev = ev[e].rev => f = e
  BY <1>1 DEF Did, IInv, WorkersOK, OutcomeOK, Parsed
<1>4. IsFiniteSet(P) /\ IsFiniteSet(new)
  BY <1>1, EventFacts, FS_Subset
<1>5. IsFiniteSet(A) /\ Cardinality(A) = Cardinality(P)
  <2>1. PICK h : h = [e \in P |-> ev[e].rev]
    OBVIOUS
  <2>2. h \in [P -> A] /\ \A t \in A : \E e \in P : h[e] = t
    BY <1>2, <2>1
  <2>3. \A e, f \in P : h[e] = h[f] => e = f
    BY <1>3, <2>1
  <2> QED
    BY <1>4, <2>2, <2>3, InjectiveImage
<1>6. A \cap active = {}
  BY <1>2, <1>3 DEF IInv, RunsOK, ActiveRunIsGood
<1>7. PICK F : F = {e \in Event : ev[e] = Foreign}
  OBVIOUS
<1>8. IsFiniteSet(F) /\ Cardinality(F) = Cardinality(active) /\ IsFiniteSet(active)
  <2>1. F \in SUBSET Event
    BY <1>7
  <2>2. IsFiniteSet(F)
    BY <2>1, EventFacts, FS_Subset
  <2>3. Cardinality(F) = Cardinality(active) /\ IsFiniteSet(active)
    BY <1>7 DEF IInv, RunsOK, PromotionAnnounced
  <2> QED
    BY <2>2, <2>3
<1>9. {e \in Event : ev'[e] = Foreign} = F \cup new
  BY <1>7
<1>10. F \cap new = {}
  BY <1>7
<1>11. active' = active \cup A
  BY <1>1, <1>2
<1>12. /\ IsFiniteSet(active \cup A)
       /\ Cardinality(active \cup A) = Cardinality(active) + Cardinality(A) - Cardinality({})
  <2>1. PICK B : B = active
    OBVIOUS
  <2>2. IsFiniteSet(B) /\ B \cap A = {}
    BY <1>6, <1>8, <2>1
  <2>3. /\ IsFiniteSet(B \cup A)
        /\ Cardinality(B \cup A) = Cardinality(B) + Cardinality(A) - Cardinality(B \cap A)
    BY <1>5, <2>2, FS_Union
  <2> QED
    BY <2>1, <2>2, <2>3
<1>13. Cardinality(F \cup new) = Cardinality(F) + Cardinality(new) - Cardinality({})
  BY <1>4, <1>8, <1>10, FS_Union
<1> QED
  BY <1>1, <1>5, <1>8, <1>9, <1>11, <1>12, <1>13


LEMMA CommitStep ==
    ASSUME IInv, NEW w \in Workers, Commit(w)
    PROVE  IInv'
<1>1. UNCHANGED <<expired, intent, revs, content, req>> /\ Forget(w)
  BY DEF Commit
<1>2. PICK new \in SUBSET Event :
         /\ new \subseteq Absent
         /\ Cardinality(new) = Cardinality(Did(w, {"promoted"}))
         /\ OB!Commit(w, new, {})
         /\ ev' = [e \in Event |-> IF e \in new THEN Foreign ELSE ev[e]]
  BY DEF Commit, Emissions, Absent
<1>3. /\ OB!TypeOK' /\ TxOK'
      /\ \A e \in new : row[e] = "absent"
      /\ \A e \in Event : row'[e] = IF e \in acked[w] THEN "published"
                                    ELSE IF e \in new THEN "pending" ELSE row[e]
      /\ locked'[w] = {} /\ acked'[w] = {} /\ todo[w] = {} /\ todo' = todo
      /\ \A v \in Workers : v # w => locked'[v] = locked[v] /\ acked'[v] = acked[v]
  <2>1. OB!TypeOK /\ TxOK
    BY DEF IInv, TypeOK
  <2> QED
    BY <1>2, <2>1, OutboxCommit
<1>4. /\ Forgotten(w)
      /\ cur' \in [Workers -> {Waiting} \cup [e : Event, seen : SourceStatus, run : RunStatus]]
      /\ out' \in [Workers -> [Event -> Outcome \cup {"none"}]]
      /\ put' \in [Workers -> [Sources -> SourceStatus \cup {"untouched", "unchanged"}]]
  BY <1>1, Forgets DEF IInv
<1>5. \A e \in Event : ev'[e] = IF e \in new THEN Foreign ELSE ev[e]
  BY <1>2
<1>6. \A e \in new : ev[e] = NoPayload /\ ~IsIngest(e) /\ ev[e] # Foreign
  <2>1. NoPayload.type # "ingest" /\ NoPayload # Foreign
    BY DEF NoPayload, Foreign
  <2> QED
    BY <1>3, <2>1 DEF IInv, EventsOK, IsIngest
<1>7. \A e \in Event : /\ IsIngest(e)' <=> IsIngest(e)
                       /\ IsIngest(e) => ev'[e] = ev[e] /\ e \notin new
  BY <1>5, <1>6, PayloadsDiffer DEF IsIngest
<1>8. \A s : Ingests(s)' = Ingests(s)
  BY <1>7 DEF Ingests, Event
<1>9. \A v \in Workers, e \in Event : e \in locked[v] => row[e] = "pending" /\ e \notin new
  BY <1>3 DEF IInv, TxOK
<1>10. \A v \in Workers, e \in Event :
          e \in acked[v] => e \in locked[v] /\ row[e] = "pending" /\ ev'[e] = ev[e]
  BY <1>5, <1>9 DEF IInv, TxOK
<1>11. \A v \in Workers, e \in Event : out[v][e] # "none" <=> e \in acked[v]
  BY DEF IInv, WorkersOK, OutcomeOK
<1>12. \A e \in Event :
          /\ out[w][e] \notin {"none", "advanced"} => job'[e] = JobOf(out[w][e])
          /\ out[w][e] \in {"none", "advanced"} => job'[e] = job[e]
          /\ out[w][e] \notin {"none", "advanced", "dead_letter"} =>
                attempt'[e] = JobOf(out[w][e])
          /\ out[w][e] \in {"none", "advanced", "dead_letter"} => attempt'[e] = attempt[e]
  <2>1. \A e \in Event : out[w][e] \in Outcome \cup {"none"}
    BY DEF IInv, TypeOK
  <2> QED
    BY <2>1 DEF Commit, Ran, Did, Outcome
<1>13. run' = [r \in Revisions |-> SeenRun(w, r)]
  BY DEF Commit
<1>14. /\ run' \in [Revisions -> RunStatus]
       /\ \A r \in Revisions : run[r] # "none" => run'[r] = run[r]
       /\ \A r \in Revisions : Reusable(w, r) => run'[r] \in {"succeeded", "shadow"}
       /\ \A e \in Event : out[w][e] = "shadowed" => run'[ev[e].rev] = "shadow"
       /\ \A e \in Event : out[w][e] = "promoted" => run'[ev[e].rev] = "succeeded"
       /\ \A r \in Revisions : run'[r] = "succeeded" =>
             \/ run[r] = "succeeded"
             \/ \E e \in Event : out[w][e] = "promoted" /\ ev[e].rev = r
       /\ \A r \in Revisions : run[r] = "none" =>
             \/ run'[r] = "none"
             \/ \E e \in Event : out[w][e] \in Parsed /\ ev[e].rev = r
  BY <1>13, RunsCommitted
<1>15. \A v \in Workers, e \in Event : out[v][e] \in Parsed =>
          /\ IsIngest(e) /\ ev[e].rev \in Revisions /\ SourceOf[ev[e].rev] \in Sources
          /\ SourceLocked(v, SourceOf[ev[e].rev])
  BY IngestPayload DEF IInv, WorkersOK, OutcomeOK, Parsed
<1>16. \A s \in Sources : status'[s] = SeenStatus(w, s)
  BY DEF Commit
<1>17. \A s \in Sources :
          \/ put[w][s] \in {"succeeded", "running", "partial", "failed"} /\ status'[s] = put[w][s]
          \/ put[w][s] \notin SourceStatus /\ status'[s] = status[s]
  BY <1>16 DEF SeenStatus, SourceStatus, IInv, WorkersOK, PutOK
<1>18. TypeOK'
  <2>1. ev' \in [Event -> {NoPayload, Foreign}
                          \cup {IngestEvent(r, b) : r \in Revisions, b \in BOOLEAN}
                          \cup {DeletionEvent(s) : s \in Sources}]
    BY <1>2 DEF IInv, TypeOK
  <2>2. \A o : /\ JobOf(o) \in {"succeeded", "failed", "dead_letter"}
               /\ o # "dead_letter" => JobOf(o) \in {"succeeded", "failed"}
    BY DEF JobOf
  <2>3. job' \in [Event -> {"none", "queued", "succeeded", "failed", "cancelled",
                            "dead_letter"}]
    <3>1. \A e \in Event : job[e] \in {"none", "queued", "succeeded", "failed", "cancelled",
                                       "dead_letter"}
      BY DEF IInv, TypeOK
    <3>2. job' = [e \in Event |-> job'[e]]
      BY DEF Commit
    <3>3. \A e \in Event : job'[e] \in {"none", "queued", "succeeded", "failed",
                                        "cancelled", "dead_letter"}
      BY <1>12, <2>2, <3>1
    <3> QED
      BY <3>2, <3>3
  <2>4. attempt' \in [Event -> {"none", "succeeded", "failed"}]
    <3>1. \A e \in Event : attempt[e] \in {"none", "succeeded", "failed"}
      BY DEF IInv, TypeOK
    <3>2. attempt' = [e \in Event |-> attempt'[e]]
      BY DEF Commit
    <3>3. \A e \in Event : attempt'[e] \in {"none", "succeeded", "failed"}
      BY <1>12, <2>2, <3>1
    <3> QED
      BY <3>2, <3>3
  <2>5. status' \in [Sources -> SourceStatus]
    <3>1. \A s \in Sources : SeenStatus(w, s) \in SourceStatus
      BY DEF SeenStatus, IInv, TypeOK
    <3>2. status' = [s \in Sources |-> SeenStatus(w, s)]
      BY DEF Commit
    <3> QED
      BY <3>1, <3>2
  <2>6. active' \subseteq Revisions
    <3>1. \A e \in Did(w, {"promoted"}) : ev[e].rev \in Revisions
      BY <1>15 DEF Did, Parsed
    <3>2. active' = active \cup {ev[e].rev : e \in Did(w, {"promoted"})}
      BY DEF Commit
    <3> QED
      BY <3>1, <3>2 DEF IInv, TypeOK
  <2>7. workflow' \in [Sources -> {"none", "tombstoned", "revoking_grants",
                                   "purging_projections", "completed"}]
    <3>1. \A s \in Sources : workflow[s] \in {"none", "tombstoned", "revoking_grants",
                                              "purging_projections", "completed"}
      BY DEF IInv, TypeOK
    <3>2. \A s \in Sources : Progression(workflow[s]) \in
             {"none", "tombstoned", "revoking_grants", "purging_projections", "completed"}
      BY <3>1 DEF Progression
    <3>3. workflow' = [s \in Sources |-> IF \E e \in Did(w, {"advanced"}) : ev[e].source = s
                                         THEN Progression(workflow[s]) ELSE workflow[s]]
      BY DEF Commit
    <3> QED
      BY <3>1, <3>2, <3>3
  <2>8. TypeOK
    BY DEF IInv
  <2> QED
    BY <1>1, <1>3, <1>4, <1>14, <2>1, <2>3, <2>4, <2>5, <2>6, <2>7, <2>8
       DEF TypeOK, Event, NoPayload, Foreign, IngestEvent, DeletionEvent
<1>19. EventsOK'
  <2>1. ASSUME NEW e \in Event
        PROVE  /\ row'[e] = "absent" <=> ev'[e] = NoPayload
               /\ IsIngest(e)' => ev'[e].rev \in revs'
               /\ row'[e] = "absent" => job'[e] = "none" /\ attempt'[e] = "none"
    <3>1. /\ row[e] = "absent" <=> ev[e] = NoPayload
          /\ IsIngest(e) => ev[e].rev \in revs
          /\ row[e] = "absent" => job[e] = "none" /\ attempt[e] = "none"
      BY DEF IInv, EventsOK
    <3>2. row'[e] = "absent" <=> ev'[e] = NoPayload
      BY <1>3, <1>5, <1>10, <3>1, PayloadsDiffer
    <3>3. IsIngest(e)' => ev'[e].rev \in revs'
      BY <1>1, <1>7, <3>1
    <3>4. row'[e] = "absent" => row[e] = "absent" /\ out[w][e] = "none"
      BY <1>3, <1>11
    <3> QED
      BY <1>12, <3>1, <3>2, <3>3, <3>4
  <2> QED
    BY <2>1 DEF EventsOK, Event, NoPayload
<1>20. JobFollowsEvent'
  <2>1. ASSUME NEW e \in Event, IsIngest(e)
        PROVE  /\ row'[e] = "pending" => job'[e] \in {"queued", "cancelled"} /\ attempt'[e] = "none"
               /\ row'[e] = "published" =>
                     \/ attempt'[e] # "none" /\ job'[e] \in {attempt'[e], "cancelled"}
                     \/ attempt'[e] = "none" /\ job'[e] \in {"dead_letter", "cancelled"}
    <3>1. /\ row[e] = "pending" => job[e] \in {"queued", "cancelled"} /\ attempt[e] = "none"
          /\ row[e] = "published" =>
                \/ attempt[e] # "none" /\ job[e] \in {attempt[e], "cancelled"}
                \/ attempt[e] = "none" /\ job[e] \in {"dead_letter", "cancelled"}
      BY <2>1 DEF IInv, JobFollowsEvent
    <3>2. CASE e \in acked[w]
      <4>1. row'[e] = "published" /\ row[e] = "pending"
        BY <1>3, <1>10, <3>2
      <4>2. out[w][e] \notin {"none", "advanced"}
        BY <1>11, <2>1, <3>2 DEF IInv, WorkersOK, OutcomeOK
      <4>3. /\ JobOf("dead_letter") = "dead_letter"
            /\ \A o : JobOf(o) # "none"
        BY DEF JobOf
      <4> QED
        BY <1>12, <3>1, <4>1, <4>2, <4>3
    <3>3. CASE e \notin acked[w]
      <4>1. row'[e] = row[e]
        BY <1>3, <1>7, <2>1, <3>3
      <4>2. job'[e] = job[e] /\ attempt'[e] = attempt[e]
        BY <1>11, <1>12, <3>3
      <4> QED
        BY <3>1, <4>1, <4>2
    <3> QED
      BY <3>2, <3>3
  <2> QED
    BY <1>7, <2>1 DEF JobFollowsEvent, Event
<1>21. \A v \in Workers, q \in Revisions : v # w /\ Reusable(v, q) => Reusable(v, q)'
  <2>1. \A v \in Workers, e \in Event : out[v][e] # "none" => ev'[e] = ev[e]
    BY <1>10, <1>11
  <2> QED
    BY <1>4, <1>14, <2>1 DEF Reusable, Forgotten
<1>22. WorkersOK'
  <2>1. ASSUME NEW v \in Workers PROVE CurOK(v)'
    <3>1. CASE v = w
      BY <1>4, <3>1 DEF CurOK, Forgotten, Waiting
    <3>2. CASE v # w
      <4>1. CurOK(v)
        BY DEF IInv, WorkersOK
      <4>2. cur'[v] = cur[v] /\ todo'[v] = todo[v]
        BY <1>3, <1>4, <3>2 DEF Forgotten
      <4>3. ASSUME cur[v] # Waiting
            PROVE  /\ cur[v].e \in todo[v] /\ ev'[cur[v].e] = ev[cur[v].e]
                   /\ ev[cur[v].e].type = "ingest" /\ ev[cur[v].e].rev \in Revisions
        <5>1. cur[v].e \in todo[v] /\ IsIngest(cur[v].e)
          BY <4>1, <4>3 DEF CurOK
        <5>2. todo[v] \subseteq Event
          BY DEF IInv, TypeOK, OB!TypeOK, OB!Event, Event
        <5>3. PICK e \in Event : e = cur[v].e
          BY <5>1, <5>2
        <5>4. IsIngest(e)
          BY <5>1, <5>3
        <5>5. ev[e].rev \in Revisions
          BY <5>4, IngestPayload DEF IInv
        <5> QED
          BY <1>7, <5>1, <5>3, <5>4, <5>5 DEF IsIngest
      <4> QED
        BY <1>21, <3>2, <4>1, <4>2, <4>3 DEF CurOK, IsIngest, Waiting, NoEvent
    <3> QED
      BY <3>1, <3>2
  <2>2. ASSUME NEW v \in Workers, NEW f \in Event PROVE OutcomeOK(v, f)'
    <3>1. CASE v = w
      BY <1>3, <1>4, <3>1 DEF OutcomeOK, Forgotten, Parsed
    <3>2. CASE v # w
      <4>1. OutcomeOK(v, f)
        BY DEF IInv, WorkersOK
      <4>2. out'[v] = out[v] /\ put'[v] = put[v] /\ acked'[v] = acked[v]
        BY <1>3, <1>4, <3>2 DEF Forgotten
      <4>3. \A g \in Event : out[v][g] \in Parsed => ev'[g] = ev[g]
        BY <1>10, <1>11 DEF Parsed
      <4>4. out[v][f] # "none" => ev'[f] = ev[f]
        BY <1>10, <1>11
      <4>5. ASSUME out[v][f] \in Parsed PROVE run'[ev[f].rev] = "none"
        <5>1. PICK r \in Revisions : r = ev[f].rev
          BY <1>15, <4>5
        <5>2. run[r] = "none" /\ SourceLocked(v, SourceOf[r]) /\ SourceOf[r] \in Sources
          BY <1>15, <4>1, <4>5, <5>1 DEF OutcomeOK
        <5>3. ~SourceLocked(w, SourceOf[r])
          BY <3>2, <5>2 DEF IInv, WorkersOK, SourcesApart
        <5>4. \A e \in Event : out[w][e] \in Parsed => ev[e].rev # r
          BY <1>15, <5>3
        <5> QED
          BY <1>14, <5>1, <5>2, <5>4
      <4> QED
        BY <1>1, <1>7, <4>1, <4>2, <4>3, <4>4, <4>5 DEF OutcomeOK, SourceLocked, Event, Parsed
    <3> QED
      BY <3>1, <3>2
  <2>3. ASSUME NEW v \in Workers, NEW s \in Sources PROVE PutOK(v, s)'
    <3>1. CASE v = w
      BY <1>4, <3>1 DEF PutOK, Forgotten
    <3>2. CASE v # w
      <4>1. PutOK(v, s)
        BY DEF IInv, WorkersOK
      <4>2. out'[v] = out[v] /\ put'[v] = put[v]
        BY <1>4, <3>2 DEF Forgotten
      <4>3. \A g \in Event : out[v][g] = "shadowed" => ev'[g] = ev[g]
        BY <1>10, <1>11
      <4> QED
        BY <1>21, <3>2, <4>1, <4>2, <4>3 DEF PutOK, Event
    <3> QED
      BY <3>1, <3>2
  <2>4. SourcesApart'
    BY <1>4 DEF IInv, WorkersOK, SourcesApart, SourceLocked, Forgotten
  <2> QED
    BY <2>1, <2>2, <2>3, <2>4 DEF WorkersOK, Event
<1>23. ReqOK'
  <2>1. ASSUME req # NoRequest PROVE SourceOf[req.rev] \in Sources
    <3>1. PICK q \in [op : Requests, rev : Revisions, shadow : BOOLEAN, seen : SourceStatus,
                      job : Event \cup {NoEvent}] : q = req
      BY <2>1 DEF IInv, TypeOK
    <3>2. q.rev \in Revisions
      OBVIOUS
    <3> QED
      BY <3>1, <3>2, IngestionAssumption
  <2> QED
    BY <1>1, <1>8, <1>17, <2>1 DEF IInv, ReqOK, NoRequest, NoEvent
<1>24. RunsOK'
  <2>1. active' = active \cup {ev[e].rev : e \in Did(w, {"promoted"})}
    BY DEF Commit
  <2>2. /\ IsFiniteSet(active')
        /\ Cardinality({e \in Event : ev'[e] = Foreign}) = Cardinality(active')
    <3>1. \A e \in new : ev[e] # Foreign
      BY <1>6
    <3> QED
      BY <1>2, <2>1, <3>1, PromotionsCounted
  <2>3. \A r \in active : run[r] = "succeeded" /\ content[r] = "good" /\ r \in revs /\ r \in Revisions
    BY DEF IInv, RunsOK, ActiveRunIsGood, TypeOK
  <2>4. ASSUME NEW e \in Did(w, {"promoted"})
        PROVE  /\ run'[ev[e].rev] = "succeeded" /\ content[ev[e].rev] = "good"
               /\ ev[e].rev \in revs
    <3>1. e \in Event /\ out[w][e] = "promoted"
      BY DEF Did
    <3>2. IsIngest(e) /\ content[ev[e].rev] = "good"
      BY <3>1 DEF IInv, WorkersOK, OutcomeOK
    <3> QED
      BY <1>14, <3>1, <3>2 DEF IInv, EventsOK
  <2>5. ActiveRunIsGood'
    BY <1>1, <1>14, <2>1, <2>3, <2>4 DEF ActiveRunIsGood
  <2>6. \A r \in Revisions : run'[r] = "succeeded" => r \in active'
    BY <1>14, <2>1 DEF Did, IInv, RunsOK, PromotionAnnounced
  <2> QED
    BY <2>2, <2>5, <2>6 DEF RunsOK, PromotionAnnounced, Event, Foreign
<1>25. StatusOK'
  <2>1. ASSUME NEW s \in Sources, Parsable(s, {"succeeded", "shadow"})
        PROVE  Parsable(s, {"succeeded", "shadow"})'
    BY <1>14, <2>1 DEF Parsable
  <2>2. ASSUME NEW s \in Sources, Parsable(s, {"shadow"}) PROVE Parsable(s, {"shadow"})'
    BY <1>14, <2>2 DEF Parsable
  <2>3. ASSUME NEW s \in Sources, status'[s] = "succeeded"
        PROVE  Parsable(s, {"succeeded", "shadow"})'
    <3>1. CASE put[w][s] = "succeeded"
      <4>1. PICK r \in Revisions : SourceOf[r] = s /\ Reusable(w, r)
        BY <3>1 DEF IInv, WorkersOK, PutOK
      <4> QED
        BY <1>14, <4>1 DEF Parsable
    <3>2. CASE status[s] = "succeeded"
      BY <2>1, <3>2 DEF IInv, StatusOK
    <3> QED
      BY <1>17, <2>3, <3>1, <3>2
  <2>4. ASSUME NEW s \in Sources, status'[s] = "running" PROVE Parsable(s, {"shadow"})'
    <3>1. CASE put[w][s] = "running"
      <4>1. PICK e \in Event : out[w][e] = "shadowed" /\ SourceOf[ev[e].rev] = s
        BY <3>1 DEF IInv, WorkersOK, PutOK
      <4>2. ev[e].rev \in Revisions /\ run'[ev[e].rev] = "shadow"
        BY <1>14, <1>15, <4>1 DEF Parsed
      <4> QED
        BY <4>1, <4>2 DEF Parsable
    <3>2. CASE status[s] = "running"
      BY <2>2, <3>2 DEF IInv, StatusOK
    <3> QED
      BY <1>17, <2>4, <3>1, <3>2
  <2>5. ASSUME NEW s \in Sources, status'[s] = "queued"
        PROVE  Abandoned(s)' \/ \E e \in Event : WillSettle(s, e)'
    <3>1. put[w][s] \notin SourceStatus /\ status[s] = "queued"
      BY <1>17, <2>5
    <3>2. CASE Abandoned(s)
      <4>1. PICK e \in Ingests(s) : job[e] = "dead_letter"
        BY <3>2 DEF Abandoned
      <4>2. e \in Event /\ IsIngest(e)
        BY DEF Ingests
      <4>3. row[e] # "pending"
        BY <4>1, <4>2 DEF IInv, JobFollowsEvent
      <4>4. out[w][e] = "none"
        BY <1>10, <1>11, <4>2, <4>3
      <4> QED
        BY <1>8, <1>12, <4>1, <4>2, <4>4 DEF Abandoned
    <3>3. CASE \E e \in Event : WillSettle(s, e)
      <4>1. PICK e \in Event : WillSettle(s, e)
        BY <3>3
      <4>2. e \in Ingests(s) /\ IsIngest(e) /\ row[e] = "pending"
        BY <4>1 DEF WillSettle, Open, Ingests
      <4>3. CASE e \in acked[w]
        <5>1. out[w][e] = "dead_letter"
          BY <1>10, <3>1, <4>1, <4>3 DEF WillSettle
        <5>2. job'[e] = "dead_letter"
          BY <1>12, <5>1 DEF JobOf
        <5> QED
          BY <1>8, <4>2, <5>2 DEF Abandoned
      <4>4. CASE e \notin acked[w]
        <5>1. row'[e] = "pending"
          BY <1>3, <4>2, <4>4
        <5>2. e \in Open(s)'
          BY <1>8, <4>2, <5>1 DEF Open
        <5>3. ASSUME NEW v \in Workers, e \in locked'[v], put'[v][s] \notin SourceStatus
              PROVE  /\ e \in acked'[v] => out'[v][e] = "dead_letter"
                     /\ cur'[v] # Waiting /\ cur'[v].e = e => cur'[v].seen = "queued"
          <6>1. v # w
            BY <1>3, <5>3
          <6> QED
            BY <1>3, <1>4, <4>1, <5>3, <6>1 DEF WillSettle, Forgotten
        <5> QED
          BY <5>2, <5>3 DEF WillSettle, Waiting, SourceStatus
      <4> QED
        BY <4>3, <4>4
    <3> QED
      BY <3>1, <3>2, <3>3 DEF IInv, StatusOK
  <2> QED
    BY <2>3, <2>4, <2>5 DEF StatusOK, Event
<1> QED
  BY <1>3, <1>18, <1>19, <1>20, <1>22, <1>23, <1>24, <1>25 DEF IInv


-----------------------------------------------------------------------------
(* The invariant holds.                                                    *)

LEMMA InitInv == Init => IInv
<1> SUFFICES ASSUME Init PROVE IInv
  OBVIOUS
<1>1. /\ row = [e \in Event |-> "absent"] /\ owned = {}
      /\ token = [e \in Event |-> 0] /\ lease = [e \in Event |-> "none"]
      /\ myToken = [w \in Workers |-> 0]
      /\ todo = [w \in Workers |-> {}] /\ locked = [w \in Workers |-> {}]
      /\ acked = [w \in Workers |-> {}] /\ ran = [w \in Workers |-> {}]
      /\ runs = [e \in Event |-> 0]
  BY DEF Init, OB!Init, OB!Event, Event, OB!NoToken
<1>2. /\ ev = [e \in Event |-> NoPayload] /\ job = [e \in Event |-> "none"]
      /\ attempt = [e \in Event |-> "none"] /\ expired = {}
      /\ intent = [r \in Revisions |-> FALSE] /\ revs = {}
      /\ content \in [Revisions -> Contents] /\ status = [s \in Sources |-> "draft"]
      /\ run = [r \in Revisions |-> "none"] /\ active = {}
      /\ workflow = [s \in Sources |-> "none"] /\ req = NoRequest
      /\ cur = [w \in Workers |-> Waiting]
      /\ out = [w \in Workers |-> [e \in Event |-> "none"]]
      /\ put = [w \in Workers |-> [s \in Sources |-> "untouched"]]
  BY DEF Init
<1>3. OB!TypeOK
  <2>1. 0 \in OB!Token
    BY IngestionAssumption DEF OB!Token
  <2> QED
    BY <1>1, <2>1 DEF OB!TypeOK, OB!ClaimsWhole, OB!NoToken, OB!Event, Event
<1>4. TypeOK
  BY <1>2, <1>3 DEF TypeOK, SourceStatus, RunStatus
<1>5. TxOK
  BY <1>1 DEF TxOK
<1>6. \A e \in Event : ~IsIngest(e)
  BY <1>2 DEF IsIngest, NoPayload
<1>7. EventsOK /\ JobFollowsEvent
  BY <1>1, <1>2, <1>6 DEF EventsOK, JobFollowsEvent
<1>8. WorkersOK
  <2>1. \A w \in Workers : CurOK(w)
    BY <1>2 DEF CurOK
  <2>2. \A w \in Workers, e \in Event : OutcomeOK(w, e)
    BY <1>1, <1>2 DEF OutcomeOK, Parsed
  <2>3. \A w \in Workers, s \in Sources : PutOK(w, s)
    BY <1>2 DEF PutOK
  <2>4. SourcesApart
    BY <1>2 DEF SourcesApart, SourceLocked
  <2> QED
    BY <2>1, <2>2, <2>3, <2>4 DEF WorkersOK
<1>9. ReqOK
  BY <1>2 DEF ReqOK
<1>10. RunsOK
  <2>1. {e \in Event : ev[e] = Foreign} = {}
    BY <1>2, PayloadsDiffer
  <2> QED
    BY <1>2, <2>1, FS_EmptySet DEF RunsOK, ActiveRunIsGood, PromotionAnnounced
<1>11. StatusOK
  BY <1>2 DEF StatusOK
<1> QED
  BY <1>4, <1>5, <1>7, <1>8, <1>9, <1>10, <1>11 DEF IInv

LEMMA NextInv == IInv /\ [Next]_vars => IInv'
<1> SUFFICES ASSUME IInv, [Next]_vars PROVE IInv'
  OBVIOUS
<1>1. ASSUME NEW op \in Requests, NEW r \in Revisions, NEW shadow \in BOOLEAN,
             Request(op, r, shadow)
      PROVE  IInv'
  BY <1>1, RequestStep
<1>2. CASE FinishRequest
  BY <1>2, EnqueueStep, OverwriteStep
<1>3. ASSUME NEW s \in Sources, Tombstone(s) PROVE IInv'
  BY <1>3, TombstoneStep
<1>4. ASSUME NEW e \in Event, ExpireSnapshot(e) \/ ExpireLease(e) PROVE IInv'
  BY <1>4, ClockSteps
<1>5. ASSUME NEW w \in Workers, Claim(w) PROVE IInv'
  BY <1>5, ClaimStep
<1>6. ASSUME NEW w \in Workers, Handlers(w) PROVE IInv'
  BY <1>6, SkipStep, DeadLetterStep, StartStep, AdvanceStep, FinishStep DEF Handlers
<1>7. ASSUME NEW w \in Workers, Commit(w) PROVE IInv'
  BY <1>7, CommitStep
<1>8. ASSUME NEW w \in Workers, Raise(w) \/ Crash(w) PROVE IInv'
  BY <1>8, UndoStep DEF Raise, Crash
<1>9. CASE UNCHANGED vars
  BY <1>9, StutterStep
<1> QED
  BY <1>1, <1>2, <1>3, <1>4, <1>5, <1>6, <1>7, <1>8, <1>9 DEF Next

LEMMA Invariance == Spec => []IInv
  BY InitInv, NextInv, PTL DEF Spec

-----------------------------------------------------------------------------
(* Theorems.                                                               *)

\* The tables of ingestion stay well formed: every status is one the CHECK
\* constraints know, and a request or handler in progress holds what it read
\* from them.
THEOREM TypeCorrect == Spec => []TypeOK
<1>1. IInv => TypeOK
  BY DEF IInv
<1> QED
  BY <1>1, Invariance, PTL

\* The job, its attempt and its event agree, for any number of workers and
\* whatever rolls back: start_job_attempt, complete_job, mark_dead_letter and
\* the acknowledgement take effect together.
THEOREM JobsFollow == Spec => []JobFollowsEvent
<1>1. IInv => JobFollowsEvent
  BY DEF IInv
<1> QED
  BY <1>1, Invariance, PTL

\* An active pointer leads to a succeeded run of good text, whichever of
\* several workers promotes it (run_ingestion_for_revision,
\* promote_active_parse_run).
THEOREM ActiveRunsGood == Spec => []ActiveRunIsGood
<1>1. IInv => ActiveRunIsGood
  BY DEF IInv, RunsOK
<1> QED
  BY <1>1, Invariance, PTL

\* A succeeded run is active and each promotion has its event, for batches
\* that promote any number of revisions (memdot_set_current_active_parse_run).
THEOREM PromotionsAnnounced == Spec => []PromotionAnnounced
<1>1. IInv => PromotionAnnounced
  BY DEF IInv, RunsOK
<1> QED
  BY <1>1, Invariance, PTL

\* A source shown as queued has an event to be handled or a dead-lettered
\* job, and one shown as running had a shadow run: the writes of requests and
\* handlers that overtake each other lose no work
\* (enqueue_job_with_outbox, cancel_processing, run_ingestion_for_revision).
THEOREM WaitsHaveAReason == Spec => []WaitingHasReason
<1>1. IInv => WaitingHasReason
  <2> SUFFICES ASSUME IInv, NEW s \in Sources
               PROVE  /\ status[s] = "queued" =>
                            Open(s) # {} \/ \E e \in Ingests(s) : job[e] = "dead_letter"
                      /\ status[s] = "running" =>
                            \E r \in Revisions : SourceOf[r] = s /\ run[r] = "shadow"
    BY DEF WaitingHasReason
  <2>1. \A e : WillSettle(s, e) => Open(s) # {}
    BY DEF WillSettle
  <2> QED
    BY <2>1 DEF IInv, StatusOK, Abandoned, Parsable
<1> QED
  BY <1>1, Invariance, PTL

\* A source shown as succeeded, none of whose runs was a shadow, has an
\* active parse: neither a reused run nor an overtaken write makes a success
\* up (run_ingestion_for_revision).
THEOREM SuccessesReal == Spec => []SuccessWithoutShadow
<1>1. IInv => SuccessWithoutShadow
  <2> SUFFICES ASSUME IInv, NEW s \in Sources, status[s] = "succeeded",
                      \A r \in Revisions : SourceOf[r] = s => run[r] # "shadow"
               PROVE  \E r \in active : SourceOf[r] = s
    BY DEF SuccessWithoutShadow
  <2>1. PICK r \in Revisions : SourceOf[r] = s /\ run[r] \in {"succeeded", "shadow"}
    BY DEF IInv, StatusOK, Parsable
  <2>2. r \in active
    BY <2>1 DEF IInv, RunsOK, PromotionAnnounced
  <2> QED
    BY <2>1, <2>2
<1> QED
  BY <1>1, Invariance, PTL

-----------------------------------------------------------------------------
(* What is recorded is final.                                              *)

Final == RunsStay /\ SettledStays

LEMMA FinalFrame ==
    ASSUME IInv, UNCHANGED <<run, active, attempt>>,
           \A e \in Event : row[e] = "published" =>
              ev'[e] = ev[e] /\ job'[e] \in {job[e], "cancelled"}
    PROVE  Final
  BY DEF Final, RunsStay, SettledStays

\* A new event is none that was published.
LEMMA InsertFinal ==
    ASSUME IInv, NEW x, NEW e \in NextEvents, ev' = [ev EXCEPT ![e] = x]
    PROVE  \A f \in Event : row[f] = "published" => ev'[f] = ev[f] /\ f # e
<1>1. row[e] = "absent"
  BY DEF NextEvents, Absent
<1> QED
  BY <1>1 DEF IInv, TypeOK

LEMMA RequestFinal ==
    ASSUME IInv, FinishRequest
    PROVE  Final
<1>1. UNCHANGED <<run, active, attempt>>
  BY DEF FinishRequest
<1>2. CASE Enqueues(req.op)
  <2>1. PICK e, x : /\ e \in NextEvents /\ ev' = [ev EXCEPT ![e] = x]
                    /\ job' = [job EXCEPT ![e] = "queued"]
    BY <1>2 DEF FinishRequest, Enqueue
  <2>2. \A f \in Event : row[f] = "published" => ev'[f] = ev[f] /\ f # e
    BY <2>1, InsertFinal
  <2>3. \A f \in Event : f # e => job'[f] = job[f]
    BY <2>1 DEF IInv, TypeOK
  <2> QED
    BY <1>1, <2>2, <2>3, FinalFrame
<1>3. CASE ~Enqueues(req.op)
  <2>1. UNCHANGED ev /\ \A e \in Event : job'[e] \in {job[e], "cancelled"}
    BY <1>3 DEF FinishRequest
  <2> QED
    BY <1>1, <2>1, FinalFrame
<1> QED
  BY <1>2, <1>3

LEMMA TombstoneFinal ==
    ASSUME IInv, NEW s \in Sources, Tombstone(s)
    PROVE  Final
<1>1. PICK e \in NextEvents : ev' = [ev EXCEPT ![e] = DeletionEvent(s)]
  BY DEF Tombstone
<1>2. \A f \in Event : row[f] = "published" => ev'[f] = ev[f]
  BY <1>1, InsertFinal
<1> QED
  BY <1>2, FinalFrame DEF Tombstone

\* What a batch commits concerns events that were pending, and runs of
\* revisions that had none.
LEMMA CommitFinal ==
    ASSUME IInv, NEW w \in Workers, Commit(w)
    PROVE  Final
<1>1. PICK new \in SUBSET Absent :
         ev' = [e \in Event |-> IF e \in new THEN Foreign ELSE ev[e]]
  BY DEF Commit, Emissions
<1>2. \A r \in Revisions : run[r] # "none" => run'[r] = run[r]
  BY RunsCommitted DEF Commit
<1>3. active \subseteq active'
  BY DEF Commit
<1>4. ASSUME NEW e \in Event, row[e] = "published"
      PROVE  ev'[e] = ev[e] /\ attempt'[e] = attempt[e] /\ job'[e] = job[e]
  <2>1. e \notin new
    BY <1>1, <1>4 DEF Absent
  <2>2. out[w][e] = "none"
    BY <1>4 DEF IInv, WorkersOK, OutcomeOK, TxOK
  <2>3. e \notin Ran(w) /\ e \notin Did(w, {"dead_letter"})
    BY <2>2 DEF Ran, Did
  <2> QED
    BY <1>1, <2>1, <2>3 DEF Commit
<1> QED
  BY <1>2, <1>3, <1>4 DEF Final, RunsStay, SettledStays

\* A parse run and the pointer to it stay as they were recorded, and a job is
\* settled once, for any workers and requests and whatever they had read
\* (run_ingestion_for_revision, promote_active_parse_run, complete_job,
\* cancel_processing).
THEOREM RecordsAreFinal == Spec => RecordsFinal
<1>1. IInv /\ [Next]_vars => [RunsStay /\ SettledStays]_vars
  <2> SUFFICES ASSUME IInv, Next PROVE Final
    BY DEF Final
  <2>1. ASSUME UNCHANGED <<ev, job, attempt, run, active>> PROVE Final
    BY <2>1, FinalFrame
  <2>2. ASSUME UNCHANGED ledgerVars PROVE Final
    BY <2>1, <2>2 DEF ledgerVars
  <2>3. ASSUME NEW op, NEW r, NEW shadow, Request(op, r, shadow) PROVE Final
    BY <2>2, <2>3 DEF Request
  <2>4. ASSUME NEW e \in Event, ExpireSnapshot(e) \/ ExpireLease(e) PROVE Final
    BY <2>1, <2>2, <2>4 DEF ExpireSnapshot, ExpireLease
  <2>5. ASSUME NEW w \in Workers, Claim(w) \/ Handlers(w) \/ Raise(w) \/ Crash(w) PROVE Final
    BY <2>2, <2>5 DEF Claim, Handlers, Skip, DeadLetter, Start, AdvanceDeletion, Finish, Raise,
                      Crash, Undo
  <2> QED
    BY <2>3, <2>4, <2>5, RequestFinal, TombstoneFinal, CommitFinal DEF Next
<1> QED
  BY <1>1, Invariance, PTL DEF Spec, RecordsFinal

-----------------------------------------------------------------------------
(* The outbox inside: what is proved of it carries over.                   *)

PO == INSTANCE OutboxProofs WITH OneTransaction <- TRUE, MaxRuns <- 2

LEMMA OutboxSteps ==
    /\ \A e \in Event : OB!Insert(e, TRUE) \/ OB!Expire(e) => PO!Next
    /\ \A w \in Workers : OB!Claim(w) \/ OB!Rollback(w) => PO!Next
    /\ \A w \in Workers, e \in Event : OB!Skip(w, e) \/ OB!Handle(w, e) => PO!Next
    /\ \A w \in Workers, new \in SUBSET Event : OB!Commit(w, new, {}) => PO!Next
<1> USE DEF OB!Event, PO!Event, Event, OB!dbVars, PO!dbVars, OB!txVars, PO!txVars
<1>1. ASSUME NEW e \in Event, OB!Insert(e, TRUE) PROVE PO!Next
  <2>1. \E handled \in BOOLEAN : PO!Insert(e, handled)
    BY <1>1 DEF OB!Insert, PO!Insert
  <2> QED
    BY <2>1, Zenon DEF PO!Next
<1>2. ASSUME NEW w \in Workers, OB!Claim(w) PROVE PO!Next
  <2>1. OB!FreshTokens = PO!FreshTokens
    BY DEF OB!FreshTokens, PO!FreshTokens, OB!Token, PO!Token, OB!NoToken, PO!NoToken
  <2>2. OB!Candidates(w) = PO!Candidates(w)
    BY Zenon DEF OB!Candidates, PO!Candidates, OB!Claimable, PO!Claimable, OB!LockedByOther,
                 PO!LockedByOther, OB!Cardinality, PO!Cardinality
  <2>3. PO!Claim(w)
    BY <1>2, <2>1, <2>2 DEF OB!Claim, PO!Claim, OB!Idle, PO!Idle
  <2> QED
    BY <2>3 DEF PO!Next
<1>3. ASSUME NEW w \in Workers, NEW e \in Event, OB!Skip(w, e) \/ OB!Handle(w, e)
      PROVE  PO!Next
  <2>1. OB!Skip(w, e) => PO!Skip(w, e)
    BY DEF OB!Skip, PO!Skip
  <2>2. OB!Handle(w, e) => PO!Handle(w, e)
    BY DEF OB!Handle, PO!Handle, OB!AckMatches, PO!AckMatches, OB!LockedByOther,
           PO!LockedByOther
  <2> QED
    BY <1>3, <2>1, <2>2 DEF PO!Next
<1>4. ASSUME NEW w \in Workers, OB!Rollback(w) PROVE PO!Next
  <2>1. PO!Rollback(w)
    BY <1>4 DEF OB!Rollback, PO!Rollback, OB!Idle, PO!Idle, OB!NoToken, PO!NoToken
  <2> QED
    BY <2>1 DEF PO!Next
<1>5. ASSUME NEW w \in Workers, NEW new \in SUBSET Event, OB!Commit(w, new, {})
      PROVE  PO!Next
  <2>1. PO!Commit(w, new, {})
    BY <1>5 DEF OB!Commit, PO!Commit, OB!LeaseAfter, PO!LeaseAfter, OB!Claimed, PO!Claimed,
                OB!NoToken, PO!NoToken
  <2>2. {} \in SUBSET new
    OBVIOUS
  <2> QED
    BY <2>1, <2>2 DEF PO!Next
<1>6. ASSUME NEW e \in Event, OB!Expire(e) PROVE PO!Next
  <2>1. PO!Expire(e)
    BY <1>6 DEF OB!Expire, PO!Expire
  <2> QED
    BY <2>1 DEF PO!Next
<1> QED
  BY <1>1, <1>2, <1>3, <1>4, <1>5, <1>6

\* Ingestion is a behaviour of the outbox with one transaction per batch:
\* its requests, handlers, commits and crashes change the outbox only as
\* dispatch_outbox_batch and the SQL functions do.
THEOREM RunsTheOutbox == Spec => PO!Spec
<1>1. Init => PO!Init
  BY DEF Init, OB!Init, PO!Init, OB!NoToken, PO!NoToken, OB!Event, PO!Event
<1>2. IInv /\ [Next]_vars => [PO!Next]_(PO!vars)
  <2> SUFFICES ASSUME IInv, [Next]_vars PROVE PO!Next \/ UNCHANGED PO!vars
    OBVIOUS
  <2>1. UNCHANGED outboxVars => UNCHANGED PO!vars
    BY DEF outboxVars, PO!vars, PO!dbVars, PO!txVars
  <2>2. ASSUME NEW op \in Requests, NEW r \in Revisions, NEW shadow \in BOOLEAN,
               Request(op, r, shadow)
        PROVE  UNCHANGED outboxVars
    BY <2>2 DEF Request
  <2>3. CASE FinishRequest
    <3>1. CASE Enqueues(req.op)
      <4>1. PICK e \in Event : OB!Insert(e, TRUE)
        BY <2>3, <3>1 DEF FinishRequest, Enqueue, NextEvents, Absent
      <4> QED
        BY <4>1, OutboxSteps
    <3>2. CASE ~Enqueues(req.op)
      BY <2>1, <2>3, <3>2 DEF FinishRequest
    <3> QED
      BY <3>1, <3>2
  <2>4. ASSUME NEW s \in Sources, Tombstone(s) PROVE PO!Next
    <3>1. PICK e \in Event : OB!Insert(e, TRUE)
      BY <2>4 DEF Tombstone, NextEvents, Absent
    <3> QED
      BY <3>1, OutboxSteps
  <2>5. ASSUME NEW e \in Event, ExpireSnapshot(e) PROVE UNCHANGED outboxVars
    BY <2>5 DEF ExpireSnapshot
  <2>6. ASSUME NEW e \in Event, ExpireLease(e) PROVE PO!Next
    BY <2>6, OutboxSteps DEF ExpireLease
  <2>7. ASSUME NEW w \in Workers, Claim(w) PROVE PO!Next
    BY <2>7, OutboxSteps DEF Claim
  <2>8. ASSUME NEW w \in Workers, Handlers(w) PROVE PO!Next \/ UNCHANGED outboxVars
    <3>1. ASSUME NEW e \in Event, Skip(w, e) \/ DeadLetter(w, e) \/ AdvanceDeletion(w, e)
          PROVE  OB!Skip(w, e) \/ OB!Handle(w, e)
      BY <3>1 DEF Skip, DeadLetter, AdvanceDeletion
    <3>2. ASSUME NEW e \in Event, Start(w, e) PROVE UNCHANGED outboxVars
      BY <3>2 DEF Start
    <3>3. ASSUME Finish(w) PROVE PO!Next
      <4>1. cur[w] # Waiting /\ OB!Handle(w, cur[w].e)
        BY <3>3 DEF Finish
      <4>2. cur[w].e \in todo[w] /\ todo[w] \subseteq Event
        BY <4>1 DEF IInv, WorkersOK, CurOK, TypeOK, OB!TypeOK, OB!Event, Event
      <4>3. PICK e \in Event : e = cur[w].e
        BY <4>2
      <4> QED
        BY <4>1, <4>3, OutboxSteps
    <3> QED
      BY <2>8, <3>1, <3>2, <3>3, OutboxSteps DEF Handlers
  <2>9. ASSUME NEW w \in Workers, Commit(w) PROVE PO!Next
    <3>1. PICK new \in SUBSET Event : OB!Commit(w, new, {})
      BY <2>9 DEF Commit, Emissions, Absent
    <3> QED
      BY <3>1, OutboxSteps
  <2>10. ASSUME NEW w \in Workers, Raise(w) \/ Crash(w) PROVE PO!Next
    <3>1. OB!Rollback(w)
      BY <2>10 DEF Raise, Crash, Undo
    <3> QED
      BY <3>1, OutboxSteps
  <2>11. CASE UNCHANGED vars
    BY <2>1, <2>11 DEF vars
  <2> QED
    BY <2>1, <2>2, <2>3, <2>4, <2>5, <2>6, <2>7, <2>8, <2>9, <2>10, <2>11 DEF Next
<1> QED
  BY <1>1, <1>2, Invariance, PTL DEF Spec, PO!Spec

\* Its parameters are as the outbox assumes them.
LEMMA OutboxParameters ==
    /\ NEvents \in Nat
    /\ BatchSize \in Nat \ {0}
    /\ NTokens \in Nat
    /\ 2 \in Nat \ {0}
    /\ TRUE \in BOOLEAN
  BY IngestionAssumption

\* The effects of every ingestion handler are committed exactly once for a
\* published event and never for another, whatever the handlers do with the
\* other rows of the transaction (dispatch_outbox_batch, process_claimed_event).
THEOREM EffectsExactlyOnce == Spec => []PO!ExactlyOnce
<1>1. PO!Spec => []PO!ExactlyOnce
  BY OutboxParameters, PO!ExactlyOnceHolds
<1> QED
  BY <1>1, RunsTheOutbox, PTL

\* An ingestion or deletion event is published only by a dispatcher that
\* handles its type, after its effects were committed.
THEOREM EventsNeverDiscarded == Spec => []PO!NeverDiscarded
<1>1. PO!Spec => []PO!NeverDiscarded
  BY OutboxParameters, PO!NeverDiscardedHolds
<1> QED
  BY <1>1, RunsTheOutbox, PTL


\* So the events of ingestion obey the delivery contract: the abstract
\* specification of the outbox, two refinements down.
THEOREM DeliveryKept == Spec => PO!ImplementsDelivery
<1>1. PO!Spec => PO!ImplementsDelivery
  BY OutboxParameters, PO!OutboxImplementsDelivery
<1> QED
  BY <1>1, RunsTheOutbox, PTL
=============================================================================
