--------------------------- MODULE DocumentsProofs --------------------------
(***************************************************************************)
(* Saving documents, proved for any documents, keys, handlers and number   *)
(* of revisions, in both deployments.                                      *)
(***************************************************************************)
EXTENDS Documents, TLAPS

\* Ids are fresh: a request in progress has one that nothing is saved under
\* and that no other request has.
IdsFresh ==
    \A h \in Handlers : tx[h].busy =>
        /\ ~rev[tx[h].id].made
        /\ \A g \in Handlers : g # h /\ tx[g].busy => tx[g].id # tx[h].id

\* How far a request is: its record is inserted before the check and its
\* revision saved after it, on a base that was current then.
Progress(t) ==
    /\ t.inserted => /\ t.q.key \in Keys
                     /\ t.at \in {"check", "write", "complete", "close"}
    /\ t.at = "complete" => t.saved
    /\ t.saved => t.at \in {"complete", "close"}
    /\ t.at \in {"lookup", "insert"} => t.q.key \in Keys
    /\ (t.at = "write" \/ t.saved) /\ t.q.base # 0 =>
          rev[t.q.base].made /\ rev[t.q.base].of.doc = t.q.doc

\* A request that goes on under a key is the one the key stands for: it has
\* inserted the record itself, and nobody else has one, or it has found a
\* record of its own that a refused request left.
HoldsKey(t) ==
    t.q.key \in Keys /\ (t.at \in {"check", "write", "complete"} \/ t.inserted \/ t.saved) =>
        IF t.inserted THEN ~record[t.q.key].made
        ELSE record[t.q.key].made /\ record[t.q.key].of = t.q /\ t.q.key \in refused

TxOK ==
    /\ \A h \in Handlers : tx[h].busy => Progress(tx[h]) /\ HoldsKey(tx[h])
    /\ \A g, h \in Handlers :
          g # h /\ tx[g].busy /\ tx[h].busy /\ tx[g].inserted /\ tx[h].inserted =>
              tx[g].q.key # tx[h].q.key

\* What was saved under a key is what its record says.
KeysOK ==
    /\ \A k \in Keys : record[k].made =>
          record[k].of.key = k /\ (record[k].answer = 0 => k \in refused)
    /\ \A i \in Committed : rev[i].of.key \in Keys =>
          LET k == rev[i].of.key
          IN /\ record[k].made /\ record[k].of = rev[i].of
             /\ k \notin refused => record[k].answer = i

IInv == TypeOK /\ IdsFresh /\ TxOK /\ KeysOK /\ RecordedAnswerIsTrue /\ PointersAnnounced

-----------------------------------------------------------------------------
LEMMA AnswerIsId ==
    ASSUME NEW r \in Record, r.answer # 0
    PROVE  r.answer \in RevId
<1>1. r.answer \in 0 .. MaxRev
  BY DEF Record
<1> QED
  BY <1>1, DocumentsAssumption DEF RevId

LEMMA BaseIsId ==
    ASSUME NEW q \in Request, q.base # 0
    PROVE  q.base \in RevId
<1>1. q.base \in 0 .. MaxRev
  BY DEF Request
<1> QED
  BY <1>1, DocumentsAssumption DEF RevId

LEMMA InitIInv == Init => IInv
<1> SUFFICES ASSUME Init PROVE IInv
  OBVIOUS
<1> USE DocumentsAssumption DEF Init, None, Idle
<1>1. TypeOK
  BY DEF TypeOK
<1>2. IdsFresh /\ TxOK
  BY DEF IdsFresh, TxOK
<1>3. KeysOK /\ RecordedAnswerIsTrue /\ PointersAnnounced
  BY DEF KeysOK, RecordedAnswerIsTrue, PointersAnnounced, Committed
<1> QED
  BY <1>1, <1>2, <1>3 DEF IInv

\* A step within a transaction: the database stays, and one handler is
\* somewhere else.
LEMMA TxStep ==
    ASSUME IInv, NEW h \in Handlers, NEW t \in {Idle} \cup Busy,
           tx' = [tx EXCEPT ![h] = t],
           UNCHANGED ledger, answered' \subseteq RevId,
           t.busy => /\ ~rev[t.id].made
                     /\ \A g \in Handlers : g # h /\ tx[g].busy => tx[g].id # t.id
                     /\ Progress(t) /\ HoldsKey(t)
                     /\ t.inserted => \A g \in Handlers :
                           g # h /\ tx[g].busy /\ tx[g].inserted => tx[g].q.key # t.q.key
    PROVE  IInv'
<1> USE DEF IInv, ledger
<1>1. TypeOK'
  BY DEF TypeOK
<1>2. tx'[h] = t /\ \A g \in Handlers : g # h => tx'[g] = tx[g]
  BY DEF TypeOK
<1>3. IdsFresh'
  BY <1>2 DEF IdsFresh
<1>4. TxOK'
  <2>1. ASSUME NEW g \in Handlers, tx'[g].busy PROVE (Progress(tx[g]) /\ HoldsKey(tx[g]))'
    <3>1. Progress(tx'[g]) /\ HoldsKey(tx'[g])
      BY <1>2, <2>1 DEF TxOK
    <3> QED
      BY <3>1 DEF Progress, HoldsKey
  <2>2. ASSUME NEW g \in Handlers, NEW f \in Handlers, g # f, tx'[g].busy, tx'[f].busy,
               tx'[g].inserted, tx'[f].inserted
        PROVE  tx'[g].q.key # tx'[f].q.key
    BY <1>2, <2>2 DEF TxOK
  <2> QED
    BY <2>1, <2>2 DEF TxOK
<1>5. KeysOK' /\ RecordedAnswerIsTrue' /\ PointersAnnounced'
  BY DEF KeysOK, RecordedAnswerIsTrue, PointersAnnounced, Committed
<1> QED
  BY <1>1, <1>3, <1>4, <1>5

-----------------------------------------------------------------------------
LEMMA ReceiveIInv ==
    ASSUME IInv, NEW h \in Handlers, NEW q \in Request, NEW i \in RevId, Receive(h, q, i)
    PROVE  IInv'
<1> DEFINE t == [busy |-> TRUE, q |-> q, id |-> i, inserted |-> FALSE, saved |-> FALSE,
                 at |-> IF q.op = "create" THEN "write"
                        ELSE IF q.key = "none" THEN "check" ELSE "lookup"]
<1>1. t \in Busy
  BY DEF Busy, Phase
<1>2. ~rev[i].made /\ \A g \in Handlers : g # h /\ tx[g].busy => tx[g].id # i
  BY DEF Receive, Fresh, Unused, Committed, Others
<1>3. Progress(t) /\ HoldsKey(t)
  BY DocumentsAssumption DEF Receive, Progress, HoldsKey, Request
<1> QED
  BY <1>1, <1>2, <1>3, TxStep DEF Receive, IInv, TypeOK

LEMMA LookupIInv ==
    ASSUME IInv, NEW h \in Handlers, Lookup(h)
    PROVE  IInv'
<1> DEFINE q == tx[h].q
           known == Seen(record[q.key], None)
           next == IF ~known.made THEN "insert"
                   ELSE IF known.of # q \/ known.answer # 0 THEN "close" ELSE "check"
           t == [tx[h] EXCEPT !.at = next]
<1>1. tx[h] \in Busy /\ tx[h].at = "lookup" /\ tx' = [tx EXCEPT ![h] = t] /\ UNCHANGED ledger
  BY DEF Lookup, At, Goto, IInv, TypeOK, Idle
<1>2. Progress(tx[h]) /\ ~tx[h].inserted /\ ~tx[h].saved /\ q.key \in Keys
  BY <1>1 DEF IInv, TxOK, Progress, Busy
<1>3. t \in Busy
  BY <1>1 DEF Busy, Phase
<1>4. known.made => known = record[q.key] /\ record[q.key] \in Record
  BY <1>2 DEF Seen, None, IInv, TypeOK
<1>5. answered' \subseteq RevId
  <2>1. known.made /\ known.answer # 0 => known.answer \in RevId
    BY <1>4, AnswerIsId
  <2> QED
    BY <2>1 DEF Lookup, IInv, TypeOK
<1>6. Progress(t)
  BY <1>1, <1>2 DEF Progress, Busy
<1>7. HoldsKey(t)
  BY <1>1, <1>2, <1>4 DEF HoldsKey, Busy, IInv, KeysOK
<1> QED
  BY <1>1, <1>2, <1>3, <1>5, <1>6, <1>7, TxStep DEF IInv, IdsFresh, Busy

LEMMA InsertIInv ==
    ASSUME IInv, NEW h \in Handlers, Insert(h)
    PROVE  IInv'
<1> DEFINE k == tx[h].q.key
           t == [tx[h] EXCEPT !.at = "check", !.inserted = TRUE]
<1>1. tx[h] \in Busy /\ tx[h].at = "insert" /\ UNCHANGED <<ledger, answered>>
  BY DEF Insert, At, IInv, TypeOK, Idle
<1>2. k \in Keys /\ ~tx[h].inserted /\ ~tx[h].saved
  BY <1>1 DEF IInv, TxOK, Progress, Busy
<1>3. CASE ~(deployment # "service" /\ ~record[k].made)
  BY <1>1, <1>3, TxStep DEF Insert, IInv, TypeOK, Idle
<1>4. CASE deployment # "service" /\ ~record[k].made
  <2>1. t \in Busy /\ tx' = [tx EXCEPT ![h] = t]
    BY <1>1, <1>4 DEF Busy, Phase, Insert, IInv, TypeOK
  <2>2. Progress(t)
    BY <1>1, <1>2 DEF Progress, Busy
  <2>3. HoldsKey(t)
    BY <1>1, <1>4 DEF HoldsKey, Busy
  <2>4. \A g \in Handlers : g # h /\ tx[g].busy /\ tx[g].inserted => tx[g].q.key # k
    BY DEF Insert, KeyFree, Others
  <2> QED
    BY <1>1, <2>1, <2>2, <2>3, <2>4, TxStep DEF IInv, TypeOK, IdsFresh, Busy
<1> QED
  BY <1>3, <1>4

LEMMA CheckIInv ==
    ASSUME IInv, NEW h \in Handlers, Check(h)
    PROVE  IInv'
<1> DEFINE q == tx[h].q
           seen == Seen(current[q.doc], 0)
           t == [tx[h] EXCEPT !.at = IF q.valid /\ q.base = seen /\ seen # 0
                                     THEN "write" ELSE "close"]
<1>1. tx[h] \in Busy /\ tx[h].at = "check" /\ tx' = [tx EXCEPT ![h] = t]
      /\ UNCHANGED <<ledger, answered>>
  BY DEF Check, At, Goto, IInv, TypeOK, Idle
<1>2. Progress(tx[h]) /\ HoldsKey(tx[h]) /\ ~tx[h].saved
  BY <1>1 DEF IInv, TxOK, Progress, Busy
<1>3. t \in Busy
  BY <1>1 DEF Busy, Phase
<1>4. seen # 0 => seen \in Committed /\ rev[seen].of.doc = q.doc
  BY <1>1 DEF Seen, IInv, PointersAnnounced, Busy, Request
<1>5. Progress(t)
  BY <1>1, <1>2, <1>4 DEF Progress, Busy, Committed
<1>6. HoldsKey(t)
  BY <1>1, <1>2 DEF HoldsKey, Busy
<1> QED
  BY <1>1, <1>2, <1>3, <1>5, <1>6, TxStep DEF IInv, TypeOK, IdsFresh, TxOK, Busy

LEMMA WriteIInv ==
    ASSUME IInv, NEW h \in Handlers, Write(h)
    PROVE  IInv'
  BY TxStep DEF Write, At, IInv, TypeOK, Idle

LEMMA WriteRepairedIInv ==
    ASSUME IInv, NEW h \in Handlers, WriteRepaired(h)
    PROVE  IInv'
<1> DEFINE t == [tx[h] EXCEPT !.at = "complete", !.saved = TRUE]
<1>1. tx[h] \in Busy /\ tx[h].at = "write" /\ UNCHANGED <<ledger, answered>>
  BY DEF WriteRepaired, At, IInv, TypeOK, Idle
<1>2. Progress(tx[h]) /\ HoldsKey(tx[h])
  BY <1>1 DEF IInv, TxOK, Busy
<1>3. t \in Busy /\ tx' = [tx EXCEPT ![h] = t]
  BY <1>1 DEF Busy, Phase, WriteRepaired, IInv, TypeOK
<1>4. Progress(t) /\ HoldsKey(t)
  BY <1>1, <1>2 DEF Progress, HoldsKey, Busy
<1> QED
  BY <1>1, <1>3, <1>4, TxStep DEF IInv, TypeOK, IdsFresh, TxOK, Busy

LEMMA CompleteIInv ==
    ASSUME IInv, NEW h \in Handlers, Complete(h)
    PROVE  IInv'
<1> DEFINE t == [tx[h] EXCEPT !.at = "close"]
<1>1. tx[h] \in Busy /\ tx[h].at = "complete" /\ tx' = [tx EXCEPT ![h] = t] /\ UNCHANGED ledger
  BY DEF Complete, At, Goto, IInv, TypeOK, Idle
<1>2. Progress(tx[h]) /\ HoldsKey(tx[h])
  BY <1>1 DEF IInv, TxOK, Busy
<1>3. t \in Busy /\ answered' \subseteq RevId
  BY <1>1 DEF Busy, Phase, Complete, IInv, TypeOK
<1>4. Progress(t) /\ HoldsKey(t)
  BY <1>1, <1>2 DEF Progress, HoldsKey, Busy
<1> QED
  BY <1>1, <1>3, <1>4, TxStep DEF IInv, TypeOK, IdsFresh, TxOK, Busy

LEMMA UndoIInv ==
    ASSUME IInv, NEW h \in Handlers, Undo(h)
    PROVE  IInv'
  BY TxStep DEF Undo, IInv, TypeOK, Idle

-----------------------------------------------------------------------------
\* The transaction is committed: what it saved, its record and its event
\* appear together.
LEMMA CommitIInv ==
    ASSUME IInv, NEW h \in Handlers, Commit(h)
    PROVE  IInv'
<1> DEFINE t == tx[h]
           k == t.q.key
<1> USE DEF IInv
<1>1. t \in Busy /\ t.at = "close" /\ tx' = [tx EXCEPT ![h] = Idle] /\ h \in Handlers
  BY DEF Commit, At, TypeOK, Idle
<1>2. Progress(t) /\ HoldsKey(t) /\ ~rev[t.id].made /\ t.q \in Request /\ t.id \in RevId
  BY <1>1 DEF TxOK, IdsFresh, Busy
<1>3. \A g \in Handlers : g # h => tx'[g] = tx[g]
  BY <1>1 DEF TypeOK
<1>4. ~tx'[h].busy
  BY <1>1 DEF TypeOK, Idle
<1>5. /\ \A i \in RevId : i # t.id \/ ~t.saved => rev'[i] = rev[i]
      /\ t.saved => rev'[t.id] = [made |-> TRUE, of |-> t.q]
      /\ Committed' = IF t.saved THEN Committed \cup {t.id} ELSE Committed
  BY <1>1, <1>2 DEF Commit, TypeOK, Committed
<1>6. /\ \A j \in Keys : j # k \/ ~(t.inserted \/ t.saved) => record'[j] = record[j]
      /\ k \in Keys /\ (t.inserted \/ t.saved) =>
            record'[k] = [made |-> TRUE, of |-> t.q, answer |-> IF t.saved THEN t.id ELSE 0]
  BY DEF Commit
<1>7. refused \subseteq refused' /\ (t.inserted /\ ~t.saved => k \in refused')
      /\ \A j \in Keys : j \in refused' /\ j \notin refused => j = k /\ ~t.saved /\ t.inserted
  BY DEF Commit
<1>8. TypeOK'
  <2>1. rev' \in [RevId -> {None} \cup Revision]
    <3>1. [made |-> TRUE, of |-> t.q] \in Revision
      BY <1>2 DEF Revision
    <3> QED
      BY <1>2, <3>1 DEF Commit, TypeOK
  <2>2. current' \in [Docs -> 0 .. MaxRev] /\ events' \subseteq RevId
    BY <1>1, <1>2, DocumentsAssumption DEF Commit, TypeOK, RevId, Request
  <2>3. record' \in [Keys -> {None} \cup Record]
    <3>1. ASSUME NEW j \in Keys PROVE record'[j] \in {None} \cup Record
      <4>1. [made |-> TRUE, of |-> t.q, answer |-> IF t.saved THEN t.id ELSE 0] \in Record
        <5>1. (IF t.saved THEN t.id ELSE 0) \in 0 .. MaxRev
          BY <1>2, DocumentsAssumption DEF RevId
        <5> QED
          BY <1>2, <5>1 DEF Record
      <4> QED
        BY <1>6, <4>1 DEF TypeOK
    <3> QED
      BY <3>1 DEF Commit
  <2>4. refused' \subseteq Keys
    BY <1>2 DEF Commit, TypeOK, Progress
  <2>5. tx' \in [Handlers -> {Idle} \cup Busy] /\ answered' \subseteq RevId
        /\ deployment' \in Deployments
    BY <1>1 DEF Commit, TypeOK
  <2> QED
    BY <2>1, <2>2, <2>3, <2>4, <2>5 DEF TypeOK
<1>9. IdsFresh'
  <2> SUFFICES ASSUME NEW g \in Handlers, tx'[g].busy
               PROVE  /\ ~rev'[tx'[g].id].made
                      /\ \A f \in Handlers : f # g /\ tx'[f].busy => tx'[f].id # tx'[g].id
    BY DEF IdsFresh
  <2>1. g # h /\ tx'[g] = tx[g] /\ tx[g] \in Busy
    BY <1>3, <1>4 DEF TypeOK, Idle
  <2>2. tx[g].id # t.id /\ ~rev[tx[g].id].made
    BY <1>1, <2>1 DEF IdsFresh, Busy
  <2> QED
    BY <1>3, <1>4, <1>5, <2>1, <2>2 DEF IdsFresh, Busy
<1>10. \A i \in Committed : i \in Committed' /\ rev'[i] = rev[i]
  BY <1>2, <1>5 DEF Committed
<1>11. ASSUME NEW g \in Handlers, tx'[g].busy PROVE (Progress(tx[g]) /\ HoldsKey(tx[g]))'
  <2>1. g # h /\ tx'[g] = tx[g] /\ tx[g] \in Busy
    BY <1>3, <1>4, <1>11 DEF TypeOK, Idle
  <2>2. Progress(tx[g]) /\ HoldsKey(tx[g])
    BY <1>11, <2>1 DEF TxOK
  <2>3. Progress(tx[g])'
    <3>1. tx[g].q.base # 0 /\ rev[tx[g].q.base].made => tx[g].q.base \in Committed
      BY <2>1, BaseIsId DEF Busy, Committed
    <3> QED
      BY <1>10, <2>1, <2>2, <3>1 DEF Progress, Committed
  <2>4. HoldsKey(tx[g])'
    <3>1. CASE tx[g].q.key # k \/ ~(t.inserted \/ t.saved)
      BY <1>6, <1>7, <2>1, <2>2, <3>1 DEF HoldsKey
    <3>2. CASE tx[g].q.key = k /\ k \in Keys /\ t.inserted
      <4>1. ~record[k].made
        BY <1>1, <1>2, <3>2 DEF HoldsKey
      <4>2. ~tx[g].inserted
        BY <1>1, <2>1, <3>2 DEF TxOK, Busy
      <4> QED
        BY <2>1, <2>2, <3>2, <4>1, <4>2 DEF HoldsKey
    <3>3. CASE tx[g].q.key = k /\ k \in Keys /\ ~t.inserted /\ t.saved
      <4>1. record[k].made /\ record[k].of = t.q /\ k \in refused
        BY <1>1, <1>2, <3>3 DEF HoldsKey
      <4> QED
        BY <1>6, <1>7, <2>1, <2>2, <3>3, <4>1 DEF HoldsKey
    <3>4. CASE k \notin Keys /\ tx[g].q.key = k
      BY <2>1, <3>4 DEF HoldsKey
    <3> QED
      BY <3>1, <3>2, <3>3, <3>4
  <2> QED
    BY <2>3, <2>4
<1>12. TxOK'
  <2>1. ASSUME NEW f \in Handlers, NEW g \in Handlers, f # g, tx'[f].busy, tx'[g].busy,
               tx'[f].inserted, tx'[g].inserted
        PROVE  tx'[f].q.key # tx'[g].q.key
    BY <1>3, <1>4, <2>1 DEF TxOK
  <2> QED
    BY <1>11, <2>1 DEF TxOK
<1>13. KeysOK'
  <2>1. ASSUME NEW j \in Keys, record'[j].made
        PROVE  record'[j].of.key = j /\ (record'[j].answer = 0 => j \in refused')
    BY <1>2, <1>6, <1>7, <2>1, DocumentsAssumption DEF KeysOK, RevId
  <2>2. ASSUME NEW i \in Committed', rev'[i].of.key \in Keys
        PROVE  LET j == rev'[i].of.key
               IN  /\ record'[j].made /\ record'[j].of = rev'[i].of
                   /\ j \notin refused' => record'[j].answer = i
    <3> DEFINE j == rev'[i].of.key
    <3>1. CASE t.saved /\ i = t.id
      BY <1>5, <1>6, <2>2, <3>1
    <3>2. CASE ~(t.saved /\ i = t.id)
      <4>1. i \in Committed /\ rev'[i] = rev[i] /\ j \in Keys
        BY <1>5, <2>2, <3>2 DEF Committed
      <4>2. record[j].made /\ record[j].of = rev[i].of /\ (j \notin refused => record[j].answer = i)
        BY <4>1 DEF KeysOK
      <4>3. CASE j # k \/ ~(t.inserted \/ t.saved)
        BY <1>6, <1>7, <4>1, <4>2, <4>3
      <4>4. CASE j = k /\ (t.inserted \/ t.saved)
        <5>1. ~t.inserted /\ t.saved /\ record[k].of = t.q /\ k \in refused
          BY <1>1, <1>2, <4>1, <4>2, <4>4 DEF HoldsKey
        <5> QED
          BY <1>6, <1>7, <4>1, <4>2, <4>4, <5>1
      <4> QED
        BY <4>3, <4>4
    <3> QED
      BY <3>1, <3>2
  <2> QED
    BY <2>1, <2>2 DEF KeysOK
<1>14. RecordedAnswerIsTrue'
  <2> SUFFICES ASSUME NEW j \in Keys, record'[j].made, record'[j].answer # 0
               PROVE  rev'[record'[j].answer] = [made |-> TRUE, of |-> record'[j].of]
    BY DEF RecordedAnswerIsTrue
  <2>1. CASE record'[j] = record[j]
    <3>1. record[j] \in Record /\ record[j].answer \in RevId
      BY <2>1, AnswerIsId DEF TypeOK, None
    <3>2. rev[record[j].answer] = [made |-> TRUE, of |-> record[j].of]
      BY <2>1 DEF RecordedAnswerIsTrue
    <3> QED
      BY <1>10, <2>1, <3>1, <3>2 DEF Committed
  <2>2. CASE record'[j] # record[j]
    <3>1. record'[j] = [made |-> TRUE, of |-> t.q, answer |-> IF t.saved THEN t.id ELSE 0]
      BY <1>6, <2>2
    <3>2. t.saved /\ record'[j].answer = t.id /\ record'[j].of = t.q
      BY <3>1
    <3> QED
      BY <1>5, <3>2
  <2> QED
    BY <2>1, <2>2
<1>15. PointersAnnounced'
  <2>1. events' = Committed'
    BY <1>5 DEF Commit, PointersAnnounced
  <2>2. ASSUME NEW d \in Docs, current'[d] # 0
        PROVE  current'[d] \in Committed' /\ rev'[current'[d]].of.doc = d
    <3>1. CASE t.saved /\ d = t.q.doc
      BY <1>2, <1>5, <3>1 DEF Commit, TypeOK
    <3>2. CASE ~(t.saved /\ d = t.q.doc)
      <4>1. current'[d] = current[d]
        BY <3>2 DEF Commit, TypeOK
      <4> QED
        BY <1>10, <2>2, <4>1 DEF PointersAnnounced
    <3> QED
      BY <3>1, <3>2
  <2>3. ASSUME NEW i \in Committed', rev'[i].of.base # 0
        PROVE  rev'[i].of.base \in Committed' /\ rev'[rev'[i].of.base].of.doc = rev'[i].of.doc
    <3>1. CASE t.saved /\ i = t.id
      <4>1. t.q.base \in RevId /\ t.q.base \in Committed /\ rev[t.q.base].of.doc = t.q.doc
        BY <1>2, <1>5, <2>3, <3>1, DocumentsAssumption DEF Progress, Committed, Request, RevId
      <4> QED
        BY <1>5, <1>10, <3>1, <4>1
    <3>2. CASE ~(t.saved /\ i = t.id)
      <4>1. i \in Committed /\ rev'[i] = rev[i]
        BY <1>5, <3>2 DEF Committed
      <4> QED
        BY <1>10, <2>3, <4>1 DEF PointersAnnounced
    <3> QED
      BY <3>1, <3>2
  <2> QED
    BY <2>1, <2>2, <2>3 DEF PointersAnnounced
<1> QED
  BY <1>8, <1>9, <1>12, <1>13, <1>14, <1>15

LEMMA NextIInv == IInv /\ [Next]_vars => IInv'
<1> SUFFICES ASSUME IInv, [Next]_vars PROVE IInv'
  OBVIOUS
<1>1. ASSUME NEW h \in Handlers, NEW q \in Request, NEW i \in RevId, Receive(h, q, i)
      PROVE  IInv'
  BY <1>1, ReceiveIInv
<1>2. ASSUME NEW h \in Handlers, Step(h) PROVE IInv'
  BY <1>2, LookupIInv, InsertIInv, CheckIInv, WriteIInv, WriteRepairedIInv,
     CompleteIInv, CommitIInv DEF Step
<1>3. ASSUME NEW h \in Handlers, Undo(h) PROVE IInv'
  BY <1>3, UndoIInv
<1>4. CASE UNCHANGED vars
  <2> USE <1>4 DEF vars, IInv
  <2>1. TypeOK' /\ IdsFresh'
    BY DEF TypeOK, IdsFresh
  <2>2. TxOK'
    BY DEF TxOK, Progress, HoldsKey
  <2>3. KeysOK' /\ RecordedAnswerIsTrue' /\ PointersAnnounced'
    BY DEF KeysOK, RecordedAnswerIsTrue, PointersAnnounced, Committed
  <2> QED
    BY <2>1, <2>2, <2>3
<1> QED
  BY <1>1, <1>2, <1>3, <1>4 DEF Next

LEMMA Induction == Spec => []IInv
  BY InitIInv, NextIInv, PTL DEF Spec

-----------------------------------------------------------------------------
\* The type invariant: revisions, pointers, records and the handlers'
\* transactions stay well formed.
THEOREM TypeCorrect == Spec => []TypeOK
<1>1. IInv => TypeOK
  BY DEF IInv
<1> QED
  BY <1>1, Induction, PTL

\* An idempotency key stands for one request, and begin_idempotency, the
\* unique index and complete_idempotency give it one effect, unless its first
\* request was refused.
THEOREM EffectsOnce == Spec => []EffectOnce
<1>1. IInv => EffectOnce
  <2> SUFFICES ASSUME IInv, NEW i \in Committed, NEW j \in Committed,
                      rev[i].of.key = rev[j].of.key, rev[i].of.key # "none"
               PROVE  /\ rev[i].of = rev[j].of
                      /\ rev[i].of.key \notin refused => i = j
    BY DEF EffectOnce
  <2>1. rev[i] \in Revision
    BY DEF IInv, TypeOK, Committed, None
  <2>2. rev[i].of.key \in Keys
    BY <2>1 DEF Revision, Request
  <2> QED
    BY <2>2 DEF IInv, KeysOK
<1> QED
  BY <1>1, Induction, PTL

\* A repetition of a request is told of a revision that was saved for this
\* very request.
THEOREM AnswersTrue == Spec => []RecordedAnswerIsTrue
<1>1. IInv => RecordedAnswerIsTrue
  BY DEF IInv
<1> QED
  BY <1>1, Induction, PTL

\* memdot_set_current_document_revision and its outbox event: what is saved
\* is announced, pointers name saved revisions of their document, and so do
\* bases.
THEOREM HistoryAnnounced == Spec => []PointersAnnounced
<1>1. IInv => PointersAnnounced
  BY DEF IInv
<1> QED
  BY <1>1, Induction, PTL


-----------------------------------------------------------------------------
(* Refinement.  A commit is where a request takes effect: what it saves is *)
(* added under an id that was free, on a base that is still saved, under a *)
(* key that nobody else has settled but a refused request of its own.      *)

LEMMA CommitSaves ==
    ASSUME IInv, NEW h \in Handlers, Commit(h)
    PROVE  H!Next \/ UNCHANGED H!vars
<1>1. PICK t : t = tx[h]
  OBVIOUS
<1>2. t \in Busy /\ t.at = "close"
  BY <1>1 DEF Commit, At, IInv, TypeOK, Idle
<1>3. Progress(t) /\ HoldsKey(t) /\ ~rev[t.id].made /\ t.q \in Request /\ t.id \in RevId
  BY <1>1, <1>2 DEF IInv, TxOK, IdsFresh, Busy
<1>4. t.inserted \in BOOLEAN /\ t.saved \in BOOLEAN
  BY <1>2 DEF Busy
<1>5. record = [k \in Keys |-> record[k]]
  BY DEF IInv, TypeOK
<1>6. CASE t.saved
  <2>1. rev' = [rev EXCEPT ![t.id] = [made |-> TRUE, of |-> t.q]]
        /\ current' = [current EXCEPT ![t.q.doc] = t.id]
    BY <1>1, <1>6 DEF Commit
  <2>2. H!Based(t.q)
    BY <1>3, <1>6 DEF H!Based, Progress
  <2>3. t.q.key \in Keys /\ record[t.q.key].made =>
           record[t.q.key].of = t.q /\ t.q.key \in refused
    BY <1>3, <1>6 DEF HoldsKey
  <2>4. H!Settle(t.q, t.id)
    <3>1. record' = [k \in Keys |-> IF k = t.q.key
                                    THEN [made |-> TRUE, of |-> t.q, answer |-> t.id]
                                    ELSE record[k]]
      BY <1>1, <1>6 DEF Commit
    <3> QED
      BY <1>5, <3>1 DEF H!Settle
  <2>5. refused' = refused
    BY <1>1, <1>6 DEF Commit
  <2>6. H!Save(t.q, t.id)
    BY <1>3, <2>1, <2>2, <2>3, <2>4, <2>5 DEF H!Save
  <2> QED
    BY <1>3, <2>6 DEF H!Next
<1>7. CASE ~t.saved /\ t.inserted
  <2>1. t.q.key \in Keys /\ ~record[t.q.key].made
    BY <1>3, <1>7 DEF Progress, HoldsKey
  <2>2. rev' = rev /\ current' = current /\ refused' = refused \cup {t.q.key}
    BY <1>1, <1>7 DEF Commit
  <2>3. record' = [k \in Keys |-> IF k = t.q.key
                                  THEN [made |-> TRUE, of |-> t.q, answer |-> 0]
                                  ELSE record[k]]
    BY <1>1, <1>7 DEF Commit
  <2>4. H!Settle(t.q, 0)
    BY <1>5, <2>1, <2>3 DEF H!Settle
  <2>5. H!Refuse(t.q)
    BY <2>1, <2>2, <2>4 DEF H!Refuse
  <2> QED
    BY <1>3, <2>5 DEF H!Next
<1>8. CASE ~t.saved /\ ~t.inserted
  <2>1. rev' = rev /\ current' = current /\ refused' = refused
    BY <1>1, <1>8 DEF Commit
  <2>2. record' = [k \in Keys |-> record[k]]
    BY <1>1, <1>8 DEF Commit
  <2> QED
    BY <1>5, <2>1, <2>2 DEF H!vars
<1> QED
  BY <1>4, <1>6, <1>7, <1>8

\* Whatever overlaps, is lost or repeated, saving is an atomic object: every
\* step of begin_idempotency, save_revision and complete_idempotency before
\* the commit is invisible, and the commit saves or refuses one request as
\* a whole.
THEOREM DocumentsImplementHistory == Spec => ImplementsHistory
<1>1. Init => H!Init
  BY DEF Init, H!Init, None, H!Unsaved
<1>2. IInv /\ [Next]_vars => [H!Next]_H!vars
  <2> SUFFICES ASSUME IInv, [Next]_vars PROVE H!Next \/ UNCHANGED H!vars
    OBVIOUS
  <2>1. ASSUME NEW h \in Handlers, Step(h) PROVE H!Next \/ UNCHANGED H!vars
    <3>1. CASE Commit(h)
      BY <3>1, CommitSaves
    <3>2. CASE ~Commit(h)
      BY <2>1, <3>2 DEF Step, Lookup, Insert, Check, Write, WriteRepaired, Complete, ledger, H!vars
    <3> QED
      BY <3>1, <3>2
  <2>2. ASSUME NEW h \in Handlers,
               Undo(h) \/ \E q \in Request, i \in RevId : Receive(h, q, i)
        PROVE  UNCHANGED H!vars
    BY <2>2 DEF Undo, Receive, ledger, H!vars
  <2>3. CASE UNCHANGED vars
    BY <2>3 DEF vars, H!vars
  <2> QED
    BY <2>1, <2>2, <2>3 DEF Next
<1> QED
  BY <1>1, <1>2, Induction, PTL DEF Spec, ImplementsHistory, H!Spec
=============================================================================
