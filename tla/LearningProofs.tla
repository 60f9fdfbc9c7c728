--------------------------- MODULE LearningProofs ---------------------------
(***************************************************************************)
(* That grades, cards and prerequisites keep the invariants of Learning    *)
(* for any number of handlers, attempts, items and curriculum nodes.       *)
(*                                                                         *)
(* What the evidence of a concept is worth is a fold over a log; that it   *)
(* counts what it should is shown by induction on the length of the log,   *)
(* from the least number of a set (WFMin), and carried into the evidence   *)
(* table by a second invariant on top of the first.                        *)
(***************************************************************************)
EXTENDS Learning, FiniteSetTheorems, WellFoundedInduction, TLAPS

-----------------------------------------------------------------------------
(* The tables.                                                             *)

Tables ==
    /\ edges \subseteq Edge
    /\ attempt \in [AttemptId -> {None} \cup Attempt]
    /\ event \subseteq Event /\ IsFiniteSet(event)
    /\ card \in [Users \X Items -> {None} \cup Card]

Made(a) == attempt[a] # None

AttemptsOK ==
    /\ \A a, b \in AttemptId :
          Made(a) /\ Made(b) /\ attempt[a].client = attempt[b].client
              => a = b \/ attempt[a].client = "none"
    /\ \A e \in event : Made(e.attempt)
    /\ \A a \in AttemptId : Made(a) =>
          (attempt[a].status = "graded") = Recorded("grade_recorded", a)
    /\ \A e, f \in event :
          e.type = "grade_recorded" /\ f.type = "grade_recorded" /\ e.attempt = f.attempt
              => e = f

Right(u, i) == {e \in EligibleGrades(u, i) : e.correct}
Wrong(u, i) == {e \in EligibleGrades(u, i) : ~e.correct}

\* The counters of a card are bounded by the grades that moved it.
Bounded(c, u, i) ==
    c.lapses <= Cardinality(Wrong(u, i)) /\ c.reps <= Cardinality(Right(u, i))

CardsOK ==
    \A u \in Users, i \in Items :
        /\ card[<<u, i>>] = None <=> EligibleGrades(u, i) = {}
        /\ card[<<u, i>>] # None => Bounded(card[<<u, i>>], u, i)

-----------------------------------------------------------------------------
(* The handlers.                                                           *)

\* A transaction is a record of the fields of Idle.
Shape(x) ==
    x = [at |-> x.at, q |-> x.q, id |-> x.id, locks |-> x.locks, seen |-> x.seen,
         card |-> x.card, shown |-> x.shown]

EdgeOK(x) ==
    /\ x.q \in EdgeRequest
    /\ x.at \in {"read", "flush", "commit"}
    /\ x.at # "read" /\ x.q.confirmed =>
          ~would_create_cycle(Confirmed(x.seen), x.q.from, x.q.to)

\* A start holds its client id, and nobody else's.
StartOK(x) ==
    /\ x.q \in StartRequest
    /\ x.at \in {"read", "flush", "commit"}
    /\ x.at # "read" => x.id \in AttemptId /\ ~Made(x.id)
    /\ x.at = "commit" /\ x.q.client # "none" =>
          <<"client", x.q.client>> \in x.locks /\ WithClient(x.q.client) = {}

RevealOK(x) ==
    /\ x.q \in RevealRequest
    /\ x.at \in {"read", "flush", "commit"}
    /\ Made(x.q.attempt)

\* The reveal that a request was preceded by.
Preceded(q) ==
    \E a \in AttemptId : /\ Made(a) /\ attempt[a].client = q.client /\ attempt[a].user = q.user
                         /\ attempt[a].hint \/ attempt[a].answer

Counts(x) ==
    classify_event_eligibility("grade_recorded", x.seen.answer, x.seen.hint, TRUE)

\* A submission has read its attempt with every reveal that preceded it; from
\* the flush on it holds the only grade the attempt can get.
SubmitOK(x) ==
    /\ x.q \in SubmitRequest
    /\ x.at \in Phase
    /\ x.shown \in BOOLEAN
    /\ x.shown => Preceded(x.q)
    /\ x.at # "read" =>
          /\ x.id \in AttemptId /\ Made(x.id)
          /\ attempt[x.id].user = x.q.user /\ attempt[x.id].item = x.q.item
          /\ x.shown => ~Counts(x)
    /\ x.at \in {"card", "flush_card", "commit"} =>
          /\ <<"event", "grade_recorded", x.id>> \in x.locks
          /\ ~Recorded("grade_recorded", x.id)
    /\ x.card = None \/ (x.card \in Card /\ Bounded(x.card, x.q.user, x.q.item))

RebuildOK(x) == x.q \in RebuildRequest /\ x.at \in {"read", "flush", "commit"}

TxOK(x) == x = Idle \/ EdgeOK(x) \/ StartOK(x) \/ RevealOK(x) \/ SubmitOK(x) \/ RebuildOK(x)

Exclusive == \A g, h \in Handlers : g # h => tx[g].locks \cap tx[h].locks = {}

\* No two starts are given the same id.
Starting(x) == x.q \in StartRequest /\ x.at # "read"
StartsApart ==
    \A g, h \in Handlers : g # h /\ Starting(tx[g]) /\ Starting(tx[h]) => tx[g].id # tx[h].id

HandlersOK ==
    /\ tx = [h \in Handlers |-> tx[h]]
    /\ \A h \in Handlers : Shape(tx[h]) /\ TxOK(tx[h])
    /\ Exclusive
    /\ StartsApart

IInv ==
    /\ Tables
    /\ AttemptsOK
    /\ CardsOK
    /\ RevealedNeverCounts
    /\ AcyclicUnlessRaced
    /\ HandlersOK

-----------------------------------------------------------------------------
(* Steps of one handler.                                                   *)

Kept == UNCHANGED <<edges, attempt, event, card, raced>>

LEMMA IdleTx == Shape(Idle) /\ TxOK(Idle) /\ ~Starting(Idle) /\ Idle.locks = {}
<1>1. Shape(Idle) /\ TxOK(Idle) /\ Idle.locks = {}
  BY DEF Shape, Idle, TxOK
<1>2. \A q \in StartRequest : q # None
  BY DEF StartRequest, None
<1> QED
  BY <1>1, <1>2 DEF Starting, Idle

LEMMA TxKept ==
    ASSUME NEW x, TxOK(x), UNCHANGED <<attempt, event>>
    PROVE  TxOK(x)'
<1>1. StartOK(x) => StartOK(x)'
  BY DEF StartOK, Made, WithClient
<1>2. RevealOK(x) => RevealOK(x)'
  BY DEF RevealOK, Made
<1>3. SubmitOK(x) => SubmitOK(x)'
  BY DEF SubmitOK, Made, Preceded, Recorded, Bounded, Right, Wrong, EligibleGrades, Counts
<1>4. EdgeOK(x) => EdgeOK(x)'
  BY DEF EdgeOK
<1>5. RebuildOK(x) => RebuildOK(x)'
  BY DEF RebuildOK
<1> QED
  BY <1>1, <1>2, <1>3, <1>4, <1>5 DEF TxOK

LEMMA TablesKept ==
    ASSUME Kept, Tables /\ AttemptsOK /\ CardsOK /\ RevealedNeverCounts /\ AcyclicUnlessRaced
    PROVE  (Tables /\ AttemptsOK /\ CardsOK /\ RevealedNeverCounts /\ AcyclicUnlessRaced)'
<1>1. (Tables /\ RevealedNeverCounts /\ AcyclicUnlessRaced)'
  BY DEF Kept, Tables, RevealedNeverCounts, AcyclicUnlessRaced, Confirmed
<1>2. AttemptsOK'
  BY DEF Kept, AttemptsOK, Made, Recorded
<1>3. CardsOK'
  <2>1. \A u, i : /\ EligibleGrades(u, i)' = EligibleGrades(u, i)
                  /\ Right(u, i)' = Right(u, i) /\ Wrong(u, i)' = Wrong(u, i)
    BY DEF Kept, EligibleGrades, Right, Wrong
  <2> QED
    BY <2>1 DEF Kept, CardsOK, Bounded
<1> QED
  BY <1>1, <1>2, <1>3

\* The step of a handler that only this handler sees.
LEMMA Moves ==
    ASSUME IInv, NEW h \in Handlers, NEW x, Shape(x), tx' = [tx EXCEPT ![h] = x], Kept,
           TxOK(x),
           \A g \in Others(h) : x.locks \cap tx[g].locks = {},
           Starting(x) => \A g \in Others(h) : Starting(tx[g]) => tx[g].id # x.id
    PROVE  IInv'
<1>1. tx = [g \in Handlers |-> tx[g]]
  BY DEF IInv, HandlersOK
<1>2. /\ tx' = [g \in Handlers |-> tx'[g]]
      /\ tx'[h] = x
      /\ \A g \in Others(h) : tx'[g] = tx[g]
  BY <1>1 DEF Others
<1>3. Exclusive'
  BY <1>2 DEF IInv, HandlersOK, Exclusive, Others
<1>4. StartsApart'
  BY <1>2 DEF IInv, HandlersOK, StartsApart, Starting, Others
<1>5. ASSUME NEW g \in Handlers PROVE (Shape(tx[g]) /\ TxOK(tx[g]))'
  <2>1. PICK y : y = tx'[g]
    OBVIOUS
  <2>2. Shape(y) /\ TxOK(y)
    BY <1>2, <2>1 DEF IInv, HandlersOK, Others
  <2>3. TxOK(y)'
    BY <2>2, TxKept DEF Kept
  <2>4. Shape(y)'
    BY <2>2 DEF Shape
  <2> QED
    BY <2>1, <2>3, <2>4
<1>6. HandlersOK'
  BY <1>2, <1>3, <1>4, <1>5 DEF HandlersOK
<1> QED
  BY <1>6, TablesKept DEF IInv

LEMMA Ends ==
    ASSUME IInv, NEW h \in Handlers, tx' = [tx EXCEPT ![h] = Idle], Kept
    PROVE  IInv'
<1>1. Shape(Idle) /\ TxOK(Idle) /\ ~Starting(Idle) /\ Idle.locks = {}
  BY IdleTx
<1>2. \A g \in Others(h) : Idle.locks \cap tx[g].locks = {}
  BY <1>1
<1> QED
  BY <1>1, <1>2, Moves

LEMMA EndKept == ASSUME NEW h, End(h) PROVE tx' = [tx EXCEPT ![h] = Idle] /\ Kept
  BY DEF End, Kept, unchanged, ledger

LEMMA Quiet ==
    ASSUME IInv, tx' = tx, Kept
    PROVE  IInv'
<1>1. tx' = [h \in Handlers |-> tx'[h]] /\ Exclusive' /\ StartsApart'
  BY DEF IInv, HandlersOK, Exclusive, StartsApart, Starting
<1>2. ASSUME NEW g \in Handlers PROVE (Shape(tx[g]) /\ TxOK(tx[g]))'
  <2>1. PICK y : y = tx[g]
    OBVIOUS
  <2>2. Shape(y) /\ TxOK(y)
    BY <2>1 DEF IInv, HandlersOK
  <2>3. TxOK(y)' /\ Shape(y)'
    BY <2>2, TxKept DEF Kept, Shape
  <2> QED
    BY <2>1, <2>3
<1> QED
  BY <1>1, <1>2, TablesKept DEF IInv, HandlersOK

\* The handler goes on to a flush, with an id and what it has read.
LEMMA ToFlushTx ==
    ASSUME IInv, NEW h \in Handlers, NEW id, NEW seen, ToFlush(h, id, seen),
           NEW x, x = [at |-> "flush", q |-> tx[h].q, id |-> id, locks |-> tx[h].locks,
                       seen |-> seen, card |-> tx[h].card, shown |-> tx[h].shown]
    PROVE  tx' = [tx EXCEPT ![h] = x] /\ Kept /\ Shape(x)
<1>1. PICK t : t = tx[h]
  OBVIOUS
<1>2. Shape(t) /\ tx = [g \in Handlers |-> tx[g]]
  BY <1>1 DEF IInv, HandlersOK
<1>3. [t EXCEPT !.at = "flush", !.id = id, !.seen = seen] = x
  <2>1. PICK at, q, i, locks, s, c, b :
           /\ t = [at |-> at, q |-> q, id |-> i, locks |-> locks, seen |-> s, card |-> c,
                   shown |-> b]
           /\ q = tx[h].q /\ locks = tx[h].locks /\ c = tx[h].card /\ b = tx[h].shown
    BY <1>1, <1>2 DEF Shape
  <2>2. PICK t1 : t1 = [t EXCEPT !.at = "flush"]
    OBVIOUS
  <2>4. t1 = [at |-> "flush", q |-> q, id |-> i, locks |-> locks, seen |-> s, card |-> c,
              shown |-> b]
    BY <2>1, <2>2
  <2>5. PICK t2 : t2 = [t1 EXCEPT !.id = id]
    OBVIOUS
  <2>6. t2 = [at |-> "flush", q |-> q, id |-> id, locks |-> locks, seen |-> s, card |-> c,
              shown |-> b]
    BY <2>4, <2>5
  <2>7. PICK t3 : t3 = [t2 EXCEPT !.seen = seen]
    OBVIOUS
  <2>8. t3 = [at |-> "flush", q |-> q, id |-> id, locks |-> locks, seen |-> seen, card |-> c,
              shown |-> b]
    BY <2>6, <2>7
  <2>9. [t EXCEPT !.at = "flush", !.id = id, !.seen = seen] = t3
    BY <2>2, <2>5, <2>7
  <2>3. x = [at |-> "flush", q |-> q, id |-> id, locks |-> locks, seen |-> seen, card |-> c,
             shown |-> b]
    BY <2>1
  <2> QED
    BY <2>3, <2>8, <2>9
<1>4. tx' = [tx EXCEPT ![h] = [t EXCEPT !.at = "flush", !.id = id, !.seen = seen]]
  BY <1>1, <1>2 DEF ToFlush
<1> QED
  BY <1>3, <1>4 DEF ToFlush, unchanged, ledger, Kept, Shape

LEMMA ToFlushes ==
    ASSUME IInv, NEW h \in Handlers, NEW id, NEW seen, ToFlush(h, id, seen),
           NEW x, x = [at |-> "flush", q |-> tx[h].q, id |-> id, locks |-> tx[h].locks,
                       seen |-> seen, card |-> tx[h].card, shown |-> tx[h].shown],
           TxOK(x),
           Starting(x) => \A g \in Others(h) : Starting(tx[g]) => tx[g].id # x.id
    PROVE  IInv'
<1>1. tx' = [tx EXCEPT ![h] = x] /\ Kept /\ Shape(x)
  BY ToFlushTx
<1>2. \A g \in Others(h) : x.locks \cap tx[g].locks = {}
  BY DEF IInv, HandlersOK, Exclusive, Others
<1> QED
  BY <1>1, <1>2, Moves

\* The flush of rows that are free.
LEMMA FlushTx ==
    ASSUME IInv, NEW h \in Handlers, NEW keys, NEW taken \in BOOLEAN, NEW next,
           Flush(h, keys, taken, next), ~taken,
           NEW x, x = [at |-> next, q |-> tx[h].q, id |-> tx[h].id,
                       locks |-> tx[h].locks \cup keys,
                       seen |-> tx[h].seen, card |-> tx[h].card, shown |-> tx[h].shown]
    PROVE  tx' = [tx EXCEPT ![h] = x] /\ unchanged /\ Shape(x)
<1>1. PICK t : t = tx[h]
  OBVIOUS
<1>2. Shape(t) /\ tx = [g \in Handlers |-> tx[g]]
  BY <1>1 DEF IInv, HandlersOK
<1>3. [t EXCEPT !.at = next, !.locks = @ \cup keys] = x
  <2>1. PICK at, q, i, locks, s, c, b :
           /\ t = [at |-> at, q |-> q, id |-> i, locks |-> locks, seen |-> s, card |-> c,
                   shown |-> b]
           /\ q = tx[h].q /\ i = tx[h].id /\ locks = tx[h].locks /\ s = tx[h].seen
           /\ c = tx[h].card /\ b = tx[h].shown
    BY <1>1, <1>2 DEF Shape
  <2>2. PICK t1 : t1 = [t EXCEPT !.at = next]
    OBVIOUS
  <2>4. t1 = [at |-> next, q |-> q, id |-> i, locks |-> locks, seen |-> s, card |-> c,
              shown |-> b]
    BY <2>1, <2>2
  <2>5. PICK t2 : t2 = [t1 EXCEPT !.locks = @ \cup keys]
    OBVIOUS
  <2>6. t2 = [at |-> next, q |-> q, id |-> i, locks |-> locks \cup keys, seen |-> s,
              card |-> c, shown |-> b]
    BY <2>4, <2>5
  <2>7. [t EXCEPT !.at = next, !.locks = @ \cup keys] = t2
    BY <2>2, <2>4, <2>5, <2>1
  <2>3. x = [at |-> next, q |-> q, id |-> i, locks |-> locks \cup keys, seen |-> s,
             card |-> c, shown |-> b]
    BY <2>1
  <2> QED
    BY <2>3, <2>6, <2>7
<1>4. tx' = [tx EXCEPT ![h] = [t EXCEPT !.at = next, !.locks = @ \cup keys]] /\ unchanged
  BY <1>1, <1>2 DEF Flush
<1> QED
  BY <1>3, <1>4 DEF Shape

LEMMA Flushes ==
    ASSUME IInv, NEW h \in Handlers, NEW keys, NEW taken \in BOOLEAN, NEW next,
           Flush(h, keys, taken, next),
           NEW x, x = [at |-> next, q |-> tx[h].q, id |-> tx[h].id,
                       locks |-> tx[h].locks \cup keys,
                       seen |-> tx[h].seen, card |-> tx[h].card, shown |-> tx[h].shown],
           ~taken => TxOK(x),
           Starting(x) => Starting(tx[h])
    PROVE  IInv'
<1>1. CASE taken
  <2>1. End(h)
    BY <1>1 DEF Flush
  <2> QED
    BY <2>1, EndKept, Ends
<1>2. CASE ~taken
  <2>1. tx' = [tx EXCEPT ![h] = x] /\ unchanged /\ Shape(x)
    BY <1>2, FlushTx
  <2>5. tx' = [tx EXCEPT ![h] = x] /\ Kept /\ Shape(x)
    BY <2>1 DEF unchanged, ledger, Kept
  <2>6. \A g \in Others(h) : x.locks \cap tx[g].locks = {}
    BY DEF IInv, HandlersOK, Exclusive, Others, Flush, Free
  <2>7. Starting(x) => \A g \in Others(h) : Starting(tx[g]) => tx[g].id # x.id
    BY DEF IInv, HandlersOK, StartsApart, Others
  <2> QED
    BY <1>2, <2>5, <2>6, <2>7, Moves
<1> QED
  BY <1>1, <1>2

\* A handler that ends, and has changed tables: the others' knowledge stays.
LEMMA Commits ==
    ASSUME HandlersOK, NEW h \in Handlers, tx' = [tx EXCEPT ![h] = Idle],
           \A g \in Others(h) : \A x : x = tx[g] => TxOK(x)'
    PROVE  HandlersOK'
<1>1. Shape(Idle)' /\ TxOK(Idle)' /\ ~Starting(Idle) /\ Idle.locks = {}
  BY IdleTx DEF TxOK, Shape, Idle
<1>2. /\ tx' = [g \in Handlers |-> tx'[g]]
      /\ tx'[h] = Idle
      /\ \A g \in Others(h) : tx'[g] = tx[g]
  BY <1>1 DEF HandlersOK, Others
<1>3. Exclusive' /\ StartsApart'
  BY <1>1, <1>2 DEF HandlersOK, Exclusive, StartsApart, Starting, Others
<1>4. ASSUME NEW g \in Handlers PROVE (Shape(tx[g]) /\ TxOK(tx[g]))'
  <2>1. PICK y : y = tx'[g]
    OBVIOUS
  <2>2. TxOK(y)' /\ Shape(y)'
    BY <1>1, <1>2, <2>1 DEF Others, HandlersOK, Shape
  <2> QED
    BY <2>1, <2>2
<1> QED
  BY <1>2, <1>3, <1>4 DEF HandlersOK

-----------------------------------------------------------------------------
(* Where it starts, and the steps that touch nothing of the invariant.     *)

LEMMA InitInv == Init => IInv
<1> SUFFICES ASSUME Init PROVE IInv
  OBVIOUS
<1>1. Tables
  <2>1. IsFiniteSet(event)
    BY FS_EmptySet DEF Init
  <2> QED
    BY <2>1 DEF Init, Tables
<1>2. AttemptsOK /\ RevealedNeverCounts
  BY DEF Init, AttemptsOK, RevealedNeverCounts, Made
<1>3. CardsOK
  <2>1. \A u \in Users, i \in Items : card[<<u, i>>] = None /\ EligibleGrades(u, i) = {}
    BY DEF Init, EligibleGrades
  <2> QED
    BY <2>1 DEF CardsOK
<1>4. AcyclicUnlessRaced
  BY DEF Init, AcyclicUnlessRaced, Confirmed, Cyclic
<1>5. \A h \in Handlers : tx[h] = Idle
  BY DEF Init
<1>6. tx = [h \in Handlers |-> tx[h]]
  BY DEF Init
<1>7. HandlersOK
  BY <1>5, <1>6, IdleTx DEF HandlersOK, Exclusive, StartsApart
<1> QED
  BY <1>1, <1>2, <1>3, <1>4, <1>7 DEF IInv

LEMMA QuietSteps ==
    ASSUME IInv,
           \/ create_course \/ (\E n \in Nodes : add_curriculum_node(n))
           \/ (\E i \in Items : create_assessment(i)) \/ LogEvent
    PROVE  IInv'
<1>1. LogEvent => tx' = tx /\ Kept
  <2>1. ASSUME NEW u, NEW c, NEW type, NEW hinted, NEW claimed, NEW rating, NEW at,
               append_learner_event(u, c, type, hinted, claimed, rating, at)
        PROVE  tx' = tx /\ Kept
    <3>1. UNCHANGED <<course, nodes, items, edges, attempt, event, card, evidence, tx, requests,
                      mix, raced>>
      BY <2>1, Zenon DEF append_learner_event
    <3> QED
      BY <3>1 DEF Kept
  <2> QED
    BY <2>1, Zenon DEF LogEvent
<1>2. tx' = tx /\ Kept
  BY <1>1 DEF create_course, add_curriculum_node, create_assessment, Kept
<1> QED
  BY <1>2, Quiet

\* The transaction of a request that has just come in.
Received(q, b) ==
    [at |-> "read", q |-> q, id |-> 0, locks |-> {}, seen |-> None, card |-> None, shown |-> b]

LEMMA ReceiveTx ==
    ASSUME IInv, NEW h \in Handlers, NEW q, Receive(h, q)
    PROVE  \E b \in BOOLEAN : /\ b => q.op = "submit" /\ Preceded(q)
                              /\ tx' = [tx EXCEPT ![h] = Received(q, b)]
<1>1. PICK b \in BOOLEAN : b = (/\ q.op = "submit"
                                /\ \E a \in AttemptId :
                                      /\ attempt[a] # None
                                      /\ attempt[a].client = q.client
                                      /\ attempt[a].user = q.user
                                      /\ attempt[a].hint \/ attempt[a].answer)
  BY Zenon
<1>2. b => q.op = "submit" /\ Preceded(q)
  BY <1>1, Zenon DEF Preceded, Made
<1>3. PICK x : x = Received(q, b)
  OBVIOUS
<1>5. PICK t1 : t1 = [Idle EXCEPT !.at = "read"]
  OBVIOUS
<1>6. t1 = [at |-> "read", q |-> None, id |-> 0, locks |-> {}, seen |-> None, card |-> None,
            shown |-> FALSE]
  BY <1>5 DEF Idle
<1>7. PICK t2 : t2 = [t1 EXCEPT !.q = q]
  OBVIOUS
<1>8. t2 = [at |-> "read", q |-> q, id |-> 0, locks |-> {}, seen |-> None, card |-> None,
            shown |-> FALSE]
  BY <1>6, <1>7
<1>9. PICK t3 : t3 = [t2 EXCEPT !.shown = b]
  OBVIOUS
<1>10. t3 = x
  BY <1>3, <1>8, <1>9 DEF Received
<1>11. [Idle EXCEPT !.at = "read", !.q = q, !.shown = b] = t3
  BY <1>5, <1>7, <1>9
<1>12. tx[h] = Idle /\ tx = [g \in Handlers |-> tx[g]]
  BY DEF IInv, HandlersOK, Receive
<1>13. tx' = [tx EXCEPT ![h].at = "read", ![h].q = q, ![h].shown = b]
  BY <1>1, Zenon DEF Receive
<1>14. tx' = [tx EXCEPT ![h] = [Idle EXCEPT !.at = "read", !.q = q, !.shown = b]]
  BY <1>12, <1>13
<1> QED
  BY <1>2, <1>3, <1>10, <1>11, <1>14

LEMMA Receives ==
    ASSUME IInv, NEW h \in Handlers, NEW q, Receive(h, q),
           \A b \in BOOLEAN : (b => q.op = "submit" /\ Preceded(q)) => TxOK(Received(q, b))
    PROVE  IInv'
<1>1. PICK b \in BOOLEAN : /\ b => q.op = "submit" /\ Preceded(q)
                           /\ tx' = [tx EXCEPT ![h] = Received(q, b)]
  BY ReceiveTx
<1>2. PICK x : x = Received(q, b)
  OBVIOUS
<1>3. TxOK(x) /\ Shape(x) /\ ~Starting(x) /\ x.locks = {}
  <2>1. TxOK(x)
    BY <1>1, <1>2
  <2> QED
    BY <2>1, <1>2 DEF Received, Shape, Starting
<1>4. tx' = [tx EXCEPT ![h] = x] /\ Kept
  BY <1>1, <1>2 DEF Receive, Kept, ledger
<1>5. \A g \in Others(h) : x.locks \cap tx[g].locks = {}
  BY <1>3
<1> QED
  BY <1>3, <1>4, <1>5, Moves

LEMMA ReceiveSteps ==
    ASSUME IInv, NEW h \in Handlers,
           \/ ReceiveEdge(h) \/ ReceiveStart(h) \/ ReceiveReveal(h)
           \/ ReceiveSubmit(h) \/ ReceiveRebuild(h)
    PROVE  IInv'
<1>1. ASSUME NEW q \in EdgeRequest, Receive(h, q) PROVE IInv'
  <2>1. \A b \in BOOLEAN : TxOK(Received(q, b))
    BY <1>1 DEF Received, TxOK, EdgeOK
  <2> QED
    BY <1>1, <2>1, Receives
<1>2. ASSUME NEW q \in StartRequest, Receive(h, q) PROVE IInv'
  <2>1. \A b \in BOOLEAN : TxOK(Received(q, b))
    BY <1>2 DEF Received, TxOK, StartOK
  <2> QED
    BY <1>2, <2>1, Receives
<1>3. ASSUME NEW q \in RevealRequest, attempt[q.attempt] # None, Receive(h, q) PROVE IInv'
  <2>1. \A b \in BOOLEAN : TxOK(Received(q, b))
    BY <1>3 DEF Received, TxOK, RevealOK, Made
  <2> QED
    BY <1>3, <2>1, Receives
<1>4. ASSUME NEW q \in SubmitRequest, Receive(h, q) PROVE IInv'
  <2>1. ASSUME NEW b \in BOOLEAN, b => q.op = "submit" /\ Preceded(q)
        PROVE  TxOK(Received(q, b))
    <3>1. PICK x : x = Received(q, b)
      OBVIOUS
    <3>2. x.q = q /\ x.at = "read" /\ x.shown = b /\ x.card = None
      BY <3>1 DEF Received
    <3>3. SubmitOK(x)
      BY <1>4, <2>1, <3>2 DEF SubmitOK, Phase
    <3> QED
      BY <3>1, <3>3 DEF TxOK
  <2> QED
    BY <1>4, <2>1, Receives
<1>5. ASSUME NEW q \in RebuildRequest, Receive(h, q) PROVE IInv'
  <2>1. \A b \in BOOLEAN : TxOK(Received(q, b))
    BY <1>5 DEF Received, TxOK, RebuildOK
  <2> QED
    BY <1>5, <2>1, Receives
<1> QED
  BY <1>1, <1>2, <1>3, <1>4, <1>5
     DEF ReceiveEdge, ReceiveStart, ReceiveReveal, ReceiveSubmit, ReceiveRebuild

-----------------------------------------------------------------------------
(* Prerequisites.                                                          *)

\* What can be reached is closed under the edges.
LEMMA ReachCloses ==
    ASSUME NEW G, NEW n
    PROVE  /\ n \in Reach(G, n)
           /\ \A e \in G : e[1] \in Reach(G, n) => e[2] \in Reach(G, n)
  BY DEF Reach

\* The search from the new edge's source is enough: in an acyclic graph a
\* cycle that the edge closes is one that can be reached from there.
LEMMA SearchIsEnough ==
    ASSUME NEW E, NEW from, NEW to, ~Cyclic(E), ~would_create_cycle(E, from, to)
    PROVE  ~Cyclic(E \cup {<<from, to>>})
<1>1. PICK G : G = E \cup {<<from, to>>}
  OBVIOUS
<1>2. SUFFICES ASSUME NEW e \in G, e[1] \in Reach(G, e[2]) PROVE FALSE
  BY <1>1 DEF Cyclic
<1>3. PICK R : R = Reach(G, from)
  OBVIOUS
<1>4. from \in R /\ \A d \in G : d[1] \in R => d[2] \in R
  BY <1>3, ReachCloses
<1>5. e[1] \notin R
  BY <1>1, <1>2, <1>3 DEF would_create_cycle
<1>6. e \in E
  BY <1>1, <1>4, <1>5
<1>7. PICK V : V = {e[2]} \cup {d[1] : d \in E} \cup {d[2] : d \in E}
  OBVIOUS
<1>8. PICK W : W = {e[2]} \cup {d[1] : d \in G} \cup {d[2] : d \in G}
  OBVIOUS
<1>9. V \subseteq W
  BY <1>1, <1>7, <1>8
<1>10. R \subseteq W
  <2>1. from \in {d[1] : d \in G}
    <3>1. <<from, to>> \in G /\ <<from, to>>[1] = from
      BY <1>1
    <3> QED
      BY <3>1
  <2> QED
    BY <1>3, <1>8, <2>1 DEF Reach
<1>11. ASSUME NEW S \in SUBSET V, e[2] \in S, \A d \in E : d[1] \in S => d[2] \in S
       PROVE  e[1] \in S
  <2>1. PICK T : T = S \cup R
    OBVIOUS
  <2>2. T \in SUBSET W /\ e[2] \in T
    BY <1>9, <1>10, <1>11, <2>1
  <2>3. ASSUME NEW d \in G, d[1] \in T PROVE d[2] \in T
    <3>1. CASE d \in E
      BY <1>4, <1>11, <2>1, <2>3, <3>1
    <3>2. CASE d = <<from, to>>
      BY <1>4, <2>1, <3>2
    <3> QED
      BY <1>1, <3>1, <3>2
  <2>4. e[1] \in T
    BY <1>2, <1>8, <2>2, <2>3 DEF Reach
  <2> QED
    BY <1>5, <2>1, <2>4
<1>12. e[1] \in V
  BY <1>6, <1>7
<1>13. e[1] \in Reach(E, e[2])
  BY <1>7, <1>11, <1>12 DEF Reach
<1> QED
  BY <1>6, <1>13 DEF Cyclic

LEMMA ConfirmedAdds ==
    ASSUME NEW E, NEW e
    PROVE  Confirmed(E \cup {e}) =
              IF e.confirmed THEN Confirmed(E) \cup {<<e.from, e.to>>} ELSE Confirmed(E)
  BY DEF Confirmed

\* Which of the kinds of transaction the operation says.
LEMMA KindOf ==
    ASSUME IInv, NEW h \in Handlers, NEW x, x = tx[h]
    PROVE  /\ Shape(x)
           /\ x.at # "idle" =>
                 /\ x.q.op = "edge" => EdgeOK(x)
                 /\ x.q.op = "start" => StartOK(x)
                 /\ x.q.op = "reveal" => RevealOK(x)
                 /\ x.q.op = "submit" => SubmitOK(x)
                 /\ x.q.op = "rebuild" => RebuildOK(x)
                 /\ x.at \in {"card", "flush_card"} => SubmitOK(x)
<1>1. Shape(x) /\ TxOK(x)
  BY DEF IInv, HandlersOK
<1>2. /\ EdgeOK(x) => x.q.op = "edge" /\ x.at \notin {"card", "flush_card"}
      /\ StartOK(x) => x.q.op = "start" /\ x.at \notin {"card", "flush_card"}
      /\ RevealOK(x) => x.q.op = "reveal" /\ x.at \notin {"card", "flush_card"}
      /\ SubmitOK(x) => x.q.op = "submit"
      /\ RebuildOK(x) => x.q.op = "rebuild" /\ x.at \notin {"card", "flush_card"}
  BY DEF EdgeOK, EdgeRequest, StartOK, StartRequest, RevealOK, RevealRequest,
         SubmitOK, SubmitRequest, RebuildOK, RebuildRequest
<1>3. x = Idle => x.at = "idle"
  BY DEF Idle
<1> QED
  BY <1>1, <1>2, <1>3 DEF TxOK

LEMMA EdgeSteps ==
    ASSUME IInv, NEW h \in Handlers, ReadEdges(h) \/ FlushEdge(h)
    PROVE  IInv'
<1>1. PICK t : t = tx[h]
  OBVIOUS
<1>2. t.q.op = "edge" /\ t.at # "idle"
  BY <1>1 DEF ReadEdges, FlushEdge, At
<1>3. Shape(t) /\ EdgeOK(t)
  BY <1>1, <1>2, KindOf
<1>4. t.q \in EdgeRequest /\ t.q \notin StartRequest
  BY <1>2, <1>3 DEF EdgeOK, StartRequest
<1>5. CASE ReadEdges(h)
  <2>1. CASE End(h)
    BY <2>1, EndKept, Ends
  <2>2. CASE ~(t.q.confirmed /\ would_create_cycle(Confirmed(edges), t.q.from, t.q.to))
             /\ ToFlush(h, 0, edges)
    <3>1. PICK x : x = [at |-> "flush", q |-> tx[h].q, id |-> 0, locks |-> tx[h].locks,
                        seen |-> edges, card |-> tx[h].card, shown |-> tx[h].shown]
      OBVIOUS
    <3>2. EdgeOK(x) /\ x.q = t.q
      BY <1>1, <1>4, <2>2, <3>1 DEF EdgeOK
    <3>3. TxOK(x) /\ ~Starting(x)
      BY <1>4, <3>2 DEF TxOK, Starting
    <3> QED
      BY <2>2, <3>1, <3>3, ToFlushes
  <2> QED
    BY <1>1, <1>5, <2>1, <2>2 DEF ReadEdges
<1>6. CASE FlushEdge(h)
  <2>1. PICK taken \in BOOLEAN :
           taken = (t.q.from = t.q.to \/ \E e \in edges : e.from = t.q.from /\ e.to = t.q.to)
    OBVIOUS
  <2>2. PICK keys : keys = {<<"edge", t.q.from, t.q.to>>}
    OBVIOUS
  <2>3. Flush(h, keys, taken, "commit") /\ t.at = "flush"
    BY <1>1, <1>6, <2>1, <2>2 DEF FlushEdge, At
  <2>4. PICK x : x = [at |-> "commit", q |-> tx[h].q, id |-> tx[h].id,
                      locks |-> tx[h].locks \cup keys,
                      seen |-> tx[h].seen, card |-> tx[h].card, shown |-> tx[h].shown]
    OBVIOUS
  <2>5. EdgeOK(x) /\ x.q = t.q
    BY <1>1, <1>3, <2>3, <2>4 DEF EdgeOK
  <2>6. TxOK(x) /\ ~Starting(x)
    BY <1>4, <2>5 DEF TxOK, Starting
  <2> QED
    BY <2>3, <2>4, <2>6, Flushes
<1> QED
  BY <1>5, <1>6

\* A prerequisite is committed: if what was checked is still all there is,
\* the search has looked at every cycle that it closes.
LEMMA CommitEdgeStep ==
    ASSUME IInv, NEW h \in Handlers, CommitEdge(h)
    PROVE  IInv'
<1>1. PICK t : t = tx[h]
  OBVIOUS
<1>2. t.q.op = "edge" /\ t.at = "commit"
  BY <1>1 DEF CommitEdge, At
<1>3. EdgeOK(t)
  BY <1>1, <1>2, KindOf
<1>4. PICK f, n, c : /\ f = t.q.from /\ n = t.q.to /\ c = t.q.confirmed
                     /\ f \in Nodes /\ n \in Nodes /\ c \in BOOLEAN
  BY <1>3 DEF EdgeOK, EdgeRequest
<1>5. PICK e : e = [from |-> f, to |-> n, confirmed |-> c]
  OBVIOUS
<1>6. edges' = edges \cup {e}
  BY <1>1, <1>4, <1>5 DEF CommitEdge
<1>7. UNCHANGED <<attempt, event, card>>
  BY DEF CommitEdge
<1>8. edges' \subseteq Edge
  BY <1>4, <1>5, <1>6 DEF Edge, IInv, Tables
<1>9. AcyclicUnlessRaced'
  <2>1. SUFFICES ASSUME ~raced' PROVE ~Cyclic(Confirmed(edges'))
    BY DEF AcyclicUnlessRaced, Confirmed
  <2>2. ~raced /\ (c => Confirmed(t.seen) = Confirmed(edges))
    BY <1>1, <1>4, <2>1 DEF CommitEdge
  <2>3. ~Cyclic(Confirmed(edges))
    BY <2>2 DEF IInv, AcyclicUnlessRaced
  <2>4. Confirmed(edges') =
           IF c THEN Confirmed(edges) \cup {<<f, n>>} ELSE Confirmed(edges)
    BY <1>5, <1>6, ConfirmedAdds
  <2>5. c => ~would_create_cycle(Confirmed(edges), f, n)
    BY <1>2, <1>3, <1>4, <2>2 DEF EdgeOK
  <2>6. c => ~Cyclic(Confirmed(edges) \cup {<<f, n>>})
    BY <2>3, <2>5, SearchIsEnough
  <2> QED
    BY <1>4, <2>3, <2>4, <2>6
<1>10. (Tables /\ AttemptsOK /\ CardsOK /\ RevealedNeverCounts)'
  <2>1. Tables'
    BY <1>7, <1>8 DEF IInv, Tables
  <2>2. AttemptsOK' /\ RevealedNeverCounts'
    BY <1>7 DEF IInv, AttemptsOK, Made, Recorded, RevealedNeverCounts
  <2>3. \A u, i : /\ EligibleGrades(u, i)' = EligibleGrades(u, i)
                  /\ Right(u, i)' = Right(u, i) /\ Wrong(u, i)' = Wrong(u, i)
    BY <1>7 DEF EligibleGrades, Right, Wrong
  <2>4. CardsOK'
    BY <1>7, <2>3 DEF IInv, CardsOK, Bounded
  <2> QED
    BY <2>1, <2>2, <2>4
<1>11. ASSUME NEW g \in Others(h), NEW x, x = tx[g] PROVE TxOK(x)'
  BY <1>7, <1>11, TxKept DEF IInv, HandlersOK, Others
<1>12. HandlersOK'
  <2>1. tx' = [tx EXCEPT ![h] = Idle] /\ HandlersOK
    BY DEF CommitEdge, IInv
  <2> QED
    BY <1>11, <2>1, Commits
<1> QED
  BY <1>9, <1>10, <1>12 DEF IInv

-----------------------------------------------------------------------------
(* What a committed attempt leaves alone.                                  *)

\* An attempt keeps its user, item and client, and what was revealed.
RowsKept ==
    \A a \in AttemptId : Made(a) =>
        /\ attempt'[a] # None
        /\ attempt'[a].user = attempt[a].user
        /\ attempt'[a].item = attempt[a].item
        /\ attempt'[a].client = attempt[a].client
        /\ attempt[a].hint \/ attempt[a].answer => attempt'[a].hint \/ attempt'[a].answer

NewGrades(e, u, i) ==
    {d \in {e} : /\ d.type = "grade_recorded" /\ d.eligible
                 /\ attempt'[d.attempt].user = u /\ attempt'[d.attempt].item = i}

LEMMA GradesAdd ==
    ASSUME Tables, AttemptsOK, RowsKept, NEW e, event' = event \cup {e}, NEW u, NEW i
    PROVE  /\ EligibleGrades(u, i)' = EligibleGrades(u, i) \cup NewGrades(e, u, i)
           /\ Right(u, i)' = Right(u, i) \cup {d \in NewGrades(e, u, i) : d.correct}
           /\ Wrong(u, i)' = Wrong(u, i) \cup {d \in NewGrades(e, u, i) : ~d.correct}
<1>1. \A d \in event : /\ attempt'[d.attempt].user = attempt[d.attempt].user
                       /\ attempt'[d.attempt].item = attempt[d.attempt].item
  BY DEF Tables, AttemptsOK, RowsKept, Event
<1>2. EligibleGrades(u, i)' = EligibleGrades(u, i) \cup NewGrades(e, u, i)
  BY <1>1 DEF EligibleGrades, NewGrades
<1> QED
  BY <1>2 DEF Right, Wrong

LEMMA GradesFinite ==
    ASSUME IsFiniteSet(event), NEW u, NEW i
    PROVE  /\ IsFiniteSet(Right(u, i)) /\ Cardinality(Right(u, i)) \in Nat
           /\ IsFiniteSet(Wrong(u, i)) /\ Cardinality(Wrong(u, i)) \in Nat
<1>1. Right(u, i) \subseteq event /\ Wrong(u, i) \subseteq event
  BY DEF Right, Wrong, EligibleGrades
<1>2. IsFiniteSet(Right(u, i)) /\ IsFiniteSet(Wrong(u, i))
  BY <1>1, FS_Subset
<1> QED
  BY <1>2, FS_CardinalityType

\* With one more event no set of grades gets smaller.
LEMMA GradesGrow ==
    ASSUME Tables, AttemptsOK, RowsKept, NEW e, event' = event \cup {e}, NEW u, NEW i
    PROVE  /\ IsFiniteSet(event')
           /\ Cardinality(Right(u, i)) \in Nat /\ Cardinality(Right(u, i)') \in Nat
           /\ Cardinality(Wrong(u, i)) \in Nat /\ Cardinality(Wrong(u, i)') \in Nat
           /\ Cardinality(Right(u, i)) <= Cardinality(Right(u, i)')
           /\ Cardinality(Wrong(u, i)) <= Cardinality(Wrong(u, i)')
<1>1. IsFiniteSet(event)
  BY DEF Tables
<1>2. IsFiniteSet(event')
  BY <1>1, FS_AddElement
<1>3. PICK R, W, R1, W1 : /\ R = Right(u, i) /\ W = Wrong(u, i)
                          /\ R1 = Right(u, i)' /\ W1 = Wrong(u, i)'
  OBVIOUS
<1>4. R \subseteq R1 /\ W \subseteq W1
  <2>1. /\ Right(u, i)' = Right(u, i) \cup {d \in NewGrades(e, u, i) : d.correct}
        /\ Wrong(u, i)' = Wrong(u, i) \cup {d \in NewGrades(e, u, i) : ~d.correct}
    BY GradesAdd
  <2> QED
    BY <1>3, <2>1
<1>5. R1 \subseteq event' /\ W1 \subseteq event'
  BY <1>3 DEF Right, Wrong, EligibleGrades
<1>6. IsFiniteSet(R1) /\ IsFiniteSet(W1)
  BY <1>2, <1>5, FS_Subset
<1>7. Cardinality(R) <= Cardinality(R1) /\ Cardinality(W) <= Cardinality(W1)
      /\ IsFiniteSet(R) /\ IsFiniteSet(W)
  BY <1>4, <1>6, FS_Subset
<1>8. /\ Cardinality(R) \in Nat /\ Cardinality(W) \in Nat
      /\ Cardinality(R1) \in Nat /\ Cardinality(W1) \in Nat
  BY <1>6, <1>7, FS_CardinalityType
<1> QED
  BY <1>2, <1>3, <1>7, <1>8

LEMMA BoundedKept ==
    ASSUME Tables, AttemptsOK, RowsKept, NEW e, event' = event \cup {e}, NEW u, NEW i,
           NEW c \in Card, Bounded(c, u, i)
    PROVE  Bounded(c, u, i)'
<1>1. PICK r, w, r1, w1 : /\ r = Cardinality(Right(u, i)) /\ w = Cardinality(Wrong(u, i))
                          /\ r1 = Cardinality(Right(u, i)') /\ w1 = Cardinality(Wrong(u, i)')
  OBVIOUS
<1>2. r \in Nat /\ w \in Nat /\ r1 \in Nat /\ w1 \in Nat /\ r <= r1 /\ w <= w1
  BY <1>1, GradesGrow
<1>3. c.reps \in Nat /\ c.lapses \in Nat
  BY DEF Card
<1>4. c.lapses <= w /\ c.reps <= r
  BY <1>1 DEF Bounded
<1>5. c.lapses <= w1 /\ c.reps <= r1
  BY <1>2, <1>3, <1>4
<1> QED
  BY <1>1, <1>5 DEF Bounded

\* What another handler knows of the attempts stays true.
LEMMA KnowledgeKept ==
    ASSUME Tables, AttemptsOK, RowsKept, NEW e, event' = event \cup {e},
           NEW x, TxOK(x),
           StartOK(x) => StartOK(x)',
           SubmitOK(x) /\ x.at \in {"card", "flush_card", "commit"}
               => ~(e.type = "grade_recorded" /\ e.attempt = x.id)
    PROVE  TxOK(x)'
<1>1. RevealOK(x) => RevealOK(x)'
  BY DEF RevealOK, RevealRequest, RowsKept, Made
<1>2. EdgeOK(x) => EdgeOK(x)'
  BY DEF EdgeOK
<1>3. RebuildOK(x) => RebuildOK(x)'
  BY DEF RebuildOK
<1>4. ASSUME SubmitOK(x) PROVE SubmitOK(x)'
  <2>1. x.shown => Preceded(x.q)'
    <3>1. SUFFICES ASSUME x.shown PROVE Preceded(x.q)'
      OBVIOUS
    <3>2. PICK a \in AttemptId :
             /\ Made(a) /\ attempt[a].client = x.q.client /\ attempt[a].user = x.q.user
             /\ attempt[a].hint \/ attempt[a].answer
      BY <1>4, <3>1, Zenon DEF SubmitOK, Preceded
    <3>3. /\ attempt'[a] # None /\ attempt'[a].client = x.q.client
          /\ attempt'[a].user = x.q.user
          /\ attempt'[a].hint \/ attempt'[a].answer
      BY <3>2, Zenon DEF RowsKept
    <3> QED
      BY <3>3, Zenon DEF Preceded, Made, AttemptId
  <2>2. x.at # "read" =>
           /\ x.id \in AttemptId /\ Made(x.id)'
           /\ attempt'[x.id].user = x.q.user /\ attempt'[x.id].item = x.q.item
           /\ x.shown => ~Counts(x)
    BY <1>4 DEF SubmitOK, RowsKept, Made
  <2>3. x.at \in {"card", "flush_card", "commit"} =>
           /\ <<"event", "grade_recorded", x.id>> \in x.locks
           /\ ~Recorded("grade_recorded", x.id)'
    BY <1>4 DEF SubmitOK, Recorded
  <2>4. x.card = None \/ (x.card \in Card /\ Bounded(x.card, x.q.user, x.q.item)')
    <3>1. SUFFICES ASSUME x.card # None
                   PROVE  x.card \in Card /\ Bounded(x.card, x.q.user, x.q.item)'
      OBVIOUS
    <3>2. PICK c, u, i : c = x.card /\ u = x.q.user /\ i = x.q.item
      OBVIOUS
    <3>3. c \in Card /\ Bounded(c, u, i)
      BY <1>4, <3>1, <3>2 DEF SubmitOK
    <3>4. Bounded(c, u, i)'
      BY <3>3, BoundedKept
    <3> QED
      BY <3>2, <3>3, <3>4
  <2>5. x.q \in SubmitRequest /\ x.at \in Phase /\ x.shown \in BOOLEAN
    BY <1>4 DEF SubmitOK
  <2>6. Counts(x)' = Counts(x)
    BY DEF Counts
  <2> QED
    BY <2>1, <2>2, <2>3, <2>4, <2>5, <2>6 DEF SubmitOK
<1> QED
  BY <1>1, <1>2, <1>3, <1>4 DEF TxOK

\* A handler commits an attempt and an event that is no grade.
LEMMA Annotates ==
    ASSUME IInv, NEW h \in Handlers, tx' = [tx EXCEPT ![h] = Idle],
           UNCHANGED <<edges, card, raced>>, RowsKept,
           attempt' \in [AttemptId -> {None} \cup Attempt],
           NEW e \in Event, event' = event \cup {e}, e.type # "grade_recorded",
           AttemptsOK',
           \A g \in Others(h) : \A x : x = tx[g] /\ StartOK(x) => StartOK(x)'
    PROVE  IInv'
<1>1. Tables /\ AttemptsOK /\ CardsOK /\ RevealedNeverCounts /\ HandlersOK
  BY DEF IInv
<1>2. Tables'
  <2>1. IsFiniteSet(event')
    BY <1>1, FS_AddElement DEF Tables
  <2> QED
    BY <1>1, <2>1 DEF Tables
<1>3. RevealedNeverCounts' /\ AcyclicUnlessRaced'
  BY DEF IInv, RevealedNeverCounts, AcyclicUnlessRaced, Confirmed
<1>4. CardsOK'
  <2>1. ASSUME NEW u, NEW i
        PROVE  /\ EligibleGrades(u, i)' = EligibleGrades(u, i)
               /\ Right(u, i)' = Right(u, i) /\ Wrong(u, i)' = Wrong(u, i)
    <3>1. NewGrades(e, u, i) = {}
      BY DEF NewGrades
    <3>2. /\ EligibleGrades(u, i)' = EligibleGrades(u, i) \cup NewGrades(e, u, i)
          /\ Right(u, i)' = Right(u, i) \cup {d \in NewGrades(e, u, i) : d.correct}
          /\ Wrong(u, i)' = Wrong(u, i) \cup {d \in NewGrades(e, u, i) : ~d.correct}
      BY <1>1, GradesAdd
    <3> QED
      BY <3>1, <3>2
  <2> QED
    BY <1>1, <2>1 DEF CardsOK, Bounded
<1>5. ASSUME NEW g \in Others(h), NEW x, x = tx[g] PROVE TxOK(x)'
  <2>1. TxOK(x) /\ (StartOK(x) => StartOK(x)')
    BY <1>1, <1>5 DEF HandlersOK, Others
  <2> QED
    BY <1>1, <2>1, KnowledgeKept
<1>6. HandlersOK'
  BY <1>1, <1>5, Commits
<1> QED
  BY <1>2, <1>3, <1>4, <1>6 DEF IInv

-----------------------------------------------------------------------------
(* Attempts are started.                                                   *)

LEMMA StartSteps ==
    ASSUME IInv, NEW h \in Handlers, ReadStart(h) \/ FlushStart(h)
    PROVE  IInv'
<1>1. PICK t : t = tx[h]
  OBVIOUS
<1>2. t.q.op = "start" /\ t.at # "idle"
  BY <1>1 DEF ReadStart, FlushStart, At
<1>3. Shape(t) /\ StartOK(t)
  BY <1>1, <1>2, KindOf
<1>4. CASE ReadStart(h)
  <2>1. CASE End(h)
    BY <2>1, EndKept, Ends
  <2>2. ASSUME NEW a \in FirstFree(attempt, h), ToFlush(h, a, None) PROVE IInv'
    <3>1. a \in AttemptId /\ Unmade(attempt, h, a)
      BY DEF FirstFree, IInv, Tables
    <3>2. PICK x : x = [at |-> "flush", q |-> tx[h].q, id |-> a, locks |-> tx[h].locks,
                        seen |-> None, card |-> tx[h].card, shown |-> tx[h].shown]
      OBVIOUS
    <3>3. x.q = t.q /\ x.at = "flush" /\ x.id = a
      BY <1>1, <3>2
    <3>4. StartOK(x)
      BY <1>3, <3>1, <3>3 DEF StartOK, Unmade, Made
    <3>5. ASSUME NEW g \in Others(h), Starting(tx[g]) PROVE tx[g].id # x.id
      <4>1. tx[g].q # None /\ tx[g].q.op = "start"
        BY <3>5 DEF Starting, StartRequest, None
      <4> QED
        BY <1>1, <1>2, <3>1, <3>3, <4>1 DEF Unmade
    <3> QED
      BY <2>2, <3>2, <3>4, <3>5, ToFlushes DEF TxOK
  <2> QED
    BY <1>4, <2>1, <2>2 DEF ReadStart
<1>5. CASE FlushStart(h)
  <2>1. PICK taken \in BOOLEAN : taken = (WithClient(t.q.client) # {})
    OBVIOUS
  <2>2. PICK keys : keys = {<<"client", c>> : c \in {t.q.client} \ {"none"}}
    OBVIOUS
  <2>3. Flush(h, keys, taken, "commit") /\ t.at = "flush"
    BY <1>1, <1>5, <2>1, <2>2 DEF FlushStart, At
  <2>4. PICK x : x = [at |-> "commit", q |-> tx[h].q, id |-> tx[h].id,
                      locks |-> tx[h].locks \cup keys,
                      seen |-> tx[h].seen, card |-> tx[h].card, shown |-> tx[h].shown]
    OBVIOUS
  <2>5. x.q = t.q /\ x.at = "commit" /\ x.id = t.id /\ keys \subseteq x.locks
    BY <1>1, <2>4
  <2>6. ~taken => StartOK(x)
    <3>1. t.q.client # "none" => <<"client", t.q.client>> \in keys
      BY <2>2
    <3> QED
      BY <1>3, <2>1, <2>3, <2>5, <3>1 DEF StartOK
  <2>7. Starting(x) => Starting(tx[h])
    BY <1>1, <2>3, <2>5 DEF Starting
  <2> QED
    BY <2>3, <2>4, <2>6, <2>7, Flushes DEF TxOK
<1> QED
  BY <1>4, <1>5

LEMMA CommitStartStep ==
    ASSUME IInv, NEW h \in Handlers, CommitStart(h)
    PROVE  IInv'
<1>1. PICK t : t = tx[h]
  OBVIOUS
<1>2. t.q.op = "start" /\ t.at = "commit"
  BY <1>1 DEF CommitStart, At
<1>3. StartOK(t)
  BY <1>1, <1>2, KindOf
<1>4. PICK a, c : a = t.id /\ c = t.q.client
  OBVIOUS
<1>5. /\ a \in AttemptId /\ attempt[a] = None
      /\ c # "none" => <<"client", c>> \in t.locks /\ WithClient(c) = {}
      /\ t.q \in StartRequest
  BY <1>2, <1>3, <1>4 DEF StartOK, Made
<1>6. PICK row : row = [made |-> TRUE, user |-> t.q.user, item |-> t.q.item, client |-> c,
                        status |-> "in_progress", hint |-> FALSE, answer |-> FALSE]
  OBVIOUS
<1>7. row \in Attempt /\ row # None /\ row.client = c /\ row.status = "in_progress"
  BY <1>4, <1>5, <1>6 DEF Attempt, StartRequest, None
<1>8. PICK e : e = EventOf("attempt_started", a)
  OBVIOUS
<1>9. e \in Event /\ e.type = "attempt_started" /\ e.attempt = a
  BY <1>5, <1>8 DEF EventOf, Event, EventType
<1>10. /\ attempt' = [attempt EXCEPT ![a] = row]
       /\ event' = event \cup {e}
       /\ tx' = [tx EXCEPT ![h] = Idle]
       /\ UNCHANGED <<edges, card, raced>>
  BY <1>1, <1>4, <1>6, <1>8 DEF CommitStart
<1>11. attempt \in [AttemptId -> {None} \cup Attempt]
  BY DEF IInv, Tables
<1>12. /\ attempt' \in [AttemptId -> {None} \cup Attempt]
       /\ attempt'[a] = row
       /\ \A b \in AttemptId : b # a => attempt'[b] = attempt[b]
  BY <1>5, <1>7, <1>10, <1>11
<1>13. RowsKept
  BY <1>5, <1>12 DEF RowsKept, Made
<1>14. AttemptsOK'
  <2>0. AttemptsOK /\ event \subseteq Event
    BY DEF IInv, Tables
  <2>1. ASSUME NEW b \in AttemptId, NEW d \in AttemptId, attempt'[b] # None, attempt'[d] # None,
               attempt'[b].client = attempt'[d].client
        PROVE  b = d \/ attempt'[b].client = "none"
    <3>1. \A k \in AttemptId : attempt[k] # None /\ attempt[k].client = c => c = "none"
      BY <1>5 DEF WithClient
    <3> QED
      BY <1>7, <1>12, <2>0, <2>1, <3>1 DEF AttemptsOK, Made
  <2>2. \A d \in event : d.attempt # a
    BY <1>5, <2>0 DEF AttemptsOK, Made
  <2>3. \A d \in event' : attempt'[d.attempt] # None
    BY <1>7, <1>9, <1>10, <1>12, <2>0 DEF AttemptsOK, Made, Event
  <2>4. ASSUME NEW b \in AttemptId, attempt'[b] # None
        PROVE  (attempt'[b].status = "graded") = Recorded("grade_recorded", b)'
    <3>1. Recorded("grade_recorded", b)' = Recorded("grade_recorded", b)
      BY <1>9, <1>10 DEF Recorded
    <3>2. CASE b = a
      BY <1>7, <1>12, <2>2, <3>1, <3>2 DEF Recorded
    <3>3. CASE b # a
      BY <1>12, <2>0, <2>4, <3>1, <3>3 DEF AttemptsOK, Made
    <3> QED
      BY <3>2, <3>3
  <2>5. \A d, f \in event' :
           d.type = "grade_recorded" /\ f.type = "grade_recorded" /\ d.attempt = f.attempt
               => d = f
    BY <1>9, <1>10, <2>0 DEF AttemptsOK
  <2> QED
    BY <2>1, <2>3, <2>4, <2>5 DEF AttemptsOK, Made, AttemptId
<1>15. ASSUME NEW g \in Others(h), NEW x, x = tx[g] /\ StartOK(x) PROVE StartOK(x)'
  <2>1. x.q \in StartRequest /\ x.at \in {"read", "flush", "commit"}
    BY <1>15 DEF StartOK
  <2>2. x.at # "read" => x.id \in AttemptId /\ ~Made(x.id)'
    <3>1. SUFFICES ASSUME x.at # "read" PROVE x.id \in AttemptId /\ ~Made(x.id)'
      OBVIOUS
    <3>2. Starting(tx[g]) /\ Starting(tx[h])
      BY <1>1, <1>2, <1>5, <1>15, <2>1, <3>1 DEF Starting
    <3>3. x.id # a
      BY <1>1, <1>4, <1>15, <3>2 DEF IInv, HandlersOK, StartsApart, Others
    <3> QED
      BY <1>12, <1>15, <3>1, <3>3 DEF StartOK, Made
  <2>3. x.at = "commit" /\ x.q.client # "none" =>
           <<"client", x.q.client>> \in x.locks /\ WithClient(x.q.client)' = {}
    <3>1. SUFFICES ASSUME x.at = "commit", x.q.client # "none"
                   PROVE  <<"client", x.q.client>> \in x.locks /\ WithClient(x.q.client)' = {}
      OBVIOUS
    <3>2. <<"client", x.q.client>> \in x.locks /\ WithClient(x.q.client) = {}
      BY <1>15, <3>1 DEF StartOK
    <3>3. x.q.client # c
      BY <1>1, <1>5, <1>15, <3>1, <3>2 DEF IInv, HandlersOK, Exclusive, Others
    <3> QED
      BY <1>7, <1>12, <3>2, <3>3 DEF WithClient
  <2> QED
    BY <2>1, <2>2, <2>3 DEF StartOK
<1>16. \A g \in Others(h) : \A x : x = tx[g] /\ StartOK(x) => StartOK(x)'
  BY <1>15
<1> QED
  BY <1>9, <1>10, <1>12, <1>13, <1>14, <1>16, Annotates

-----------------------------------------------------------------------------
(* Hints and answers are revealed.                                         *)

LEMMA RevealSteps ==
    ASSUME IInv, NEW h \in Handlers, ReadReveal(h) \/ FlushReveal(h)
    PROVE  IInv'
<1>1. PICK t : t = tx[h]
  OBVIOUS
<1>2. t.q.op = "reveal" /\ t.at # "idle"
  BY <1>1 DEF ReadReveal, FlushReveal, At
<1>3. Shape(t) /\ RevealOK(t)
  BY <1>1, <1>2, KindOf
<1>4. t.q \notin StartRequest
  BY <1>2 DEF StartRequest
<1>5. CASE ReadReveal(h)
  <2>1. CASE End(h)
    BY <2>1, EndKept, Ends
  <2>2. CASE ToFlush(h, t.q.attempt, None)
    <3>1. PICK a : a = t.q.attempt
      OBVIOUS
    <3>2. ToFlush(h, a, None)
      BY <2>2, <3>1
    <3>3. PICK x : x = [at |-> "flush", q |-> tx[h].q, id |-> a, locks |-> tx[h].locks,
                        seen |-> None, card |-> tx[h].card, shown |-> tx[h].shown]
      OBVIOUS
    <3>4. RevealOK(x) /\ ~Starting(x)
      BY <1>1, <1>3, <1>4, <3>3 DEF RevealOK, Starting
    <3> QED
      BY <3>2, <3>3, <3>4, ToFlushes DEF TxOK
  <2> QED
    BY <1>1, <1>5, <2>1, <2>2 DEF ReadReveal
<1>6. CASE FlushReveal(h)
  <2>1. PICK taken \in BOOLEAN : taken = Recorded(Revealed(t.q), t.q.attempt)
    BY DEF Recorded
  <2>2. PICK keys : keys = {<<"attempt", t.q.attempt>>,
                            <<"event", Revealed(t.q), t.q.attempt>>}
    OBVIOUS
  <2>3. Flush(h, keys, taken, "commit")
    BY <1>1, <1>6, <2>1, <2>2 DEF FlushReveal
  <2>4. PICK x : x = [at |-> "commit", q |-> tx[h].q, id |-> tx[h].id,
                      locks |-> tx[h].locks \cup keys,
                      seen |-> tx[h].seen, card |-> tx[h].card, shown |-> tx[h].shown]
    OBVIOUS
  <2>5. RevealOK(x) /\ ~Starting(x)
    BY <1>1, <1>3, <1>4, <2>4 DEF RevealOK, Starting
  <2> QED
    BY <2>3, <2>4, <2>5, Flushes DEF TxOK
<1> QED
  BY <1>5, <1>6

LEMMA CommitRevealStep ==
    ASSUME IInv, NEW h \in Handlers, CommitReveal(h)
    PROVE  IInv'
<1>1. PICK t : t = tx[h]
  OBVIOUS
<1>2. t.q.op = "reveal" /\ t.at = "commit"
  BY <1>1 DEF CommitReveal, At
<1>3. RevealOK(t)
  BY <1>1, <1>2, KindOf
<1>4. PICK a, hint, answer : a = t.q.attempt /\ hint = t.q.hint /\ answer = t.q.answer
  OBVIOUS
<1>5. /\ a \in AttemptId /\ attempt[a] # None
      /\ hint \in BOOLEAN /\ answer \in BOOLEAN
  BY <1>3, <1>4 DEF RevealOK, RevealRequest, Made
<1>6. attempt \in [AttemptId -> {None} \cup Attempt]
  BY DEF IInv, Tables
<1>7. PICK u, i, c, s, b, d :
         /\ attempt[a] = [made |-> TRUE, user |-> u, item |-> i, client |-> c, status |-> s,
                          hint |-> b, answer |-> d]
         /\ u \in Users /\ i \in Items /\ c \in Client /\ s \in {"in_progress", "graded"}
         /\ b \in BOOLEAN /\ d \in BOOLEAN
  BY <1>5, <1>6 DEF Attempt
<1>8. PICK b1, d1 : /\ b1 = (b \/ hint) /\ d1 = (d \/ answer)
                    /\ b1 \in BOOLEAN /\ d1 \in BOOLEAN
  BY <1>5, <1>7
<1>9. PICK row : row = [made |-> TRUE, user |-> u, item |-> i, client |-> c, status |-> s,
                        hint |-> b1, answer |-> d1]
  OBVIOUS
<1>10. row \in Attempt /\ row # None
  BY <1>7, <1>8, <1>9 DEF Attempt, None
<1>11. attempt' = [attempt EXCEPT ![a] = row]
  <2>1. attempt' = [attempt EXCEPT ![a].hint = @ \/ hint, ![a].answer = @ \/ answer]
    BY <1>1, <1>4 DEF CommitReveal
  <2>2. PICK r : r = attempt[a]
    OBVIOUS
  <2>3. attempt' = [attempt EXCEPT ![a] = [r EXCEPT !.hint = @ \/ hint, !.answer = @ \/ answer]]
    BY <1>5, <1>6, <2>1, <2>2
  <2>8. r.hint = b /\ r.answer = d
    BY <1>7, <2>2
  <2>9. [r EXCEPT !.hint = @ \/ hint, !.answer = @ \/ answer] =
           [r EXCEPT !.hint = b1, !.answer = d1]
    BY <1>8, <2>8
  <2>10. [r EXCEPT !.hint = b1, !.answer = d1] = row
    <3>1. r = [made |-> TRUE, user |-> u, item |-> i, client |-> c, status |-> s,
               hint |-> b, answer |-> d]
      BY <1>7, <2>2, Zenon
    <3>2. PICK r1 : r1 = [r EXCEPT !.hint = b1]
      OBVIOUS
    <3>3. r1 = [made |-> TRUE, user |-> u, item |-> i, client |-> c, status |-> s,
                hint |-> b1, answer |-> d]
      BY <3>1, <3>2
    <3>4. PICK r2 : r2 = [r1 EXCEPT !.answer = d1]
      OBVIOUS
    <3>5. r2 = [made |-> TRUE, user |-> u, item |-> i, client |-> c, status |-> s,
                hint |-> b1, answer |-> d1]
      BY <3>3, <3>4
    <3>6. r2 = row
      BY <1>9, <3>5, Zenon
    <3> QED
      BY <3>2, <3>4, <3>6
  <2> QED
    BY <2>3, <2>9, <2>10
<1>12. PICK type : type = Revealed(t.q)
  OBVIOUS
<1>13. type \in {"answer_revealed", "hint_revealed"}
  BY <1>12 DEF Revealed
<1>14. PICK e : e = EventOf(type, a)
  OBVIOUS
<1>15. e \in Event /\ e.type = type /\ e.type # "grade_recorded" /\ e.attempt = a
  BY <1>5, <1>13, <1>14 DEF EventOf, Event, EventType
<1>16. /\ event' = event \cup {e}
       /\ tx' = [tx EXCEPT ![h] = Idle]
       /\ UNCHANGED <<edges, card, raced>>
  BY <1>1, <1>4, <1>12, <1>14 DEF CommitReveal
<1>17. /\ attempt' \in [AttemptId -> {None} \cup Attempt]
       /\ attempt'[a] = row
       /\ \A k \in AttemptId : k # a => attempt'[k] = attempt[k]
  BY <1>5, <1>6, <1>10, <1>11
<1>18. /\ row.user = attempt[a].user /\ row.item = attempt[a].item
       /\ row.client = attempt[a].client /\ row.status = attempt[a].status
  BY <1>7, <1>9
<1>19. attempt[a].hint \/ attempt[a].answer => row.hint \/ row.answer
  BY <1>5, <1>7, <1>8, <1>9
<1>20. RowsKept
  BY <1>10, <1>17, <1>18, <1>19 DEF RowsKept, Made
<1>21. \A k \in AttemptId : /\ attempt'[k] = None <=> attempt[k] = None
                            /\ attempt'[k].client = attempt[k].client
                            /\ attempt'[k].status = attempt[k].status
  BY <1>5, <1>10, <1>17, <1>18
<1>22. AttemptsOK'
  <2>0. AttemptsOK /\ event \subseteq Event
    BY DEF IInv, Tables
  <2>1. \A k, l \in AttemptId :
           attempt'[k] # None /\ attempt'[l] # None /\ attempt'[k].client = attempt'[l].client
               => k = l \/ attempt'[k].client = "none"
    BY <1>21, <2>0 DEF AttemptsOK, Made
  <2>2. \A d2 \in event' : attempt'[d2.attempt] # None
    BY <1>5, <1>15, <1>16, <1>21, <2>0 DEF AttemptsOK, Made, Event
  <2>3. \A k : Recorded("grade_recorded", k)' = Recorded("grade_recorded", k)
    BY <1>15, <1>16 DEF Recorded
  <2>4. \A k \in AttemptId : attempt'[k] # None =>
           (attempt'[k].status = "graded") = Recorded("grade_recorded", k)'
    BY <1>21, <2>0, <2>3 DEF AttemptsOK, Made
  <2>5. \A d2, f \in event' :
           d2.type = "grade_recorded" /\ f.type = "grade_recorded" /\ d2.attempt = f.attempt
               => d2 = f
    BY <1>15, <1>16, <2>0 DEF AttemptsOK
  <2> QED
    BY <2>1, <2>2, <2>4, <2>5 DEF AttemptsOK, Made, AttemptId
<1>23. ASSUME NEW g \in Others(h), NEW x, x = tx[g] /\ StartOK(x) PROVE StartOK(x)'
  BY <1>21, <1>23 DEF StartOK, Made, WithClient
<1>24. \A g \in Others(h) : \A x : x = tx[g] /\ StartOK(x) => StartOK(x)'
  BY <1>23
<1> QED
  BY <1>15, <1>16, <1>17, <1>20, <1>22, <1>24, Annotates

-----------------------------------------------------------------------------
(* Attempts are submitted.                                                 *)

\* What was revealed before the request is in the attempt that it reads: the
\* client id has one attempt.
LEMMA SeesReveals ==
    ASSUME Tables, AttemptsOK, NEW q \in SubmitRequest, Preceded(q),
           NEW a \in AttemptId, Made(a), attempt[a].client = q.client
    PROVE  attempt[a].hint \/ attempt[a].answer
<1>1. PICK b \in AttemptId :
         /\ Made(b) /\ attempt[b].client = q.client
         /\ attempt[b].hint \/ attempt[b].answer
  BY Zenon DEF Preceded
<1>2. q.client # "none"
  BY LearningAssumption DEF SubmitRequest
<1>3. a = b
  BY <1>1, <1>2 DEF AttemptsOK
<1> QED
  BY <1>1, <1>3

LEMMA ReadSubmitStep ==
    ASSUME IInv, NEW h \in Handlers, ReadSubmit(h)
    PROVE  IInv'
<1>1. PICK t : t = tx[h]
  OBVIOUS
<1>2. t.q.op = "submit" /\ t.at = "read"
  BY <1>1 DEF ReadSubmit, At
<1>3. Shape(t) /\ SubmitOK(t)
  BY <1>1, <1>2, KindOf
<1>4. t.q \notin StartRequest
  BY <1>2 DEF StartRequest
<1>5. CASE End(h)
  BY <1>5, EndKept, Ends
<1>6. ASSUME NEW a \in WithClient(t.q.client), attempt[a].user = t.q.user,
             attempt[a].item = t.q.item, ToFlush(h, a, attempt[a])
      PROVE  IInv'
  <2>1. a \in AttemptId /\ Made(a) /\ attempt[a].client = t.q.client
    BY DEF WithClient, Made
  <2>2. PICK seen : seen = attempt[a]
    OBVIOUS
  <2>3. ToFlush(h, a, seen)
    BY <1>6, <2>2
  <2>4. PICK x : x = [at |-> "flush", q |-> tx[h].q, id |-> a, locks |-> tx[h].locks,
                      seen |-> seen, card |-> tx[h].card, shown |-> tx[h].shown]
    OBVIOUS
  <2>5. /\ x.at = "flush" /\ x.q = t.q /\ x.id = a /\ x.seen = seen
        /\ x.card = t.card /\ x.shown = t.shown
    BY <1>1, <2>4
  <2>6. x.shown => ~Counts(x)
    <3>1. t.shown => attempt[a].hint \/ attempt[a].answer
      BY <1>3, <2>1, SeesReveals DEF IInv, SubmitOK
    <3> QED
      BY <2>2, <2>5, <3>1 DEF Counts, classify_event_eligibility
  <2>7. SubmitOK(x)
    BY <1>3, <1>6, <2>1, <2>5, <2>6 DEF SubmitOK, Phase
  <2>8. TxOK(x) /\ ~Starting(x)
    BY <1>4, <2>5, <2>7 DEF TxOK, Starting
  <2> QED
    BY <2>3, <2>4, <2>8, ToFlushes
<1> QED
  BY <1>1, <1>5, <1>6 DEF ReadSubmit

LEMMA SubmitSteps ==
    ASSUME IInv, NEW h \in Handlers, FlushSubmit(h) \/ ReadCard(h) \/ FlushCard(h)
    PROVE  IInv'
<1>1. PICK t : t = tx[h]
  OBVIOUS
<1>2. SubmitOK(t) /\ Shape(t)
  BY <1>1, KindOf DEF FlushSubmit, ReadCard, FlushCard, At
<1>3. t.q \in SubmitRequest /\ t.q \notin StartRequest
  BY <1>2 DEF SubmitOK, SubmitRequest, StartRequest
<1>4. CASE FlushSubmit(h)
  <2>1. PICK taken \in BOOLEAN : taken = Recorded("grade_recorded", t.id)
    BY DEF Recorded
  <2>2. PICK keys : keys = {<<"attempt", t.id>>, <<"event", "grade_recorded", t.id>>}
    OBVIOUS
  <2>3. PICK next : next = IF Eligible(h) THEN "card" ELSE "commit"
    OBVIOUS
  <2>4. Flush(h, keys, taken, next) /\ t.at = "flush"
    BY <1>1, <1>4, <2>1, <2>2, <2>3 DEF FlushSubmit, At
  <2>5. PICK x : x = [at |-> next, q |-> tx[h].q, id |-> tx[h].id,
                      locks |-> tx[h].locks \cup keys,
                      seen |-> tx[h].seen, card |-> tx[h].card, shown |-> tx[h].shown]
    OBVIOUS
  <2>6. /\ x.at = next /\ x.q = t.q /\ x.id = t.id /\ x.seen = t.seen
        /\ x.card = t.card /\ x.shown = t.shown
        /\ <<"event", "grade_recorded", x.id>> \in x.locks
    BY <1>1, <2>2, <2>5
  <2>7. next \in {"card", "commit"} /\ Counts(x) = Counts(t)
    BY <2>3, <2>6 DEF Counts
  <2>8. ~taken => SubmitOK(x)
    BY <1>2, <2>1, <2>4, <2>6, <2>7 DEF SubmitOK, Phase
  <2>9. ~Starting(x)
    BY <1>3, <2>6 DEF Starting
  <2> QED
    BY <2>4, <2>5, <2>8, <2>9, Flushes DEF TxOK
<1>5. CASE ReadCard(h)
  <2>1. t.at = "card"
    BY <1>1, <1>5 DEF ReadCard, At
  <2>2. PICK u, i : u = t.q.user /\ i = t.q.item /\ u \in Users /\ i \in Items
    BY <1>3 DEF SubmitRequest
  <2>3. PICK c : c = card[<<u, i>>]
    OBVIOUS
  <2>4. c = None \/ (c \in Card /\ Bounded(c, u, i))
    BY <2>2, <2>3 DEF IInv, Tables, CardsOK
  <2>5. PICK x : x = [at |-> "flush_card", q |-> t.q, id |-> t.id, locks |-> t.locks,
                      seen |-> t.seen, card |-> c, shown |-> t.shown]
    OBVIOUS
  <2>6. x = [t EXCEPT !.at = "flush_card", !.card = c]
    <3>1. PICK at, q, i1, locks, s, c1, b :
             /\ t = [at |-> at, q |-> q, id |-> i1, locks |-> locks, seen |-> s, card |-> c1,
                     shown |-> b]
             /\ q = t.q /\ i1 = t.id /\ locks = t.locks /\ s = t.seen /\ b = t.shown
      BY <1>2 DEF Shape
    <3>2. PICK t1 : t1 = [t EXCEPT !.at = "flush_card"]
      OBVIOUS
    <3>3. t1 = [at |-> "flush_card", q |-> q, id |-> i1, locks |-> locks, seen |-> s,
                card |-> c1, shown |-> b]
      BY <3>1, <3>2
    <3>4. PICK t2 : t2 = [t1 EXCEPT !.card = c]
      OBVIOUS
    <3>5. t2 = [at |-> "flush_card", q |-> q, id |-> i1, locks |-> locks, seen |-> s,
                card |-> c, shown |-> b]
      BY <3>3, <3>4
    <3>6. t2 = x
      BY <2>5, <3>1, <3>5
    <3> QED
      BY <3>2, <3>4, <3>6
  <2>7. tx = [g \in Handlers |-> tx[g]]
    BY DEF IInv, HandlersOK
  <2>8. tx' = [tx EXCEPT ![h].at = "flush_card", ![h].card = c] /\ unchanged
    BY <1>1, <1>5, <2>2, <2>3 DEF ReadCard
  <2>9. tx' = [tx EXCEPT ![h] = [t EXCEPT !.at = "flush_card", !.card = c]]
    BY <1>1, <2>7, <2>8
  <2>10. tx' = [tx EXCEPT ![h] = x] /\ Kept /\ Shape(x)
    BY <2>5, <2>6, <2>8, <2>9 DEF unchanged, ledger, Kept, Shape
  <2>11. /\ x.at = "flush_card" /\ x.q = t.q /\ x.id = t.id /\ x.seen = t.seen
         /\ x.card = c /\ x.shown = t.shown /\ x.locks = t.locks
    BY <2>5
  <2>12. Counts(x) = Counts(t)
    BY <2>11 DEF Counts
  <2>13. SubmitOK(x)
    BY <1>2, <2>1, <2>2, <2>4, <2>11, <2>12 DEF SubmitOK, Phase
  <2>14. TxOK(x) /\ ~Starting(x)
    BY <1>3, <2>11, <2>13 DEF TxOK, Starting
  <2>15. \A g \in Others(h) : x.locks \cap tx[g].locks = {}
    BY <1>1, <2>11 DEF IInv, HandlersOK, Exclusive, Others
  <2> QED
    BY <2>10, <2>14, <2>15, Moves
<1>6. CASE FlushCard(h)
  <2>1. PICK taken \in BOOLEAN :
           taken = (t.card = None /\ card[<<t.q.user, t.q.item>>] # None)
    OBVIOUS
  <2>2. PICK keys : keys = {<<"card", t.q.user, t.q.item>>}
    OBVIOUS
  <2>3. Flush(h, keys, taken, "commit") /\ t.at = "flush_card"
    BY <1>1, <1>6, <2>1, <2>2 DEF FlushCard, At
  <2>4. PICK x : x = [at |-> "commit", q |-> tx[h].q, id |-> tx[h].id,
                      locks |-> tx[h].locks \cup keys,
                      seen |-> tx[h].seen, card |-> tx[h].card, shown |-> tx[h].shown]
    OBVIOUS
  <2>5. /\ x.at = "commit" /\ x.q = t.q /\ x.id = t.id /\ x.seen = t.seen
        /\ x.card = t.card /\ x.shown = t.shown /\ t.locks \subseteq x.locks
    BY <1>1, <2>4
  <2>6. Counts(x) = Counts(t)
    BY <2>5 DEF Counts
  <2>7. SubmitOK(x)
    BY <1>2, <2>3, <2>5, <2>6 DEF SubmitOK, Phase
  <2>8. TxOK(x) /\ ~Starting(x)
    BY <1>3, <2>5, <2>7 DEF TxOK, Starting
  <2> QED
    BY <2>3, <2>4, <2>8, Flushes
<1> QED
  BY <1>4, <1>5, <1>6

LEMMA CardFields ==
    ASSUME NEW m \in Nat, NEW n \in Nat, NEW s, s = [reps |-> m, lapses |-> n]
    PROVE  s \in Card /\ s.reps = m /\ s.lapses = n
  BY DEF Card

LEMMA OneRep ==
    ASSUME NEW m \in Nat, NEW n \in Nat, NEW k \in Nat, k = m + 1,
           NEW c, c = [reps |-> m, lapses |-> n],
           NEW s, s = [c EXCEPT !.reps = @ + 1]
    PROVE  s = [reps |-> k, lapses |-> n]
<1>1. c.reps = m
  OBVIOUS
<1>2. s = [c EXCEPT !.reps = k]
  BY <1>1
<1> QED
  BY <1>2

\* A card that is bounded by r right and w wrong grades is bounded by one more.
LEMMA ScheduledWithin ==
    ASSUME NEW c \in Card, NEW r \in Nat, NEW w \in Nat, c.lapses <= w, c.reps <= r,
           NEW right \in BOOLEAN,
           NEW s, s = schedule(c, map_outcome_to_rating(right, FALSE, FALSE))
    PROVE  /\ s \in Card
           /\ right => s.reps <= r + 1 /\ s.lapses <= w
           /\ ~right => s.reps <= r /\ s.lapses <= w + 1
<1>1. PICK rc \in Nat, lc \in Nat : c = [reps |-> rc, lapses |-> lc]
  BY DEF Card
<1>2. lc <= w /\ rc <= r /\ c.reps = rc /\ c.lapses = lc
  BY <1>1
<1>3. CASE right
  <2>1. PICK m \in Nat : m = rc + 1 /\ m <= r + 1
    BY <1>2
  <2>2. s = [c EXCEPT !.reps = @ + 1]
    BY <1>3 DEF schedule, map_outcome_to_rating
  <2>3. s = [reps |-> m, lapses |-> lc]
    BY <1>1, <2>1, <2>2, OneRep
  <2>5. s \in Card /\ s.reps = m /\ s.lapses = lc
    BY <2>3, CardFields
  <2> QED
    BY <1>2, <1>3, <2>1, <2>5
<1>4. CASE ~right
  <2>1. PICK n \in Nat : n = lc + 1 /\ n <= w + 1
    BY <1>2
  <2>2. s = [reps |-> 0, lapses |-> n]
    BY <1>2, <1>4, <2>1 DEF schedule, map_outcome_to_rating
  <2>3. s \in Card /\ s.reps = 0 /\ s.lapses = n
    BY <2>2, CardFields
  <2>4. 0 <= r
    OBVIOUS
  <2>5. s.reps <= r /\ s.lapses <= w + 1
    BY <2>1, <2>3, <2>4
  <2> QED
    BY <1>4, <2>3, <2>5, Zenon
<1> QED
  BY <1>3, <1>4

LEMMA CardMade == \A c \in Card : c # None
<1>1. \A c \in Card : c = [reps |-> c.reps, lapses |-> c.lapses]
  BY DEF Card
<1>2. DOMAIN None = {"made"} /\ \A c \in Card : DOMAIN c = {"reps", "lapses"}
  BY <1>1 DEF None
<1> QED
  BY <1>2

\* One more grade, right or wrong, is one more.
LEMMA OneMore ==
    ASSUME NEW S, IsFiniteSet(S), NEW e, e \notin S
    PROVE  /\ Cardinality(S) \in Nat
           /\ Cardinality(S \cup {e}) = Cardinality(S) + 1
  BY FS_AddElement, FS_CardinalityType

LEMMA CardMoves ==
    ASSUME Tables, AttemptsOK, RowsKept, NEW e, event' = event \cup {e}, e \notin event,
           NEW u, NEW i, NewGrades(e, u, i) = {e}, e.correct \in BOOLEAN,
           NEW c \in Card, Bounded(c, u, i),
           NEW s, s = schedule(c, map_outcome_to_rating(e.correct, FALSE, FALSE))
    PROVE  s \in Card /\ Bounded(s, u, i)'
<1>1. PICK R, W, R1, W1 : /\ R = Right(u, i) /\ W = Wrong(u, i)
                          /\ R1 = Right(u, i)' /\ W1 = Wrong(u, i)'
  OBVIOUS
<1>2. /\ Right(u, i)' = Right(u, i) \cup {d \in NewGrades(e, u, i) : d.correct}
      /\ Wrong(u, i)' = Wrong(u, i) \cup {d \in NewGrades(e, u, i) : ~d.correct}
  BY GradesAdd
<1>3. /\ e.correct => R1 = R \cup {e} /\ W1 = W
      /\ ~e.correct => R1 = R /\ W1 = W \cup {e}
  BY <1>1, <1>2
<1>4. IsFiniteSet(R) /\ IsFiniteSet(W) /\ e \notin R /\ e \notin W
  <2>1. IsFiniteSet(event)
    BY DEF Tables
  <2>2. IsFiniteSet(R) /\ IsFiniteSet(W)
    BY <1>1, <2>1, GradesFinite
  <2>3. R \subseteq event /\ W \subseteq event
    BY <1>1 DEF Right, Wrong, EligibleGrades
  <2> QED
    BY <2>2, <2>3
<1>5. /\ Cardinality(R) \in Nat /\ Cardinality(R \cup {e}) = Cardinality(R) + 1
      /\ Cardinality(W) \in Nat /\ Cardinality(W \cup {e}) = Cardinality(W) + 1
  BY <1>4, OneMore
<1>6. PICK r \in Nat, w \in Nat : r = Cardinality(R) /\ w = Cardinality(W)
  BY <1>5
<1>7. c.lapses <= w /\ c.reps <= r
  BY <1>1, <1>6 DEF Bounded
<1>8. PICK right \in BOOLEAN : right = e.correct
  OBVIOUS
<1>9. s = schedule(c, map_outcome_to_rating(right, FALSE, FALSE))
  BY <1>8
<1>10. /\ s \in Card
       /\ right => s.reps <= r + 1 /\ s.lapses <= w
       /\ ~right => s.reps <= r /\ s.lapses <= w + 1
  BY <1>7, <1>9, ScheduledWithin
<1>11. /\ right => Cardinality(R1) = r + 1 /\ Cardinality(W1) = w
       /\ ~right => Cardinality(R1) = r /\ Cardinality(W1) = w + 1
  BY <1>3, <1>5, <1>6, <1>8
<1>12. s.reps <= Cardinality(R1) /\ s.lapses <= Cardinality(W1)
  BY <1>10, <1>11
<1> QED
  BY <1>1, <1>10, <1>12 DEF Bounded

\* A grade is committed, with the card if it counts.
LEMMA CommitSubmitStep ==
    ASSUME IInv, NEW h \in Handlers, CommitSubmit(h)
    PROVE  IInv'
<1>1. PICK t : t = tx[h]
  OBVIOUS
<1>2. t.q.op = "submit" /\ t.at = "commit"
  BY <1>1 DEF CommitSubmit, At
<1>3. SubmitOK(t)
  BY <1>1, <1>2, KindOf
<1>4. PICK a, u, i, right : /\ a = t.id /\ u = t.q.user /\ i = t.q.item /\ right = t.q.right
                            /\ u \in Users /\ i \in Items /\ right \in BOOLEAN
  BY <1>3 DEF SubmitOK, SubmitRequest
<1>5. /\ a \in AttemptId /\ attempt[a] # None /\ attempt[a].user = u /\ attempt[a].item = i
      /\ ~Recorded("grade_recorded", a) /\ <<"event", "grade_recorded", a>> \in t.locks
      /\ t.card = None \/ (t.card \in Card /\ Bounded(t.card, u, i))
      /\ t.shown \in BOOLEAN
  BY <1>2, <1>3, <1>4 DEF SubmitOK, Made
<1>6. PICK counts \in BOOLEAN : counts = Eligible(h)
  BY DEF Eligible, classify_event_eligibility
<1>7. t.shown => ~counts
  <2>1. Counts(t) = Eligible(h)
    BY <1>1 DEF Counts, Eligible
  <2> QED
    BY <1>2, <1>3, <1>6, <2>1 DEF SubmitOK
<1>8. PICK shown \in BOOLEAN : shown = t.shown
  BY <1>5
<1>9. PICK e : e = [type |-> "grade_recorded", attempt |-> a, eligible |-> counts,
                    correct |-> right, shown |-> shown]
  OBVIOUS
<1>10. /\ e \in Event
       /\ e.type = "grade_recorded" /\ e.attempt = a /\ e.eligible = counts
       /\ e.correct = right /\ e.shown = shown
  BY <1>4, <1>5, <1>9 DEF Event, EventType
<1>11. e \notin event /\ \A d \in event : d.type = "grade_recorded" => d.attempt # a
  BY <1>5, <1>10 DEF Recorded
<1>12. PICK row : row = [attempt[a] EXCEPT !.status = "graded"]
  OBVIOUS
<1>13. /\ event' = event \cup {e}
       /\ attempt' = [attempt EXCEPT ![a] = row]
       /\ tx' = [tx EXCEPT ![h] = Idle]
       /\ UNCHANGED <<edges, raced>>
  <2>1. event' = event \cup {e}
    BY <1>1, <1>4, <1>6, <1>8, <1>9, Zenon DEF CommitSubmit
  <2>2. attempt' = [attempt EXCEPT ![a] = row]
    BY <1>1, <1>4, <1>12 DEF CommitSubmit
  <2> QED
    BY <2>1, <2>2 DEF CommitSubmit
<1>14. Tables /\ AttemptsOK /\ CardsOK /\ RevealedNeverCounts /\ HandlersOK
  BY DEF IInv
<1>15. attempt[a] \in Attempt
  BY <1>5, <1>14 DEF Tables
<1>16. /\ row \in Attempt /\ row # None /\ row.status = "graded"
       /\ row.user = attempt[a].user /\ row.item = attempt[a].item
       /\ row.client = attempt[a].client /\ row.hint = attempt[a].hint
       /\ row.answer = attempt[a].answer
  BY <1>12, <1>15 DEF Attempt, None
<1>17. /\ attempt' \in [AttemptId -> {None} \cup Attempt]
       /\ attempt'[a] = row
       /\ \A k \in AttemptId : k # a => attempt'[k] = attempt[k]
  BY <1>5, <1>13, <1>14, <1>16 DEF Tables
<1>18. RowsKept
  BY <1>16, <1>17 DEF RowsKept, Made
<1>19. \A k \in AttemptId : /\ attempt'[k] = None <=> attempt[k] = None
                            /\ attempt'[k].client = attempt[k].client
  BY <1>5, <1>16, <1>17
<1>20. AttemptsOK'
  <2>1. \A k, l \in AttemptId :
           attempt'[k] # None /\ attempt'[l] # None /\ attempt'[k].client = attempt'[l].client
               => k = l \/ attempt'[k].client = "none"
    BY <1>14, <1>19 DEF AttemptsOK, Made
  <2>2. \A d \in event' : attempt'[d.attempt] # None
    BY <1>5, <1>10, <1>13, <1>14, <1>19 DEF AttemptsOK, Made, Tables, Event
  <2>3. ASSUME NEW k \in AttemptId, attempt'[k] # None
        PROVE  (attempt'[k].status = "graded") = Recorded("grade_recorded", k)'
    <3>1. CASE k = a
      BY <1>10, <1>13, <1>16, <1>17, <3>1 DEF Recorded
    <3>2. CASE k # a
      <4>1. Recorded("grade_recorded", k)' = Recorded("grade_recorded", k)
        BY <1>10, <1>13, <3>2 DEF Recorded
      <4> QED
        BY <1>14, <1>17, <2>3, <3>2, <4>1 DEF AttemptsOK, Made
    <3> QED
      BY <3>1, <3>2
  <2>4. \A d, f \in event' :
           d.type = "grade_recorded" /\ f.type = "grade_recorded" /\ d.attempt = f.attempt
               => d = f
    BY <1>10, <1>11, <1>13, <1>14 DEF AttemptsOK
  <2> QED
    BY <2>1, <2>2, <2>3, <2>4 DEF AttemptsOK, Made, AttemptId
<1>21. RevealedNeverCounts' /\ AcyclicUnlessRaced'
  <2>1. RevealedNeverCounts'
    BY <1>7, <1>8, <1>10, <1>13, <1>14 DEF RevealedNeverCounts
  <2> QED
    BY <1>13, <2>1 DEF IInv, AcyclicUnlessRaced, Confirmed
<1>22. \A v, j : NewGrades(e, v, j) = IF counts /\ v = u /\ j = i THEN {e} ELSE {}
  BY <1>5, <1>10, <1>16, <1>17 DEF NewGrades
<1>23. ASSUME NEW v, NEW j, ~(counts /\ v = u /\ j = i)
       PROVE  /\ EligibleGrades(v, j)' = EligibleGrades(v, j)
              /\ Right(v, j)' = Right(v, j) /\ Wrong(v, j)' = Wrong(v, j)
  <2>1. NewGrades(e, v, j) = {}
    BY <1>22, <1>23
  <2>2. /\ EligibleGrades(v, j)' = EligibleGrades(v, j) \cup NewGrades(e, v, j)
        /\ Right(v, j)' = Right(v, j) \cup {d \in NewGrades(e, v, j) : d.correct}
        /\ Wrong(v, j)' = Wrong(v, j) \cup {d \in NewGrades(e, v, j) : ~d.correct}
    BY <1>13, <1>14, <1>18, GradesAdd
  <2> QED
    BY <2>1, <2>2
<1>24. card' \in [Users \X Items -> {None} \cup Card] /\ CardsOK'
  <2>1. CASE ~counts
    <3>1. card' = card
      BY <1>6, <2>1 DEF CommitSubmit
    <3> QED
      BY <1>14, <1>23, <2>1, <3>1 DEF Tables, CardsOK, Bounded
  <2>2. CASE counts
    <3>1. PICK before : before = IF t.card = None THEN initial_card ELSE t.card
      OBVIOUS
    <3>2. PICK s : s = schedule(before, map_outcome_to_rating(right, FALSE, FALSE))
      OBVIOUS
    <3>3. card' = [card EXCEPT ![<<u, i>>] = s]
      BY <1>1, <1>4, <1>6, <2>2, <3>1, <3>2 DEF CommitSubmit
    <3>4. before \in Card /\ Bounded(before, u, i)
      <4>1. CASE t.card # None
        BY <1>5, <3>1, <4>1
      <4>2. CASE t.card = None
        <5>1. before = [reps |-> 0, lapses |-> 0]
          BY <3>1, <4>2 DEF initial_card
        <5>2. before \in Card /\ before.reps = 0 /\ before.lapses = 0
          BY <5>1 DEF Card
        <5>3. IsFiniteSet(event)
          BY <1>14 DEF Tables
        <5>4. Cardinality(Right(u, i)) \in Nat /\ Cardinality(Wrong(u, i)) \in Nat
          BY <5>3, GradesFinite
        <5> QED
          BY <5>2, <5>4 DEF Bounded
      <4> QED
        BY <4>1, <4>2
    <3>5. NewGrades(e, u, i) = {e}
      BY <1>22, <2>2
    <3>6. s \in Card /\ Bounded(s, u, i)'
      <4>1. s = schedule(before, map_outcome_to_rating(e.correct, FALSE, FALSE))
            /\ e.correct \in BOOLEAN
        BY <1>4, <1>10, <3>2
      <4> QED
        BY <1>11, <1>13, <1>14, <1>18, <3>4, <3>5, <4>1, CardMoves
    <3>7. s # None
      BY <3>6, CardMade
    <3>8. <<u, i>> \in Users \X Items
      BY <1>4
    <3>9. /\ card' \in [Users \X Items -> {None} \cup Card]
          /\ card'[<<u, i>>] = s
          /\ \A v \in Users, j \in Items : ~(v = u /\ j = i) => card'[<<v, j>>] = card[<<v, j>>]
      BY <1>14, <3>3, <3>6, <3>8 DEF Tables
    <3>10. EligibleGrades(u, i)' # {}
      <4>1. EligibleGrades(u, i)' = EligibleGrades(u, i) \cup NewGrades(e, u, i)
        BY <1>13, <1>14, <1>18, GradesAdd
      <4> QED
        BY <3>5, <4>1
    <3>11. ASSUME NEW v \in Users, NEW j \in Items
           PROVE  /\ card'[<<v, j>>] = None <=> EligibleGrades(v, j)' = {}
                  /\ card'[<<v, j>>] # None => Bounded(card[<<v, j>>], v, j)'
      <4>1. CASE v = u /\ j = i
        BY <3>6, <3>7, <3>9, <3>10, <4>1
      <4>2. CASE ~(v = u /\ j = i)
        <5>1. card'[<<v, j>>] = card[<<v, j>>]
          BY <3>9, <4>2
        <5>2. /\ EligibleGrades(v, j)' = EligibleGrades(v, j)
              /\ Right(v, j)' = Right(v, j) /\ Wrong(v, j)' = Wrong(v, j)
          BY <1>23, <4>2
        <5>3. /\ card[<<v, j>>] = None <=> EligibleGrades(v, j) = {}
              /\ card[<<v, j>>] # None => Bounded(card[<<v, j>>], v, j)
          BY <1>14 DEF CardsOK
        <5> QED
          BY <5>1, <5>2, <5>3 DEF Bounded
      <4> QED
        BY <4>1, <4>2
    <3> QED
      BY <3>9, <3>11 DEF CardsOK
  <2> QED
    BY <2>1, <2>2
<1>25. Tables'
  <2>1. IsFiniteSet(event')
    BY <1>13, <1>14, FS_AddElement DEF Tables
  <2> QED
    BY <1>10, <1>13, <1>14, <1>17, <1>24, <2>1 DEF Tables, AttemptId
<1>26. ASSUME NEW g \in Others(h), NEW x, x = tx[g] PROVE TxOK(x)'
  <2>1. TxOK(x)
    BY <1>14, <1>26 DEF HandlersOK, Others
  <2>2. StartOK(x) => StartOK(x)'
    BY <1>19 DEF StartOK, Made, WithClient
  <2>3. SubmitOK(x) /\ x.at \in {"card", "flush_card", "commit"}
            => ~(e.type = "grade_recorded" /\ e.attempt = x.id)
    BY <1>1, <1>5, <1>10, <1>14, <1>26 DEF SubmitOK, HandlersOK, Exclusive, Others
  <2> QED
    BY <1>13, <1>14, <1>18, <2>1, <2>2, <2>3, KnowledgeKept
<1>27. HandlersOK'
  BY <1>13, <1>14, <1>26, Commits
<1> QED
  BY <1>20, <1>21, <1>24, <1>25, <1>27 DEF IInv

-----------------------------------------------------------------------------
(* Evidence is rebuilt.                                                    *)

LEMMA RebuildSteps ==
    ASSUME IInv, NEW h \in Handlers, ReadLog(h) \/ FlushEvidence(h) \/ CommitEvidence(h)
    PROVE  IInv'
<1>1. PICK t : t = tx[h]
  OBVIOUS
<1>2. t.q.op = "rebuild" /\ t.at # "idle"
  BY <1>1 DEF ReadLog, FlushEvidence, CommitEvidence, At
<1>3. Shape(t) /\ RebuildOK(t)
  BY <1>1, <1>2, KindOf
<1>4. t.q \notin StartRequest
  BY <1>2 DEF StartRequest
<1>5. CASE ReadLog(h)
  <2>1. CASE End(h)
    BY <2>1, EndKept, Ends
  <2>2. ASSUME NEW seen, ToFlush(h, 0, seen) PROVE IInv'
    <3>1. PICK x : x = [at |-> "flush", q |-> tx[h].q, id |-> 0, locks |-> tx[h].locks,
                        seen |-> seen, card |-> tx[h].card, shown |-> tx[h].shown]
      OBVIOUS
    <3>2. RebuildOK(x) /\ ~Starting(x)
      BY <1>1, <1>3, <1>4, <3>1 DEF RebuildOK, Starting
    <3> QED
      BY <2>2, <3>1, <3>2, ToFlushes DEF TxOK
  <2> QED
    BY <1>5, <2>1, <2>2, Zenon DEF ReadLog
<1>6. CASE FlushEvidence(h)
  <2>1. PICK taken \in BOOLEAN :
           taken = (\E c \in t.seen.absent : evidence[<<t.q.user, c>>] # None)
    OBVIOUS
  <2>2. PICK keys : keys = {<<"evidence", t.q.user, c>> : c \in DOMAIN t.seen.new}
    OBVIOUS
  <2>3. Flush(h, keys, taken, "commit")
    BY <1>1, <1>6, <2>1, <2>2, Zenon DEF FlushEvidence
  <2>4. PICK x : x = [at |-> "commit", q |-> tx[h].q, id |-> tx[h].id,
                      locks |-> tx[h].locks \cup keys,
                      seen |-> tx[h].seen, card |-> tx[h].card, shown |-> tx[h].shown]
    OBVIOUS
  <2>5. RebuildOK(x) /\ ~Starting(x)
    BY <1>1, <1>3, <1>4, <2>4 DEF RebuildOK, Starting
  <2> QED
    BY <2>3, <2>4, <2>5, Flushes DEF TxOK
<1>7. CASE CommitEvidence(h)
  <2>1. tx' = [tx EXCEPT ![h] = Idle] /\ Kept
    BY <1>7 DEF CommitEvidence, Kept
  <2> QED
    BY <2>1, Ends
<1> QED
  BY <1>5, <1>6, <1>7

-----------------------------------------------------------------------------
(* The theorems.                                                           *)

LEMMA NextInv == IInv /\ [Next]_vars => IInv'
<1> SUFFICES ASSUME IInv, [Next]_vars PROVE IInv'
  OBVIOUS
<1>1. CASE UNCHANGED vars
  BY <1>1, Quiet DEF vars, ledger, Kept
<1>2. CASE Next
  <2>1. ASSUME NEW h \in Handlers, Step(h) PROVE IInv'
    BY <2>1, EdgeSteps, CommitEdgeStep, StartSteps, CommitStartStep, RevealSteps,
       CommitRevealStep, ReadSubmitStep, SubmitSteps, CommitSubmitStep, RebuildSteps
       DEF Step
  <2>2. ASSUME NEW h \in Handlers, Undo(h) PROVE IInv'
    BY <2>2, EndKept, Ends DEF Undo
  <2> QED
    BY <1>2, <2>1, <2>2, QuietSteps, ReceiveSteps DEF Next
<1> QED
  BY <1>1, <1>2

LEMMA Invariance == Spec => []IInv
  BY InitInv, NextInv, PTL DEF Spec

LEMMA GradedOnceHolds == IInv => GradedOnce
<1> SUFFICES ASSUME IInv PROVE GradedOnce
  OBVIOUS
<1>1. ASSUME NEW a \in AttemptId, attempt[a] # None
      PROVE  Cardinality(GradesOf(a)) = IF attempt[a].status = "graded" THEN 1 ELSE 0
  <2>1. CASE attempt[a].status = "graded"
    <3>1. PICK e \in event : e.type = "grade_recorded" /\ e.attempt = a
      BY <1>1, <2>1 DEF IInv, AttemptsOK, Made, Recorded
    <3>2. GradesOf(a) = {e}
      BY <3>1 DEF GradesOf, IInv, AttemptsOK
    <3> QED
      BY <2>1, <3>2, FS_Singleton
  <2>2. CASE attempt[a].status # "graded"
    <3>1. GradesOf(a) = {}
      BY <1>1, <2>2 DEF IInv, AttemptsOK, Made, Recorded, GradesOf
    <3> QED
      BY <2>2, <3>1, FS_EmptySet
  <2> QED
    BY <2>1, <2>2
<1>2. \A u \in Users, i \in Items :
         /\ card[<<u, i>>] = None <=> EligibleGrades(u, i) = {}
         /\ card[<<u, i>>] # None =>
               /\ card[<<u, i>>].lapses <=
                     Cardinality({e \in EligibleGrades(u, i) : ~e.correct})
               /\ card[<<u, i>>].reps <=
                     Cardinality({e \in EligibleGrades(u, i) : e.correct})
  BY DEF IInv, CardsOK, Bounded, Right, Wrong
<1> QED
  BY <1>1, <1>2 DEF GradedOnce

\* Whatever submissions, reveals and starts overlap, and whichever of them is
\* rolled back after it was answered: an attempt has one grade if its status
\* says graded and none otherwise, and no card has counted more than the
\* grades that count (submit_assessment_attempt, apply_review_rating).
THEOREM GradesOnce == Spec => []GradedOnce
  BY Invariance, GradedOnceHolds, PTL

\* A submission that came in after a reveal was committed never counts as
\* evidence: the client id leads it to the one attempt that was revealed
\* (submit_assessment_attempt, classify_event_eligibility).
THEOREM RevealsHold == Spec => []RevealedNeverCounts
<1>1. IInv => RevealedNeverCounts
  BY DEF IInv
<1> QED
  BY <1>1, Invariance, PTL

\* For every curriculum: the search that add_prerequisite_edge starts from the
\* new edge's source leaves no cycle behind, unless two prerequisites were
\* checked at the same time.
THEOREM CyclesNeedARace == Spec => []AcyclicUnlessRaced
<1>1. IInv => AcyclicUnlessRaced
  BY DEF IInv
<1> QED
  BY <1>1, Invariance, PTL


-----------------------------------------------------------------------------
(* Natural numbers, by the least number of a set.                          *)

LEMMA LeastNumber ==
    ASSUME NEW T, T \subseteq Nat, T # {}
    PROVE  \E n \in T : \A m \in T : n <= m
<1>1. IsWellFoundedOn(OpToRel(<, Nat), Nat)
  BY NatLessThanWellFounded
<1>2. PICK n \in T : \A m \in T : ~(<<m, n>> \in OpToRel(<, Nat))
  BY <1>1, WFMin, Zenon
<1>3. \A m \in T : ~(m < n)
  BY <1>2 DEF OpToRel
<1> QED
  BY <1>3

LEMMA GreatestNumber ==
    ASSUME NEW b \in Nat, NEW T, T \subseteq 0 .. b, T # {}
    PROVE  \E n \in T : \A m \in T : m <= n
<1>1. PICK D : D = {b - n : n \in T}
  OBVIOUS
<1>2. D \subseteq Nat /\ D # {}
  <2>1. \A n \in T : n \in 0 .. b /\ b - n \in Nat
    OBVIOUS
  <2> QED
    BY <1>1, <2>1
<1>3. PICK d \in D : \A x \in D : d <= x
  BY <1>2, LeastNumber
<1>4. PICK n \in T : d = b - n
  BY <1>1, <1>3
<1>5. \A m \in T : b - n <= b - m
  BY <1>1, <1>3, <1>4
<1> QED
  BY <1>4, <1>5

LEMMA Induction ==
    ASSUME NEW N, 0 \in N, \A n \in Nat : n \in N => n + 1 \in N
    PROVE  Nat \subseteq N
<1>1. PICK T : T = {n \in Nat : n \notin N}
  OBVIOUS
<1>2. SUFFICES ASSUME T # {} PROVE FALSE
  BY <1>1
<1>3. PICK n \in T : \A m \in T : n <= m
  BY <1>1, <1>2, LeastNumber
<1>4. n - 1 \in Nat /\ n - 1 \notin T
  BY <1>1, <1>3
<1> QED
  BY <1>1, <1>4

-----------------------------------------------------------------------------
(* The replay of a log, event by event.                                    *)

AtMost(M, n) == {S \in SUBSET M : Cardinality(S) <= n}
Earlier(S) == S \ {Latest(S)}

\* Every part of the log has a latest event.
Ordered(M) == IsFiniteSet(M) /\ \A S \in SUBSET M : S # {} => Latest(S) \in S

LEMMA LatestIsOne ==
    ASSUME NEW b \in Nat, NEW S, S # {}, \A e \in S : e.at \in 0 .. b /\ e.id \in 0 .. b
    PROVE  Latest(S) \in S /\ \A f \in S : Occurred(f, Latest(S))
<1>1. PICK T : T = {e.at : e \in S}
  OBVIOUS
<1>2. PICK t \in T : \A x \in T : x <= t
  <2>1. T \subseteq 0 .. b /\ T # {}
    BY <1>1
  <2> QED
    BY <2>1, GreatestNumber
<1>3. PICK I : I = {e.id : e \in {f \in S : f.at = t}}
  OBVIOUS
<1>4. I \subseteq 0 .. b /\ I # {}
  BY <1>1, <1>2, <1>3
<1>5. PICK i \in I : \A x \in I : x <= i
  BY <1>4, GreatestNumber
<1>6. PICK e \in S : e.at = t /\ e.id = i
  BY <1>3, <1>5
<1>7. \A f \in S : f.at <= t /\ (f.at = t => f.id <= i)
  BY <1>1, <1>2, <1>3, <1>5
<1>8. \A f \in S : Occurred(f, e)
  BY <1>1, <1>2, <1>6, <1>7 DEF Occurred
<1> QED
  BY <1>8 DEF Latest

LEMMA LatestIsLast ==
    ASSUME NEW S, S \subseteq Logged, S # {}
    PROVE  Latest(S) \in S /\ \A f \in S : Occurred(f, Latest(S))
<1>1. PICK b \in Nat : b >= 2 /\ b >= MaxLogged
  BY LearningAssumption
<1>2. \A e \in Logged : e.at \in 0 .. b /\ e.id \in 0 .. b
  BY <1>1, LearningAssumption DEF Logged, LoggedId, Time
<1> QED
  BY <1>2, LatestIsOne

LEMMA EarlierIsLess ==
    ASSUME NEW M, Ordered(M), NEW n \in Nat, NEW S \in AtMost(M, n + 1), S # {}
    PROVE  Earlier(S) \in AtMost(M, n)
<1>1. IsFiniteSet(S) /\ Latest(S) \in S
  BY FS_Subset DEF AtMost, Ordered
<1>2. Cardinality(S) \in Nat /\ Cardinality(Earlier(S)) = Cardinality(S) - 1
  BY <1>1, FS_CardinalityType, FS_RemoveElement DEF Earlier
<1> QED
  BY <1>2 DEF AtMost, Earlier

\* g gives the evidence of each part of a log.
Replays(g, D) ==
    g = [S \in D |-> IF S = {} THEN Unassessed ELSE Absorb(g[Earlier(S)], Latest(S))]

LEMMA ReplayExists ==
    ASSUME NEW M, Ordered(M)
    PROVE  \E g : Replays(g, SUBSET M)
<1>1. PICK N : N = {n \in Nat : \E g : Replays(g, AtMost(M, n))}
  OBVIOUS
<1>2. \A S \in SUBSET M : IsFiniteSet(S) /\ Cardinality(S) \in Nat
  BY FS_Subset, FS_CardinalityType DEF Ordered
<1>3. 0 \in N
  <2>1. AtMost(M, 0) = {{}}
    BY <1>2, FS_EmptySet DEF AtMost
  <2>2. Replays([S \in {{}} |-> Unassessed], {{}})
    BY DEF Replays
  <2> QED
    BY <1>1, <2>1, <2>2
<1>4. ASSUME NEW n \in Nat, n \in N PROVE n + 1 \in N
  <2>1. PICK g : Replays(g, AtMost(M, n))
    BY <1>1, <1>4
  <2>2. PICK k : k = [S \in AtMost(M, n + 1) |->
                         IF S = {} THEN Unassessed ELSE Absorb(g[Earlier(S)], Latest(S))]
    OBVIOUS
  <2>3. AtMost(M, n) \subseteq AtMost(M, n + 1)
    BY <1>2 DEF AtMost
  <2>4. \A S \in AtMost(M, n) : k[S] = g[S]
    BY <2>1, <2>2, <2>3 DEF Replays
  <2>5. \A S \in AtMost(M, n + 1) : S # {} => k[Earlier(S)] = g[Earlier(S)]
    BY <2>4, EarlierIsLess
  <2>6. Replays(k, AtMost(M, n + 1))
    BY <2>2, <2>5 DEF Replays
  <2> QED
    BY <1>1, <2>6
<1>5. Cardinality(M) \in N
  BY <1>2, <1>3, <1>4, Induction
<1>6. PICK g : Replays(g, AtMost(M, Cardinality(M)))
  BY <1>1, <1>5
<1>7. AtMost(M, Cardinality(M)) = SUBSET M
  BY <1>2, FS_Subset DEF AtMost, Ordered
<1> QED
  BY <1>6, <1>7

\* What replay_evidence computes is such a function's value.
About(events, c) == {e \in events : e.concept = c}

LEMMA ReplayIsOne ==
    ASSUME NEW events, NEW c, Ordered(About(events, c))
    PROVE  \E g : /\ Replays(g, SUBSET About(events, c))
                  /\ replay_evidence(events, c) = g[About(events, c)]
<1> DEFINE M == About(events, c)
<1>1. PICK g : g = CHOOSE k : Replays(k, SUBSET M)
  OBVIOUS
<1>2. Replays(g, SUBSET M)
  BY <1>1, ReplayExists
<1>3. replay_evidence(events, c) = g[M]
  BY <1>1 DEF replay_evidence, MapThenFoldSet, Replays, Earlier, About
<1> QED
  BY <1>2, <1>3

Lapsed(S) == \E e \in Recalls(S) : Lapse(e) /\ \A f \in Recalls(S) : Occurred(f, e)

\* The evidence of a log tells what happened in it.
Sound(v, S) ==
    /\ v \in ConceptEvidence
    /\ Tells(v, S)
    /\ v.state = "demonstrated" => v.eligible_grades = 1
    /\ v.state = "delayed_demonstrated" => v.eligible_grades >= 2

LEMMA SoundIf ==
    ASSUME NEW S, NEW s \in EvidenceState, NEW r \in {"current", "lapsed"},
           NEW k \in Nat, NEW i \in Nat,
           k = Cardinality(Counted(S)), i = Cardinality(Ignored(S)),
           r = "lapsed" <=> Lapsed(S), s = "unassessed" <=> Passive(S),
           s = "demonstrated" => k = 1, s = "delayed_demonstrated" => k >= 2
    PROVE  Sound([state |-> s, recall |-> r, eligible_grades |-> k, ineligible_hits |-> i], S)
  BY DEF Sound, Tells, Lapsed, ConceptEvidence

LEMMA EmptyIsSound == Sound(Unassessed, {})
<1>1. Counted({}) = {} /\ Ignored({}) = {} /\ ~Lapsed({}) /\ Passive({})
  BY DEF Counted, Ignored, Lapsed, Recalls, Passive
<1>2. "unassessed" \in EvidenceState
  BY DEF EvidenceState
<1> QED
  BY <1>1, <1>2, FS_EmptySet, SoundIf DEF Unassessed

\* One event: the counters move with the sets they count.
LEMMA AbsorbIsSound ==
    ASSUME NEW R, IsFiniteSet(R), NEW e \in Logged, e \notin R, NEW v, Sound(v, R),
           \A f \in R : Occurred(f, e) /\ ~Occurred(e, f)
    PROVE  Sound(Absorb(v, e), R \cup {e})
<1>1. PICK S : S = R \cup {e}
  OBVIOUS
<1>2. /\ IsFiniteSet(Counted(R)) /\ Cardinality(Counted(R)) \in Nat
      /\ IsFiniteSet(Ignored(R)) /\ Cardinality(Ignored(R)) \in Nat
  <2>1. Counted(R) \in SUBSET R /\ Ignored(R) \in SUBSET R
    BY DEF Counted, Ignored
  <2> QED
    BY <2>1, FS_Subset, FS_CardinalityType
<1>3. PICK F : F = {e}
  OBVIOUS
<1>4. /\ Counted(F) = {e} => Cardinality(Counted(S)) = Cardinality(Counted(R)) + 1
      /\ Counted(F) = {} => Cardinality(Counted(S)) = Cardinality(Counted(R))
  <2>1. Counted(S) = Counted(R) \cup Counted(F) /\ e \notin Counted(R)
    BY <1>1, <1>3 DEF Counted
  <2>2. Cardinality(Counted(R) \cup {e}) = Cardinality(Counted(R)) + 1
    BY <1>2, <2>1, FS_AddElement
  <2> QED
    BY <2>1, <2>2
<1>5. /\ Ignored(F) = {e} => Cardinality(Ignored(S)) = Cardinality(Ignored(R)) + 1
      /\ Ignored(F) = {} => Cardinality(Ignored(S)) = Cardinality(Ignored(R))
  <2>1. Ignored(S) = Ignored(R) \cup Ignored(F) /\ e \notin Ignored(R)
    BY <1>1, <1>3 DEF Ignored
  <2>2. Cardinality(Ignored(R) \cup {e}) = Cardinality(Ignored(R)) + 1
    BY <1>2, <2>1, FS_AddElement
  <2> QED
    BY <2>1, <2>2
<1>6. PICK s, r, k, i :
         /\ v = [state |-> s, recall |-> r, eligible_grades |-> k, ineligible_hits |-> i]
         /\ s \in EvidenceState /\ r \in {"current", "lapsed"}
         /\ k = Cardinality(Counted(R)) /\ i = Cardinality(Ignored(R)) /\ k \in Nat /\ i \in Nat
         /\ r = "lapsed" <=> Lapsed(R)
         /\ s = "unassessed" <=> Passive(R)
         /\ s = "demonstrated" => k = 1
         /\ s = "delayed_demonstrated" => k >= 2
  BY <1>2 DEF Sound, Tells, Lapsed, ConceptEvidence
<1>14. /\ Recalls(F) = {} => (Lapsed(S) <=> Lapsed(R))
       /\ Recalls(F) = {e} => (Lapsed(S) <=> Lapse(e))
  <2>1. Recalls(S) = Recalls(R) \cup Recalls(F) /\ Recalls(R) \subseteq R
    BY <1>1, <1>3 DEF Recalls
  <2>2. Occurred(e, e)
    BY LearningAssumption DEF Occurred, Logged, LoggedId, Time
  <2>3. CASE Recalls(F) = {}
    BY <2>1, <2>3 DEF Lapsed
  <2>4. CASE Recalls(F) = {e}
    BY <2>1, <2>2, <2>4 DEF Lapsed
  <2> QED
    BY <2>3, <2>4
<1>15. Passive(S) <=> Passive(R) /\ Passive(F)
  BY <1>1, <1>3 DEF Passive
<1>7. /\ e.eligible \in BOOLEAN /\ e.correct \in BOOLEAN
      /\ e.type \in EventType /\ e.rating \in {"again", "good"}
  BY DEF Logged
<1>8. CASE ~e.eligible
  <2>1. PICK p \in EvidenceState : p = IF s = "unassessed" THEN "practicing" ELSE s
    BY <1>6 DEF EvidenceState
  <2>2. Absorb(v, e) = [state |-> p, recall |-> r, eligible_grades |-> k,
                        ineligible_hits |-> i + 1]
    BY <1>6, <1>8, <2>1 DEF Absorb, Practising
  <2>3. /\ Cardinality(Counted(S)) = k /\ Cardinality(Ignored(S)) = i + 1
        /\ r = "lapsed" <=> Lapsed(S)
        /\ ~Passive(S)
    <3>1. Counted(F) = {} /\ Ignored(F) = {e} /\ Recalls(F) = {} /\ ~Passive(F)
      BY <1>3, <1>8 DEF Counted, Ignored, Recalls, Passive
    <3> QED
      BY <1>4, <1>5, <1>6, <1>14, <1>15, <3>1
  <2>4. (p = "demonstrated" => k = 1) /\ (p = "delayed_demonstrated" => k >= 2) /\ p # "unassessed"
    BY <1>6, <2>1
  <2>5. Sound([state |-> p, recall |-> r, eligible_grades |-> k, ineligible_hits |-> i + 1], S)
    BY <1>6, <2>3, <2>4, SoundIf
  <2> QED
    BY <1>1, <2>2, <2>5
<1>9. CASE e.eligible /\ e.type = "attempt_started"
  <2>1. PICK p \in EvidenceState : p = IF s = "unassessed" THEN "practicing" ELSE s
    BY <1>6 DEF EvidenceState
  <2>2. Absorb(v, e) = [state |-> p, recall |-> r, eligible_grades |-> k, ineligible_hits |-> i]
    BY <1>6, <1>9, <2>1 DEF Absorb, Practising
  <2>3. /\ Cardinality(Counted(S)) = k /\ Cardinality(Ignored(S)) = i
        /\ r = "lapsed" <=> Lapsed(S)
        /\ ~Passive(S)
    <3>1. Counted(F) = {} /\ Ignored(F) = {} /\ Recalls(F) = {} /\ ~Passive(F)
      BY <1>3, <1>9 DEF Counted, Ignored, Recalls, Passive
    <3> QED
      BY <1>4, <1>5, <1>6, <1>14, <1>15, <3>1
  <2>4. (p = "demonstrated" => k = 1) /\ (p = "delayed_demonstrated" => k >= 2) /\ p # "unassessed"
    BY <1>6, <2>1
  <2>5. Sound([state |-> p, recall |-> r, eligible_grades |-> k, ineligible_hits |-> i], S)
    BY <1>6, <2>3, <2>4, SoundIf
  <2> QED
    BY <1>1, <2>2, <2>5
<1>10. CASE e.eligible /\ e.type = "grade_recorded" /\ e.correct
  <2>1. PICK p \in EvidenceState : p = IF k >= 1 THEN "delayed_demonstrated" ELSE "demonstrated"
    BY DEF EvidenceState
  <2>2. Absorb(v, e) = [state |-> p, recall |-> "current", eligible_grades |-> k + 1,
                        ineligible_hits |-> i]
    BY <1>6, <1>10, <2>1 DEF Absorb
  <2>3. /\ Cardinality(Counted(S)) = k + 1 /\ Cardinality(Ignored(S)) = i
        /\ ~Lapsed(S)
        /\ ~Passive(S)
    <3>1. /\ Counted(F) = {e} /\ Ignored(F) = {} /\ Recalls(F) = {e}
          /\ ~Passive(F) /\ ~Lapse(e)
      BY <1>3, <1>10 DEF Counted, Ignored, Recalls, Passive, Lapse
    <3> QED
      BY <1>4, <1>5, <1>6, <1>14, <1>15, <3>1
  <2>4. /\ p = "demonstrated" => k + 1 = 1
        /\ p = "delayed_demonstrated" => k + 1 >= 2
        /\ p # "unassessed"
    BY <1>6, <2>1
  <2>5. Sound([state |-> p, recall |-> "current", eligible_grades |-> k + 1, ineligible_hits |-> i], S)
    BY <1>6, <2>3, <2>4, SoundIf
  <2> QED
    BY <1>1, <2>2, <2>5
<1>11. CASE e.eligible /\ e.type = "grade_recorded" /\ ~e.correct
  <2>1. Absorb(v, e) = [state |-> "practicing", recall |-> "lapsed",
                        eligible_grades |-> k, ineligible_hits |-> i]
    BY <1>6, <1>11 DEF Absorb
  <2>2. /\ Cardinality(Counted(S)) = k /\ Cardinality(Ignored(S)) = i
        /\ Lapsed(S)
        /\ ~Passive(S)
    <3>1. /\ Counted(F) = {} /\ Ignored(F) = {} /\ Recalls(F) = {e}
          /\ ~Passive(F) /\ Lapse(e)
      BY <1>3, <1>11 DEF Counted, Ignored, Recalls, Passive, Lapse
    <3> QED
      BY <1>4, <1>5, <1>6, <1>14, <1>15, <3>1
  <2>5. Sound([state |-> "practicing", recall |-> "lapsed", eligible_grades |-> k,
               ineligible_hits |-> i], S)
    BY <1>6, <2>2, SoundIf DEF EvidenceState
  <2> QED
    BY <1>1, <2>1, <2>5
<1>12. CASE e.eligible /\ e.type = "review_rated"
  <2>1. PICK p \in {"current", "lapsed"} : p = IF e.rating = "again" THEN "lapsed" ELSE "current"
    OBVIOUS
  <2>2. Absorb(v, e) = [state |-> s, recall |-> p, eligible_grades |-> k, ineligible_hits |-> i]
    BY <1>6, <1>12, <2>1 DEF Absorb
  <2>3. /\ Cardinality(Counted(S)) = k /\ Cardinality(Ignored(S)) = i
        /\ p = "lapsed" <=> Lapsed(S)
        /\ s = "unassessed" <=> Passive(S)
    <3>1. /\ Counted(F) = {} /\ Ignored(F) = {} /\ Recalls(F) = {e}
          /\ Passive(F) /\ (Lapse(e) <=> p = "lapsed")
      BY <1>3, <1>12, <2>1 DEF Counted, Ignored, Recalls, Passive, Lapse
    <3> QED
      BY <1>4, <1>5, <1>6, <1>14, <1>15, <3>1
  <2>5. Sound([state |-> s, recall |-> p, eligible_grades |-> k, ineligible_hits |-> i], S)
    BY <1>6, <2>3, SoundIf
  <2> QED
    BY <1>1, <2>2, <2>5
<1>13. CASE e.eligible /\ e.type \notin {"attempt_started", "grade_recorded", "review_rated"}
  <2>1. Absorb(v, e) = v
    BY <1>13 DEF Absorb
  <2>2. /\ Cardinality(Counted(S)) = k /\ Cardinality(Ignored(S)) = i
        /\ r = "lapsed" <=> Lapsed(S)
        /\ s = "unassessed" <=> Passive(S)
    <3>1. Counted(F) = {} /\ Ignored(F) = {} /\ Recalls(F) = {} /\ Passive(F)
      BY <1>3, <1>13 DEF Counted, Ignored, Recalls, Passive
    <3> QED
      BY <1>4, <1>5, <1>6, <1>14, <1>15, <3>1
  <2>5. Sound(v, S)
    BY <1>6, <2>2, SoundIf
  <2> QED
    BY <1>1, <2>1, <2>5
<1> QED
  BY <1>7, <1>8, <1>9, <1>10, <1>11, <1>12, <1>13

\* For every log, of whatever length and however its events arrived: the
\* evidence that replay_evidence gives of a concept counts each eligible
\* correct grade once and each ineligible event once, calls a concept
\* demonstrated on one such grade and demonstrated after a delay on two, and
\* calls its recall lapsed when the last grade or review to have occurred was
\* a lapse.
THEOREM ReplayCounts ==
    ASSUME NEW events, events \subseteq Logged, IsFiniteSet(events), NEW c,
           \A e \in events, f \in events : e.id = f.id => e = f
    PROVE  Sound(replay_evidence(events, c), About(events, c))
<1>1. PICK M : M = About(events, c)
  OBVIOUS
<1>2. IsFiniteSet(M) /\ M \subseteq Logged
  BY <1>1, FS_Subset DEF About
<1>3. Ordered(M)
  BY <1>2, LatestIsLast DEF Ordered
<1>4. PICK g : Replays(g, SUBSET M) /\ replay_evidence(events, c) = g[M]
  BY <1>1, <1>3, ReplayIsOne, Zenon
<1>5. PICK N : N = {n \in Nat : \A S \in AtMost(M, n) : Sound(g[S], S)}
  OBVIOUS
<1>6. \A S \in SUBSET M : IsFiniteSet(S) /\ Cardinality(S) \in Nat
  BY <1>2, FS_Subset, FS_CardinalityType
<1>7. 0 \in N
  <2>1. AtMost(M, 0) = {{}}
    BY <1>6, FS_EmptySet DEF AtMost
  <2>2. g[{}] = Unassessed
    BY <1>4 DEF Replays
  <2> QED
    BY <1>5, <2>1, <2>2, EmptyIsSound
<1>8. ASSUME NEW n \in Nat, n \in N PROVE n + 1 \in N
  <2>1. ASSUME NEW S \in AtMost(M, n + 1), S # {} PROVE Sound(g[S], S)
    <3>1. Earlier(S) \in AtMost(M, n)
      BY <1>3, <2>1, EarlierIsLess
    <3>2. Sound(g[Earlier(S)], Earlier(S))
      BY <1>5, <1>8, <3>1
    <3>3. g[S] = Absorb(g[Earlier(S)], Latest(S))
      BY <1>4, <2>1 DEF Replays, AtMost
    <3>4. /\ Latest(S) \in Logged /\ Latest(S) \notin Earlier(S)
          /\ S = Earlier(S) \cup {Latest(S)} /\ IsFiniteSet(Earlier(S))
      BY <1>2, <1>3, <1>6, <2>1, <3>1 DEF Ordered, AtMost, Earlier
    <3>5. \A f \in Earlier(S) : Occurred(f, Latest(S)) /\ ~Occurred(Latest(S), f)
      <4>1. \A f \in S : Occurred(f, Latest(S))
        BY <1>2, <2>1, LatestIsLast DEF AtMost
      <4>2. ASSUME NEW f \in Earlier(S) PROVE ~Occurred(Latest(S), f)
        <5>1. f \in Logged /\ Latest(S) \in Logged /\ f.id # Latest(S).id /\ f \in S
          BY <1>1, <1>2, <2>1, <3>4 DEF Earlier, AtMost, About
        <5>2. /\ f.id \in Nat /\ f.at \in Nat
              /\ Latest(S).id \in Nat /\ Latest(S).at \in Nat
          BY <5>1, LearningAssumption DEF Logged, LoggedId, Time
        <5> QED
          BY <4>1, <5>1, <5>2 DEF Occurred
      <4> QED
        BY <4>1, <4>2 DEF Earlier
    <3> QED
      BY <3>2, <3>3, <3>4, <3>5, AbsorbIsSound
  <2>2. Sound(g[{}], {})
    BY <1>4, EmptyIsSound DEF Replays
  <2>3. \A S \in AtMost(M, n + 1) : Sound(g[S], S)
    BY <2>1, <2>2
  <2> QED
    BY <1>5, <2>3
<1>9. Cardinality(M) \in N
  BY <1>6, <1>7, <1>8, Induction
<1>10. M \in AtMost(M, Cardinality(M))
  BY <1>6 DEF AtMost
<1> QED
  BY <1>1, <1>4, <1>5, <1>9, <1>10


-----------------------------------------------------------------------------
(* The log, and the evidence that is rebuilt from it.  The log is filled   *)
(* from the front and what it holds stays, so what a rebuild read is the   *)
(* log up to some event also when it is committed, in the table and in a   *)
(* transaction still open.                                                 *)

LogOK ==
    /\ course \in BOOLEAN /\ nodes \subseteq Nodes /\ items \subseteq Items
    /\ mix \in Mixes /\ requests \in 0 .. mix.requests /\ raced \in BOOLEAN
    /\ logged \in [LoggedId -> {None} \cup Logged]
    /\ \A l \in LoggedId : logged[l] # None =>
          logged[l].id = l /\ \A k \in 1 .. l - 1 : logged[k] # None

\* v is what the log up to the event n says of a user's concept.
Follows(v, n, u, c) ==
    /\ v \in ConceptEvidence
    /\ LogUpTo(n, u, c) # {}
    /\ Tells(v, LogUpTo(n, u, c))

EvidenceOK ==
    /\ evidence = [k \in Users \X Nodes |-> evidence[k]]
    /\ \A u \in Users, c \in Nodes : evidence[<<u, c>>] # None =>
          \E n \in LoggedId : logged[n] # None /\ Follows(evidence[<<u, c>>], n, u, c)

\* What a rebuild that has read the log is about to write.
SeenOK(x) ==
    x.at \in {"flush", "commit"} /\ x.q \in RebuildRequest =>
        \E n \in LoggedId : /\ logged[n] # None
                            /\ \A c \in DOMAIN x.seen.new :
                                  Follows(x.seen.new[c], n, x.q.user, c)

LogInv == LogOK /\ EvidenceOK /\ \A h \in Handlers : SeenOK(tx[h])

LEMMA FollowsKept ==
    ASSUME logged' = logged
    PROVE  \A v, n, u, c : Follows(v, n, u, c)' <=> Follows(v, n, u, c)
<1>1. \A n, u, c : LogUpTo(n, u, c)' = LogUpTo(n, u, c)
  BY DEF LogUpTo
<1> QED
  BY <1>1 DEF Follows

LEMMA IdleSeen == SeenOK(Idle)
  BY DEF SeenOK, Idle

\* Only the transaction of one handler changes.
LEMMA SeenMoves ==
    ASSUME IInv, LogInv, NEW h \in Handlers, NEW x, tx' = [tx EXCEPT ![h] = x], SeenOK(x),
           logged' = logged
    PROVE  (\A g \in Handlers : SeenOK(tx[g]))'
<1>1. tx = [g \in Handlers |-> tx[g]]
  BY DEF IInv, HandlersOK
<1>2. ASSUME NEW g \in Handlers PROVE SeenOK(tx'[g])
  BY <1>1 DEF LogInv
<1> QED
  BY <1>2, FollowsKept DEF SeenOK

\* The evidence and the log it is of stay.
LEMMA EvidenceKept ==
    ASSUME LogInv, logged' = logged, evidence' = evidence
    PROVE  EvidenceOK'
  BY FollowsKept DEF LogInv, EvidenceOK

LEMMA LogKept ==
    ASSUME LogInv, unchanged
    PROVE  LogOK' /\ EvidenceOK' /\ logged' = logged
<1>1. /\ logged' = logged /\ evidence' = evidence
      /\ UNCHANGED <<course, nodes, items, mix, requests, raced>>
  BY DEF unchanged, ledger
<1>2. LogOK'
  BY <1>1 DEF LogInv, LogOK
<1> QED
  BY <1>1, <1>2, EvidenceKept


LEMMA LogEnds ==
    ASSUME IInv, LogInv, NEW h \in Handlers, End(h)
    PROVE  LogInv'
<1>1. tx' = [tx EXCEPT ![h] = Idle] /\ unchanged
  BY DEF End
<1> QED
  BY <1>1, IdleSeen, SeenMoves, LogKept DEF LogInv

LEMMA LogToFlush ==
    ASSUME IInv, LogInv, NEW h \in Handlers, NEW id, NEW seen, ToFlush(h, id, seen),
           tx[h].q \in RebuildRequest =>
               \E n \in LoggedId : /\ logged[n] # None
                                   /\ \A c \in DOMAIN seen.new :
                                         Follows(seen.new[c], n, tx[h].q.user, c)
    PROVE  LogInv'
<1>1. PICK x : x = [at |-> "flush", q |-> tx[h].q, id |-> id, locks |-> tx[h].locks,
                    seen |-> seen, card |-> tx[h].card, shown |-> tx[h].shown]
  OBVIOUS
<1>2. tx' = [tx EXCEPT ![h] = x]
  BY <1>1, ToFlushTx
<1>3. SeenOK(x)
  BY <1>1 DEF SeenOK
<1>4. unchanged
  BY DEF ToFlush
<1> QED
  BY <1>2, <1>3, <1>4, SeenMoves, LogKept DEF LogInv

LEMMA LogFlush ==
    ASSUME IInv, LogInv, NEW h \in Handlers, NEW keys, NEW taken \in BOOLEAN, NEW next,
           Flush(h, keys, taken, next),
           tx[h].q \in RebuildRequest => tx[h].at = "flush"
    PROVE  LogInv'
<1>1. CASE taken
  BY <1>1, LogEnds DEF Flush
<1>2. CASE ~taken
  <2>2. PICK x : x = [at |-> next, q |-> tx[h].q, id |-> tx[h].id,
                      locks |-> tx[h].locks \cup keys,
                      seen |-> tx[h].seen, card |-> tx[h].card, shown |-> tx[h].shown]
    OBVIOUS
  <2>3. tx' = [tx EXCEPT ![h] = x] /\ unchanged
    BY <1>2, <2>2, FlushTx
  <2>4. SeenOK(x)
    BY <2>2 DEF SeenOK, LogInv
  <2> QED
    BY <2>3, <2>4, SeenMoves, LogKept DEF LogInv
<1> QED
  BY <1>1, <1>2

LEMMA LogReceives ==
    ASSUME IInv, LogInv, NEW h \in Handlers, NEW q, Receive(h, q)
    PROVE  LogInv'
<1>1. PICK x : tx' = [tx EXCEPT ![h] = x] /\ x.at = "read"
  <2>1. PICK b \in BOOLEAN : tx' = [tx EXCEPT ![h] = Received(q, b)]
    BY ReceiveTx
  <2>2. Received(q, b).at = "read"
    BY DEF Received
  <2> QED
    BY <2>1, <2>2
<1>2. SeenOK(x)
  BY <1>1 DEF SeenOK
<1>3. LogOK' /\ logged' = logged /\ evidence' = evidence
  <2>1. mix.requests \in Nat
    BY LearningAssumption DEF LogInv, LogOK
  <2>2. /\ requests' = requests + 1 /\ requests < mix.requests
        /\ UNCHANGED <<ledger, mix, raced>>
    BY DEF Receive
  <2> QED
    BY <2>1, <2>2 DEF LogInv, LogOK, ledger
<1> QED
  BY <1>1, <1>2, <1>3, SeenMoves, EvidenceKept DEF LogInv

LEMMA LogInit == Init => LogInv
<1> SUFFICES ASSUME Init PROVE LogInv
  OBVIOUS
<1>1. LogOK
  <2>1. mix.requests \in Nat /\ requests = 0
    BY LearningAssumption DEF Init
  <2>2. requests \in 0 .. mix.requests
    BY <2>1
  <2>3. /\ logged \in [LoggedId -> {None} \cup Logged]
        /\ \A l \in LoggedId : logged[l] = None
    BY DEF Init
  <2> QED
    BY <2>2, <2>3 DEF Init, LogOK
<1>3. EvidenceOK
  BY DEF Init, EvidenceOK
<1>2. \A h \in Handlers : tx[h] = Idle
  BY DEF Init
<1> QED
  BY <1>1, <1>2, <1>3, IdleSeen DEF LogInv

\* What is appended follows what was read before.
LEMMA LogAppends ==
    ASSUME LogInv, LogEvent
    PROVE  LogInv'
<1>1. ASSUME NEW u \in Users, NEW c \in Nodes, NEW type \in EventType, NEW hinted \in BOOLEAN,
             NEW claimed, NEW rating \in {"again", "good"}, NEW at \in Time,
             append_learner_event(u, c, type, hinted, claimed, rating, at)
      PROVE  LogInv'
  <2>1. PICK b \in BOOLEAN : b = classify_event_eligibility(type, FALSE, hinted, TRUE)
    BY Zenon DEF classify_event_eligibility
  <2>2. PICK l \in LoggedId :
           /\ logged[l] = None /\ \A k \in 1 .. l - 1 : logged[k] # None
           /\ logged' = [logged EXCEPT ![l] =
                 [made |-> TRUE, id |-> l, user |-> u, concept |-> c, type |-> type,
                  correct |-> FALSE, rating |-> rating, at |-> at, eligible |-> b]]
           /\ UNCHANGED <<course, nodes, items, edges, attempt, event, card, evidence,
                          tx, requests, mix, raced>>
    BY <1>1, <2>1, Zenon DEF append_learner_event, Payload
  <2>3. PICK e : e = [made |-> TRUE, id |-> l, user |-> u, concept |-> c, type |-> type,
                      correct |-> FALSE, rating |-> rating, at |-> at, eligible |-> b]
    OBVIOUS
  <2>4. e \in Logged /\ e # None /\ e.id = l
    BY <2>3 DEF Logged, None
  <2>5. /\ logged' \in [LoggedId -> {None} \cup Logged]
        /\ logged'[l] = e /\ \A k \in LoggedId : k # l => logged'[k] = logged[k]
    BY <2>2, <2>3, <2>4 DEF LogInv, LogOK
  <2>6. LogOK'
    <3>1. ASSUME NEW m \in LoggedId, logged'[m] # None
          PROVE  logged'[m].id = m /\ \A k \in 1 .. m - 1 : logged'[k] # None
      <4>1. \A k \in 1 .. m - 1 : k \in LoggedId
        BY LearningAssumption DEF LoggedId
      <4> QED
        BY <2>2, <2>4, <2>5, <3>1, <4>1 DEF LogInv, LogOK
    <3> QED
      BY <2>2, <2>5, <3>1 DEF LogInv, LogOK
  <2>7. ASSUME NEW n \in LoggedId, logged[n] # None
        PROVE  /\ logged'[n] # None
               /\ \A v, w, d : Follows(v, n, w, d) => Follows(v, n, w, d)'
    <3>1. \A k \in 1 .. n : k \in LoggedId /\ logged[k] # None
      BY <2>7, LearningAssumption DEF LogInv, LogOK, LoggedId
    <3>2. \A k \in 1 .. n : logged'[k] = logged[k]
      BY <2>2, <2>5, <3>1
    <3>3. \A w, d : LogUpTo(n, w, d)' = LogUpTo(n, w, d)
      BY <3>2 DEF LogUpTo
    <3>4. n \in 1 .. n
      BY <2>7, LearningAssumption DEF LoggedId
    <3> QED
      BY <2>7, <3>2, <3>3, <3>4 DEF Follows
  <2>8. EvidenceOK'
    BY <2>2, <2>7 DEF LogInv, EvidenceOK
  <2>9. (\A h \in Handlers : SeenOK(tx[h]))'
    <3>1. ASSUME NEW h \in Handlers PROVE SeenOK(tx[h])'
      <4>1. SeenOK(tx[h]) /\ tx' = tx
        BY <2>2 DEF LogInv
      <4> QED
        BY <2>7, <4>1 DEF SeenOK
    <3> QED
      BY <3>1
  <2> QED
    BY <2>6, <2>8, <2>9 DEF LogInv
<1>2. LoggedTypes \subseteq EventType
  BY LearningAssumption
<1> QED
  BY <1>1, <1>2, Zenon DEF LogEvent

LEMMA LogReads ==
    ASSUME IInv, LogInv, NEW h \in Handlers, ReadLog(h)
    PROVE  LogInv'
<1>1. PICK u : u = tx[h].q.user
  OBVIOUS
<1>2. PICK mine : mine = {logged[l] : l \in {x \in LoggedId : logged[x] # None /\ logged[x].user = u}}
  OBVIOUS
<1>3. /\ mine \subseteq Logged
      /\ \A e \in mine : e.id \in LoggedId /\ logged[e.id] = e
  BY <1>2 DEF LogInv, LogOK
<1>4. IsFiniteSet(mine)
  <2>1. PICK L : L = {x \in LoggedId : logged[x] # None /\ logged[x].user = u}
    OBVIOUS
  <2>2. IsFiniteSet(LoggedId)
    BY LearningAssumption, FS_Interval DEF LoggedId
  <2>3. IsFiniteSet(L)
    BY <2>1, <2>2, FS_Subset
  <2>4. mine = {logged[l] : l \in L}
    BY <1>2, <2>1, Zenon
  <2>5. [l \in L |-> logged[l]] \in Surjection(L, mine)
    BY <2>4 DEF Surjection
  <2> QED
    BY <2>3, <2>5, FS_Surjection
<1>5. PICK new : new = [c \in {e.concept : e \in mine} |-> replay_evidence(mine, c)]
  OBVIOUS
<1>6. ASSUME mine # {}
      PROVE  \E n \in LoggedId : /\ logged[n] # None
                                 /\ \A c \in DOMAIN new : Follows(new[c], n, u, c)
  <2>1. PICK N : N = {l \in LoggedId : logged[l] # None}
    OBVIOUS
  <2>2. N \subseteq 0 .. MaxLogged /\ N # {}
    BY <1>2, <1>6, <2>1, LearningAssumption DEF LoggedId
  <2>3. PICK n \in N : \A m \in N : m <= n
    BY <2>2, GreatestNumber, LearningAssumption
  <2>4. \A l \in LoggedId : logged[l] # None <=> l \in 1 .. n
    <3>1. n \in LoggedId /\ logged[n] # None
      BY <2>1, <2>3
    <3> QED
      BY <2>1, <2>3, <3>1, LearningAssumption DEF LogInv, LogOK, LoggedId
  <2>5. ASSUME NEW c \in DOMAIN new PROVE Follows(new[c], n, u, c)
    <3>1. About(mine, c) = LogUpTo(n, u, c)
      <4>1. 1 .. n \subseteq LoggedId
        BY <2>1, <2>3, LearningAssumption DEF LoggedId
      <4> QED
        BY <1>2, <2>4, <4>1 DEF About, LogUpTo
    <3>2. Sound(new[c], About(mine, c))
      BY <1>3, <1>4, <1>5, ReplayCounts
    <3>3. About(mine, c) # {}
      BY <1>5 DEF About
    <3> QED
      BY <3>1, <3>2, <3>3 DEF Follows, Sound
  <2> QED
    BY <2>1, <2>3, <2>5
<1>7. PICK absent : absent = {c \in DOMAIN new : evidence[<<u, c>>] = None}
  OBVIOUS
<1>8. End(h) \/ (mine # {} /\ ToFlush(h, 0, [new |-> new, absent |-> absent]))
  BY <1>1, <1>2, <1>5, <1>7, Zenon DEF ReadLog
<1>9. CASE End(h)
  BY <1>9, LogEnds
<1>10. CASE mine # {} /\ ToFlush(h, 0, [new |-> new, absent |-> absent])
  <2>1. PICK n \in LoggedId : /\ logged[n] # None
                              /\ \A c \in DOMAIN new : Follows(new[c], n, u, c)
    BY <1>6, <1>10
  <2>2. PICK seen : seen = [new |-> new, absent |-> absent]
    OBVIOUS
  <2>3. \A c \in DOMAIN seen.new : Follows(seen.new[c], n, tx[h].q.user, c)
    BY <1>1, <2>1, <2>2
  <2>4. ToFlush(h, 0, seen)
    BY <1>10, <2>2
  <2> QED
    BY <2>1, <2>3, <2>4, LogToFlush
<1> QED
  BY <1>8, <1>9, <1>10

LEMMA LogCommits ==
    ASSUME IInv, LogInv, NEW h \in Handlers, CommitEvidence(h)
    PROVE  LogInv'
<1>1. PICK t : t = tx[h]
  OBVIOUS
<1>2. t.q \in RebuildRequest /\ t.at = "commit"
  BY <1>1, KindOf DEF CommitEvidence, At, RebuildOK
<1>3. PICK n \in LoggedId : /\ logged[n] # None
                            /\ \A c \in DOMAIN t.seen.new :
                                  Follows(t.seen.new[c], n, t.q.user, c)
  BY <1>1, <1>2 DEF LogInv, SeenOK
<1>4. PICK new : new = t.seen.new
  OBVIOUS
<1>5. evidence' = [k \in Users \X Nodes |->
                      IF k[1] = t.q.user /\ k[2] \in DOMAIN new THEN new[k[2]] ELSE evidence[k]]
  BY <1>1, <1>4, Zenon DEF CommitEvidence
<1>7. /\ tx' = [tx EXCEPT ![h] = Idle]
      /\ UNCHANGED <<course, nodes, items, edges, attempt, event, logged, card, requests, mix,
                     raced>>
  BY DEF CommitEvidence
<1>6. EvidenceOK'
  <2>1. ASSUME NEW u \in Users, NEW c \in Nodes, evidence'[<<u, c>>] # None
        PROVE  \E m \in LoggedId : logged[m] # None /\ Follows(evidence'[<<u, c>>], m, u, c)
    <3>1. CASE u = t.q.user /\ c \in DOMAIN new
      <4>1. evidence'[<<u, c>>] = new[c]
        BY <1>5, <3>1
      <4> QED
        BY <1>3, <1>4, <3>1, <4>1
    <3>2. CASE ~(u = t.q.user /\ c \in DOMAIN new)
      <4>1. evidence'[<<u, c>>] = evidence[<<u, c>>]
        BY <1>5, <3>2
      <4> QED
        BY <2>1, <4>1 DEF LogInv, EvidenceOK
    <3> QED
      BY <3>1, <3>2
  <2>2. evidence' = [k \in Users \X Nodes |-> evidence'[k]]
    BY <1>5
  <2> QED
    BY <1>7, <2>1, <2>2, FollowsKept DEF EvidenceOK
<1>8. LogOK'
  BY <1>7 DEF LogInv, LogOK
<1> QED
  BY <1>6, <1>7, <1>8, IdleSeen, SeenMoves DEF LogInv

\* The other commits leave the log and the evidence alone.
LEMMA LogOthersCommit ==
    ASSUME IInv, LogInv, NEW h \in Handlers,
           CommitEdge(h) \/ CommitStart(h) \/ CommitReveal(h) \/ CommitSubmit(h)
    PROVE  LogInv'
<1>1. /\ tx' = [tx EXCEPT ![h] = Idle]
      /\ UNCHANGED <<course, nodes, items, logged, evidence, requests, mix>>
  BY DEF CommitEdge, CommitStart, CommitReveal, CommitSubmit
<1>2. raced' \in BOOLEAN
  <2>1. CASE CommitEdge(h)
    <3>1. raced' = (raced \/ (tx[h].q.confirmed /\ Confirmed(tx[h].seen) # Confirmed(edges)))
      BY <2>1, Zenon DEF CommitEdge
    <3> QED
      BY <3>1, Zenon
  <2>2. CASE ~CommitEdge(h)
    BY <2>2 DEF CommitStart, CommitReveal, CommitSubmit, LogInv, LogOK
  <2> QED
    BY <2>1, <2>2
<1>3. LogOK'
  BY <1>1, <1>2 DEF LogInv, LogOK
<1> QED
  BY <1>1, <1>3, IdleSeen, SeenMoves, EvidenceKept DEF LogInv

LEMMA LogReadsCard ==
    ASSUME IInv, LogInv, NEW h \in Handlers, ReadCard(h)
    PROVE  LogInv'
<1>1. PICK t, c : t = tx[h] /\ c = card[<<tx[h].q.user, tx[h].q.item>>]
  OBVIOUS
<1>2. Shape(t) /\ tx = [g \in Handlers |-> tx[g]]
  BY <1>1 DEF IInv, HandlersOK
<1>3. tx' = [tx EXCEPT ![h] = [t EXCEPT !.at = "flush_card", !.card = c]] /\ unchanged
  BY <1>1, <1>2 DEF ReadCard
<1>4. [t EXCEPT !.at = "flush_card", !.card = c].at = "flush_card"
  BY <1>2 DEF Shape
<1>5. SeenOK([t EXCEPT !.at = "flush_card", !.card = c])
  BY <1>4 DEF SeenOK
<1> QED
  BY <1>3, <1>5, SeenMoves, LogKept DEF LogInv

\* What the other requests read is no evidence.
LEMMA LogOthersRead ==
    ASSUME IInv, LogInv, NEW h \in Handlers,
           ReadEdges(h) \/ ReadStart(h) \/ ReadReveal(h) \/ ReadSubmit(h)
    PROVE  LogInv'
<1>1. tx[h].q \notin RebuildRequest
  BY DEF ReadEdges, ReadStart, ReadReveal, ReadSubmit, RebuildRequest
<1>2. End(h) \/ \E id, seen : ToFlush(h, id, seen)
  BY Zenon DEF ReadEdges, ReadStart, ReadReveal, ReadSubmit
<1> QED
  BY <1>1, <1>2, LogEnds, LogToFlush

LEMMA LogFlushes ==
    ASSUME IInv, LogInv, NEW h \in Handlers,
           \/ FlushEdge(h) \/ FlushStart(h) \/ FlushReveal(h) \/ FlushSubmit(h)
           \/ FlushCard(h) \/ FlushEvidence(h)
    PROVE  LogInv'
<1>1. tx[h].q \in RebuildRequest => tx[h].at = "flush"
  <2>1. CASE FlushCard(h)
    <3>1. PICK t : t = tx[h]
      OBVIOUS
    <3>2. SubmitOK(t)
      BY <2>1, <3>1, KindOf DEF FlushCard, At
    <3> QED
      BY <3>1, <3>2 DEF SubmitOK, SubmitRequest, RebuildRequest
  <2>2. CASE ~FlushCard(h)
    BY <2>2 DEF FlushEdge, FlushStart, FlushReveal, FlushSubmit, FlushEvidence, At
  <2> QED
    BY <2>1, <2>2
<1>2. \E keys, next : \E taken \in BOOLEAN : Flush(h, keys, taken, next)
  <2>1. CASE FlushEdge(h)
    BY <2>1, Zenon DEF FlushEdge
  <2>2. CASE FlushStart(h)
    BY <2>2, Zenon DEF FlushStart
  <2>3. CASE FlushReveal(h)
    BY <2>3, Zenon DEF FlushReveal, Recorded
  <2>4. CASE FlushSubmit(h)
    BY <2>4, Zenon DEF FlushSubmit, Recorded
  <2>5. CASE FlushCard(h)
    BY <2>5, Zenon DEF FlushCard
  <2>6. CASE FlushEvidence(h)
    BY <2>6, Zenon DEF FlushEvidence
  <2> QED
    BY <2>1, <2>2, <2>3, <2>4, <2>5, <2>6
<1> QED
  BY <1>1, <1>2, LogFlush

LEMMA LogQuiet ==
    ASSUME LogInv,
           \/ create_course \/ (\E n \in Nodes : add_curriculum_node(n))
           \/ (\E i \in Items : create_assessment(i)) \/ UNCHANGED vars
    PROVE  LogInv'
<1>1. tx' = tx /\ logged' = logged /\ evidence' = evidence
  BY DEF create_course, add_curriculum_node, create_assessment, vars, ledger
<1>2. LogOK'
  <2>1. CASE create_course
    BY <2>1 DEF create_course, LogInv, LogOK
  <2>2. CASE \E n \in Nodes : add_curriculum_node(n)
    BY <2>2 DEF add_curriculum_node, LogInv, LogOK
  <2>3. CASE \E i \in Items : create_assessment(i)
    BY <2>3 DEF create_assessment, LogInv, LogOK
  <2>4. CASE UNCHANGED vars
    BY <2>4 DEF vars, ledger, LogInv, LogOK
  <2> QED
    BY <2>1, <2>2, <2>3, <2>4
<1> QED
  BY <1>1, <1>2, EvidenceKept, FollowsKept DEF LogInv, SeenOK

LEMMA LogNext == IInv /\ LogInv /\ [Next]_vars => LogInv'
<1> SUFFICES ASSUME IInv, LogInv, [Next]_vars PROVE LogInv'
  OBVIOUS
<1>1. ASSUME NEW h \in Handlers, Step(h) PROVE LogInv'
  BY <1>1, LogOthersRead, LogFlushes, LogOthersCommit, LogReadsCard, LogReads, LogCommits
     DEF Step
<1>2. ASSUME NEW h \in Handlers, Undo(h) PROVE LogInv'
  BY <1>2, LogEnds DEF Undo
<1>3. ASSUME NEW h \in Handlers,
             \/ ReceiveEdge(h) \/ ReceiveStart(h) \/ ReceiveReveal(h)
             \/ ReceiveSubmit(h) \/ ReceiveRebuild(h)
      PROVE  LogInv'
  <2>1. \E q : Receive(h, q)
    BY <1>3, Zenon DEF ReceiveEdge, ReceiveStart, ReceiveReveal, ReceiveSubmit, ReceiveRebuild
  <2> QED
    BY <2>1, LogReceives
<1> QED
  BY <1>1, <1>2, <1>3, LogQuiet, LogAppends DEF Next

LEMMA LogInvariance == Spec => []LogInv
  BY Invariance, LogInit, LogNext, PTL DEF Spec

\* Every table, every counter and every transaction in progress stays within
\* its type, the evidence that replay_evidence computes from a log of any
\* length included.
THEOREM TypeCorrect == Spec => []TypeOK
<1>1. ASSUME IInv, LogInv PROVE TypeOK
  <2>1. /\ course \in BOOLEAN /\ nodes \subseteq Nodes /\ items \subseteq Items
        /\ edges \subseteq Edge /\ attempt \in [AttemptId -> {None} \cup Attempt]
        /\ event \subseteq Event
        /\ requests \in 0 .. mix.requests /\ mix \in Mixes /\ raced \in BOOLEAN
    BY <1>1 DEF IInv, Tables, LogInv, LogOK
  <2>2. logged \in [LoggedId -> {None} \cup Logged]
    BY <1>1 DEF LogInv, LogOK
  <2>3. \A u \in Users, i \in Items : card[<<u, i>>] = None \/ card[<<u, i>>] \in Card
    BY <1>1 DEF IInv, Tables
  <2>4. \A u \in Users, c \in Nodes :
           evidence[<<u, c>>] = None \/ evidence[<<u, c>>] \in ConceptEvidence
    BY <1>1 DEF LogInv, EvidenceOK, Follows
  <2>5. ASSUME NEW h \in Handlers
        PROVE  tx[h] = Idle \/ (tx[h].at \in Phase /\ tx[h].q \in Request)
    <3>1. TxOK(tx[h])
      BY <1>1 DEF IInv, HandlersOK
    <3> QED
      BY <3>1 DEF TxOK, EdgeOK, StartOK, RevealOK, SubmitOK, RebuildOK, Phase, Request
  <2> QED
    BY <2>1, <2>2, <2>3, <2>4, <2>5 DEF TypeOK
<1> QED
  BY <1>1, Invariance, LogInvariance, PTL

\* However many events are appended and rebuilds overlap, the stored evidence
\* of a concept is that of the log as it stood at one moment: its counters
\* count each event once, and its recall is that of the event that occurred
\* last, in whichever order they arrived.
THEOREM EvidenceIsOfTheLog == Spec => []EvidenceFollowsLog
<1>1. ASSUME LogInv PROVE EvidenceFollowsLog
  BY <1>1 DEF LogInv, EvidenceOK, Follows, EvidenceFollowsLog
<1> QED
  BY <1>1, LogInvariance, PTL


-----------------------------------------------------------------------------
(* The ledger only grows.                                                  *)

LEMMA Unmoved ==
    ASSUME UNCHANGED <<edges, event, attempt, logged>>
    PROVE  Grows
  BY DEF Grows, Advances

LEMMA AppendGrows ==
    ASSUME LogInv, LogEvent
    PROVE  Grows
<1>1. ASSUME NEW u, NEW c, NEW type, NEW hinted, NEW claimed, NEW rating, NEW at,
             append_learner_event(u, c, type, hinted, claimed, rating, at)
      PROVE  Grows
  <2>1. PICK l \in LoggedId :
           /\ logged[l] = None
           /\ logged' = [logged EXCEPT ![l] =
                 [made |-> TRUE, id |-> l, user |-> u, concept |-> c, type |-> type,
                  correct |-> Payload(claimed), rating |-> rating, at |-> at,
                  eligible |-> classify_event_eligibility(type, FALSE, hinted, TRUE)]]
           /\ UNCHANGED <<course, nodes, items, edges, attempt, event, card, evidence,
                          tx, requests, mix, raced>>
    BY <1>1, Zenon DEF append_learner_event
  <2>2. \A k \in LoggedId : logged[k] # None => logged'[k] = logged[k]
    BY <2>1 DEF LogInv, LogOK
  <2> QED
    BY <2>1, <2>2 DEF Grows, Advances
<1> QED
  BY <1>1, Zenon DEF LogEvent

LEMMA CommitGrows ==
    ASSUME IInv, NEW h \in Handlers,
           CommitEdge(h) \/ CommitStart(h) \/ CommitReveal(h) \/ CommitSubmit(h)
    PROVE  Grows
<1>1. PICK t : t = tx[h]
  OBVIOUS
<1>2. t.at = "commit"
  BY <1>1 DEF CommitEdge, CommitStart, CommitReveal, CommitSubmit, At
<1>3. attempt \in [AttemptId -> {None} \cup Attempt]
  BY DEF IInv, Tables
<1>4. CASE CommitEdge(h)
  BY <1>4 DEF CommitEdge, Grows, Advances
<1>5. CASE CommitStart(h)
  <2>1. StartOK(t)
    BY <1>1, <1>2, <1>5, KindOf DEF CommitStart
  <2>2. t.id \in AttemptId /\ attempt[t.id] = None
    BY <1>2, <2>1 DEF StartOK, Made
  <2>3. \A a \in AttemptId : attempt[a] # None => attempt'[a] = attempt[a]
    BY <1>1, <1>3, <1>5, <2>2 DEF CommitStart
  <2> QED
    BY <1>5, <2>3 DEF CommitStart, Grows, Advances
<1>6. CASE CommitReveal(h)
  <2>1. RevealOK(t)
    BY <1>1, <1>2, <1>6, KindOf DEF CommitReveal
  <2>2. PICK i \in AttemptId, hint \in BOOLEAN, answer \in BOOLEAN :
           i = t.q.attempt /\ hint = t.q.hint /\ answer = t.q.answer
    BY <2>1 DEF RevealOK, RevealRequest
  <2>3. attempt[i] \in Attempt
    BY <1>3, <2>1, <2>2 DEF RevealOK, Made
  <2>4. attempt' = [attempt EXCEPT ![i].hint = @ \/ hint, ![i].answer = @ \/ answer]
    BY <1>1, <1>6, <2>2 DEF CommitReveal
  <2>5. PICK new : new = [attempt[i] EXCEPT !.hint = @ \/ hint, !.answer = @ \/ answer]
    OBVIOUS
  <2>6. Advances(attempt[i], new)
    BY <2>2, <2>3, <2>5 DEF Advances, Attempt
  <2>7. attempt'[i] = new /\ \A a \in AttemptId : a # i => attempt'[a] = attempt[a]
    BY <1>3, <2>3, <2>4, <2>5
  <2>8. \A a \in AttemptId : Advances(attempt[a], attempt'[a])
    BY <2>6, <2>7 DEF Advances
  <2> QED
    BY <1>6, <2>8 DEF CommitReveal, Grows
<1>7. CASE CommitSubmit(h)
  <2>1. SubmitOK(t)
    BY <1>1, <1>2, <1>7, KindOf DEF CommitSubmit
  <2>2. PICK i \in AttemptId : i = t.id /\ attempt[i] \in Attempt
    BY <1>2, <1>3, <2>1 DEF SubmitOK, Made
  <2>3. attempt' = [attempt EXCEPT ![i].status = "graded"]
    BY <1>1, <1>7, <2>2 DEF CommitSubmit
  <2>4. /\ attempt'[i] = [attempt[i] EXCEPT !.status = "graded"]
        /\ \A a \in AttemptId : a # i => attempt'[a] = attempt[a]
    BY <1>3, <2>3
  <2>5. Advances(attempt[i], attempt'[i])
    BY <2>2, <2>4 DEF Advances, Attempt
  <2>6. \A a \in AttemptId : Advances(attempt[a], attempt'[a])
    BY <2>4, <2>5 DEF Advances
  <2>7. event \subseteq event' /\ edges' = edges /\ logged' = logged
    BY <1>7 DEF CommitSubmit
  <2> QED
    BY <2>6, <2>7 DEF Grows
<1> QED
  BY <1>4, <1>5, <1>6, <1>7

\* What append_learner_event, record_attempt_reveal and
\* submit_assessment_attempt commit is never taken back by a request that had
\* read before: events and prerequisites stay, reveals and grades stick.
THEOREM LedgerGrows == Spec => LedgerOnlyGrows
<1>1. IInv /\ LogInv /\ [Next]_vars => [Grows]_vars
  <2> SUFFICES ASSUME IInv, LogInv, Next PROVE Grows
    OBVIOUS
  <2>1. ASSUME NEW h \in Handlers, Step(h) PROVE Grows
    <3>1. CASE CommitEdge(h) \/ CommitStart(h) \/ CommitReveal(h) \/ CommitSubmit(h)
      BY <3>1, CommitGrows
    <3>2. CASE CommitEvidence(h) \/ ReadCard(h)
      BY <3>2, Unmoved DEF CommitEvidence, ReadCard, unchanged, ledger
    <3>3. CASE ReadEdges(h) \/ ReadStart(h) \/ ReadReveal(h) \/ ReadSubmit(h) \/ ReadLog(h)
      <4>1. End(h) \/ \E id, seen : ToFlush(h, id, seen)
        BY <3>3, Zenon DEF ReadEdges, ReadStart, ReadReveal, ReadSubmit, ReadLog
      <4> QED
        BY <4>1, Unmoved DEF End, ToFlush, unchanged, ledger
    <3>4. CASE \/ FlushEdge(h) \/ FlushStart(h) \/ FlushReveal(h) \/ FlushSubmit(h)
               \/ FlushCard(h) \/ FlushEvidence(h)
      <4>1. \E keys, taken, next : Flush(h, keys, taken, next)
        BY <3>4, Zenon DEF FlushEdge, FlushStart, FlushReveal, FlushSubmit, FlushCard,
                           FlushEvidence
      <4> QED
        BY <4>1, Unmoved DEF Flush, End, unchanged, ledger
    <3> QED
      BY <2>1, <3>1, <3>2, <3>3, <3>4 DEF Step
  <2>2. ASSUME NEW h \in Handlers,
               \/ ReceiveEdge(h) \/ ReceiveStart(h) \/ ReceiveReveal(h)
               \/ ReceiveSubmit(h) \/ ReceiveRebuild(h) \/ Undo(h)
        PROVE  Grows
    <3>1. End(h) \/ \E q : Receive(h, q)
      BY <2>2, Zenon DEF ReceiveEdge, ReceiveStart, ReceiveReveal, ReceiveSubmit,
                         ReceiveRebuild, Undo
    <3> QED
      BY <3>1, Unmoved DEF End, Receive, unchanged, ledger
  <2>3. CASE create_course \/ (\E n \in Nodes : add_curriculum_node(n))
             \/ (\E i \in Items : create_assessment(i))
    BY <2>3, Unmoved DEF create_course, add_curriculum_node, create_assessment
  <2> QED
    BY <2>1, <2>2, <2>3, AppendGrows DEF Next
<1> QED
  BY <1>1, Invariance, LogInvariance, PTL DEF Spec, LedgerOnlyGrows
=============================================================================
