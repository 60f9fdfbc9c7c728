---------------------------- MODULE OutboxProofs ----------------------------
(***************************************************************************)
(* The outbox, proved for any number of events, workers and tokens and any *)
(* batch size.                                                             *)
(***************************************************************************)
EXTENDS Outbox, TLAPS

\* What the rows in an open transaction look like: they are pending, only
\* this transaction holds them, and it acknowledges only rows it has locked
\* and whose handler it ran.
TxOK ==
    /\ \A v, w \in Workers : v # w => locked[v] \cap locked[w] = {}
    /\ \A w \in Workers :
          /\ \A e \in locked[w] : row[e] = "pending"
          /\ acked[w] \subseteq locked[w]
          /\ acked[w] \subseteq ran[w]
          /\ ran[w] \subseteq owned

\* What a batch that is one transaction adds: the events still to do are
\* locked, and every handler that ran has been acknowledged.
BatchOK ==
    OneTransaction = TRUE =>
        \A w \in Workers : /\ todo[w] \subseteq locked[w]
                           /\ todo[w] \cap acked[w] = {}
                           /\ ran[w] = acked[w]

IInv == TypeOK /\ TxOK /\ BatchOK /\ NeverDiscarded /\ ExactlyOnce

\* The type invariant: every step of a producer, the clock or a dispatcher
\* leaves the outbox rows and the workers' transactions well formed.
THEOREM TypeCorrect == Spec => []TypeOK
<1>1. Init => TypeOK
  BY OutboxAssumption DEF Init, TypeOK, ClaimsWhole, Token, NoToken
<1>2. TypeOK /\ [Next]_vars => TypeOK'
  <2> SUFFICES ASSUME TypeOK, [Next]_vars PROVE TypeOK'
    OBVIOUS
  <2> USE DEF TypeOK, ClaimsWhole
  <2>1. ASSUME NEW e \in Event, NEW handled \in BOOLEAN, Insert(e, handled) PROVE TypeOK'
    BY <2>1 DEF Insert, txVars
  <2>2. ASSUME NEW e \in Event, Expire(e) PROVE TypeOK'
    BY <2>2 DEF Expire, txVars
  <2>3. ASSUME NEW w \in Workers, Claim(w) PROVE TypeOK'
    <3>1. Candidates(w) \subseteq Event
      BY DEF Candidates, Claimable
    <3>2. (CHOOSE t \in FreshTokens : TRUE) \in Token \ {NoToken}
      BY <2>3 DEF Claim, FreshTokens
    <3> QED
      BY <2>3, <3>1, <3>2 DEF Claim, dbVars
  <2>4. ASSUME NEW w \in Workers, NEW e \in Event, Skip(w, e) PROVE TypeOK'
    BY <2>4 DEF Skip, dbVars
  <2>5. ASSUME NEW w \in Workers, NEW e \in Event, Handle(w, e) PROVE TypeOK'
    BY <2>5 DEF Handle, dbVars
  <2>6. ASSUME NEW w \in Workers, NEW new \in SUBSET Event, NEW handled \in SUBSET new,
               Commit(w, new, handled)
        PROVE  TypeOK'
    BY <2>6, OutboxAssumption DEF Commit, LeaseAfter, Claimed, Token, NoToken
  <2>7. ASSUME NEW w \in Workers, Rollback(w) PROVE TypeOK'
    BY <2>7, OutboxAssumption DEF Rollback, dbVars, Token, NoToken
  <2>8. CASE UNCHANGED vars
    BY <2>8 DEF vars, dbVars, txVars
  <2> QED
    BY <2>1, <2>2, <2>3, <2>4, <2>5, <2>6, <2>7, <2>8 DEF Next
<1> QED
  BY <1>1, <1>2, PTL DEF Spec

-----------------------------------------------------------------------------
LEMMA InitIInv == Init => IInv
<1> SUFFICES ASSUME Init PROVE IInv
  OBVIOUS
<1>1. TypeOK
  BY OutboxAssumption DEF Init, TypeOK, ClaimsWhole, Token, NoToken
<1>2. TxOK /\ BatchOK /\ NeverDiscarded /\ ExactlyOnce
  BY DEF Init, TxOK, BatchOK, NeverDiscarded, ExactlyOnce
<1> QED
  BY <1>1, <1>2 DEF IInv

LEMMA InsertIInv ==
    ASSUME IInv, NEW e \in Event, NEW handled \in BOOLEAN, Insert(e, handled), TypeOK'
    PROVE  IInv'
<1> USE DEF IInv, TypeOK, Insert, txVars
<1>1. TxOK'
  BY DEF TxOK
<1>2. BatchOK'
  BY DEF BatchOK
<1>3. NeverDiscarded'
  BY DEF NeverDiscarded
<1>4. ExactlyOnce'
  BY DEF ExactlyOnce
<1> QED
  BY <1>1, <1>2, <1>3, <1>4

LEMMA ClaimIInv ==
    ASSUME IInv, NEW w \in Workers, Claim(w), TypeOK'
    PROVE  IInv'
<1> USE DEF IInv, TypeOK, Claim, dbVars, Idle
<1>1. \A e \in Candidates(w) : row[e] = "pending" /\ ~LockedByOther(w, e)
  BY DEF Candidates, Claimable
<1>2. TxOK'
  BY <1>1 DEF TxOK, LockedByOther
<1>3. BatchOK'
  BY DEF BatchOK, TxOK
<1> QED
  BY <1>2, <1>3 DEF NeverDiscarded, ExactlyOnce

LEMMA SkipIInv ==
    ASSUME IInv, NEW w \in Workers, NEW e \in Event, Skip(w, e), TypeOK'
    PROVE  IInv'
  BY DEF IInv, TypeOK, Skip, dbVars, TxOK, BatchOK, NeverDiscarded, ExactlyOnce

LEMMA HandleIInv ==
    ASSUME IInv, NEW w \in Workers, NEW e \in Event, Handle(w, e), TypeOK'
    PROVE  IInv'
<1> USE DEF IInv, TypeOK, Handle, dbVars
<1>1. TxOK'
  <2>1. CASE AckMatches(w, e)
    <3>1. row[e] = "pending"
      BY <2>1 DEF AckMatches, TxOK
    <3> QED
      BY <2>1, <3>1 DEF TxOK, LockedByOther
  <2>2. CASE ~AckMatches(w, e)
    BY <2>2 DEF TxOK
  <2> QED
    BY <2>1, <2>2
<1>2. BatchOK'
  <2> SUFFICES ASSUME OneTransaction = TRUE PROVE BatchOK'
    BY DEF BatchOK
  <2>1. AckMatches(w, e)
    BY DEF AckMatches, BatchOK
  <2> QED
    BY <2>1 DEF BatchOK
<1> QED
  BY <1>1, <1>2 DEF NeverDiscarded, ExactlyOnce

LEMMA CommitIInv ==
    ASSUME IInv, NEW w \in Workers, NEW new \in SUBSET Event,
           NEW handled \in SUBSET new, Commit(w, new, handled), TypeOK'
    PROVE  IInv'
<1> USE DEF IInv, TypeOK, Commit
<1>1. TxOK'
  BY DEF TxOK
<1>2. BatchOK'
  BY DEF BatchOK
<1>3. NeverDiscarded'
  BY DEF NeverDiscarded, TxOK
<1>4. ExactlyOnce'
  BY DEF ExactlyOnce, BatchOK, TxOK
<1> QED
  BY <1>1, <1>2, <1>3, <1>4

LEMMA RollbackIInv ==
    ASSUME IInv, NEW w \in Workers, Rollback(w), TypeOK'
    PROVE  IInv'
  BY DEF IInv, TypeOK, Rollback, dbVars, TxOK, BatchOK, NeverDiscarded, ExactlyOnce

LEMMA NextIInv == IInv /\ [Next]_vars /\ TypeOK' => IInv'
<1> SUFFICES ASSUME IInv, [Next]_vars, TypeOK' PROVE IInv'
  OBVIOUS
<1>1. ASSUME NEW e \in Event, Expire(e) PROVE IInv'
  BY <1>1 DEF IInv, TypeOK, Expire, txVars, TxOK, BatchOK, NeverDiscarded, ExactlyOnce
<1>2. CASE UNCHANGED vars
  BY <1>2 DEF IInv, vars, dbVars, txVars, TxOK, BatchOK, NeverDiscarded, ExactlyOnce
<1> QED
  BY <1>1, <1>2, InsertIInv, ClaimIInv, SkipIInv, HandleIInv, CommitIInv, RollbackIInv
     DEF Next

LEMMA Inductive == Spec => []IInv
<1>1. IInv /\ TypeOK' /\ [Next]_vars => IInv'
  BY NextIInv
<1> QED
  BY InitIInv, <1>1, TypeCorrect, PTL DEF Spec

\* Exactly-once effects: with one transaction per batch the effects of a
\* handler are committed once if its event is published and never otherwise,
\* for every number of workers, events and batch size.
THEOREM ExactlyOnceHolds == Spec => []ExactlyOnce
  BY Inductive, PTL DEF IInv

\* An event is published only by a dispatcher that owns it and after its
\* handler's effects were committed, with or without a commit between the
\* claim and the handler.
THEOREM NeverDiscardedHolds == Spec => []NeverDiscarded
  BY Inductive, PTL DEF IInv

\* No two dispatchers ever hold the same row in their open transactions.
THEOREM RowsExclusive == Spec => []OneTransactionPerRow
<1>1. IInv => OneTransactionPerRow
  BY DEF IInv, TxOK, OneTransactionPerRow
<1> QED
  BY <1>1, Inductive, PTL

\* A published event stays published and no dispatcher claims it again.
THEOREM PublishedStays == Spec => PublishedIsFinal
<1> DEFINE Final == \A e \in Event : row[e] = "published" =>
                      /\ row'[e] = "published"
                      /\ \A w \in Workers : e \in locked'[w] => e \in locked[w]
<1>1. IInv /\ [Next]_vars => [Final]_vars
  <2> SUFFICES ASSUME IInv, Next PROVE Final
    OBVIOUS
  <2> USE DEF IInv, TypeOK
  <2>1. ASSUME NEW e \in Event, NEW handled \in BOOLEAN, Insert(e, handled) PROVE Final
    BY <2>1 DEF Insert, txVars
  <2>2. ASSUME NEW e \in Event, Expire(e) PROVE Final
    BY <2>2 DEF Expire, txVars
  <2>3. ASSUME NEW w \in Workers, Claim(w) PROVE Final
    BY <2>3 DEF Claim, Candidates, Claimable, dbVars
  <2>4. ASSUME NEW w \in Workers, NEW e \in Event, Skip(w, e) PROVE Final
    BY <2>4 DEF Skip, dbVars
  <2>5. ASSUME NEW w \in Workers, NEW e \in Event, Handle(w, e) PROVE Final
    <3>1. AckMatches(w, e) => row[e] = "pending"
      BY DEF AckMatches, TxOK
    <3> QED
      BY <2>5, <3>1 DEF Handle, dbVars
  <2>6. ASSUME NEW w \in Workers, NEW new \in SUBSET Event, NEW handled \in SUBSET new,
               Commit(w, new, handled)
        PROVE  Final
    BY <2>6 DEF Commit
  <2>7. ASSUME NEW w \in Workers, Rollback(w) PROVE Final
    BY <2>7 DEF Rollback, dbVars
  <2> QED
    BY <2>1, <2>2, <2>3, <2>4, <2>5, <2>6, <2>7 DEF Next
<1> QED
  BY <1>1, Inductive, PTL DEF Spec, PublishedIsFinal

\* With one transaction per batch the outbox implements the delivery
\* contract: a commit is one delivery of all its acknowledged events, an
\* insertion records an event, and every other step is invisible.
THEOREM OutboxImplementsDelivery ==
    ASSUME OneTransaction = TRUE
    PROVE  Spec => ImplementsDelivery
<1>1. Init => D!Init
  BY DEF Init, D!Init
<1>2. IInv /\ [Next]_vars => [D!Next]_D!vars
  <2> SUFFICES ASSUME IInv, Next PROVE D!Next \/ UNCHANGED D!vars
    BY DEF vars, dbVars, D!vars
  <2> USE DEF IInv, TypeOK
  <2>1. ASSUME NEW e \in Event, NEW handled \in BOOLEAN, Insert(e, handled)
        PROVE  D!Step({e}, {})
    BY <2>1 DEF Insert, D!Step
  <2>2. ASSUME NEW e \in Event, Expire(e) PROVE UNCHANGED D!vars
    BY <2>2 DEF Expire, D!vars
  <2>3. ASSUME NEW w \in Workers, Claim(w) PROVE UNCHANGED D!vars
    BY <2>3 DEF Claim, dbVars, D!vars
  <2>4. ASSUME NEW w \in Workers, NEW e \in Event, Skip(w, e) \/ Handle(w, e)
        PROVE  UNCHANGED D!vars
    BY <2>4 DEF Skip, Handle, dbVars, D!vars
  <2>5. ASSUME NEW w \in Workers, NEW new \in SUBSET Event, NEW handled \in SUBSET new,
               Commit(w, new, handled)
        PROVE  D!Step(new, acked[w])
    <3>1. ran[w] = acked[w]
      BY DEF BatchOK
    <3> QED
      BY <2>5, <3>1 DEF Commit, D!Step, TxOK
  <2>6. ASSUME NEW w \in Workers, Rollback(w) PROVE UNCHANGED D!vars
    BY <2>6 DEF Rollback, dbVars, D!vars
  <2>7. ASSUME NEW w \in Workers, NEW new \in SUBSET Event, NEW handled \in SUBSET new,
               Commit(w, new, handled)
        PROVE  D!Next
    BY <2>5, <2>7 DEF D!Next
  <2>8. ASSUME NEW e \in Event, NEW handled \in BOOLEAN, Insert(e, handled) PROVE D!Next
    BY <2>1, <2>8 DEF D!Next
  <2> QED
    BY <2>2, <2>3, <2>4, <2>6, <2>7, <2>8 DEF Next
<1> QED
  BY <1>1, <1>2, Inductive, PTL DEF Spec, ImplementsDelivery, D!Spec

-----------------------------------------------------------------------------
\* Why a superseded worker cannot acknowledge: the workers' tokens differ,
\* a worker with events to do has one, and a row in an open transaction is
\* under a live lease only if that lease is the transaction's own.
LeaseOK ==
    /\ \A v, w \in Workers : v # w /\ myToken[v] # NoToken => myToken[v] # myToken[w]
    /\ \A w \in Workers : todo[w] # {} => myToken[w] # NoToken
    /\ \A w \in Workers : \A e \in locked[w] :
          lease[e] = "live" => token[e] = myToken[w]

LEMMA LeaseStep == IInv /\ LeaseOK /\ [Next]_vars => LeaseOK'
<1> SUFFICES ASSUME IInv, LeaseOK, [Next]_vars PROVE LeaseOK'
  OBVIOUS
<1> USE DEF IInv, TypeOK, LeaseOK
<1>1. ASSUME NEW e \in Event, NEW handled \in BOOLEAN, Insert(e, handled) PROVE LeaseOK'
  BY <1>1 DEF Insert, txVars
<1>2. ASSUME NEW e \in Event, Expire(e) PROVE LeaseOK'
  BY <1>2 DEF Expire, txVars
<1>3. ASSUME NEW w \in Workers, Claim(w) PROVE LeaseOK'
  <2> DEFINE t == CHOOSE u \in FreshTokens : TRUE
  <2>1. t # NoToken /\ \A v \in Workers : myToken[v] # t
    BY <1>3 DEF Claim, FreshTokens
  <2>2. \A e \in Candidates(w) : e \in Event /\ lease[e] # "live"
    BY DEF Candidates, Claimable
  <2>3. myToken' = [myToken EXCEPT ![w] = t]
    BY <1>3 DEF Claim
  <2> HIDE DEF t
  <2> QED
    BY <1>3, <2>1, <2>2, <2>3 DEF Claim, dbVars
<1>4. ASSUME NEW w \in Workers, NEW e \in Event, Skip(w, e) PROVE LeaseOK'
  BY <1>4 DEF Skip, dbVars
<1>5. ASSUME NEW w \in Workers, NEW e \in Event, Handle(w, e) PROVE LeaseOK'
  BY <1>5 DEF Handle, AckMatches, dbVars
<1>6. ASSUME NEW w \in Workers, NEW new \in SUBSET Event, NEW handled \in SUBSET new,
             Commit(w, new, handled)
      PROVE  LeaseOK'
  BY <1>6 DEF Commit, LeaseAfter, Claimed, TxOK
<1>7. ASSUME NEW w \in Workers, Rollback(w) PROVE LeaseOK'
  BY <1>7 DEF Rollback, dbVars
<1>8. CASE UNCHANGED vars
  BY <1>8 DEF vars, dbVars, txVars
<1> QED
  BY <1>1, <1>2, <1>3, <1>4, <1>5, <1>6, <1>7, <1>8 DEF Next

\* A worker whose lease ran out and was taken over does not acknowledge the
\* event while the new holder's lease is live, for every schedule of claims,
\* expirations and commits.
THEOREM LeasesRespected == Spec => []LeaseRespected
<1>1. Init => LeaseOK
  BY DEF Init, LeaseOK
<1>2. IInv /\ LeaseOK => LeaseRespected
  BY DEF IInv, TypeOK, TxOK, LeaseOK, LeaseRespected
<1> QED
  BY <1>1, <1>2, LeaseStep, Inductive, PTL DEF Spec
=============================================================================
