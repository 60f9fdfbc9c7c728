--------------------------- MODULE ExchangeProofs ---------------------------
(***************************************************************************)
(* Proposals and conversations, proved for any handlers, items, proposals, *)
(* conversations, clients and keys, in any deployment.                     *)
(***************************************************************************)
EXTENDS Exchange, FiniteSetTheorems, TLAPS

\* A transaction whose request is in Q, with what it has read in S and K.
Tx(Q, S, K) == [at : Phase, q : Q, seen : S, known : K]

\* Past its first step a request holds what it has read.
Past(h) == Busy(h) /\ tx[h].at # "read"

LEMMA ReceiveTx ==
    ASSUME NEW Q, NEW S, NEW K, NoRow \in S, NoRow \in K, NEW h \in Handlers, NEW q \in Q,
           tx \in [Handlers -> {Idle} \cup Tx(Q, S, K)],
           Receive(h, q)
    PROVE  /\ tx' \in [Handlers -> {Idle} \cup Tx(Q, S, K)]
           /\ tx'[h].at = "read" /\ tx'[h].q = q
           /\ \A g \in Handlers \ {h} : tx'[g] = tx[g]
  BY DEF Receive, Tx, Phase

LEMMA GotoTx ==
    ASSUME NEW Q, NEW S, NEW K, NEW h \in Handlers, NEW phase \in Phase,
           NEW seen \in S, NEW known \in K,
           tx \in [Handlers -> {Idle} \cup Tx(Q, S, K)], Busy(h),
           Goto(h, phase, seen, known)
    PROVE  /\ tx' \in [Handlers -> {Idle} \cup Tx(Q, S, K)]
           /\ tx'[h] = [at |-> phase, q |-> tx[h].q, seen |-> seen, known |-> known]
           /\ \A g \in Handlers \ {h} : tx'[g] = tx[g]
<1>1. tx[h] \in Tx(Q, S, K)
  BY DEF Busy
<1>2. /\ DOMAIN tx' = Handlers
      /\ tx'[h] = [tx[h] EXCEPT !.at = phase, !.seen = seen, !.known = known]
      /\ \A g \in Handlers \ {h} : tx'[g] = tx[g]
  BY DEF Goto
<1>3. tx'[h] = [at |-> phase, q |-> tx[h].q, seen |-> seen, known |-> known]
  BY <1>1, <1>2 DEF Tx
<1>4. tx'[h] \in Tx(Q, S, K)
  BY <1>1, <1>3 DEF Tx
<1> QED
  BY <1>2, <1>3, <1>4 DEF Goto

LEMMA EndTx ==
    ASSUME NEW Q, NEW S, NEW K, NEW h \in Handlers,
           tx \in [Handlers -> {Idle} \cup Tx(Q, S, K)],
           End(h)
    PROVE  /\ tx' \in [Handlers -> {Idle} \cup Tx(Q, S, K)]
           /\ tx'[h] = Idle
           /\ \A g \in Handlers \ {h} : tx'[g] = tx[g]
  BY DEF End

-----------------------------------------------------------------------------
(* Proposals.                                                              *)

SeenProposal == {NoRow} \cup Proposal
KnownRevision == {NoRow} \cup [made : {TRUE}, rev : MemoryId]
ProposalTx == Tx(ProposalRequest, SeenProposal, KnownRevision)
ProposalTxs == tx \in [Handlers -> {Idle} \cup ProposalTx]

\* A resolver has read a pending proposal, which only a rival can have
\* decided since, and the current revision of its item, which only a rival
\* can have replaced.
ResolverOK(h) ==
    LET p == tx[h].q.proposal
        i == tx[h].seen.target
    IN /\ tx[h].q.op = "resolve_proposal"
       /\ tx[h].at \in {"next", "commit"}
       /\ tx[h].seen.made /\ proposal[p].made /\ proposal[p].target = i
       /\ p \notin contested => proposal[p].status = "pending"
       /\ tx[h].at = "commit" =>
             /\ Rewrites(h)
             /\ tx[h].known.made /\ tx[h].known.rev \in RevisionsOf(i)
             /\ i \notin forked => tx[h].known.rev = pointer[i]

ResolversOK == \A h \in Handlers : Past(h) => ResolverOK(h)

\* The pointer of an item names one of its revisions, and so do the bases of
\* those; the current one is nobody's base.
HistoryOK ==
    \A i \in Items :
        /\ IF pointer[i] = 0 THEN RevisionsOf(i) = {} ELSE pointer[i] \in RevisionsOf(i)
        /\ \A r \in RevisionsOf(i) : memory[r].base = 0 \/ memory[r].base \in RevisionsOf(i)
        /\ i \notin forked => \A r \in RevisionsOf(i) : memory[r].base # pointer[i]

Chained ==
    \A i \in Items \ forked :
        /\ \A r, s \in RevisionsOf(i) : memory[r].base = memory[s].base => r = s
        /\ \A r \in RevisionsOf(i) :
              r = pointer[i] \/ \E s \in RevisionsOf(i) : memory[s].base = r

\* Without a count: the revisions made for a proposal are one or none.
MadeFor(p) == {r \in Revisions : memory[r].from = p}
Applied ==
    \A p \in Proposals \ contested :
        IF proposal[p].made /\ proposal[p].status = "approved" /\ proposal[p].target # "nothing"
        THEN \E r \in MemoryId : MadeFor(p) = {r}
        ELSE MadeFor(p) = {}

ProposalsInv ==
    ProposalsTypeOK /\ ProposalTxs /\ ResolversOK /\ HistoryOK /\ Chained /\ Applied

LEMMA ProposalsInvInit == Init /\ part = "proposals" => ProposalsInv
<1> SUFFICES ASSUME Init, part = "proposals" PROVE ProposalsInv
  OBVIOUS
<1> USE DEF Init, RequestsInit, ProposalsInit
<1>1. ProposalsTypeOK
  BY ProposalsAssumption, RequestsAssumption
  DEF ProposalsTypeOK, RequestsTypeOK, Busy
<1>2. ProposalTxs /\ ResolversOK
  BY DEF ProposalTxs, ResolversOK, Past, Busy
<1>3. Revisions = {}
  BY DEF Revisions, NoRow
<1>4. HistoryOK /\ Chained
  BY <1>3 DEF HistoryOK, Chained, RevisionsOf
<1>5. Applied
  BY <1>3 DEF Applied, MadeFor, NoRow
<1> QED
  BY <1>1, <1>2, <1>4, <1>5 DEF ProposalsInv

\* The database stays, and one handler is somewhere else.
LEMMA ProposalsTxStep ==
    ASSUME ProposalsInv, NEW h \in Handlers,
           ProposalTxs', \A g \in Handlers \ {h} : tx'[g] = tx[g],
           UNCHANGED <<part, deployment, proposalVars>>,
           served' \in 0 .. MaxRequests[part],
           Past(h)' => ResolverOK(h)'
    PROVE  ProposalsInv'
<1> USE DEF ProposalsInv, proposalVars
<1>1. ProposalsTypeOK'
  <2>1. \A g \in Handlers : Busy(g)' => tx'[g].q \in ProposalRequest /\ tx'[g].at \in Phase
    BY DEF ProposalTxs, ProposalTx, Tx, Busy
  <2> QED
    BY <2>1 DEF ProposalsTypeOK, RequestsTypeOK, Busy
<1>2. ResolversOK'
  <2> SUFFICES ASSUME NEW g \in Handlers, Past(g)', g # h PROVE ResolverOK(g)'
    BY DEF ResolversOK
  <2>1. Past(g) /\ tx'[g] = tx[g]
    BY DEF Past, Busy
  <2>2. ResolverOK(g)
    BY <2>1 DEF ResolversOK
  <2> QED
    BY <2>1, <2>2 DEF ResolverOK, Rewrites, RevisionsOf, Revisions
<1>3. HistoryOK' /\ Chained' /\ Applied'
  BY DEF HistoryOK, Chained, Applied, RevisionsOf, Revisions, MadeFor
<1> QED
  BY <1>1, <1>2, <1>3

\* The handler is done and has written nothing.
LEMMA ProposalsEnd ==
    ASSUME ProposalsInv, NEW h \in Handlers, End(h), UNCHANGED proposalVars
    PROVE  ProposalsInv'
  BY EndTx, ProposalsTxStep
  DEF End, ProposalsInv, ProposalsTypeOK, RequestsTypeOK, ProposalTxs, ProposalTx, Past, Busy

LEMMA ReadProposalInv ==
    ASSUME ProposalsInv, NEW h \in Handlers, ReadProposal(h)
    PROVE  ProposalsInv'
<1> DEFINE p == tx[h].q.proposal
           seen == Seen(proposal[p], NoRow)
<1>1. Busy(h) /\ tx[h] \in ProposalTx
  BY DEF ReadProposal, At, Busy, ProposalsInv, ProposalTxs
<1>2. tx[h].q.op = "resolve_proposal" /\ p \in Proposals
  BY <1>1 DEF ReadProposal, At, ProposalTx, Tx, ProposalRequest, CreateItem, Propose, Resolve
<1>3. CASE seen.made /\ seen.status = "pending"
  <2>1. seen = proposal[p] /\ seen \in Proposal
    BY <1>2, <1>3 DEF Seen, NoRow, ProposalsInv, ProposalsTypeOK
  <2>2. /\ ProposalTxs' /\ \A g \in Handlers \ {h} : tx'[g] = tx[g]
        /\ tx'[h] = [at |-> "next", q |-> tx[h].q, seen |-> seen, known |-> NoRow]
    <3>1. seen \in SeenProposal /\ NoRow \in KnownRevision /\ "next" \in Phase
      BY <2>1 DEF SeenProposal, KnownRevision, Phase
    <3>2. Goto(h, "next", seen, NoRow) /\ ProposalTxs
      BY <1>3 DEF ReadProposal, ProposalsInv
    <3> QED
      BY <1>1, <3>1, <3>2, GotoTx DEF ProposalTxs, ProposalTx
  <2>3. ResolverOK(h)'
    BY <1>2, <1>3, <2>1, <2>2 DEF ResolverOK, ReadProposal, proposalVars
  <2> QED
    BY <1>3, <2>2, <2>3, ProposalsTxStep
    DEF ReadProposal, Goto, ProposalsInv, ProposalsTypeOK, RequestsTypeOK
<1>4. CASE ~(seen.made /\ seen.status = "pending")
  BY <1>4, ProposalsEnd DEF ReadProposal
<1> QED
  BY <1>3, <1>4

LEMMA ReadCurrentInv ==
    ASSUME ProposalsInv, NEW h \in Handlers, ReadCurrent(h)
    PROVE  ProposalsInv'
<1> DEFINE i == tx[h].seen.target
<1>1. Busy(h) /\ tx[h] \in ProposalTx
  BY DEF ReadCurrent, At, Busy, ProposalsInv, ProposalTxs
<1>2. ResolverOK(h) /\ Rewrites(h) /\ tx[h].seen \in Proposal /\ i \in Items
  <2>1. ResolverOK(h) /\ Rewrites(h)
    BY DEF ReadCurrent, At, Past, ProposalsInv, ResolversOK
  <2>2. tx[h].seen \in Proposal
    <3>1. tx[h].seen \in {NoRow} \cup Proposal
      BY <1>1 DEF ProposalTx, Tx, SeenProposal
    <3>2. tx[h].seen.made
      BY <2>1 DEF ResolverOK
    <3> QED
      BY <3>1, <3>2 DEF NoRow
  <2> QED
    BY <2>1, <2>2 DEF Rewrites, Proposal, Target
<1>3. CASE pointer[i] = 0
  BY <1>3, ProposalsEnd DEF ReadCurrent
<1>4. CASE pointer[i] # 0
  <2>1. pointer[i] \in RevisionsOf(i) /\ pointer[i] \in MemoryId
    BY <1>2, <1>4 DEF ProposalsInv, HistoryOK, RevisionsOf, Revisions
  <2>2. /\ ProposalTxs' /\ \A g \in Handlers \ {h} : tx'[g] = tx[g]
        /\ tx'[h] = [at |-> "commit", q |-> tx[h].q, seen |-> tx[h].seen,
                     known |-> [made |-> TRUE, rev |-> pointer[i]]]
    <3>1. PICK k \in KnownRevision : k = [made |-> TRUE, rev |-> pointer[i]]
      BY <2>1 DEF KnownRevision
    <3>2. /\ Goto(h, "commit", tx[h].seen, k) /\ ProposalTxs
          /\ tx[h].seen \in SeenProposal /\ "commit" \in Phase
      BY <1>2, <1>4, <3>1 DEF ReadCurrent, ProposalsInv, SeenProposal, Phase
    <3>3. /\ ProposalTxs' /\ \A g \in Handlers \ {h} : tx'[g] = tx[g]
          /\ tx'[h] = [at |-> "commit", q |-> tx[h].q, seen |-> tx[h].seen, known |-> k]
      BY <1>1, <3>2, GotoTx DEF ProposalTxs, ProposalTx
    <3> QED
      BY <3>1, <3>3
  <2>3. ResolverOK(h)'
    BY <1>2, <2>1, <2>2
    DEF ResolverOK, ReadCurrent, proposalVars, Rewrites, RevisionsOf, Revisions
  <2> QED
    BY <1>4, <2>2, <2>3, ProposalsTxStep
    DEF ReadCurrent, Goto, ProposalsInv, ProposalsTypeOK, RequestsTypeOK
<1> QED
  BY <1>3, <1>4

\* memdot_set_current_memory_revision: one more revision, which is current.
LEMMA NewRevision ==
    ASSUME ProposalsInv, NEW i \in Items, NEW base \in 0 .. MaxMemory,
           NEW from \in Proposals \cup {"user"}, set_current_memory_revision(i, base, from)
    PROVE  \E r \in MemoryId \ Revisions :
              /\ memory' \in [MemoryId -> {NoRow} \cup MemoryRevision]
              /\ memory'[r] = [made |-> TRUE, item |-> i, base |-> base, from |-> from]
              /\ \A s \in MemoryId : s # r => memory'[s] = memory[s]
              /\ Revisions' = Revisions \cup {r}
              /\ pointer' = [pointer EXCEPT ![i] = r]
<1>1. PICK r \in MemoryId \ Revisions :
          /\ memory' = [memory EXCEPT ![r] = [made |-> TRUE, item |-> i, base |-> base,
                                              from |-> from]]
          /\ pointer' = [pointer EXCEPT ![i] = r]
  BY DEF set_current_memory_revision
<1>2. memory \in [MemoryId -> {NoRow} \cup MemoryRevision]
  BY DEF ProposalsInv, ProposalsTypeOK
<1>3. [made |-> TRUE, item |-> i, base |-> base, from |-> from] \in MemoryRevision
  BY DEF MemoryRevision
<1>4. memory' \in [MemoryId -> {NoRow} \cup MemoryRevision]
  BY <1>1, <1>2, <1>3
<1>5. Revisions' = Revisions \cup {r}
  BY <1>1, <1>2 DEF Revisions
<1> QED
  BY <1>1, <1>2, <1>4, <1>5

\* A new revision on base, the current one or 0 if there is none, keeps every
\* item's history.
LEMMA HistoryGrows ==
    ASSUME ProposalsInv, NEW i \in Items, NEW base, NEW from, NEW r \in MemoryId \ Revisions,
           base = 0 \/ base \in RevisionsOf(i),
           memory'[r] = [made |-> TRUE, item |-> i, base |-> base, from |-> from],
           \A s \in MemoryId : s # r => memory'[s] = memory[s],
           Revisions' = Revisions \cup {r},
           pointer' = [pointer EXCEPT ![i] = r],
           forked \subseteq forked', i \notin forked' => base = pointer[i]
    PROVE  HistoryOK' /\ Chained'
<1> USE DEF ProposalsInv
<1>1. /\ RevisionsOf(i)' = RevisionsOf(i) \cup {r}
      /\ \A j \in Items \ {i} : RevisionsOf(j)' = RevisionsOf(j)
      /\ \A j \in Items : RevisionsOf(j) \subseteq Revisions /\ r \notin RevisionsOf(j)
  BY DEF RevisionsOf, Revisions
<1>2. /\ pointer'[i] = r /\ \A j \in Items \ {i} : pointer'[j] = pointer[j]
      /\ r # 0
  BY DEF ProposalsTypeOK, MemoryId
<1>3. \A s \in Revisions : memory'[s] = memory[s]
  BY DEF Revisions
<1>4. ASSUME NEW j \in Items
      PROVE  /\ IF pointer'[j] = 0 THEN RevisionsOf(j)' = {} ELSE pointer'[j] \in RevisionsOf(j)'
             /\ \A s \in RevisionsOf(j)' :
                   memory'[s].base = 0 \/ memory'[s].base \in RevisionsOf(j)'
             /\ j \notin forked' => \A s \in RevisionsOf(j)' : memory'[s].base # pointer'[j]
  <2>1. CASE j # i
    BY <1>1, <1>2, <1>3, <2>1 DEF HistoryOK
  <2>2. CASE j = i
    BY <1>1, <1>2, <1>3, <2>2 DEF HistoryOK
  <2> QED
    BY <2>1, <2>2
<1>5. ASSUME NEW j \in Items \ forked'
      PROVE  /\ \A s, t \in RevisionsOf(j)' : memory'[s].base = memory'[t].base => s = t
             /\ \A s \in RevisionsOf(j)' :
                   s = pointer'[j] \/ \E t \in RevisionsOf(j)' : memory'[t].base = s
  <2>1. CASE j # i
    BY <1>1, <1>2, <1>3, <2>1 DEF Chained
  <2>2. CASE j = i
    <3>1. base = pointer[i] /\ i \in Items \ forked
      BY <2>2
    <3>2. \A s \in RevisionsOf(i) : memory[s].base # base
      BY <3>1 DEF HistoryOK
    <3>3. \A s \in RevisionsOf(i) :
             s = base \/ \E t \in RevisionsOf(i) : memory[t].base = s
      BY <3>1 DEF Chained
    <3> QED
      BY <1>1, <1>2, <1>3, <2>2, <3>1, <3>2, <3>3 DEF Chained
  <2> QED
    BY <2>1, <2>2
<1> QED
  BY <1>4, <1>5 DEF HistoryOK, Chained

\* A decision changes the status of its proposal, and marks it if another
\* request was resolving it.
LEMMA DecideStep ==
    ASSUME ProposalsInv, NEW h \in Handlers, Past(h), Decide(h)
    PROVE  LET p == tx[h].q.proposal IN
           /\ p \in Proposals
           /\ proposal' \in [Proposals -> {NoRow} \cup Proposal]
           /\ contested \subseteq contested' /\ contested' \subseteq Proposals
           /\ \A q \in Proposals \ {p} : proposal'[q] = proposal[q]
           /\ proposal'[p].made /\ proposal'[p].target = proposal[p].target
           /\ proposal'[p].status = IF tx[h].q.approve THEN "approved" ELSE "rejected"
           /\ \A g \in Handlers \ {h} :
                 Past(g) /\ tx[g].q.proposal = p => p \in contested'
<1> DEFINE p == tx[h].q.proposal
           new == IF tx[h].q.approve THEN "approved" ELSE "rejected"
<1>1. ResolverOK(h)
  BY DEF ProposalsInv, ResolversOK
<1>2. p \in Proposals
  BY <1>1 DEF ResolverOK, Past, Busy, ProposalsInv, ProposalTxs, ProposalTx, Tx, ProposalRequest,
              CreateItem, Propose, Resolve
<1>3. proposal \in [Proposals -> {NoRow} \cup Proposal] /\ proposal[p] \in Proposal
  BY <1>1, <1>2 DEF ResolverOK, ProposalsInv, ProposalsTypeOK, NoRow
<1>4. proposal' = [proposal EXCEPT ![p] = [proposal[p] EXCEPT !.status = new]]
  BY DEF Decide
<1>5. /\ [proposal[p] EXCEPT !.status = new] \in Proposal
      /\ [proposal[p] EXCEPT !.status = new].target = proposal[p].target
      /\ [proposal[p] EXCEPT !.status = new].status = new
      /\ [proposal[p] EXCEPT !.status = new].made
  BY <1>3 DEF Proposal
<1>6. \A g \in Handlers \ {h} : Past(g) => g \in Resolvers(h)
  BY DEF Resolvers, Rivals, Past, ProposalsInv, ResolversOK, ResolverOK
<1>7. contested \subseteq contested' /\ contested' \subseteq Proposals
  BY <1>2 DEF Decide, ProposalsInv, ProposalsTypeOK
<1>8. \A g \in Handlers \ {h} : Past(g) /\ tx[g].q.proposal = p => p \in contested'
  BY <1>6 DEF Decide
<1> QED
  BY <1>2, <1>3, <1>4, <1>5, <1>7, <1>8

LEMMA DecideOnlyInv ==
    ASSUME ProposalsInv, NEW h \in Handlers, DecideOnly(h)
    PROVE  ProposalsInv'
<1> DEFINE p == tx[h].q.proposal
<1> USE DEF ProposalsInv
<1>1. Past(h) /\ ResolverOK(h) /\ ~Rewrites(h) /\ Decide(h) /\ UNCHANGED <<memory, pointer, forked>>
  BY DEF DecideOnly, At, Past, ResolversOK
<1>2. /\ p \in Proposals
      /\ proposal' \in [Proposals -> {NoRow} \cup Proposal]
      /\ contested \subseteq contested' /\ contested' \subseteq Proposals
      /\ \A q \in Proposals \ {p} : proposal'[q] = proposal[q]
      /\ proposal'[p].made /\ proposal'[p].target = proposal[p].target
      /\ proposal'[p].status = IF tx[h].q.approve THEN "approved" ELSE "rejected"
      /\ \A g \in Handlers \ {h} : Past(g) /\ tx[g].q.proposal = p => p \in contested'
  BY <1>1, DecideStep
<1>3. End(h) /\ ProposalTxs' /\ tx'[h] = Idle /\ \A g \in Handlers \ {h} : tx'[g] = tx[g]
  BY <1>1, EndTx DEF Decide, ProposalTxs, ProposalTx
<1>4. ProposalsTypeOK'
  BY <1>1, <1>2, <1>3 DEF ProposalsTypeOK, RequestsTypeOK, End, Busy
<1>5. ResolversOK'
  <2> SUFFICES ASSUME NEW g \in Handlers, Past(g)' PROVE ResolverOK(g)'
    BY DEF ResolversOK
  <2>1. g # h /\ Past(g) /\ tx'[g] = tx[g] /\ ResolverOK(g)
    BY <1>3 DEF Past, Busy, ResolversOK
  <2>2. tx[g].q.proposal \in Proposals
    BY <2>1 DEF ResolverOK, Past, Busy, ProposalTxs, ProposalTx, Tx, ProposalRequest,
                CreateItem, Propose, Resolve
  <2> QED
    BY <1>1, <1>2, <2>1, <2>2 DEF ResolverOK, Rewrites, RevisionsOf, Revisions
<1>6. HistoryOK' /\ Chained'
  BY <1>1 DEF HistoryOK, Chained, RevisionsOf, Revisions
<1>7. Applied'
  <2> SUFFICES ASSUME NEW q \in Proposals \ contested'
               PROVE  (IF proposal[q].made /\ proposal[q].status = "approved"
                          /\ proposal[q].target # "nothing"
                       THEN \E r \in MemoryId : MadeFor(q) = {r} ELSE MadeFor(q) = {})'
    BY DEF Applied
  <2>1. MadeFor(q)' = MadeFor(q) /\ q \notin contested
    BY <1>1, <1>2 DEF MadeFor, Revisions
  <2>2. CASE q = p
    <3>1. proposal[p].status = "pending" /\ proposal[p].target = tx[h].seen.target
      BY <1>1, <2>1, <2>2 DEF ResolverOK
    <3>2. MadeFor(p) = {}
      BY <1>2, <2>1, <2>2, <3>1 DEF Applied
    <3> QED
      BY <1>1, <1>2, <2>1, <2>2, <3>1, <3>2 DEF Rewrites
  <2>3. CASE q # p
    BY <1>2, <2>1, <2>3 DEF Applied
  <2> QED
    BY <2>2, <2>3
<1> QED
  BY <1>3, <1>4, <1>5, <1>6, <1>7

LEMMA DecideAndRewriteInv ==
    ASSUME ProposalsInv, NEW h \in Handlers, DecideAndRewrite(h)
    PROVE  ProposalsInv'
<1> DEFINE p == tx[h].q.proposal
           i == tx[h].seen.target
           base == tx[h].known.rev
<1> USE DEF ProposalsInv
<1>1. /\ Past(h) /\ ResolverOK(h) /\ Rewrites(h) /\ Decide(h)
      /\ set_current_memory_revision(i, base, p) /\ tx[h].at = "commit"
  BY DEF DecideAndRewrite, At, Past, ResolversOK, ResolverOK
<1>2. /\ p \in Proposals
      /\ proposal' \in [Proposals -> {NoRow} \cup Proposal]
      /\ contested \subseteq contested' /\ contested' \subseteq Proposals
      /\ \A q \in Proposals \ {p} : proposal'[q] = proposal[q]
      /\ proposal'[p].made /\ proposal'[p].target = proposal[p].target
      /\ proposal'[p].status = IF tx[h].q.approve THEN "approved" ELSE "rejected"
      /\ \A g \in Handlers \ {h} : Past(g) /\ tx[g].q.proposal = p => p \in contested'
  BY <1>1, DecideStep
<1>3. End(h) /\ ProposalTxs' /\ tx'[h] = Idle /\ \A g \in Handlers \ {h} : tx'[g] = tx[g]
  BY <1>1, EndTx DEF Decide, ProposalTxs, ProposalTx
<1>4. i \in Items /\ base \in RevisionsOf(i) /\ base \in 0 .. MaxMemory
  <2>1. proposal[p] \in {NoRow} \cup Proposal /\ proposal[p].made /\ proposal[p].target = i
    BY <1>1, <1>2 DEF ResolverOK, ProposalsTypeOK
  <2>2. i \in Items
    <3>1. proposal[p] \in Proposal
      BY <2>1 DEF NoRow
    <3>2. i \in Target
      BY <2>1, <3>1 DEF Proposal
    <3> QED
      BY <1>1, <3>2 DEF Target, Rewrites
  <2>3. base \in RevisionsOf(i) /\ base \in MemoryId
    BY <1>1 DEF ResolverOK, RevisionsOf, Revisions
  <2> QED
    BY <2>2, <2>3, ProposalsAssumption DEF MemoryId
<1>5. PICK r \in MemoryId \ Revisions :
          /\ memory' \in [MemoryId -> {NoRow} \cup MemoryRevision]
          /\ memory'[r] = [made |-> TRUE, item |-> i, base |-> base, from |-> p]
          /\ \A s \in MemoryId : s # r => memory'[s] = memory[s]
          /\ Revisions' = Revisions \cup {r}
          /\ pointer' = [pointer EXCEPT ![i] = r]
  BY <1>1, <1>2, <1>4, NewRevision
<1>6. /\ forked \subseteq forked' /\ forked' \subseteq Items
      /\ \A g \in Handlers \ {h} :
            Past(g) /\ tx[g].at = "commit" /\ tx[g].seen.target = i => i \in forked'
  <2>1. \A g \in Handlers \ {h} : Past(g) => g \in Resolvers(h)
    BY DEF Resolvers, Rivals, Past, ResolversOK, ResolverOK
  <2> QED
    BY <1>4, <2>1 DEF DecideAndRewrite, ProposalsTypeOK
<1>7. i \notin forked' => base = pointer[i]
  BY <1>1, <1>6 DEF ResolverOK
<1>8. HistoryOK' /\ Chained'
  <2>1. PICK b \in RevisionsOf(i) : b = base
    BY <1>4
  <2>2. PICK j \in Items, f \in Proposals : j = i /\ f = p
    BY <1>2, <1>4
  <2>3. /\ memory'[r] = [made |-> TRUE, item |-> j, base |-> b, from |-> f]
        /\ pointer' = [pointer EXCEPT ![j] = r]
        /\ j \notin forked' => b = pointer[j]
        /\ b = 0 \/ b \in RevisionsOf(j)
    BY <1>5, <1>7, <2>1, <2>2
  <2>4. /\ \A s \in MemoryId : s # r => memory'[s] = memory[s]
        /\ Revisions' = Revisions \cup {r} /\ r \in MemoryId \ Revisions
        /\ forked \subseteq forked'
    BY <1>5, <1>6
  <2> HIDE DEF ProposalsInv
  <2> QED
    BY <2>3, <2>4, HistoryGrows
<1>9. ProposalsTypeOK'
  <2>1. pointer' \in [Items -> 0 .. MaxMemory]
    <3>1. r \in 0 .. MaxMemory /\ pointer \in [Items -> 0 .. MaxMemory]
      BY ProposalsAssumption DEF ProposalsTypeOK, MemoryId
    <3> QED
      BY <1>5, <3>1
  <2> QED
    BY <1>2, <1>3, <1>5, <1>6, <2>1 DEF ProposalsTypeOK, RequestsTypeOK, End, Busy
<1>10. ResolversOK'
  <2> SUFFICES ASSUME NEW g \in Handlers, Past(g)' PROVE ResolverOK(g)'
    BY DEF ResolversOK
  <2>1. g # h /\ Past(g) /\ tx'[g] = tx[g] /\ ResolverOK(g)
    BY <1>3 DEF Past, Busy, ResolversOK
  <2>2. tx[g].q.proposal \in Proposals
    BY <2>1 DEF ResolverOK, Past, Busy, ProposalTxs, ProposalTx, Tx, ProposalRequest,
                CreateItem, Propose, Resolve
  <2>3. \A s \in RevisionsOf(tx[g].seen.target) : s \in RevisionsOf(tx[g].seen.target)'
    BY <1>5, <2>1 DEF RevisionsOf, Revisions
  <2>4. ASSUME tx[g].at = "commit", tx[g].seen.target \notin forked'
        PROVE  tx[g].known.rev = pointer'[tx[g].seen.target]
    <3>1. tx[g].seen.target # i /\ tx[g].known.rev = pointer[tx[g].seen.target]
      BY <1>6, <2>1, <2>4 DEF ResolverOK
    <3>2. pointer \in [Items -> 0 .. MaxMemory]
      BY DEF ProposalsTypeOK
    <3> QED
      BY <1>4, <1>5, <3>1, <3>2
  <2> QED
    BY <1>2, <2>1, <2>2, <2>3, <2>4 DEF ResolverOK, Rewrites
<1>11. Applied'
  <2> SUFFICES ASSUME NEW q \in Proposals \ contested'
               PROVE  (IF proposal[q].made /\ proposal[q].status = "approved"
                          /\ proposal[q].target # "nothing"
                       THEN \E s \in MemoryId : MadeFor(q) = {s} ELSE MadeFor(q) = {})'
    BY DEF Applied
  <2>1. q \notin contested
    BY <1>2
  <2>2. CASE q = p
    <3>1. MadeFor(p) = {}
      BY <1>1, <1>2, <2>1, <2>2 DEF ResolverOK, Applied
    <3>2. MadeFor(q)' = {r} /\ r \in MemoryId
      <4>1. \A s \in Revisions : memory'[s] = memory[s]
        BY <1>5 DEF Revisions
      <4> QED
        BY <1>5, <2>2, <3>1, <4>1 DEF MadeFor
    <3>3. proposal'[p].made /\ proposal'[p].status = "approved" /\ proposal'[p].target # "nothing"
      BY <1>1, <1>2 DEF Rewrites, ResolverOK
    <3>4. \E s \in MemoryId : MadeFor(q)' = {s}
      BY <3>2
    <3> QED
      BY <2>2, <3>3, <3>4
  <2>3. CASE q # p
    <3>1. MadeFor(q)' = MadeFor(q)
      BY <1>5, <2>3 DEF MadeFor, Revisions
    <3> QED
      BY <1>2, <2>1, <2>3, <3>1 DEF Applied
  <2> QED
    BY <2>2, <2>3
<1> QED
  BY <1>3, <1>8, <1>9, <1>10, <1>11

LEMMA CreateItemInv ==
    ASSUME ProposalsInv, NEW h \in Handlers, create_memory_item(h)
    PROVE  ProposalsInv'
<1> DEFINE i == tx[h].q.item
<1> USE DEF ProposalsInv
<1>1. End(h) /\ ProposalTxs' /\ tx'[h] = Idle /\ \A g \in Handlers \ {h} : tx'[g] = tx[g]
  BY EndTx DEF create_memory_item, ProposalTxs, ProposalTx
<1>2. i \in Items /\ pointer[i] = 0
  BY DEF create_memory_item, At, Busy, ProposalTxs, ProposalTx, Tx, ProposalRequest,
         CreateItem, Propose, Resolve
<1>3. PICK r \in MemoryId \ Revisions :
          /\ memory' \in [MemoryId -> {NoRow} \cup MemoryRevision]
          /\ memory'[r] = [made |-> TRUE, item |-> i, base |-> 0, from |-> "user"]
          /\ \A s \in MemoryId : s # r => memory'[s] = memory[s]
          /\ Revisions' = Revisions \cup {r}
          /\ pointer' = [pointer EXCEPT ![i] = r]
  BY <1>2, NewRevision, ProposalsAssumption DEF create_memory_item
<1>4. UNCHANGED <<proposal, contested, forked>>
  BY DEF create_memory_item
<1>5. HistoryOK' /\ Chained'
  BY <1>2, <1>3, <1>4, HistoryGrows
<1>6. ProposalsTypeOK'
  <2>1. pointer' \in [Items -> 0 .. MaxMemory]
    <3>1. r \in 0 .. MaxMemory /\ pointer \in [Items -> 0 .. MaxMemory]
      BY ProposalsAssumption DEF ProposalsTypeOK, MemoryId
    <3> QED
      BY <1>3, <3>1
  <2> QED
    BY <1>1, <1>3, <1>4, <2>1 DEF ProposalsTypeOK, RequestsTypeOK, End, Busy
<1>7. ResolversOK'
  <2> SUFFICES ASSUME NEW g \in Handlers, Past(g)' PROVE ResolverOK(g)'
    BY DEF ResolversOK
  <2>1. g # h /\ Past(g) /\ tx'[g] = tx[g] /\ ResolverOK(g)
    BY <1>1 DEF Past, Busy, ResolversOK
  <2>2. \A s \in RevisionsOf(tx[g].seen.target) : s \in RevisionsOf(tx[g].seen.target)'
    BY <1>3, <2>1 DEF RevisionsOf, Revisions
  <2>3. ASSUME tx[g].at = "commit"
        PROVE  pointer'[tx[g].seen.target] = pointer[tx[g].seen.target]
    <3>1. RevisionsOf(i) = {} /\ tx[g].known.rev \in RevisionsOf(tx[g].seen.target)
      BY <1>2, <2>1, <2>3 DEF HistoryOK, ResolverOK
    <3> QED
      BY <1>2, <1>3, <3>1 DEF ProposalsTypeOK
  <2> QED
    BY <1>4, <2>1, <2>2, <2>3 DEF ResolverOK, Rewrites
<1>8. Applied'
  <2>1. \A q \in Proposals : MadeFor(q)' = MadeFor(q)
    BY <1>3, ProposalsAssumption DEF MadeFor, Revisions
  <2> QED
    BY <1>4, <2>1 DEF Applied
<1> QED
  BY <1>1, <1>5, <1>6, <1>7, <1>8

LEMMA CreateProposalInv ==
    ASSUME ProposalsInv, NEW h \in Handlers, create_proposal(h)
    PROVE  ProposalsInv'
<1> DEFINE p == tx[h].q.proposal
           row == [made |-> TRUE, target |-> tx[h].q.target, status |-> "pending"]
<1> USE DEF ProposalsInv
<1>1. End(h) /\ ProposalTxs' /\ tx'[h] = Idle /\ \A g \in Handlers \ {h} : tx'[g] = tx[g]
  BY EndTx DEF create_proposal, ProposalTxs, ProposalTx
<1>2. p \in Proposals /\ row \in Proposal /\ ~proposal[p].made
  BY DEF create_proposal, At, Busy, ProposalTxs, ProposalTx, Tx, ProposalRequest,
         CreateItem, Propose, Resolve, Proposal
<1>3. /\ proposal' = [proposal EXCEPT ![p] = row]
      /\ UNCHANGED <<memory, pointer, contested, forked>>
  BY DEF create_proposal
<1>4. /\ proposal' \in [Proposals -> {NoRow} \cup Proposal]
      /\ proposal'[p] = row /\ \A q \in Proposals \ {p} : proposal'[q] = proposal[q]
  BY <1>2, <1>3 DEF ProposalsTypeOK
<1>5. ProposalsTypeOK'
  BY <1>1, <1>3, <1>4 DEF ProposalsTypeOK, RequestsTypeOK, End, Busy
<1>6. ResolversOK'
  <2> SUFFICES ASSUME NEW g \in Handlers, Past(g)' PROVE ResolverOK(g)'
    BY DEF ResolversOK
  <2>1. g # h /\ Past(g) /\ tx'[g] = tx[g] /\ ResolverOK(g)
    BY <1>1 DEF Past, Busy, ResolversOK
  <2>2. tx[g].q.proposal \in Proposals /\ tx[g].q.proposal # p
    BY <1>2, <2>1 DEF ResolverOK, Past, Busy, ProposalTxs, ProposalTx, Tx, ProposalRequest,
                CreateItem, Propose, Resolve
  <2> QED
    BY <1>3, <1>4, <2>1, <2>2 DEF ResolverOK, Rewrites, RevisionsOf, Revisions
<1>7. HistoryOK' /\ Chained'
  BY <1>3 DEF HistoryOK, Chained, RevisionsOf, Revisions
<1>8. Applied'
  <2>1. \A q \in Proposals : MadeFor(q)' = MadeFor(q)
    BY <1>3 DEF MadeFor, Revisions
  <2> QED
    BY <1>2, <1>3, <1>4, <2>1 DEF Applied
<1> QED
  BY <1>1, <1>5, <1>6, <1>7, <1>8

LEMMA ProposalsInvNext ==
    ASSUME ProposalsInv, part = "proposals", [Next]_vars
    PROVE  ProposalsInv'
<1>1. ASSUME NEW h \in Handlers, NEW q \in ProposalRequest, Receive(h, q), UNCHANGED proposalVars
      PROVE  ProposalsInv'
  <2>1. NoRow \in SeenProposal /\ NoRow \in KnownRevision /\ ProposalTxs
    BY DEF SeenProposal, KnownRevision, ProposalsInv
  <2>2. /\ ProposalTxs' /\ tx'[h].at = "read"
        /\ \A g \in Handlers \ {h} : tx'[g] = tx[g]
    BY <1>1, <2>1, ReceiveTx DEF ProposalTxs, ProposalTx
  <2>3. served' \in 0 .. MaxRequests[part]
    BY <1>1, RequestsAssumption DEF Receive, ProposalsInv, ProposalsTypeOK, RequestsTypeOK
  <2> QED
    BY <1>1, <2>2, <2>3, ProposalsTxStep DEF Receive, Past
<1>2. ASSUME NEW h \in Handlers, Undo(h), UNCHANGED proposalVars
      PROVE  ProposalsInv'
  BY <1>2, ProposalsEnd DEF Undo
<1>3. CASE UNCHANGED vars
  BY <1>3
  DEF vars, requestVars, proposalVars, ProposalsInv, ProposalsTypeOK, RequestsTypeOK, Busy,
      ProposalTxs, ResolversOK, ResolverOK, Past, Rewrites, HistoryOK, Chained, Applied,
      RevisionsOf, Revisions, MadeFor
<1> QED
  BY <1>1, <1>2, <1>3, ReadProposalInv, ReadCurrentInv, DecideOnlyInv, DecideAndRewriteInv,
     CreateItemInv, CreateProposalInv
  DEF Next, ProposalsNext

-----------------------------------------------------------------------------
(* Conversations.                                                          *)

Found == [made : {TRUE}, conv : ConvIds, new : BOOLEAN]
SeenConversation == {NoRow, [made |-> TRUE]} \cup Found
\* (last_turn or -1) + 1 never gets past the first index.
Numbered == [made : {TRUE}, index : {0}]
KnownIndex == {NoRow} \cup Numbered
ConversationTx == Tx(ConversationRequest, SeenConversation, KnownIndex)
ConversationTxs == tx \in [Handlers -> {Idle} \cup ConversationTx]

\* What holds of the tables, those of a backup too.
DatabaseOK(convs, turns, dead, flows, events, again) ==
    /\ convs \in [ConvIds -> {NoRow} \cup Conversation]
    /\ turns \in [TurnId -> {NoRow} \cup Turn]
    /\ dead \subseteq ConvIds /\ again \subseteq dead /\ flows = dead
    /\ events = [c \in ConvIds |-> IF c \in dead \ again THEN 1 ELSE 0]
    /\ \A c, d \in ConvIds : convs[c].made /\ convs[d].made /\ convs[c].client = convs[d].client
          => c = d \/ convs[c].client \in split \cup {"native"}
    /\ \A t \in TurnId : turns[t].made =>
          turns[t].index = 0 /\ (turns[t].after = "deleted" => turns[t].conv \in late)
    /\ \A t, u \in TurnId : turns[t].made /\ turns[u].made /\ turns[t].conv = turns[u].conv
          /\ turns[t].key = turns[u].key => t = u \/ turns[t].key = NoKey

\* A request that adds a turn: its conversation is deleted only by a rival,
\* and if it makes one, only a rival has made one for this client.
CapturerOK(h) ==
    /\ tx[h].seen \in Found
    /\ tx[h].at = "commit" => tx[h].known \in Numbered
    /\ tx[h].seen.conv \in tombstone => tx[h].seen.conv \in late
    /\ tx[h].seen.new =>
          /\ tx[h].q.op = "record_interaction" /\ tx[h].seen.conv = tx[h].q.conv
          /\ tx[h].q.client \notin split => From(tx[h].q.client) = {}

\* An id that a request may use is nobody else's.
Makes(h) == Busy(h) /\ tx[h].q.op \in {"create_conversation", "record_interaction"}
Reserved ==
    \A h \in Handlers : Makes(h) =>
        /\ ~conversation[tx[h].q.conv].made /\ tx[h].q.conv \notin tombstone
        /\ \A g \in Handlers \ {h} : Makes(g) => tx[g].q.conv # tx[h].q.conv

CapturersOK ==
    \A h \in Handlers : Past(h) =>
        /\ tx[h].q.op \in {"append_turn", "record_interaction"} => CapturerOK(h)
        /\ tx[h].q.op \in Deletions => conversation[tx[h].q.conv].made

\* The route for tombstones is used for a conversation that exists.
NamersOK ==
    \A h \in Handlers : Busy(h) /\ tx[h].q.op = "create_tombstone" =>
        conversation[tx[h].q.conv].made

BackupOK == backup.made =>
    DatabaseOK(backup.captured[1], backup.captured[2], backup.deletion[1], backup.deletion[2],
               backup.deletion[3], backup.deletion[4])

ConversationsInv ==
    /\ ConversationTxs
    /\ part \in Parts /\ deployment \in Deployments[part] /\ served \in 0 .. MaxRequests[part]
    /\ lost \subseteq ConvIds /\ split \subseteq Clients /\ late \subseteq ConvIds
    /\ DatabaseOK(conversation, turn, tombstone, workflow, announced, replayed)
    /\ BackupOK /\ Reserved /\ CapturersOK /\ NamersOK

LEMMA ConversationsInvInit == Init /\ part = "conversations" => ConversationsInv
<1> SUFFICES ASSUME Init, part = "conversations" PROVE ConversationsInv
  OBVIOUS
<1> USE DEF Init, RequestsInit, ConversationsInit
<1>1. ConversationTxs /\ Reserved /\ CapturersOK /\ NamersOK
  BY DEF ConversationTxs, Reserved, CapturersOK, NamersOK, Makes, Past, Busy
<1>2. served \in 0 .. MaxRequests[part] /\ part \in Parts /\ deployment \in Deployments[part]
  BY RequestsAssumption
<1>3. DatabaseOK(conversation, turn, tombstone, workflow, announced, replayed)
  BY DEF DatabaseOK, NoRow
<1>4. BackupOK
  BY DEF BackupOK, NoRow
<1> QED
  BY <1>1, <1>2, <1>3, <1>4 DEF ConversationsInv

\* No conversation is unmade while requests are served.
LEMMA NamersStep ==
    ASSUME ConversationsInv, NEW h \in Handlers, \A g \in Handlers \ {h} : tx'[g] = tx[g],
           \A c \in ConvIds : conversation[c].made => conversation'[c].made,
           Busy(h)' /\ tx'[h].q.op = "create_tombstone" => conversation'[tx'[h].q.conv].made
    PROVE  NamersOK'
<1> SUFFICES ASSUME NEW g \in Handlers, g # h, Busy(g)', tx'[g].q.op = "create_tombstone"
             PROVE  conversation'[tx'[g].q.conv].made
  BY DEF NamersOK
<1>1. Busy(g) /\ tx'[g] = tx[g]
  BY DEF Busy
<1>2. tx[g].q.conv \in ConvIds
  BY <1>1 DEF Busy, ConversationsInv, ConversationTxs, ConversationTx, Tx, ConversationRequest,
              CreateConversation, AppendTurn, RecordInteraction, DeleteConversation, Deletions
<1> QED
  BY <1>1, <1>2 DEF ConversationsInv, NamersOK

LEMMA ConversationsTxStep ==
    ASSUME ConversationsInv, NEW h \in Handlers,
           ConversationTxs', \A g \in Handlers \ {h} : tx'[g] = tx[g],
           UNCHANGED <<part, deployment, conversationVars>>,
           served' \in 0 .. MaxRequests[part],
           Past(h)' =>
              /\ tx'[h].q.op \in {"append_turn", "record_interaction"} => CapturerOK(h)'
              /\ tx'[h].q.op \in Deletions => conversation[tx'[h].q.conv].made,
           Makes(h)' =>
              /\ ~conversation[tx'[h].q.conv].made /\ tx'[h].q.conv \notin tombstone
              /\ \A g \in Handlers \ {h} : Makes(g) => tx[g].q.conv # tx'[h].q.conv,
           Busy(h)' /\ tx'[h].q.op = "create_tombstone" => conversation[tx'[h].q.conv].made
    PROVE  ConversationsInv'
<1> USE DEF ConversationsInv, conversationVars, captured, deletion, recovery
<1>1. /\ DatabaseOK(conversation, turn, tombstone, workflow, announced, replayed)'
      /\ BackupOK'
  BY DEF BackupOK, DatabaseOK
<1>2. Reserved'
  <2> SUFFICES ASSUME NEW g \in Handlers, Makes(g)'
               PROVE  /\ ~conversation[tx'[g].q.conv].made /\ tx'[g].q.conv \notin tombstone
                      /\ \A k \in Handlers \ {g} : Makes(k)' => tx'[k].q.conv # tx'[g].q.conv
    BY DEF Reserved
  <2>1. \A k \in Handlers \ {h} : Makes(k)' = Makes(k) /\ tx'[k] = tx[k]
    BY DEF Makes, Busy
  <2>2. CASE g = h
    BY <2>1, <2>2
  <2>3. CASE g # h
    BY <2>1, <2>3 DEF Reserved
  <2> QED
    BY <2>2, <2>3
<1>3. CapturersOK'
  <2> SUFFICES ASSUME NEW g \in Handlers, Past(g)', g # h
               PROVE  /\ tx'[g].q.op \in {"append_turn", "record_interaction"} => CapturerOK(g)'
                      /\ tx'[g].q.op \in Deletions => conversation[tx'[g].q.conv].made
    BY DEF CapturersOK
  <2>1. Past(g) /\ tx'[g] = tx[g]
    BY DEF Past, Busy
  <2> QED
    BY <2>1 DEF CapturersOK, CapturerOK, From
<1>4. NamersOK'
  BY NamersStep
<1> QED
  BY <1>1, <1>2, <1>3, <1>4

\* The handler is done and has written nothing.
LEMMA ConversationsEnd ==
    ASSUME ConversationsInv, NEW h \in Handlers, End(h), UNCHANGED conversationVars
    PROVE  ConversationsInv'
  BY EndTx, ConversationsTxStep
  DEF End, ConversationsInv, ConversationTxs, ConversationTx, Makes, Past, Busy

\* The handler goes on with the same request.
LEMMA ConversationsGoto ==
    ASSUME ConversationsInv, NEW h \in Handlers, Busy(h), NEW phase \in Phase \ {"read"},
           NEW seen \in SeenConversation, NEW known \in KnownIndex,
           Goto(h, phase, seen, known), UNCHANGED conversationVars,
           tx[h].q.op \in {"append_turn", "record_interaction"} =>
              /\ seen \in Found
              /\ phase = "commit" => known \in Numbered
              /\ seen.conv \in tombstone => seen.conv \in late
              /\ seen.new =>
                    /\ tx[h].q.op = "record_interaction" /\ seen.conv = tx[h].q.conv
                    /\ tx[h].q.client \notin split => From(tx[h].q.client) = {},
           tx[h].q.op \in Deletions => conversation[tx[h].q.conv].made
    PROVE  ConversationsInv'
<1>1. /\ ConversationTxs'
      /\ tx'[h] = [at |-> phase, q |-> tx[h].q, seen |-> seen, known |-> known]
      /\ \A g \in Handlers \ {h} : tx'[g] = tx[g]
  BY GotoTx DEF ConversationsInv, ConversationTxs, ConversationTx
<1>2. UNCHANGED <<part, deployment, conversationVars>> /\ served' \in 0 .. MaxRequests[part]
  BY DEF Goto, ConversationsInv
<1>3. Makes(h)' => Makes(h) /\ tx'[h].q = tx[h].q
  BY <1>1 DEF Makes, Busy
<1>4. Makes(h)' =>
         /\ ~conversation[tx'[h].q.conv].made /\ tx'[h].q.conv \notin tombstone
         /\ \A g \in Handlers \ {h} : Makes(g) => tx[g].q.conv # tx'[h].q.conv
  BY <1>3 DEF ConversationsInv, Reserved
<1>5. tx'[h].q.op \in {"append_turn", "record_interaction"} => CapturerOK(h)'
  BY <1>1 DEF CapturerOK, From, conversationVars, captured, deletion
<1>6. tx'[h].q.op \in Deletions => conversation[tx'[h].q.conv].made
  BY <1>1
<1>7. tx'[h].q.op = "create_tombstone" => tx'[h].q.op \in Deletions
  BY DEF Deletions
<1> QED
  BY <1>1, <1>2, <1>4, <1>5, <1>6, <1>7, ConversationsTxStep

LEMMA FindConversationInv ==
    ASSUME ConversationsInv, NEW h \in Handlers, FindConversation(h)
    PROVE  ConversationsInv'
<1> DEFINE c == tx[h].q.conv
           found == Seen(conversation[c], NoRow).made /\ c \notin Seen(tombstone, {})
<1>1. CASE ~found
  BY <1>1, ConversationsEnd DEF FindConversation
<1>2. CASE found
  <2>1. c \notin tombstone
    BY <1>2 DEF Seen, NoRow
  <2>2. Busy(h) /\ tx[h].q.op = "append_turn" /\ c \in ConvIds
    BY DEF FindConversation, At, Busy, ConversationsInv, ConversationTxs, ConversationTx, Tx,
           ConversationRequest, CreateConversation, AppendTurn, RecordInteraction,
           DeleteConversation, Deletions
  <2>3. PICK seen \in Found : seen = [made |-> TRUE, conv |-> c, new |-> FALSE]
    BY <2>2 DEF Found
  <2>4. Goto(h, "next", seen, NoRow) /\ UNCHANGED conversationVars
    BY <1>2, <2>3 DEF FindConversation
  <2>5. seen \in SeenConversation /\ NoRow \in KnownIndex /\ "next" \in Phase \ {"read"}
    BY DEF SeenConversation, KnownIndex, Phase
  <2> QED
    BY <2>1, <2>2, <2>3, <2>4, <2>5, ConversationsGoto DEF Deletions
<1> QED
  BY <1>1, <1>2

LEMMA FindByClientInv ==
    ASSUME ConversationsInv, NEW h \in Handlers, FindByClient(h)
    PROVE  ConversationsInv'
<1> DEFINE found == From(tx[h].q.client)
<1>1. Busy(h) /\ tx[h].q.op = "record_interaction" /\ tx[h].q.conv \in ConvIds
  BY DEF FindByClient, At, Busy, ConversationsInv, ConversationTxs, ConversationTx, Tx,
         ConversationRequest, CreateConversation, AppendTurn, RecordInteraction,
         DeleteConversation, Deletions
<1>2. NoRow \in KnownIndex /\ "next" \in Phase \ {"read"} /\ Found \subseteq SeenConversation
  BY DEF SeenConversation, KnownIndex, Phase
<1>3. CASE found = {}
  <2>1. PICK seen \in Found : seen = [made |-> TRUE, conv |-> tx[h].q.conv, new |-> TRUE]
    BY <1>1 DEF Found
  <2>2. Goto(h, "next", seen, NoRow) /\ UNCHANGED conversationVars
    BY <1>3, <2>1 DEF FindByClient
  <2>3. seen.conv \notin tombstone
    BY <1>1, <2>1 DEF ConversationsInv, Reserved, Makes
  <2> QED
    BY <1>1, <1>2, <1>3, <2>1, <2>2, <2>3, ConversationsGoto DEF Deletions
<1>4. CASE found # {} /\ Cardinality(found) = 1 /\ found \cap tombstone = {}
  <2>1. PICK c \in found : c = CHOOSE d \in found : TRUE
    BY <1>4
  <2>2. c \in ConvIds /\ c \notin tombstone
    BY <1>4 DEF From
  <2>3. PICK seen \in Found : seen = [made |-> TRUE, conv |-> c, new |-> FALSE]
    BY <2>2 DEF Found
  <2>4. Goto(h, "next", seen, NoRow) /\ UNCHANGED conversationVars
    BY <1>4, <2>1, <2>3 DEF FindByClient
  <2> QED
    BY <1>1, <1>2, <2>2, <2>3, <2>4, ConversationsGoto DEF Deletions
<1>5. CASE found # {} /\ ~(Cardinality(found) = 1 /\ found \cap tombstone = {})
  BY <1>5, ConversationsEnd DEF FindByClient
<1> QED
  BY <1>3, <1>4, <1>5

LEMMA LookForTurnInv ==
    ASSUME ConversationsInv, NEW h \in Handlers, LookForTurn(h)
    PROVE  ConversationsInv'
<1> DEFINE c == tx[h].seen.conv
           new == Keyed(c, tx[h].q.key) = {} /\ Numberable(c)
<1>1. /\ Busy(h) /\ tx[h].q.op \in {"append_turn", "record_interaction"} /\ CapturerOK(h)
      /\ tx[h].q.op \notin Deletions
  BY DEF LookForTurn, ConversationsInv, CapturersOK, Past, Deletions
<1>2. CASE ~new
  BY <1>2, ConversationsEnd DEF LookForTurn
<1>3. CASE new
  <2>1. IndexIn(c) = 0
    <3>1. ASSUME TurnsOf(c) # {} PROVE turn[CHOOSE t \in TurnsOf(c) : TRUE].index = 0
      <4>1. PICK u \in TurnsOf(c) : u = CHOOSE t \in TurnsOf(c) : TRUE
        BY <3>1
      <4> QED
        BY <4>1 DEF TurnsOf, Turns, ConversationsInv, DatabaseOK
    <3> QED
      BY <3>1 DEF IndexIn, NextIndex
  <2>2. PICK known \in Numbered : known = [made |-> TRUE, index |-> IndexIn(c)]
    BY <2>1 DEF Numbered
  <2>3. PICK seen \in Found : seen = tx[h].seen
    BY <1>1 DEF CapturerOK
  <2>4. Goto(h, "commit", seen, known) /\ UNCHANGED conversationVars
    BY <1>3, <2>2, <2>3 DEF LookForTurn
  <2>5. known \in KnownIndex /\ "commit" \in Phase \ {"read"} /\ seen \in SeenConversation
    BY DEF SeenConversation, KnownIndex, Phase
  <2>6. /\ seen.conv \in tombstone => seen.conv \in late
        /\ seen.new =>
              /\ tx[h].q.op = "record_interaction" /\ seen.conv = tx[h].q.conv
              /\ tx[h].q.client \notin split => From(tx[h].q.client) = {}
    BY <1>1, <2>3 DEF CapturerOK
  <2> QED
    BY <1>1, <2>4, <2>5, <2>6, ConversationsGoto
<1> QED
  BY <1>2, <1>3

LEMMA FindTombstoneInv ==
    ASSUME ConversationsInv, NEW h \in Handlers, FindTombstone(h)
    PROVE  ConversationsInv'
<1> DEFINE c == tx[h].q.conv
           found == /\ tx[h].q.op = "delete_conversation" => Seen(conversation[c].made, FALSE)
                    /\ c \notin tombstone
<1>1. CASE ~found
  BY <1>1, ConversationsEnd DEF FindTombstone
<1>2. CASE found
  <2>1. Busy(h) /\ tx[h].q.op \in Deletions /\ conversation[c].made
    BY <1>2 DEF FindTombstone, Seen, Deletions, ConversationsInv, NamersOK
  <2>2. /\ [made |-> TRUE] \in SeenConversation /\ NoRow \in KnownIndex
        /\ "commit" \in Phase \ {"read"}
    BY DEF SeenConversation, KnownIndex, Phase
  <2>3. Goto(h, "commit", [made |-> TRUE], NoRow) /\ UNCHANGED conversationVars
    BY <1>2 DEF FindTombstone
  <2>4. tx[h].q.op \notin {"append_turn", "record_interaction"}
    BY <2>1 DEF Deletions
  <2> QED
    BY <2>1, <2>2, <2>3, <2>4, ConversationsGoto
<1> QED
  BY <1>1, <1>2

LEMMA CreateConversationInv ==
    ASSUME ConversationsInv, NEW h \in Handlers, create_conversation(h)
    PROVE  ConversationsInv'
<1> USE DEF ConversationsInv
<1>1. End(h) /\ ConversationTxs' /\ tx'[h] = Idle /\ \A g \in Handlers \ {h} : tx'[g] = tx[g]
  BY EndTx DEF create_conversation, ConversationTxs, ConversationTx
<1>2. Makes(h) /\ tx[h].q.conv \in ConvIds
  BY DEF create_conversation, At, Busy, Makes, ConversationTxs, ConversationTx, Tx,
         ConversationRequest, CreateConversation, AppendTurn, RecordInteraction,
         DeleteConversation, Deletions
<1>3. PICK c \in ConvIds : c = tx[h].q.conv
  BY <1>2
<1>4. UNCHANGED <<turn, tombstone, workflow, announced, replayed, backup, lost, split, late>>
  BY DEF create_conversation, deletion, recovery
<1>5. /\ conversation' \in [ConvIds -> {NoRow} \cup Conversation]
      /\ conversation'[c] = [made |-> TRUE, client |-> "native"]
      /\ \A d \in ConvIds \ {c} : conversation'[d] = conversation[d]
  <2>1. [made |-> TRUE, client |-> "native"] \in Conversation
    BY DEF Conversation
  <2>2. conversation' = [conversation EXCEPT ![c] = [made |-> TRUE, client |-> "native"]]
    BY <1>3 DEF create_conversation
  <2> QED
    BY <2>1, <2>2 DEF DatabaseOK
<1>6. DatabaseOK(conversation, turn, tombstone, workflow, announced, replayed)'
  <2>1. \A d, e \in ConvIds :
           conversation'[d].made /\ conversation'[e].made
           /\ conversation'[d].client = conversation'[e].client
           => d = e \/ conversation'[d].client \in split \cup {"native"}
    BY <1>5 DEF DatabaseOK
  <2> QED
    BY <1>4, <1>5, <2>1 DEF DatabaseOK
<1>7. BackupOK'
  BY <1>4 DEF BackupOK, DatabaseOK
<1>8. ASSUME NEW g \in Handlers, Busy(g)'
      PROVE  g # h /\ Busy(g) /\ tx'[g] = tx[g] /\ (Makes(g)' => Makes(g)) /\ (Past(g)' => Past(g))
  BY <1>1, <1>8 DEF Busy, Makes, Past
<1>9. Reserved'
  <2> SUFFICES ASSUME NEW g \in Handlers, Makes(g)'
               PROVE  /\ ~conversation'[tx'[g].q.conv].made /\ tx'[g].q.conv \notin tombstone'
                      /\ \A k \in Handlers \ {g} : Makes(k)' => tx'[k].q.conv # tx'[g].q.conv
    BY DEF Reserved
  <2>1. Busy(g)' /\ \A k \in Handlers : Makes(k)' => Busy(k)'
    BY DEF Makes
  <2>2. Makes(g) /\ tx'[g] = tx[g] /\ tx[g].q.conv # c
    BY <1>2, <1>3, <1>8, <2>1 DEF Reserved
  <2>3. tx[g].q.conv \in ConvIds
    BY <2>2 DEF Makes, Busy, ConversationTxs, ConversationTx, Tx, ConversationRequest,
                CreateConversation, AppendTurn, RecordInteraction, DeleteConversation, Deletions
  <2> QED
    BY <1>4, <1>5, <1>8, <2>1, <2>2, <2>3 DEF Reserved
<1>10. CapturersOK'
  <2> SUFFICES ASSUME NEW g \in Handlers, Past(g)'
               PROVE  /\ tx'[g].q.op \in {"append_turn", "record_interaction"} => CapturerOK(g)'
                      /\ tx'[g].q.op \in Deletions => conversation'[tx'[g].q.conv].made
    BY DEF CapturersOK
  <2>1. Past(g) /\ tx'[g] = tx[g]
    BY <1>8 DEF Past
  <2>2. tx[g].q \in ConversationRequest
    BY <2>1 DEF Past, Busy, ConversationTxs, ConversationTx, Tx
  <2>3. tx[g].q.op \in Deletions => conversation'[tx[g].q.conv].made
    BY <1>5, <2>1, <2>2
    DEF CapturersOK, ConversationRequest, CreateConversation, AppendTurn, RecordInteraction,
        DeleteConversation, Deletions
  <2>4. ASSUME CapturerOK(g) PROVE CapturerOK(g)'
    <3>1. \A cl \in Clients : From(cl) = {} => From(cl)' = {}
      BY <1>5, ConversationsAssumption DEF From
    <3>2. tx[g].q.op = "record_interaction" => tx[g].q.client \in Clients
      BY <2>2 DEF ConversationRequest, CreateConversation, AppendTurn, RecordInteraction,
                  DeleteConversation, Deletions
    <3> QED
      BY <1>4, <2>1, <2>4, <3>1, <3>2 DEF CapturerOK
  <2> QED
    BY <2>1, <2>3, <2>4 DEF CapturersOK
<1>11. NamersOK'
  BY <1>1, <1>5, NamersStep DEF Busy
<1> QED
  BY <1>1, <1>4, <1>6, <1>7, <1>9, <1>10, <1>11 DEF End

LEMMA CreateTombstoneInv ==
    ASSUME ConversationsInv, NEW h \in Handlers, create_tombstone(h)
    PROVE  ConversationsInv'
<1> USE DEF ConversationsInv
<1>1. End(h) /\ ConversationTxs' /\ tx'[h] = Idle /\ \A g \in Handlers \ {h} : tx'[g] = tx[g]
  BY EndTx DEF create_tombstone, ConversationTxs, ConversationTx
<1>2. tx[h].q.conv \in ConvIds /\ conversation[tx[h].q.conv].made
  <2>1. Past(h) /\ tx[h].q.op \in Deletions
    BY DEF create_tombstone, Past
  <2> QED
    BY <2>1 DEF Past, Busy, CapturersOK, ConversationTxs, ConversationTx, Tx,
         ConversationRequest, CreateConversation, AppendTurn, RecordInteraction,
         DeleteConversation, Deletions
<1>3. PICK c \in ConvIds : c = tx[h].q.conv
  BY <1>2
<1>4. /\ tombstone' = tombstone \cup {c} /\ workflow' = workflow \cup {c} /\ c \notin tombstone
      /\ announced' = [announced EXCEPT ![c] = @ + 1]
      /\ late \subseteq late' /\ late' \subseteq ConvIds
      /\ UNCHANGED <<conversation, turn, replayed, backup, lost, split>>
  BY <1>3 DEF create_tombstone, Entombable, captured, recovery
<1>5. \A g \in Handlers \ {h} :
         Past(g) /\ tx[g].q.op \in {"append_turn", "record_interaction"} /\ tx[g].seen.conv = c
         => c \in late'
  BY <1>3 DEF create_tombstone, Rivals, Past
<1>6. DatabaseOK(conversation, turn, tombstone, workflow, announced, replayed)'
  <2>1. announced' = [d \in ConvIds |-> IF d \in tombstone' \ replayed' THEN 1 ELSE 0]
    <3>1. /\ announced = [d \in ConvIds |-> IF d \in tombstone \ replayed THEN 1 ELSE 0]
          /\ replayed \subseteq tombstone
      BY DEF DatabaseOK
    <3> QED
      BY <1>4, <3>1
  <2> QED
    BY <1>4, <2>1 DEF DatabaseOK
<1>7. BackupOK'
  BY <1>4 DEF BackupOK, DatabaseOK
<1>8. ASSUME NEW g \in Handlers, Busy(g)'
      PROVE  g # h /\ Busy(g) /\ tx'[g] = tx[g] /\ (Makes(g)' => Makes(g)) /\ (Past(g)' => Past(g))
  BY <1>1, <1>8 DEF Busy, Makes, Past
<1>9. Reserved'
  <2> SUFFICES ASSUME NEW g \in Handlers, Makes(g)'
               PROVE  /\ ~conversation'[tx'[g].q.conv].made /\ tx'[g].q.conv \notin tombstone'
                      /\ \A k \in Handlers \ {g} : Makes(k)' => tx'[k].q.conv # tx'[g].q.conv
    BY DEF Reserved
  <2>1. Busy(g)' /\ \A k \in Handlers : Makes(k)' => Busy(k)'
    BY DEF Makes
  <2> QED
    BY <1>2, <1>3, <1>4, <1>8, <2>1 DEF Reserved
<1>10. CapturersOK'
  <2> SUFFICES ASSUME NEW g \in Handlers, Past(g)'
               PROVE  /\ tx'[g].q.op \in {"append_turn", "record_interaction"} => CapturerOK(g)'
                      /\ tx'[g].q.op \in Deletions => conversation'[tx'[g].q.conv].made
    BY DEF CapturersOK
  <2>1. g # h /\ Past(g) /\ tx'[g] = tx[g]
    BY <1>8 DEF Past
  <2>2. ASSUME tx[g].q.op \in {"append_turn", "record_interaction"}, CapturerOK(g)
        PROVE  CapturerOK(g)'
    <3>1. From(tx[g].q.client)' = From(tx[g].q.client)
      BY <1>4, <2>1 DEF From
    <3> QED
      BY <1>4, <1>5, <2>1, <2>2, <3>1 DEF CapturerOK
  <2> QED
    BY <1>4, <2>1, <2>2 DEF CapturersOK
<1>11. NamersOK'
  BY <1>1, <1>4, NamersStep DEF Busy
<1> QED
  BY <1>1, <1>4, <1>6, <1>7, <1>9, <1>10, <1>11 DEF End

LEMMA AddTurnInv ==
    ASSUME ConversationsInv, NEW h \in Handlers, AddTurn(h)
    PROVE  ConversationsInv'
<1> USE DEF ConversationsInv
<1> DEFINE q == tx[h].q
           new == tx[h].seen.new
<1>1. End(h) /\ ConversationTxs' /\ tx'[h] = Idle /\ \A g \in Handlers \ {h} : tx'[g] = tx[g]
  BY EndTx DEF AddTurn, ConversationTxs, ConversationTx
<1>2. /\ Past(h) /\ q.op \in {"append_turn", "record_interaction"} /\ CapturerOK(h)
      /\ q \in ConversationRequest /\ tx[h].at = "commit"
  <2>1. Past(h) /\ q.op \in {"append_turn", "record_interaction"} /\ tx[h].at = "commit"
    BY DEF AddTurn, Past
  <2>2. q \in ConversationRequest
    BY <2>1 DEF Past, Busy, ConversationTxs, ConversationTx, Tx
  <2> QED
    BY <2>1, <2>2 DEF CapturersOK
<1>3. PICK c \in ConvIds : c = tx[h].seen.conv
  BY <1>2 DEF CapturerOK, Found
<1>4. tx[h].known.index = 0
  BY <1>2 DEF CapturerOK, Numbered
<1>5. UNCHANGED <<tombstone, workflow, announced, replayed, backup, lost, late>>
  BY DEF AddTurn, deletion, recovery
<1>6. PICK k \in Key :
         /\ Insertable(c, k)
         /\ \E t \in TurnId \ Turns :
               turn' = [turn EXCEPT ![t] = [made |-> TRUE, conv |-> c, index |-> 0, key |-> k,
                                            after |-> Standing(c)]]
  <2> DEFINE k == IF q.op = "record_interaction" /\ q.key = NoKey THEN AutoKey(0) ELSE q.key
  <2>1. q.key \in OptionalKey
    BY <1>2 DEF ConversationRequest, CreateConversation, AppendTurn, RecordInteraction,
                DeleteConversation, Deletions
  <2>2. AutoKey(0) \in Key /\ OptionalKey \subseteq Key
    BY ConversationsAssumption DEF Key, OptionalKey
  <2>3. k \in Key
    BY <2>1, <2>2
  <2>4. /\ Insertable(c, k)
        /\ \E t \in TurnId \ Turns :
              turn' = [turn EXCEPT ![t] = [made |-> TRUE, conv |-> c, index |-> 0, key |-> k,
                                           after |-> Standing(c)]]
    BY <1>3, <1>4 DEF AddTurn
  <2> QED
    BY <2>3, <2>4
<1>7. PICK t \in TurnId \ Turns :
         turn' = [turn EXCEPT ![t] = [made |-> TRUE, conv |-> c, index |-> 0, key |-> k,
                                      after |-> Standing(c)]]
  BY <1>6
<1>8. /\ turn' \in [TurnId -> {NoRow} \cup Turn]
      /\ turn'[t] = [made |-> TRUE, conv |-> c, index |-> 0, key |-> k,
                     after |-> Standing(c)]
      /\ \A u \in TurnId \ {t} : turn'[u] = turn[u]
  <2>1. [made |-> TRUE, conv |-> c, index |-> 0, key |-> k, after |-> Standing(c)] \in Turn
    BY ConversationsAssumption DEF Turn, Standing
  <2> QED
    BY <1>7, <2>1 DEF DatabaseOK
<1>9. /\ \A u \in TurnId : turn'[u].made =>
            turn'[u].index = 0 /\ (turn'[u].after = "deleted" => turn'[u].conv \in late)
      /\ \A u, v \in TurnId : turn'[u].made /\ turn'[v].made /\ turn'[u].conv = turn'[v].conv
            /\ turn'[u].key = turn'[v].key => u = v \/ turn'[u].key = NoKey
  <2>1. c \in tombstone => c \in late
    BY <1>2, <1>3 DEF CapturerOK
  <2>2. \A u \in TurnId : turn[u].made /\ turn[u].conv = c /\ turn[u].key = k => k = NoKey
    BY <1>6 DEF Insertable, Keyed, TurnsOf, Turns
  <2>3. \A u \in TurnId : turn'[u].made =>
           turn'[u].index = 0 /\ (turn'[u].after = "deleted" => turn'[u].conv \in late)
    <3>1. \A u \in TurnId \ {t} : turn'[u].made =>
             turn'[u].index = 0 /\ (turn'[u].after = "deleted" => turn'[u].conv \in late)
      BY <1>8 DEF DatabaseOK
    <3>2. turn'[t].index = 0 /\ turn'[t].conv = c /\ turn'[t].after = Standing(c)
      BY <1>8
    <3> QED
      BY <2>1, <3>1, <3>2 DEF Standing
  <2>4. \A u, v \in TurnId : turn'[u].made /\ turn'[v].made /\ turn'[u].conv = turn'[v].conv
            /\ turn'[u].key = turn'[v].key => u = v \/ turn'[u].key = NoKey
    BY <1>8, <2>2 DEF DatabaseOK
  <2> QED
    BY <2>3, <2>4
<1>10. CASE ~new
  <2>1. UNCHANGED <<conversation, split>>
    BY <1>10 DEF AddTurn
  <2>2. DatabaseOK(conversation, turn, tombstone, workflow, announced, replayed)'
    BY <1>5, <1>8, <1>9, <2>1 DEF DatabaseOK
  <2>3. BackupOK'
    BY <1>5, <2>1 DEF BackupOK, DatabaseOK
  <2>4. ASSUME NEW g \in Handlers, Busy(g)'
        PROVE  /\ g # h /\ Busy(g) /\ tx'[g] = tx[g]
               /\ (Makes(g)' => Makes(g)) /\ (Past(g)' => Past(g))
    BY <1>1, <2>4 DEF Busy, Makes, Past
  <2>5. Reserved'
    BY <1>5, <2>1, <2>4 DEF Reserved, Makes
  <2>6. CapturersOK'
    <3> SUFFICES ASSUME NEW g \in Handlers, Past(g)'
                 PROVE  /\ tx'[g].q.op \in {"append_turn", "record_interaction"} => CapturerOK(g)'
                        /\ tx'[g].q.op \in Deletions
                              => conversation'[tx'[g].q.conv].made
      BY DEF CapturersOK
    <3>1. Past(g) /\ tx'[g] = tx[g]
      BY <2>4 DEF Past
    <3>2. CapturerOK(g) => CapturerOK(g)'
      BY <1>5, <2>1, <3>1 DEF CapturerOK, From
    <3> QED
      BY <2>1, <3>1, <3>2 DEF CapturersOK
  <2>7. NamersOK'
    BY <1>1, <2>1, NamersStep DEF Busy
  <2> QED
    BY <1>1, <1>5, <2>1, <2>2, <2>3, <2>5, <2>6, <2>7 DEF End
<1>11. CASE new
  <2>1. q.op = "record_interaction" /\ c = q.conv /\ Makes(h)
    BY <1>2, <1>3, <1>11 DEF CapturerOK, Makes, Past
  <2>2. PICK cl \in Clients : cl = q.client
    BY <1>2, <2>1 DEF ConversationRequest, CreateConversation, AppendTurn, RecordInteraction,
                DeleteConversation, Deletions
  <2>3. /\ conversation' \in [ConvIds -> {NoRow} \cup Conversation]
        /\ conversation'[c] = [made |-> TRUE, client |-> cl]
        /\ \A d \in ConvIds \ {c} : conversation'[d] = conversation[d]
    <3>1. [made |-> TRUE, client |-> cl] \in Conversation
      BY DEF Conversation
    <3>2. conversation' = [conversation EXCEPT ![c] = [made |-> TRUE, client |-> cl]]
      BY <1>3, <1>11, <2>2 DEF AddTurn
    <3> QED
      BY <3>1, <3>2 DEF DatabaseOK
  <2>4. /\ split \subseteq split' /\ split' \subseteq Clients
        /\ \A g \in Handlers \ {h} :
              Past(g) /\ tx[g].q.op = "record_interaction" /\ tx[g].seen.new
              /\ tx[g].q.client = cl => cl \in split'
    BY <1>11, <2>2 DEF AddTurn, Rivals, Past
  <2>5. cl \notin split' => From(cl) = {}
    BY <1>2, <1>11, <2>2, <2>4 DEF CapturerOK
  <2>6. \A d, e \in ConvIds :
           conversation'[d].made /\ conversation'[e].made
           /\ conversation'[d].client = conversation'[e].client
           => d = e \/ conversation'[d].client \in split' \cup {"native"}
    <3>1. \A d \in ConvIds : conversation[d].made /\ conversation[d].client = cl => cl \in split'
      BY <2>5 DEF From
    <3> QED
      BY <2>3, <2>4, <3>1 DEF DatabaseOK
  <2>7. DatabaseOK(conversation, turn, tombstone, workflow, announced, replayed)'
    BY <1>5, <1>8, <1>9, <2>3, <2>6 DEF DatabaseOK
  <2>8. BackupOK'
    BY <1>5, <2>4 DEF BackupOK, DatabaseOK
  <2>9. ASSUME NEW g \in Handlers, Busy(g)'
        PROVE  /\ g # h /\ Busy(g) /\ tx'[g] = tx[g]
               /\ (Makes(g)' => Makes(g)) /\ (Past(g)' => Past(g))
               /\ tx[g].q \in ConversationRequest
    BY <1>1, <2>9 DEF Busy, Makes, Past, ConversationTxs, ConversationTx, Tx
  <2>10. Reserved'
    <3> SUFFICES ASSUME NEW g \in Handlers, Makes(g)'
                 PROVE  /\ ~conversation'[tx'[g].q.conv].made /\ tx'[g].q.conv \notin tombstone'
                        /\ \A j \in Handlers \ {g} : Makes(j)' => tx'[j].q.conv # tx'[g].q.conv
      BY DEF Reserved
    <3>1. Busy(g)' /\ \A j \in Handlers : Makes(j)' => Busy(j)'
      BY DEF Makes
    <3>2. Makes(g) /\ tx'[g] = tx[g] /\ tx[g].q.conv # c
      BY <2>1, <2>9, <3>1 DEF Reserved
    <3>3. tx[g].q.conv \in ConvIds
      BY <2>9, <3>1, <3>2 DEF ConversationRequest, CreateConversation, AppendTurn,
                              RecordInteraction, DeleteConversation, Deletions
    <3> QED
      BY <1>5, <2>3, <2>9, <3>1, <3>2, <3>3 DEF Reserved
  <2>11. CapturersOK'
    <3> SUFFICES ASSUME NEW g \in Handlers, Past(g)'
                 PROVE  /\ tx'[g].q.op \in {"append_turn", "record_interaction"} => CapturerOK(g)'
                        /\ tx'[g].q.op \in Deletions
                              => conversation'[tx'[g].q.conv].made
      BY DEF CapturersOK
    <3>1. g # h /\ Past(g) /\ tx'[g] = tx[g] /\ tx[g].q \in ConversationRequest
      BY <2>9 DEF Past
    <3>2. tx[g].q.op \in Deletions => conversation'[tx[g].q.conv].made
      BY <2>3, <3>1
      DEF CapturersOK, ConversationRequest, CreateConversation, AppendTurn, RecordInteraction,
          DeleteConversation, Deletions
    <3>3. ASSUME CapturerOK(g) PROVE CapturerOK(g)'
      <4>1. \A j \in Clients \ {cl} : From(j) = {} => From(j)' = {}
        BY <2>3, ConversationsAssumption DEF From
      <4>2. tx[g].q.op = "record_interaction" => tx[g].q.client \in Clients
        BY <3>1 DEF ConversationRequest, CreateConversation, AppendTurn, RecordInteraction,
                    DeleteConversation, Deletions
      <4>3. ASSUME tx[g].seen.new, tx[g].q.client \notin split' PROVE From(tx[g].q.client)' = {}
        <5>1. tx[g].q.client # cl /\ From(tx[g].q.client) = {} /\ tx[g].q.client \in Clients
          BY <2>4, <3>1, <3>3, <4>2, <4>3 DEF CapturerOK
        <5>2. PICK j \in Clients \ {cl} : j = tx[g].q.client
          BY <5>1
        <5>3. From(j)' = {} /\ tx'[g].q.client = j
          BY <3>1, <4>1, <5>1, <5>2
        <5> QED
          BY <5>3
      <4> QED
        BY <1>5, <3>1, <3>3, <4>3 DEF CapturerOK
    <3> QED
      BY <3>1, <3>2, <3>3 DEF CapturersOK
  <2>12. NamersOK'
    BY <1>1, <2>3, NamersStep DEF Busy
  <2> QED
    BY <1>1, <1>5, <2>4, <2>7, <2>8, <2>10, <2>11, <2>12 DEF End
<1> QED
  BY <1>10, <1>11

\* Backup, restore and the replay, all of them between requests.
LEMMA RecoveryInv ==
    ASSUME ConversationsInv,
           \/ Backup \/ Restore
           \/ \E rows \in {tombstone, lost} : replay_tombstones_after_restore(Seen(rows, {}))
    PROVE  ConversationsInv'
<1> USE DEF ConversationsInv
<1>1. Quiet /\ UNCHANGED <<requestVars, split, late>>
  BY DEF Backup, Restore, replay_tombstones_after_restore
<1>2. UNCHANGED <<part, deployment, tx, served>>
  BY <1>1 DEF requestVars
<1>3. ConversationTxs' /\ Reserved' /\ CapturersOK' /\ NamersOK'
  BY <1>1, <1>2 DEF Quiet, ConversationTxs, Reserved, CapturersOK, NamersOK, Makes, Past, Busy
<1>4. CASE Backup
  <2>1. /\ backup' = [made |-> TRUE, captured |-> <<conversation, turn>>,
                      deletion |-> <<tombstone, workflow, announced, replayed>>]
        /\ UNCHANGED <<conversation, turn, tombstone, workflow, announced, replayed, lost>>
    BY <1>4 DEF Backup, captured, deletion
  <2>2. /\ backup'.captured[1] = conversation /\ backup'.captured[2] = turn
        /\ backup'.deletion[1] = tombstone /\ backup'.deletion[2] = workflow
        /\ backup'.deletion[3] = announced /\ backup'.deletion[4] = replayed
    BY <2>1
  <2>3. DatabaseOK(conversation, turn, tombstone, workflow, announced, replayed)'
    BY <1>1, <2>1 DEF DatabaseOK
  <2>4. BackupOK'
    BY <2>1, <2>2, <2>3 DEF BackupOK
  <2> QED
    BY <1>1, <1>2, <1>3, <2>1, <2>3, <2>4
<1>5. CASE Restore
  <2>1. /\ conversation' = backup.captured[1] /\ turn' = backup.captured[2]
        /\ tombstone' = backup.deletion[1] /\ workflow' = backup.deletion[2]
        /\ announced' = backup.deletion[3] /\ replayed' = backup.deletion[4]
        /\ lost' = tombstone \ tombstone' /\ backup.made /\ backup' = backup
    BY <1>5 DEF Restore
  <2>2. BackupOK'
    BY <1>1, <2>1 DEF BackupOK, DatabaseOK
  <2>3. DatabaseOK(conversation, turn, tombstone, workflow, announced, replayed)'
    BY <2>1, <2>2 DEF BackupOK
  <2>4. lost' \subseteq ConvIds
    BY <2>1 DEF DatabaseOK
  <2> QED
    BY <1>1, <1>2, <1>3, <2>2, <2>3, <2>4
<1>6. ASSUME NEW rows \in {tombstone, lost, {}}, replay_tombstones_after_restore(rows)
      PROVE  ConversationsInv'
  <2>1. /\ tombstone' = tombstone \cup rows /\ workflow' = workflow \cup (rows \ tombstone)
        /\ replayed' = replayed \cup (rows \ tombstone) /\ lost' = lost \ rows
        /\ UNCHANGED <<conversation, turn, announced, backup>>
    BY <1>6 DEF replay_tombstones_after_restore, Replay, captured
  <2>2. rows \subseteq ConvIds
    BY DEF DatabaseOK
  <2>3. BackupOK'
    BY <1>1, <2>1 DEF BackupOK, DatabaseOK
  <2>4. announced' = [c \in ConvIds |-> IF c \in tombstone' \ replayed' THEN 1 ELSE 0]
    BY <2>1 DEF DatabaseOK
  <2>5. /\ tombstone' \subseteq ConvIds /\ replayed' \subseteq tombstone'
        /\ workflow' = tombstone'
    BY <2>1, <2>2 DEF DatabaseOK
  <2>6. DatabaseOK(conversation, turn, tombstone, workflow, announced, replayed)'
    BY <1>1, <2>1, <2>4, <2>5 DEF DatabaseOK
  <2> QED
    BY <1>1, <1>2, <1>3, <2>1, <2>3, <2>6
<1>7. \A rows \in {tombstone, lost} : Seen(rows, {}) \in {tombstone, lost, {}}
  BY DEF Seen
<1> QED
  BY <1>4, <1>5, <1>6, <1>7

LEMMA ConversationsInvNext ==
    ASSUME ConversationsInv, part = "conversations", [Next]_vars
    PROVE  ConversationsInv'
<1>1. ASSUME NEW h \in Handlers, NEW q \in ConversationRequest, Receive(h, q),
             q.op \in {"create_conversation", "record_interaction"} => FreshConv(h, q.conv),
             q.op = "create_tombstone" => conversation[q.conv].made,
             UNCHANGED conversationVars
      PROVE  ConversationsInv'
  <2>1. NoRow \in SeenConversation /\ NoRow \in KnownIndex /\ ConversationTxs
    BY DEF SeenConversation, KnownIndex, ConversationsInv
  <2>2. /\ ConversationTxs' /\ tx'[h].at = "read" /\ tx'[h].q = q
        /\ \A g \in Handlers \ {h} : tx'[g] = tx[g]
    BY <1>1, <2>1, ReceiveTx DEF ConversationTxs, ConversationTx
  <2>3. served' \in 0 .. MaxRequests[part]
    BY <1>1, RequestsAssumption DEF Receive, ConversationsInv
  <2>4. Makes(h)' =>
           /\ ~conversation[tx'[h].q.conv].made /\ tx'[h].q.conv \notin tombstone
           /\ \A g \in Handlers \ {h} : Makes(g) => tx[g].q.conv # tx'[h].q.conv
    BY <1>1, <2>2 DEF Makes, FreshConv
  <2> QED
    BY <1>1, <2>2, <2>3, <2>4, ConversationsTxStep DEF Receive, Past
<1>2. ASSUME NEW h \in Handlers, Undo(h), UNCHANGED conversationVars
      PROVE  ConversationsInv'
  BY <1>2, ConversationsEnd DEF Undo
<1>3. CASE UNCHANGED vars
  <2>1. UNCHANGED <<part, deployment, tx, served, conversation, turn, tombstone, workflow,
                    announced, backup, lost, split, late, replayed>>
    BY <1>3 DEF vars, requestVars, conversationVars, captured, deletion, recovery
  <2>2. /\ DatabaseOK(conversation, turn, tombstone, workflow, announced, replayed)'
        /\ BackupOK'
    BY <2>1 DEF ConversationsInv, BackupOK, DatabaseOK
  <2>3. ConversationTxs' /\ Reserved' /\ CapturersOK' /\ NamersOK'
    BY <2>1 DEF ConversationsInv, ConversationTxs, Reserved, Makes, CapturersOK, CapturerOK,
                NamersOK, Past, Busy, From
  <2> QED
    BY <2>1, <2>2, <2>3 DEF ConversationsInv
<1> QED
  BY <1>1, <1>2, <1>3, CreateConversationInv, FindConversationInv, FindByClientInv,
     LookForTurnInv, AddTurnInv, FindTombstoneInv, CreateTombstoneInv, RecoveryInv
  DEF Next, ConversationsNext

-----------------------------------------------------------------------------
(* A behaviour uses one part, and the tables of the others stay empty.     *)

RowsInv ==
    /\ IF part = "proposals" THEN ProposalsInv ELSE ProposalsInit
    /\ IF part = "conversations" THEN ConversationsInv ELSE ConversationsInit

\* The part of the service that a behaviour uses.
LEMMA PartFixed == ASSUME [Next]_vars PROVE part' = part
<1>1. CASE UNCHANGED vars
  BY <1>1 DEF vars, requestVars
<1>2. CASE ProposalsNext
  BY <1>2
  DEF ProposalsNext, Receive, End, Goto, create_memory_item, create_proposal, ReadProposal,
      ReadCurrent, DecideOnly, DecideAndRewrite, Decide
<1>3. CASE ConversationsNext
  BY <1>3
  DEF ConversationsNext, Receive, End, Goto, create_conversation, FindConversation, FindByClient,
      LookForTurn, AddTurn, FindTombstone, create_tombstone, Backup, Restore,
      replay_tombstones_after_restore, requestVars
<1>4. CASE NotionNext
  BY <1>4
  DEF NotionNext, Receive, End, Goto, connect, ReadNotion, list_pages, FindBinding, select_pages,
      sync_binding_snapshot, resolve_conflict, Write
<1>5. CASE UploadsNext
  BY <1>5
  DEF UploadsNext, Receive, End, Goto, create_source, SignUpload, begin_upload, Put,
      ExpireAddress, VerifyUpload, Promote, LookForRevision, FlushCompletion, LookForJob,
      complete_upload, requestVars
<1>6. CASE \E h \in Handlers : Undo(h)
  BY <1>6 DEF Undo, End
<1> QED
  BY <1>1, <1>2, <1>3, <1>4, <1>5, <1>6 DEF Next

LEMMA RowsInvNext == ASSUME RowsInv, [Next]_vars PROVE RowsInv'
<1>1. part' = part
  BY PartFixed
<1>2. part # "proposals" => UNCHANGED proposalVars
  BY DEF Next, vars
<1>3. part # "conversations" => UNCHANGED conversationVars
  BY DEF Next, vars
<1>4. IF part' = "proposals" THEN ProposalsInv' ELSE ProposalsInit'
  BY <1>1, <1>2, ProposalsInvNext DEF RowsInv, ProposalsInit, proposalVars
<1>5. IF part' = "conversations" THEN ConversationsInv' ELSE ConversationsInit'
  BY <1>1, <1>3, ConversationsInvNext
  DEF RowsInv, ConversationsInit, conversationVars, captured, deletion, recovery
<1> QED
  BY <1>4, <1>5 DEF RowsInv

LEMMA RowsInduction == Spec => []RowsInv
<1>1. Init => RowsInv
  BY ProposalsInvInit, ConversationsInvInit DEF RowsInv, Init
<1>2. RowsInv /\ [Next]_vars => RowsInv'
  BY RowsInvNext
<1> QED
  BY <1>1, <1>2, PTL DEF Spec

LEMMA RowsApplied == RowsInv => ProposalAppliedOnce
<1> SUFFICES ASSUME RowsInv PROVE ProposalAppliedOnce
  OBVIOUS
<1>1. Applied /\ Chained
  <2>1. CASE part = "proposals"
    BY <2>1 DEF RowsInv, ProposalsInv
  <2>2. CASE part # "proposals"
    <3>1. ProposalsInit /\ Revisions = {}
      BY <2>2 DEF RowsInv, ProposalsInit, Revisions, NoRow
    <3> QED
      BY <3>1 DEF ProposalsInit, Applied, Chained, MadeFor, RevisionsOf, NoRow
  <2> QED
    BY <2>1, <2>2
<1>2. \A p \in Proposals : MadeFor(p) = {} => Cardinality(MadeFor(p)) = 0
  BY FS_EmptySet
<1>3. \A p \in Proposals, r \in MemoryId : MadeFor(p) = {r} => Cardinality(MadeFor(p)) = 1
  BY FS_Singleton
<1>4. ASSUME NEW p \in Proposals \ contested
      PROVE  Cardinality({r \in Revisions : memory[r].from = p}) =
             (IF proposal[p].made /\ proposal[p].status = "approved"
                 /\ proposal[p].target # "nothing" THEN 1 ELSE 0)
  <2>1. Cardinality(MadeFor(p)) =
             (IF proposal[p].made /\ proposal[p].status = "approved"
                 /\ proposal[p].target # "nothing" THEN 1 ELSE 0)
    BY <1>1, <1>2, <1>3 DEF Applied
  <2> QED
    BY <2>1 DEF MadeFor
<1>5. 0 <= 1 /\ 1 <= 1 /\ 0 # 1
  OBVIOUS
<1> QED
  BY <1>1, <1>4, <1>5 DEF ProposalAppliedOnce, Chained

LEMMA RowsDatabase ==
    RowsInv => DatabaseOK(conversation, turn, tombstone, workflow, announced, replayed)
<1> SUFFICES ASSUME RowsInv
             PROVE  DatabaseOK(conversation, turn, tombstone, workflow, announced, replayed)
  OBVIOUS
<1>1. CASE part = "conversations"
  BY <1>1 DEF RowsInv, ConversationsInv
<1>2. CASE part # "conversations"
  <2>1. ConversationsInit
    BY <1>2 DEF RowsInv
  <2> QED
    BY <2>1 DEF ConversationsInit, DatabaseOK, NoRow
<1> QED
  BY <1>1, <1>2

LEMMA RowsCaptured == RowsInv => CapturedOnce
<1> SUFFICES ASSUME RowsInv PROVE CapturedOnce
  OBVIOUS
<1>1. DatabaseOK(conversation, turn, tombstone, workflow, announced, replayed)
  BY RowsDatabase
<1>2. ASSUME NEW cl \in Clients \ split PROVE Cardinality(From(cl)) <= 1
  <2>1. CASE From(cl) = {}
    BY <2>1, FS_EmptySet
  <2>2. CASE From(cl) # {}
    <3>1. PICK c \in ConvIds : c \in From(cl)
      BY <2>2 DEF From
    <3>2. From(cl) = {c}
      <4>1. conversation[c].made /\ conversation[c].client = cl /\ cl \notin split \cup {"native"}
        BY <3>1, ConversationsAssumption DEF From
      <4>2. \A d \in From(cl) : d \in ConvIds /\ conversation[d].made /\ conversation[d].client = cl
        BY DEF From
      <4>3. \A d \in From(cl) : d = c
        BY <1>1, <4>1, <4>2 DEF DatabaseOK
      <4> QED
        BY <3>1, <4>3
    <3>3. Cardinality({c}) = 1
      BY FS_Singleton
    <3>4. Cardinality(From(cl)) = 1
      BY <3>2, <3>3
    <3> QED
      BY <3>4
  <2> QED
    BY <2>1, <2>2
<1> QED
  BY <1>1, <1>2 DEF CapturedOnce, DatabaseOK, Turns

\* A proposal that names an item rewrites it exactly when it stands approved,
\* once, no proposal that is not approved makes a revision, and an item's revisions form one chain that ends in the current one, wherever no
\* two requests resolved the same proposal or rewrote the same item at a time
\* (resolve_proposal, memdot_set_current_memory_revision).
THEOREM ProposalsOnce == Spec => []ProposalAppliedOnce
  BY RowsInduction, RowsApplied, PTL

\* A client's interactions are captured in one conversation and under each key
\* once, unless its first two overlapped, and also after a restore
\* (record_interaction, append_turn, uq_conversation_turn_client).
THEOREM InteractionsOnce == Spec => []CapturedOnce
  BY RowsInduction, RowsCaptured, PTL

\* A tombstone has its workflow and its one event, and while it is there its
\* conversation gets a turn only from a request that had looked for it before
\* (create_tombstone, replay_tombstones_after_restore).  A conversation whose
\* tombstone a restore took away gets turns: DeletedNeverReappears is violated.
THEOREM DeletionsHold == Spec => []DeletionHolds
<1>1. RowsInv => DeletionHolds
  BY RowsDatabase DEF DatabaseOK, DeletionHolds, Turns
<1> QED
  BY <1>1, RowsInduction, PTL
=============================================================================
