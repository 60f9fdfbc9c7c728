--------------------------- MODULE ConnectorProofs --------------------------
(***************************************************************************)
(* The Notion connector and uploads, proved for any handlers, pages,       *)
(* contents, uploads and digests, in any deployment; and with the other    *)
(* two parts the types of Exchange, and that what was made stays.          *)
(***************************************************************************)
EXTENDS ExchangeProofs

(* Notion.                                                                 *)

SeenNotion == {NoRow} \cup Connection \cup Binding
KnownNothing == {NoRow}
NotionTx == Tx(NotionRequest, SeenNotion, KnownNothing)
NotionTxs == tx \in [Handlers -> {Idle} \cup NotionTx]

\* A request that writes a binding has read it, and only a rival can have
\* written it since.
OnBinding == {"sync_binding_snapshot", "resolve_conflict"}
WriterOK(h) ==
    LET p == tx[h].q.page IN
    /\ tx[h].seen \in Binding /\ binding[p].made
    /\ tx[h].seen.source # 0 => sourceOf[tx[h].seen.source] = p
    /\ p \notin overlapped => tx[h].seen = binding[p]

WritersOK ==
    \A h \in Handlers : Past(h) =>
        /\ tx[h].q.op \in OnBinding => WriterOK(h)
        /\ tx[h].q.op = "list_pages" => tx[h].seen \in Connection /\ connection.made

\* A source belongs to the page whose binding made it, and a snapshot to a
\* source.
SourcesOK ==
    /\ \A s \in SourceId : sourceOf[s] # "none" => binding[sourceOf[s]].made
    /\ \A p \in Pages : binding[p].made /\ binding[p].source # 0 =>
          sourceOf[binding[p].source] = p
    /\ \A x \in snapshots : sourceOf[x.source] # "none"

BoundOK ==
    \A p \in Pages \ overlapped : binding[p].made =>
        /\ binding[p].source = 0 <=> binding[p].snapshot = "none"
        /\ \A s \in SourceId : sourceOf[s] = p <=> s = binding[p].source
        /\ \A x \in snapshots : x.source = binding[p].source => x.content = binding[p].snapshot
        /\ binding[p].source # 0 =>
              [source |-> binding[p].source, content |-> binding[p].snapshot] \in snapshots
        /\ binding[p].sync = "paused" <=> binding[p].conflict = "unresolved"

NotionRows ==
    /\ connection \in {NoRow} \cup Connection
    /\ binding \in [Pages -> {NoRow} \cup Binding]
    /\ sourceOf \in [SourceId -> Pages \cup {"none"}]
    /\ snapshots \subseteq [source : SourceId, content : Contents]
    /\ decided \subseteq Pages /\ overlapped \subseteq Pages

NotionInv ==
    /\ NotionTxs
    /\ part \in Parts /\ deployment \in Deployments[part] /\ served \in 0 .. MaxRequests[part]
    /\ NotionRows /\ WritersOK /\ SourcesOK /\ BoundOK

LEMMA NotionInvInit == Init /\ part = "notion" => NotionInv
<1> SUFFICES ASSUME Init, part = "notion" PROVE NotionInv
  OBVIOUS
<1> USE DEF Init, RequestsInit, NotionInit
<1>1. NotionTxs /\ WritersOK
  BY DEF NotionTxs, WritersOK, Past, Busy
<1>2. served \in 0 .. MaxRequests[part] /\ part \in Parts /\ deployment \in Deployments[part]
  BY RequestsAssumption
<1>3. NotionRows /\ SourcesOK /\ BoundOK
  BY DEF NotionRows, SourcesOK, BoundOK, NoRow
<1> QED
  BY <1>1, <1>2, <1>3 DEF NotionInv

\* The database stays, and one handler is somewhere else.
LEMMA NotionTxStep ==
    ASSUME NotionInv, NEW h \in Handlers,
           NotionTxs', \A g \in Handlers \ {h} : tx'[g] = tx[g],
           UNCHANGED <<part, deployment, notionVars>>,
           served' \in 0 .. MaxRequests[part],
           Past(h)' =>
              /\ tx'[h].q.op \in OnBinding => WriterOK(h)'
              /\ tx'[h].q.op = "list_pages" => tx'[h].seen \in Connection /\ connection.made
    PROVE  NotionInv'
<1> USE DEF NotionInv, notionVars
<1>1. NotionRows' /\ SourcesOK' /\ BoundOK'
  BY DEF NotionRows, SourcesOK, BoundOK
<1>2. WritersOK'
  <2> SUFFICES ASSUME NEW g \in Handlers, Past(g)', g # h
               PROVE  /\ tx'[g].q.op \in OnBinding => WriterOK(g)'
                      /\ tx'[g].q.op = "list_pages" =>
                            tx'[g].seen \in Connection /\ connection'.made
    BY DEF WritersOK
  <2>1. Past(g) /\ tx'[g] = tx[g]
    BY DEF Past, Busy
  <2>2. WriterOK(g) => WriterOK(g)'
    BY <2>1 DEF WriterOK
  <2> QED
    BY <2>1, <2>2 DEF WritersOK
<1> QED
  BY <1>1, <1>2

\* The handler is done and has written nothing.
LEMMA NotionEnd ==
    ASSUME NotionInv, NEW h \in Handlers, End(h), UNCHANGED notionVars
    PROVE  NotionInv'
  BY EndTx, NotionTxStep DEF End, NotionInv, NotionTxs, NotionTx, Past, Busy

LEMMA ReadNotionInv ==
    ASSUME NotionInv, NEW h \in Handlers,
           \/ ReadNotion(h, "list_pages", connection)
           \/ \E op \in OnBinding : ReadNotion(h, op, binding[tx[h].q.page])
    PROVE  NotionInv'
<1>1. Busy(h) /\ tx[h] \in NotionTx
  BY DEF ReadNotion, At, Busy, NotionInv, NotionTxs
<1>2. PICK row \in SeenNotion, op \in OnBinding \cup {"list_pages"} :
         /\ ReadNotion(h, op, row)
         /\ op = "list_pages" => row = connection
         /\ op \in OnBinding => row = binding[tx[h].q.page] /\ tx[h].q.page \in Pages
  <2>1. CASE ReadNotion(h, "list_pages", connection)
    <3>1. connection \in SeenNotion
      BY DEF NotionInv, NotionRows, SeenNotion
    <3> QED
      BY <2>1, <3>1 DEF OnBinding
  <2>2. ASSUME NEW op \in OnBinding, ReadNotion(h, op, binding[tx[h].q.page])
        PROVE  /\ binding[tx[h].q.page] \in SeenNotion
               /\ tx[h].q.page \in Pages
    <3>1. tx[h].q \in NotionRequest /\ tx[h].q.op \in OnBinding
      BY <1>1, <2>2 DEF NotionTx, Tx, ReadNotion, At
    <3>2. tx[h].q.page \in Pages
      BY <3>1 DEF NotionRequest, Connect, ListPages, OnPage, Sync, OnBinding
    <3> QED
      BY <3>2 DEF NotionInv, NotionRows, SeenNotion
  <2> QED
    BY <2>1, <2>2 DEF OnBinding
<1>3. UNCHANGED notionVars /\ tx[h].q.op = op
  BY <1>2 DEF ReadNotion, At
<1>4. CASE End(h)
  BY <1>3, <1>4, NotionEnd
<1>5. CASE row.made /\ Goto(h, "commit", row, NoRow)
  <2>1. Goto(h, "commit", row, NoRow) /\ "commit" \in Phase /\ NoRow \in KnownNothing /\ NotionTxs
    BY <1>5 DEF Phase, NotionInv, KnownNothing
  <2>2. /\ NotionTxs' /\ \A g \in Handlers \ {h} : tx'[g] = tx[g]
        /\ tx'[h] = [at |-> "commit", q |-> tx[h].q, seen |-> row, known |-> NoRow]
    BY <1>1, <2>1, GotoTx DEF NotionTxs, NotionTx
  <2>3. op = "list_pages" => row \in Connection /\ connection.made
    BY <1>2, <1>5 DEF NotionInv, NotionRows, NoRow
  <2>4. op \in OnBinding => WriterOK(h)'
    <3>1. ASSUME op \in OnBinding PROVE row \in Binding /\ row = binding[tx[h].q.page]
      BY <1>2, <1>5, <3>1 DEF NotionInv, NotionRows, NoRow
    <3> QED
      BY <1>2, <1>3, <1>5, <2>2, <3>1 DEF WriterOK, notionVars, NotionInv, SourcesOK
  <2>5. served' \in 0 .. MaxRequests[part] /\ UNCHANGED <<part, deployment, notionVars>>
    BY <1>3, <2>1 DEF Goto, NotionInv
  <2>6. tx'[h].q.op = op /\ tx'[h].seen = row
    BY <1>3, <2>2
  <2> QED
    BY <1>2, <2>2, <2>3, <2>4, <2>5, <2>6, NotionTxStep
<1> QED
  BY <1>2, <1>4, <1>5 DEF ReadNotion

LEMMA FindBindingInv ==
    ASSUME NotionInv, NEW h \in Handlers, FindBinding(h)
    PROVE  NotionInv'
<1> DEFINE free == connection.made /\ ~binding[tx[h].q.page].made
<1>1. CASE ~free
  BY <1>1, NotionEnd DEF FindBinding
<1>2. CASE free
  <2>1. /\ Goto(h, "commit", NoRow, NoRow) /\ "commit" \in Phase /\ NoRow \in KnownNothing
        /\ NotionTxs /\ NoRow \in SeenNotion /\ Busy(h)
    BY <1>2 DEF FindBinding, At, Phase, NotionInv, SeenNotion, KnownNothing
  <2>2. /\ NotionTxs' /\ \A g \in Handlers \ {h} : tx'[g] = tx[g]
        /\ tx'[h] = [at |-> "commit", q |-> tx[h].q, seen |-> NoRow, known |-> NoRow]
    BY <2>1, GotoTx DEF NotionTxs, NotionTx
  <2>3. served' \in 0 .. MaxRequests[part] /\ UNCHANGED <<part, deployment, notionVars>>
    BY <2>1 DEF Goto, NotionInv, FindBinding
  <2>4. tx'[h].q.op = "select_pages"
    BY <2>2 DEF FindBinding, At
  <2> QED
    BY <2>2, <2>3, <2>4, NotionTxStep DEF OnBinding
<1> QED
  BY <1>1, <1>2

\* Only the connection is written.
LEMMA ConnectionInv ==
    ASSUME NotionInv, NEW h \in Handlers, End(h), connection' \in Connection,
           UNCHANGED <<binding, sourceOf, snapshots, decided, overlapped>>
    PROVE  NotionInv'
<1> USE DEF NotionInv
<1>1. NotionTxs' /\ tx'[h] = Idle /\ \A g \in Handlers \ {h} : tx'[g] = tx[g]
  BY EndTx DEF NotionTxs, NotionTx
<1>2. NotionRows' /\ SourcesOK' /\ BoundOK' /\ connection'.made
  <2>1. connection'.made
    BY DEF Connection
  <2> QED
    BY <2>1 DEF NotionRows, SourcesOK, BoundOK
<1>3. WritersOK'
  <2> SUFFICES ASSUME NEW g \in Handlers, Past(g)'
               PROVE  /\ tx'[g].q.op \in OnBinding => WriterOK(g)'
                      /\ tx'[g].q.op = "list_pages" =>
                            tx'[g].seen \in Connection /\ connection'.made
    BY DEF WritersOK
  <2>1. g # h /\ Past(g) /\ tx'[g] = tx[g]
    BY <1>1 DEF Past, Busy
  <2>2. WriterOK(g) => WriterOK(g)'
    BY <2>1 DEF WriterOK
  <2> QED
    BY <1>2, <2>1, <2>2 DEF WritersOK
<1> QED
  BY <1>1, <1>2, <1>3 DEF End

LEMMA ListInv ==
    ASSUME NotionInv, NEW h \in Handlers, connect(h) \/ list_pages(h)
    PROVE  NotionInv'
<1> DEFINE n == Cardinality(Pages)
<1>1. n \in Nat /\ n # 0
  BY NotionAssumption, FS_CardinalityType, FS_EmptySet
<1>2. CASE connect(h)
  <2>1. connection' \in Connection
    BY <1>1, <1>2 DEF connect, Connection
  <2> QED
    BY <1>2, <2>1, ConnectionInv DEF connect
<1>3. CASE list_pages(h)
  <2>1. Past(h) /\ tx[h].q.op = "list_pages"
    BY <1>3 DEF list_pages, At, Past
  <2>2. tx[h].seen \in Connection /\ connection \in Connection
    BY <2>1 DEF NotionInv, WritersOK, NotionRows, NoRow
  <2>3. (tx[h].seen.cursor + 1) % n \in 0 .. n - 1
    <3>1. tx[h].seen.cursor \in 0 .. n - 1
      BY <2>2 DEF Connection
    <3> QED
      BY <1>1, <3>1
  <2>4. connection' \in Connection
    BY <1>3, <2>2, <2>3 DEF list_pages, Connection
  <2> QED
    BY <1>3, <2>4, ConnectionInv DEF list_pages
<1> QED
  BY <1>2, <1>3

LEMMA SelectPagesInv ==
    ASSUME NotionInv, NEW h \in Handlers, select_pages(h)
    PROVE  NotionInv'
<1> USE DEF NotionInv
<1>1. End(h) /\ NotionTxs' /\ tx'[h] = Idle /\ \A g \in Handlers \ {h} : tx'[g] = tx[g]
  BY EndTx DEF NotionTxs, NotionTx, select_pages
<1>2. tx[h].q.page \in Pages
  BY DEF select_pages, At, Busy, NotionTxs, NotionTx, Tx, NotionRequest, Connect, ListPages,
         OnPage, Sync
<1>3. PICK p \in Pages : p = tx[h].q.page
  BY <1>2
<1> DEFINE row == [made |-> TRUE, source |-> 0, snapshot |-> "none", conflict |-> "none",
                   sync |-> "idle"]
<1>4. /\ UNCHANGED <<connection, sourceOf, snapshots, decided, overlapped>> /\ ~binding[p].made
      /\ binding' \in [Pages -> {NoRow} \cup Binding] /\ binding'[p] = row
      /\ \A q \in Pages \ {p} : binding'[q] = binding[q]
  <2>1. row \in Binding
    BY NotionAssumption DEF Binding
  <2>2. binding' = [binding EXCEPT ![p] = row]
    BY <1>3 DEF select_pages
  <2> QED
    BY <1>3, <2>1, <2>2 DEF select_pages, NotionRows
<1>5. NotionRows'
  BY <1>4 DEF NotionRows
<1>6. SourcesOK'
  BY <1>4 DEF SourcesOK, NotionRows
<1>7. BoundOK'
  <2>1. \A s \in SourceId : sourceOf[s] # p
    BY <1>4, NotionAssumption DEF SourcesOK
  <2>2. \A x \in snapshots : x.source # 0 /\ x.source \in SourceId
    BY NotionAssumption DEF NotionRows, SourceId
  <2>3. 0 \notin SourceId
    BY NotionAssumption DEF SourceId
  <2> QED
    BY <1>4, <2>1, <2>2, <2>3 DEF BoundOK
<1>8. WritersOK'
  <2> SUFFICES ASSUME NEW g \in Handlers, Past(g)'
               PROVE  /\ tx'[g].q.op \in OnBinding => WriterOK(g)'
                      /\ tx'[g].q.op = "list_pages" =>
                            tx'[g].seen \in Connection /\ connection'.made
    BY DEF WritersOK
  <2>1. g # h /\ Past(g) /\ tx'[g] = tx[g] /\ tx[g].q \in NotionRequest
    BY <1>1 DEF Past, Busy, NotionTxs, NotionTx, Tx
  <2>2. tx[g].q.op \in OnBinding => tx[g].q.page \in Pages
    BY <2>1 DEF NotionRequest, Connect, ListPages, OnPage, Sync, OnBinding
  <2>3. tx[g].q.op \in OnBinding /\ WriterOK(g) => WriterOK(g)'
    BY <1>4, <2>1, <2>2 DEF WriterOK
  <2> QED
    BY <1>4, <2>1, <2>3 DEF WritersOK
<1> QED
  BY <1>1, <1>5, <1>6, <1>7, <1>8 DEF End

\* What a write leaves in the binding.
LEMMA WriteStep ==
    ASSUME NotionInv, NEW h \in Handlers, NEW p \in Pages, tx[h].q.page = p, WriterOK(h),
           NEW new \in Binding, Write(h, new)
    PROVE  /\ binding' \in [Pages -> {NoRow} \cup Binding]
           /\ \A q \in Pages \ {p} : binding'[q] = binding[q]
           /\ binding'[p] \in Binding
           /\ binding'[p].source \in {new.source, binding[p].source}
           /\ p \notin overlapped => binding'[p] = new
           /\ overlapped \subseteq overlapped' /\ overlapped' \subseteq Pages
           /\ \A g \in Handlers \ {h} :
                 Past(g) /\ tx[g].q.op \in OnBinding /\ tx[g].q.page = p => p \in overlapped'
<1> DEFINE old == binding[p]
           seen == tx[h].seen
           row == [c \in DOMAIN old |-> IF new[c] # seen[c] THEN new[c] ELSE old[c]]
<1>1. old \in Binding /\ seen \in Binding /\ binding \in [Pages -> {NoRow} \cup Binding]
  BY DEF WriterOK, NotionInv, NotionRows, NoRow
<1>2. binding' = [binding EXCEPT ![p] = row]
  BY DEF Write
<1>3. row = [made |-> IF new.made # seen.made THEN new.made ELSE old.made,
             source |-> IF new.source # seen.source THEN new.source ELSE old.source,
             snapshot |-> IF new.snapshot # seen.snapshot THEN new.snapshot ELSE old.snapshot,
             conflict |-> IF new.conflict # seen.conflict THEN new.conflict ELSE old.conflict,
             sync |-> IF new.sync # seen.sync THEN new.sync ELSE old.sync]
  <2>1. DOMAIN old = {"made", "source", "snapshot", "conflict", "sync"}
    BY <1>1 DEF Binding
  <2> QED
    BY <2>1
<1>4. row \in Binding /\ row.source \in {new.source, old.source}
  BY <1>1, <1>3 DEF Binding
<1>5. p \notin overlapped => row = new
  <2>1. p \notin overlapped => seen = old
    BY DEF WriterOK
  <2> QED
    BY <1>1, <1>3, <2>1 DEF Binding
<1>6. overlapped \subseteq overlapped' /\ overlapped' \subseteq Pages
  BY DEF Write, NotionInv, NotionRows
<1>7. \A g \in Handlers \ {h} :
         Past(g) /\ tx[g].q.op \in OnBinding /\ tx[g].q.page = p => p \in overlapped'
  BY DEF Write, Rivals, Past, OnBinding
<1> QED
  BY <1>1, <1>2, <1>4, <1>5, <1>6, <1>7

\* The others still hold what only a rival has replaced.
LEMMA WritersAfter ==
    ASSUME NotionInv, NEW h \in Handlers, NEW p \in Pages, End(h), connection' = connection,
           \A q \in Pages \ {p} : binding'[q] = binding[q],
           binding'[p] \in Binding, overlapped \subseteq overlapped',
           \A s \in SourceId : sourceOf[s] # "none" => sourceOf'[s] = sourceOf[s],
           \A g \in Handlers \ {h} :
              Past(g) /\ tx[g].q.op \in OnBinding /\ tx[g].q.page = p => p \in overlapped'
    PROVE  NotionTxs' /\ WritersOK'
<1>1. NotionTxs' /\ tx'[h] = Idle /\ \A g \in Handlers \ {h} : tx'[g] = tx[g]
  BY EndTx DEF NotionTxs, NotionTx, NotionInv
<1> SUFFICES ASSUME NEW g \in Handlers, Past(g)'
             PROVE  /\ tx'[g].q.op \in OnBinding => WriterOK(g)'
                    /\ tx'[g].q.op = "list_pages" =>
                          tx'[g].seen \in Connection /\ connection'.made
  BY <1>1 DEF WritersOK
<1>2. g # h /\ Past(g) /\ tx'[g] = tx[g] /\ tx[g].q \in NotionRequest
  BY <1>1 DEF Past, Busy, NotionTxs, NotionTx, Tx, NotionInv
<1>3. ASSUME tx[g].q.op \in OnBinding PROVE WriterOK(g)'
  <2>1. PICK q \in Pages : q = tx[g].q.page
    BY <1>2, <1>3 DEF NotionRequest, Connect, ListPages, OnPage, Sync, OnBinding
  <2>2. WriterOK(g)
    BY <1>2, <1>3 DEF NotionInv, WritersOK
  <2>3. binding'[q].made
    BY <2>1, <2>2 DEF WriterOK, Binding
  <2>4. tx[g].seen.source # 0 => sourceOf'[tx[g].seen.source] = q
    <3>1. tx[g].seen.source # 0 => tx[g].seen.source \in SourceId
      <4>1. tx[g].seen.source \in 0 .. MaxSources
        BY <2>2 DEF WriterOK, Binding
      <4> QED
        BY <4>1, NotionAssumption DEF SourceId
    <3>2. q # "none"
      BY NotionAssumption
    <3> QED
      BY <2>1, <2>2, <3>1, <3>2 DEF WriterOK
  <2>5. q \notin overlapped' => tx[g].seen = binding'[q]
    BY <1>2, <1>3, <2>1, <2>2 DEF WriterOK
  <2> QED
    BY <1>2, <2>1, <2>2, <2>3, <2>4, <2>5 DEF WriterOK
<1> QED
  BY <1>2, <1>3 DEF NotionInv, WritersOK

LEMMA ResolveConflictInv ==
    ASSUME NotionInv, NEW h \in Handlers, resolve_conflict(h)
    PROVE  NotionInv'
<1> USE DEF NotionInv
<1>1. Past(h) /\ tx[h].q.op \in OnBinding /\ tx[h].q \in NotionRequest
  BY DEF resolve_conflict, At, Past, Busy, OnBinding, NotionTxs, NotionTx, Tx
<1>2. WriterOK(h)
  BY <1>1 DEF WritersOK
<1>3. PICK p \in Pages : p = tx[h].q.page
  BY <1>1 DEF NotionRequest, Connect, ListPages, OnPage, Sync, OnBinding
<1>4. PICK new \in Binding : new = [tx[h].seen EXCEPT !.conflict = "resolved", !.sync = "idle"]
  BY <1>2 DEF WriterOK, Binding
<1>5. /\ new.source = tx[h].seen.source /\ new.snapshot = tx[h].seen.snapshot
      /\ new.conflict = "resolved" /\ new.sync = "idle" /\ new.made
  BY <1>2, <1>4 DEF WriterOK, Binding
<1>6. Write(h, new) /\ UNCHANGED <<sourceOf, snapshots>> /\ decided' \subseteq decided \cup {p}
  BY <1>3, <1>4 DEF resolve_conflict
<1>7. /\ binding' \in [Pages -> {NoRow} \cup Binding]
      /\ \A q \in Pages \ {p} : binding'[q] = binding[q]
      /\ binding'[p] \in Binding
      /\ binding'[p].source \in {new.source, binding[p].source}
      /\ p \notin overlapped => binding'[p] = new
      /\ overlapped \subseteq overlapped' /\ overlapped' \subseteq Pages
      /\ \A g \in Handlers \ {h} :
            Past(g) /\ tx[g].q.op \in OnBinding /\ tx[g].q.page = p => p \in overlapped'
  BY <1>2, <1>3, <1>6, WriteStep
<1>8. End(h) /\ connection' = connection
  BY <1>6 DEF Write
<1>9. NotionTxs' /\ WritersOK'
  BY <1>6, <1>7, <1>8, WritersAfter
<1>10. NotionRows'
  BY <1>6, <1>7, <1>8 DEF NotionRows
<1>11. binding'[p].made /\ binding[p].made
  BY <1>2, <1>3, <1>7 DEF WriterOK, Binding
<1>12. SourcesOK'
  <2>1. \A s \in SourceId : sourceOf'[s] # "none" => binding'[sourceOf'[s]].made
    BY <1>6, <1>7, <1>11 DEF SourcesOK, NotionRows
  <2>2. \A q \in Pages : binding'[q].made /\ binding'[q].source # 0 =>
           sourceOf'[binding'[q].source] = q
    BY <1>2, <1>3, <1>5, <1>6, <1>7, <1>11 DEF SourcesOK, WriterOK
  <2> QED
    BY <1>6, <2>1, <2>2 DEF SourcesOK
<1>13. BoundOK'
  <2>1. p \notin overlapped => tx[h].seen = binding[p]
    BY <1>2, <1>3 DEF WriterOK
  <2>2. p \notin overlapped' =>
           /\ binding'[p].source = binding[p].source /\ binding'[p].snapshot = binding[p].snapshot
           /\ binding'[p].conflict = "resolved" /\ binding'[p].sync = "idle"
    BY <1>5, <1>7, <2>1
  <2> SUFFICES ASSUME NEW q \in Pages \ overlapped', binding'[q].made
               PROVE  /\ binding'[q].source = 0 <=> binding'[q].snapshot = "none"
                      /\ \A s \in SourceId : sourceOf'[s] = q <=> s = binding'[q].source
                      /\ \A x \in snapshots' : x.source = binding'[q].source =>
                            x.content = binding'[q].snapshot
                      /\ binding'[q].source # 0 =>
                            [source |-> binding'[q].source, content |-> binding'[q].snapshot]
                               \in snapshots'
                      /\ binding'[q].sync = "paused" <=> binding'[q].conflict = "unresolved"
    BY DEF BoundOK
  <2>3. CASE q = p
    BY <1>6, <1>7, <1>11, <2>2, <2>3 DEF BoundOK
  <2>4. CASE q # p
    BY <1>6, <1>7, <2>4 DEF BoundOK
  <2> QED
    BY <2>3, <2>4
<1> QED
  BY <1>8, <1>9, <1>10, <1>12, <1>13 DEF End

\* The four cases of Synced: only the last one touches source and snapshot.
LEMMA SyncedCases ==
    ASSUME NEW b \in Binding, NEW content \in Contents, NEW fresh \in SourceId,
           b.source # fresh
    PROVE  LET new == Synced(b, content, fresh) IN
           /\ new \in Binding
           /\ \/ /\ new.source = b.source /\ new.snapshot = b.snapshot
                 /\ \/ new.sync = "paused" /\ new.conflict = "unresolved"
                    \/ new.sync = b.sync /\ new.conflict = b.conflict
              \/ /\ b.snapshot = "none" /\ new.source = fresh /\ new.snapshot = content
                 /\ b.conflict # "unresolved" /\ new.conflict = b.conflict /\ new.sync = "idle"
<1> DEFINE new == Synced(b, content, fresh)
<1>1. fresh \in 0 .. MaxSources
  BY NotionAssumption DEF SourceId
<1>2. CASE b.conflict = "unresolved"
  <2>1. new = [b EXCEPT !.sync = "paused"]
    BY <1>2 DEF Synced
  <2> QED
    BY <1>2, <2>1 DEF Binding
<1>3. CASE b.conflict # "unresolved" /\ b.snapshot \notin {"none", content}
  <2>1. new = [b EXCEPT !.conflict = "unresolved", !.sync = "paused"]
    BY <1>3 DEF Synced
  <2> QED
    BY <1>3, <2>1 DEF Binding
<1>4. CASE b.conflict # "unresolved" /\ b.snapshot = content
  <2>1. new = b
    BY <1>4 DEF Synced
  <2> QED
    BY <1>4, <2>1 DEF Binding
<1>5. CASE b.conflict # "unresolved" /\ b.snapshot = "none" /\ b.snapshot # content
  <2>1. new = [b EXCEPT !.source = fresh, !.snapshot = content, !.sync = "idle"]
    BY <1>5 DEF Synced
  <2> QED
    BY <1>1, <1>5, <2>1 DEF Binding
<1> QED
  BY <1>2, <1>3, <1>4, <1>5

LEMMA SyncInv ==
    ASSUME NotionInv, NEW h \in Handlers, sync_binding_snapshot(h)
    PROVE  NotionInv'
<1> USE DEF NotionInv
<1> DEFINE seen == tx[h].seen
           content == tx[h].q.content
<1>1. Past(h) /\ tx[h].q.op = "sync_binding_snapshot" /\ tx[h].q \in NotionRequest
  BY DEF sync_binding_snapshot, At, Past, Busy, NotionTxs, NotionTx, Tx
<1>2. WriterOK(h)
  BY <1>1 DEF WritersOK, OnBinding
<1>3. content \in Contents /\ tx[h].q.page \in Pages
  BY <1>1 DEF NotionRequest, Connect, ListPages, OnPage, Sync
<1>4. PICK p \in Pages : p = tx[h].q.page
  BY <1>3
<1>5. PICK fresh \in Unused :
         LET row == Synced(seen, content, fresh) IN
         /\ sourceOf' = IF row.source = fresh THEN [sourceOf EXCEPT ![fresh] = p] ELSE sourceOf
         /\ snapshots' = IF row.snapshot # seen.snapshot
                         THEN snapshots \cup {[source |-> row.source, content |-> row.snapshot]}
                         ELSE snapshots
         /\ Write(h, row)
  BY <1>4 DEF sync_binding_snapshot
<1>6. /\ fresh \in SourceId /\ sourceOf[fresh] = "none" /\ fresh # 0 /\ p # "none"
      /\ \A q \in Pages : q # "none"
  BY NotionAssumption DEF Unused, SourceId
<1>7. seen \in Binding /\ seen.source # fresh
  BY <1>2, <1>4, <1>6 DEF WriterOK
<1>8. PICK new \in Binding : new = Synced(seen, content, fresh)
  BY <1>3, <1>6, <1>7, SyncedCases
<1>9. \/ /\ new.source = seen.source /\ new.snapshot = seen.snapshot
         /\ \/ new.sync = "paused" /\ new.conflict = "unresolved"
            \/ new.sync = seen.sync /\ new.conflict = seen.conflict
      \/ /\ seen.snapshot = "none" /\ new.source = fresh /\ new.snapshot = content
         /\ seen.conflict # "unresolved" /\ new.conflict = seen.conflict /\ new.sync = "idle"
  BY <1>3, <1>6, <1>7, <1>8, SyncedCases
<1>10. /\ Write(h, new)
       /\ sourceOf' = IF new.source = fresh THEN [sourceOf EXCEPT ![fresh] = p] ELSE sourceOf
       /\ snapshots' = IF new.snapshot # seen.snapshot
                       THEN snapshots \cup {[source |-> new.source, content |-> new.snapshot]}
                       ELSE snapshots
  BY <1>5, <1>8
<1>11. /\ binding' \in [Pages -> {NoRow} \cup Binding]
       /\ \A q \in Pages \ {p} : binding'[q] = binding[q]
       /\ binding'[p] \in Binding
       /\ binding'[p].source \in {new.source, binding[p].source}
       /\ p \notin overlapped => binding'[p] = new
       /\ overlapped \subseteq overlapped' /\ overlapped' \subseteq Pages
       /\ \A g \in Handlers \ {h} :
             Past(g) /\ tx[g].q.op \in OnBinding /\ tx[g].q.page = p => p \in overlapped'
  BY <1>2, <1>4, <1>10, WriteStep
<1>12. /\ End(h) /\ connection' = connection /\ binding'[p].made /\ binding[p].made
       /\ decided' = decided
  BY <1>2, <1>4, <1>10, <1>11 DEF Write, WriterOK, Binding, sync_binding_snapshot
<1>13. /\ sourceOf' \in [SourceId -> Pages \cup {"none"}]
       /\ \A s \in SourceId : sourceOf[s] # "none" => sourceOf'[s] = sourceOf[s]
       /\ \A s \in SourceId : sourceOf'[s] # sourceOf[s] => sourceOf'[s] = p /\ s = fresh
       /\ new.source = fresh => sourceOf'[fresh] = p
       /\ new.source # fresh => sourceOf' = sourceOf
  BY <1>6, <1>10 DEF NotionRows
<1>14. NotionTxs' /\ WritersOK'
  BY <1>11, <1>12, <1>13, WritersAfter
<1>15. /\ \A x \in snapshots' : x \in snapshots \/
             (new.source = fresh /\ x = [source |-> fresh, content |-> content])
       /\ snapshots \subseteq snapshots'
       /\ new.source = fresh => [source |-> fresh, content |-> content] \in snapshots'
  BY <1>3, <1>7, <1>9, <1>10, NotionAssumption
<1>16. NotionRows'
  <2>1. snapshots' \subseteq [source : SourceId, content : Contents]
    BY <1>3, <1>6, <1>15 DEF NotionRows
  <2> QED
    BY <1>11, <1>12, <1>13, <2>1 DEF NotionRows
<1>17. SourcesOK'
  <2>1. \A s \in SourceId : sourceOf'[s] # "none" => binding'[sourceOf'[s]].made
    BY <1>11, <1>12, <1>13 DEF SourcesOK, NotionRows
  <2>2. ASSUME NEW q \in Pages, binding'[q].made, binding'[q].source # 0
        PROVE  sourceOf'[binding'[q].source] = q
    <3>1. CASE q # p
      <4>1. /\ binding[q].source = binding'[q].source /\ sourceOf[binding[q].source] = q
            /\ binding[q] \in Binding
        BY <1>11, <2>2, <3>1 DEF SourcesOK, NotionRows, NoRow
      <4>2. binding[q].source \in SourceId
        <5>1. binding[q].source \in 0 .. MaxSources
          BY <4>1 DEF Binding
        <5> QED
          BY <2>2, <4>1, <5>1, NotionAssumption DEF SourceId
      <4> QED
        BY <1>6, <1>13, <4>1, <4>2
    <3>2. CASE q = p /\ binding'[p].source = fresh
      <4>1. new.source = fresh
        BY <1>6, <1>11, <1>12, <3>2 DEF SourcesOK
      <4> QED
        BY <1>13, <3>2, <4>1
    <3>3. CASE q = p /\ binding'[p].source # fresh
      <4>1. binding'[p].source \in {seen.source, binding[p].source}
        BY <1>9, <1>11, <3>3
      <4>2. sourceOf[binding'[p].source] = p
        BY <1>2, <1>4, <1>12, <2>2, <3>3, <4>1 DEF SourcesOK, WriterOK
      <4>3. binding'[p].source \in SourceId
        <5>1. binding'[p].source \in 0 .. MaxSources
          BY <1>11 DEF Binding
        <5> QED
          BY <2>2, <3>3, <5>1, NotionAssumption DEF SourceId
      <4> QED
        BY <1>6, <1>13, <3>3, <4>2, <4>3
    <3> QED
      BY <3>1, <3>2, <3>3
  <2>3. ASSUME NEW x \in snapshots' PROVE sourceOf'[x.source] # "none"
    <3>1. CASE x \in snapshots
      <4>1. x.source \in SourceId /\ sourceOf[x.source] # "none"
        BY <3>1 DEF SourcesOK, NotionRows
      <4> QED
        BY <1>13, <4>1
    <3>2. CASE new.source = fresh /\ x = [source |-> fresh, content |-> content]
      BY <1>6, <1>13, <3>2
    <3> QED
      BY <1>15, <3>1, <3>2
  <2> QED
    BY <2>1, <2>2, <2>3 DEF SourcesOK
<1>18. BoundOK'
  <2> SUFFICES ASSUME NEW q \in Pages \ overlapped', binding'[q].made
               PROVE  /\ binding'[q].source = 0 <=> binding'[q].snapshot = "none"
                      /\ \A s \in SourceId : sourceOf'[s] = q <=> s = binding'[q].source
                      /\ \A x \in snapshots' : x.source = binding'[q].source =>
                            x.content = binding'[q].snapshot
                      /\ binding'[q].source # 0 =>
                            [source |-> binding'[q].source, content |-> binding'[q].snapshot]
                               \in snapshots'
                      /\ binding'[q].sync = "paused" <=> binding'[q].conflict = "unresolved"
    BY DEF BoundOK
  <2>1. \A x \in snapshots : x.source # fresh
    BY <1>6 DEF SourcesOK
  <2>2. CASE q # p
    <3>1. binding'[q] = binding[q] /\ q \notin overlapped
      BY <1>11, <2>2
    <3>2. /\ binding[q].source = 0 <=> binding[q].snapshot = "none"
          /\ \A s \in SourceId : sourceOf[s] = q <=> s = binding[q].source
          /\ \A x \in snapshots : x.source = binding[q].source => x.content = binding[q].snapshot
          /\ binding[q].source # 0 =>
                [source |-> binding[q].source, content |-> binding[q].snapshot] \in snapshots
          /\ binding[q].sync = "paused" <=> binding[q].conflict = "unresolved"
      BY <3>1 DEF BoundOK
    <3>3. binding[q].source # fresh
      BY <1>6, <3>2
    <3>4. \A s \in SourceId : sourceOf'[s] = q <=> sourceOf[s] = q
      BY <1>6, <1>13, <2>2
    <3>5. \A x \in snapshots' : x.source = binding[q].source => x \in snapshots
      BY <1>15, <3>3
    <3> QED
      BY <1>15, <3>1, <3>2, <3>4, <3>5
  <2>3. CASE q = p
    <3>1. p \notin overlapped /\ seen = binding[p] /\ binding'[p] = new
      BY <1>2, <1>4, <1>11, <2>3 DEF WriterOK
    <3>2. /\ seen.source = 0 <=> seen.snapshot = "none"
          /\ \A s \in SourceId : sourceOf[s] = p <=> s = seen.source
          /\ \A x \in snapshots : x.source = seen.source => x.content = seen.snapshot
          /\ seen.source # 0 =>
                [source |-> seen.source, content |-> seen.snapshot] \in snapshots
          /\ seen.sync = "paused" <=> seen.conflict = "unresolved"
      BY <1>12, <3>1 DEF BoundOK
    <3>3. CASE new.source = fresh
      <4>1. /\ seen.source = 0 /\ new.snapshot = content /\ new.sync = "idle"
            /\ new.conflict # "unresolved" /\ content # "none"
        BY <1>3, <1>7, <1>9, <3>2, <3>3, NotionAssumption
      <4>2. \A s \in SourceId : sourceOf'[s] = p <=> s = fresh
        <5>1. \A s \in SourceId : sourceOf[s] # p
          BY <3>2, <4>1, NotionAssumption DEF SourceId
        <5> QED
          BY <1>13, <3>3, <5>1
      <4>3. \A x \in snapshots' : x.source = fresh => x.content = content
        BY <1>15, <2>1
      <4> QED
        BY <1>6, <1>15, <2>3, <3>1, <3>3, <4>1, <4>2, <4>3
    <3>4. CASE new.source # fresh
      <4>1. sourceOf' = sourceOf /\ snapshots' = snapshots
        BY <1>9, <1>10, <1>13, <3>4
      <4> QED
        BY <1>9, <2>3, <3>1, <3>2, <3>4, <4>1
    <3> QED
      BY <3>3, <3>4
  <2> QED
    BY <2>2, <2>3
<1> QED
  BY <1>12, <1>14, <1>16, <1>17, <1>18 DEF End

LEMMA NotionInvNext ==
    ASSUME NotionInv, part = "notion", [Next]_vars
    PROVE  NotionInv'
<1>1. ASSUME NEW h \in Handlers, NEW q \in NotionRequest, Receive(h, q), UNCHANGED notionVars
      PROVE  NotionInv'
  <2>1. NoRow \in SeenNotion /\ NoRow \in KnownNothing /\ NotionTxs
    BY DEF SeenNotion, KnownNothing, NotionInv
  <2>2. /\ NotionTxs' /\ tx'[h].at = "read" /\ \A g \in Handlers \ {h} : tx'[g] = tx[g]
    BY <1>1, <2>1, ReceiveTx DEF NotionTxs, NotionTx
  <2>3. served' \in 0 .. MaxRequests[part]
    BY <1>1, RequestsAssumption DEF Receive, NotionInv
  <2> QED
    BY <1>1, <2>2, <2>3, NotionTxStep DEF Receive, Past
<1>2. ASSUME NEW h \in Handlers, Undo(h), UNCHANGED notionVars
      PROVE  NotionInv'
  BY <1>2, NotionEnd DEF Undo
<1>3. CASE UNCHANGED vars
  <2>1. UNCHANGED <<part, deployment, tx, served, connection, binding, sourceOf, snapshots,
                    decided, overlapped>>
    BY <1>3 DEF vars, requestVars, notionVars
  <2>2. NotionTxs' /\ WritersOK'
    BY <2>1 DEF NotionInv, NotionTxs, WritersOK, WriterOK, Past, Busy
  <2>3. NotionRows' /\ SourcesOK' /\ BoundOK'
    BY <2>1 DEF NotionInv, NotionRows, SourcesOK, BoundOK
  <2> QED
    BY <2>1, <2>2, <2>3 DEF NotionInv
<1> QED
  BY <1>1, <1>2, <1>3, ListInv, ReadNotionInv, FindBindingInv, SelectPagesInv, SyncInv,
     ResolveConflictInv
  DEF Next, NotionNext, OnBinding

-----------------------------------------------------------------------------
(* Uploads.                                                                *)

SeenIntent == {NoRow} \cup Intent
Status == {"absent", "draft", "upload_pending", "queued"}
WithStatus == [status : Status]
WithRevision == [status : Status, existed : BOOLEAN]
WithJob == [status : Status, existed : BOOLEAN, queued : BOOLEAN]
KnownUpload == {NoRow} \cup WithStatus \cup WithRevision \cup WithJob
UploadTx == Tx(UploadRequest, SeenIntent, KnownUpload)
UploadTxs == tx \in [Handlers -> {Idle} \cup UploadTx]

\* complete_upload from its second step on, and while it holds the source.
Completes(h) == Past(h) /\ tx[h].q.op = "complete_upload"
Holds(h) == Completes(h) /\ tx[h].at \in {"locked", "commit"}

CompleterOK(h) ==
    LET u == tx[h].q.upload
        d == tx[h].seen.digest
    IN /\ tx[h].at \in {"next", "then", "flush", "locked", "commit"}
       /\ tx[h].seen \in Intent /\ intent[u].made /\ intent[u].digest = d
       /\ quarantine[u] # "absent"
       /\ tx[h].at # "next" => original[u] # "absent"
       /\ u \notin repeated => ~intent[u].done
       /\ tx[h].at \in {"next", "then"} => tx[h].known \in WithStatus
       /\ tx[h].at \in {"flush", "locked"} => tx[h].known \in WithRevision
       /\ tx[h].at = "commit" => tx[h].known \in WithJob /\ (tx[h].known.queued <=> jobs[u] > 0)
       /\ tx[h].at \in {"flush", "locked", "commit"} /\ tx[h].known.existed => revision[d].made
       /\ Holds(h) => (revision[d].made => tx[h].known.existed)

CompletersOK ==
    /\ \A h \in Handlers : Completes(h) => CompleterOK(h)
    /\ \A g, h \in Handlers : Holds(g) /\ Holds(h) => g = h

\* A signed upload that is not committed: nobody else can begin it.
Begins(h) == Past(h) /\ tx[h].q.op = "begin_upload"
BeginnersOK ==
    /\ \A h \in Handlers : Begins(h) =>
          /\ tx[h].at = "commit" /\ tx[h].known \in WithStatus
          /\ tx[h].q.upload \in address /\ ~intent[tx[h].q.upload].made
    /\ \A g, h \in Handlers : Begins(g) /\ Begins(h) /\ tx[g].q.upload = tx[h].q.upload => g = h

UploadRows ==
    /\ status \in Status
    /\ intent \in [UploadIds -> {NoRow} \cup Intent]
    /\ address \subseteq UploadIds
    /\ quarantine \in [UploadIds -> Object] /\ original \in [UploadIds -> Object]
    /\ revision \in [Digests -> {NoRow} \cup Revision]
    /\ blobs \in [Digests -> Nat] /\ jobs \in [UploadIds -> Nat]
    /\ repeated \subseteq UploadIds

\* What a revision was made from is a completed upload.
MadeByUpload ==
    \A d \in Digests : revision[d].made =>
        intent[revision[d].object].made /\ intent[revision[d].object].done

UploadsInv ==
    /\ UploadTxs
    /\ part \in Parts /\ deployment \in Deployments[part] /\ served \in 0 .. MaxRequests[part]
    /\ UploadRows /\ CompletersOK /\ BeginnersOK /\ MadeByUpload /\ CompletedTogether


LEMMA UploadsInvInit == Init /\ part = "uploads" => UploadsInv
<1> SUFFICES ASSUME Init, part = "uploads" PROVE UploadsInv
  OBVIOUS
<1> USE DEF Init, RequestsInit, UploadsInit
<1>1. UploadTxs /\ CompletersOK /\ BeginnersOK
  BY DEF UploadTxs, CompletersOK, BeginnersOK, Completes, Begins, Holds, Past, Busy
<1>2. served \in 0 .. MaxRequests[part] /\ part \in Parts /\ deployment \in Deployments[part]
  BY RequestsAssumption
<1>3. UploadRows /\ MadeByUpload /\ CompletedTogether
  BY DEF UploadRows, Status, Object, MadeByUpload, CompletedTogether, NoRow
<1> QED
  BY <1>1, <1>2, <1>3 DEF UploadsInv

\* The database stays but for the client's own steps, and one handler is
\* somewhere else.
LEMMA UploadsTxStep ==
    ASSUME UploadsInv, NEW h \in Handlers,
           UploadTxs', \A g \in Handlers \ {h} : tx'[g] = tx[g],
           UNCHANGED <<part, deployment, uploadVars>>,
           served' \in 0 .. MaxRequests[part],
           Completes(h)' => CompleterOK(h)',
           Holds(h)' => \A g \in Handlers \ {h} : ~Holds(g),
           ~Begins(h)'
    PROVE  UploadsInv'
<1> USE DEF UploadsInv, uploadVars, storage
<1>1. UploadRows' /\ MadeByUpload' /\ CompletedTogether'
  BY DEF UploadRows, MadeByUpload, CompletedTogether
<1>2. ASSUME NEW g \in Handlers \ {h}
      PROVE  /\ tx'[g] = tx[g]
             /\ Completes(g)' <=> Completes(g)
             /\ Holds(g)' <=> Holds(g)
             /\ Begins(g)' <=> Begins(g)
  BY DEF Completes, Holds, Begins, Past, Busy
<1>3. CompletersOK'
  <2>1. ASSUME NEW g \in Handlers, Completes(g)' PROVE CompleterOK(g)'
    <3>1. CASE g = h
      BY <2>1, <3>1
    <3>2. CASE g # h
      <4>1. CompleterOK(g)
        BY <1>2, <2>1, <3>2 DEF CompletersOK
      <4> QED
        BY <1>2, <3>2, <4>1 DEF CompleterOK
    <3> QED
      BY <3>1, <3>2
  <2>2. \A f, g \in Handlers : Holds(f)' /\ Holds(g)' => f = g
    BY <1>2 DEF CompletersOK
  <2> QED
    BY <2>1, <2>2 DEF CompletersOK
<1>4. BeginnersOK'
  BY <1>2 DEF BeginnersOK
<1> QED
  BY <1>1, <1>3, <1>4

\* The handler is done and has written nothing.
LEMMA UploadsEnd ==
    ASSUME UploadsInv, NEW h \in Handlers, End(h), UNCHANGED uploadVars
    PROVE  UploadsInv'
  BY EndTx, UploadsTxStep
  DEF End, UploadsInv, UploadTxs, UploadTx, Completes, Holds, Begins, Past, Busy

\* A completion goes on.
LEMMA UploadsGoto ==
    ASSUME UploadsInv, NEW h \in Handlers, Busy(h), tx[h].q.op = "complete_upload",
           NEW phase \in Phase, NEW seen \in SeenIntent, NEW known \in KnownUpload,
           Goto(h, phase, seen, known), UNCHANGED uploadVars,
           CompleterOK(h)',
           phase \in {"locked", "commit"} => \A g \in Handlers \ {h} : ~Holds(g)
    PROVE  UploadsInv'
<1>1. /\ UploadTxs' /\ \A g \in Handlers \ {h} : tx'[g] = tx[g]
      /\ tx'[h] = [at |-> phase, q |-> tx[h].q, seen |-> seen, known |-> known]
  BY GotoTx DEF UploadsInv, UploadTxs, UploadTx
<1>2. served' \in 0 .. MaxRequests[part] /\ UNCHANGED <<part, deployment, uploadVars>>
  BY DEF Goto, UploadsInv
<1>3. ~Begins(h)'
  BY <1>1 DEF Begins
<1>4. Holds(h)' => phase \in {"locked", "commit"}
  BY <1>1 DEF Holds
<1> QED
  BY <1>1, <1>2, <1>3, <1>4, UploadsTxStep

LEMMA VerifyUploadInv ==
    ASSUME UploadsInv, NEW h \in Handlers, VerifyUpload(h)
    PROVE  UploadsInv'
<1> DEFINE u == tx[h].q.upload
           row == Seen(intent[u], NoRow)
           there == row.made /\ ~row.done /\ quarantine[u] # "absent"
<1>1. Busy(h) /\ tx[h].q.op = "complete_upload" /\ u \in UploadIds /\ UNCHANGED uploadVars
  BY DEF VerifyUpload, At, Busy, UploadsInv, UploadTxs, UploadTx, Tx, UploadRequest, CreateSource,
         BeginUpload, CompleteUpload
<1>2. CASE ~there
  BY <1>1, <1>2, UploadsEnd DEF VerifyUpload
<1>3. CASE there
  <2>1. row = intent[u] /\ row \in Intent
    BY <1>1, <1>3 DEF Seen, NoRow, UploadsInv, UploadRows
  <2>2. PICK seen \in SeenIntent : seen = row
    BY <2>1 DEF SeenIntent
  <2>3. PICK known \in KnownUpload : known = [status |-> status] /\ known \in WithStatus
    <3>1. [status |-> status] \in WithStatus
      BY DEF UploadsInv, UploadRows, WithStatus
    <3> QED
      BY <3>1 DEF KnownUpload
  <2>4. Goto(h, "next", seen, known) /\ "next" \in Phase
    BY <1>3, <2>2, <2>3 DEF VerifyUpload, Phase
  <2>5. tx'[h] = [at |-> "next", q |-> tx[h].q, seen |-> seen, known |-> known]
    BY <1>1, <2>4, GotoTx DEF UploadsInv, UploadTxs, UploadTx
  <2>6. CompleterOK(h)'
    BY <1>1, <1>3, <2>1, <2>2, <2>3, <2>5 DEF CompleterOK, uploadVars, storage, Holds
  <2> QED
    BY <1>1, <2>4, <2>6, UploadsGoto
<1> QED
  BY <1>2, <1>3

LEMMA LookForRevisionInv ==
    ASSUME UploadsInv, NEW h \in Handlers, LookForRevision(h)
    PROVE  UploadsInv'
<1>1. Busy(h) /\ tx[h].q.op = "complete_upload" /\ tx[h].at = "then" /\ UNCHANGED uploadVars
  BY DEF LookForRevision, At
<1>2. CompleterOK(h)
  BY <1>1 DEF UploadsInv, CompletersOK, Completes, Past
<1>3. PICK seen \in SeenIntent : seen = tx[h].seen
  BY <1>2 DEF CompleterOK, SeenIntent
<1>4. revision[seen.digest].made \in BOOLEAN
  <2>1. revision[seen.digest] \in {NoRow} \cup Revision
    BY <1>2, <1>3 DEF CompleterOK, Intent, UploadsInv, UploadRows
  <2>2. CASE revision[seen.digest] = NoRow
    <3>1. revision[seen.digest].made = FALSE
      BY <2>2 DEF NoRow
    <3> QED
      BY <3>1
  <2>3. CASE revision[seen.digest] \in Revision
    <3>1. revision[seen.digest].made = TRUE
      BY <2>3 DEF Revision
    <3> QED
      BY <3>1
  <2> QED
    BY <2>1, <2>2, <2>3
<1>5. PICK known \in KnownUpload :
         /\ known = [status |-> tx[h].known.status, existed |-> revision[seen.digest].made]
         /\ known \in WithRevision
  <2>1. tx[h].known \in WithStatus
    BY <1>1, <1>2 DEF CompleterOK
  <2>2. tx[h].known.status \in Status
    BY <2>1 DEF WithStatus
  <2>3. [status |-> tx[h].known.status, existed |-> revision[seen.digest].made] \in WithRevision
    BY <1>4, <2>2 DEF WithRevision
  <2> QED
    BY <2>3 DEF KnownUpload
<1>6. Goto(h, "flush", seen, known) /\ "flush" \in Phase
  BY <1>3, <1>5 DEF LookForRevision, Phase
<1>7. tx'[h] = [at |-> "flush", q |-> tx[h].q, seen |-> seen, known |-> known]
  BY <1>1, <1>6, GotoTx DEF UploadsInv, UploadTxs, UploadTx
<1>8. CompleterOK(h)'
  BY <1>1, <1>2, <1>3, <1>5, <1>7 DEF CompleterOK, uploadVars, storage, Holds
<1> QED
  BY <1>1, <1>6, <1>8, UploadsGoto

LEMMA FlushCompletionInv ==
    ASSUME UploadsInv, NEW h \in Handlers, FlushCompletion(h)
    PROVE  UploadsInv'
<1>1. /\ Busy(h) /\ tx[h].q.op = "complete_upload" /\ tx[h].at = "flush" /\ UNCHANGED uploadVars
      /\ ~SourceHeld(h) /\ (tx[h].known.existed \/ ~revision[tx[h].seen.digest].made)
  BY DEF FlushCompletion, At
<1>2. CompleterOK(h)
  BY <1>1 DEF UploadsInv, CompletersOK, Completes, Past
<1>3. PICK seen \in SeenIntent : seen = tx[h].seen
  BY <1>2 DEF CompleterOK, SeenIntent
<1>4. PICK known \in KnownUpload : known = tx[h].known /\ known \in WithRevision
  BY <1>1, <1>2 DEF CompleterOK, KnownUpload
<1>5. Goto(h, "locked", seen, known) /\ "locked" \in Phase
  BY <1>3, <1>4 DEF FlushCompletion, Phase
<1>6. tx'[h] = [at |-> "locked", q |-> tx[h].q, seen |-> seen, known |-> known]
  BY <1>1, <1>5, GotoTx DEF UploadsInv, UploadTxs, UploadTx
<1>7. CompleterOK(h)'
  BY <1>1, <1>2, <1>3, <1>4, <1>6 DEF CompleterOK, uploadVars, storage, Holds
<1>8. \A g \in Handlers \ {h} : ~Holds(g)
  BY <1>1 DEF SourceHeld, Rivals, Holds, Completes, Past
<1> QED
  BY <1>1, <1>5, <1>7, <1>8, UploadsGoto

LEMMA LookForJobInv ==
    ASSUME UploadsInv, NEW h \in Handlers, LookForJob(h)
    PROVE  UploadsInv'
<1>1. Busy(h) /\ tx[h].q.op = "complete_upload" /\ tx[h].at = "locked" /\ UNCHANGED uploadVars
  BY DEF LookForJob, At
<1>2. CompleterOK(h) /\ Holds(h)
  BY <1>1 DEF UploadsInv, CompletersOK, Completes, Holds, Past
<1>3. PICK seen \in SeenIntent : seen = tx[h].seen
  BY <1>2 DEF CompleterOK, SeenIntent
<1>4. tx[h].known \in WithRevision
  BY <1>1, <1>2 DEF CompleterOK
<1>5. PICK known \in KnownUpload :
         /\ known = [status |-> tx[h].known.status, existed |-> tx[h].known.existed,
                     queued |-> jobs[tx[h].q.upload] > 0]
         /\ known \in WithJob
  <2>1. tx[h].known.status \in Status /\ tx[h].known.existed \in BOOLEAN
    BY <1>4 DEF WithRevision
  <2>2. (jobs[tx[h].q.upload] > 0) \in BOOLEAN
    OBVIOUS
  <2>3. [status |-> tx[h].known.status, existed |-> tx[h].known.existed,
         queued |-> jobs[tx[h].q.upload] > 0] \in WithJob
    BY <2>1, <2>2 DEF WithJob
  <2> QED
    BY <2>3 DEF KnownUpload
<1>6. Goto(h, "commit", seen, known) /\ "commit" \in Phase
  BY <1>3, <1>5 DEF LookForJob, Phase
<1>7. tx'[h] = [at |-> "commit", q |-> tx[h].q, seen |-> seen, known |-> known]
  BY <1>1, <1>6, GotoTx DEF UploadsInv, UploadTxs, UploadTx
<1>8. known.existed = tx[h].known.existed /\ (known.queued <=> jobs[tx[h].q.upload] > 0)
  BY <1>5
<1>9. CompleterOK(h)'
  BY <1>1, <1>2, <1>3, <1>5, <1>7, <1>8 DEF CompleterOK, uploadVars, storage, Holds
<1>10. \A g \in Handlers \ {h} : ~Holds(g)
  BY <1>2 DEF UploadsInv, CompletersOK
<1> QED
  BY <1>1, <1>6, <1>9, <1>10, UploadsGoto


\* A handler that is done holds and begins nothing.
LEMMA UploadsOthers ==
    ASSUME UploadsInv, NEW h \in Handlers, End(h)
    PROVE  /\ UploadTxs' /\ UNCHANGED <<part, deployment, served>>
           /\ \A g \in Handlers :
                 /\ Completes(g)' => g # h /\ Completes(g) /\ tx'[g] = tx[g]
                 /\ Holds(g)' => g # h /\ Holds(g) /\ tx'[g] = tx[g]
                 /\ Begins(g)' => g # h /\ Begins(g) /\ tx'[g] = tx[g]
<1>1. UploadTxs' /\ tx'[h] = Idle /\ \A g \in Handlers \ {h} : tx'[g] = tx[g]
  BY EndTx DEF UploadsInv, UploadTxs, UploadTx
<1> QED
  BY <1>1 DEF End, Completes, Holds, Begins, Past, Busy

LEMMA CreateSourceInv ==
    ASSUME UploadsInv, NEW h \in Handlers, create_source(h)
    PROVE  UploadsInv'
<1> USE DEF UploadsInv
<1>1. /\ End(h) /\ status' = "draft"
      /\ UNCHANGED <<intent, address, quarantine, original, revision, blobs, jobs, repeated>>
  BY DEF create_source, storage
<1>2. /\ UploadTxs' /\ UNCHANGED <<part, deployment, served>>
      /\ \A g \in Handlers :
            /\ Completes(g)' => g # h /\ Completes(g) /\ tx'[g] = tx[g]
            /\ Holds(g)' => g # h /\ Holds(g) /\ tx'[g] = tx[g]
            /\ Begins(g)' => g # h /\ Begins(g) /\ tx'[g] = tx[g]
  BY <1>1, UploadsOthers
<1>3. UploadRows' /\ MadeByUpload' /\ CompletedTogether'
  BY <1>1 DEF UploadRows, Status, MadeByUpload, CompletedTogether
<1>4. CompletersOK'
  <2>1. ASSUME NEW g \in Handlers, Completes(g)' PROVE CompleterOK(g)'
    <3>1. CompleterOK(g)
      BY <1>2, <2>1 DEF CompletersOK
    <3> QED
      BY <1>1, <1>2, <2>1, <3>1 DEF CompleterOK
  <2> QED
    BY <1>2, <2>1 DEF CompletersOK
<1>5. BeginnersOK'
  BY <1>1, <1>2 DEF BeginnersOK
<1> QED
  BY <1>2, <1>3, <1>4, <1>5

LEMMA SignUploadInv ==
    ASSUME UploadsInv, NEW h \in Handlers, SignUpload(h)
    PROVE  UploadsInv'
<1> DEFINE u == tx[h].q.upload
<1>1. /\ Busy(h) /\ tx[h].q.op = "begin_upload" /\ tx[h].at = "read" /\ u \in UploadIds
      /\ ~intent[u].made /\ u \notin address
  BY DEF SignUpload, At, Busy, UploadsInv, UploadTxs, UploadTx, Tx, UploadRequest, CreateSource,
         BeginUpload, CompleteUpload
<1>2. UNCHANGED <<status, intent, quarantine, original, revision, blobs, jobs, repeated>>
  BY DEF SignUpload, storage
<1>3. CASE ~Seen(status # "absent", FALSE)
  BY <1>2, <1>3, UploadsEnd DEF SignUpload, uploadVars, storage
<1>4. CASE Seen(status # "absent", FALSE)
  <2>1. PICK known \in KnownUpload : known = [status |-> status] /\ known \in WithStatus
    <3>1. [status |-> status] \in WithStatus
      BY DEF UploadsInv, UploadRows, WithStatus
    <3> QED
      BY <3>1 DEF KnownUpload
  <2>2. /\ Goto(h, "commit", NoRow, known) /\ address' = address \cup {u}
        /\ "commit" \in Phase /\ NoRow \in SeenIntent
    BY <1>4, <2>1 DEF SignUpload, Phase, SeenIntent
  <2>3. /\ UploadTxs' /\ \A g \in Handlers \ {h} : tx'[g] = tx[g]
        /\ tx'[h] = [at |-> "commit", q |-> tx[h].q, seen |-> NoRow, known |-> known]
    BY <1>1, <2>2, GotoTx DEF UploadsInv, UploadTxs, UploadTx
  <2>4. UNCHANGED <<part, deployment, served>>
    BY <2>2 DEF Goto
  <2>5. ASSUME NEW g \in Handlers
        PROVE  /\ Completes(g)' => g # h /\ Completes(g) /\ tx'[g] = tx[g]
               /\ Holds(g)' => g # h /\ Holds(g) /\ tx'[g] = tx[g]
               /\ Begins(g)' => g = h \/ (Begins(g) /\ tx'[g] = tx[g])
    BY <1>1, <2>3 DEF Completes, Holds, Begins, Past, Busy
  <2> USE DEF UploadsInv
  <2>6. UploadRows' /\ MadeByUpload' /\ CompletedTogether'
    BY <1>1, <1>2, <2>2 DEF UploadRows, MadeByUpload, CompletedTogether
  <2>7. CompletersOK'
    <3>1. ASSUME NEW g \in Handlers, Completes(g)' PROVE CompleterOK(g)'
      <4>1. CompleterOK(g)
        BY <2>5, <3>1 DEF CompletersOK
      <4> QED
        BY <1>2, <2>5, <3>1, <4>1 DEF CompleterOK
    <3> QED
      BY <2>5, <3>1 DEF CompletersOK
  <2>8. BeginnersOK'
    <3>1. ASSUME NEW g \in Handlers, Begins(g)'
          PROVE  /\ tx'[g].at = "commit" /\ tx'[g].known \in WithStatus
                 /\ tx'[g].q.upload \in address' /\ ~intent'[tx'[g].q.upload].made
                 /\ g # h => tx'[g].q.upload # u
      <4>1. CASE g = h
        BY <1>1, <1>2, <2>1, <2>2, <2>3, <4>1
      <4>2. CASE g # h
        BY <1>1, <1>2, <2>2, <2>5, <3>1, <4>2 DEF BeginnersOK
      <4> QED
        BY <4>1, <4>2
    <3>2. tx'[h].q.upload = u
      BY <2>3
    <3>3. \A f, g \in Handlers :
             Begins(f)' /\ Begins(g)' /\ tx'[f].q.upload = tx'[g].q.upload => f = g
      BY <2>5, <3>1, <3>2 DEF BeginnersOK
    <3> QED
      BY <3>1, <3>3 DEF BeginnersOK
  <2> QED
    BY <2>3, <2>4, <2>6, <2>7, <2>8
<1> QED
  BY <1>3, <1>4

LEMMA BeginUploadInv ==
    ASSUME UploadsInv, NEW h \in Handlers, begin_upload(h)
    PROVE  UploadsInv'
<1> USE DEF UploadsInv
<1>1. Begins(h) /\ End(h) /\ tx[h].q \in UploadRequest /\ tx[h].q.op = "begin_upload"
  BY DEF begin_upload, At, Begins, Past, Busy, UploadTxs, UploadTx, Tx
<1>2. tx[h].q.upload \in UploadIds /\ tx[h].q.digest \in Digests /\ tx[h].known \in WithStatus
  BY <1>1 DEF UploadRequest, CreateSource, BeginUpload, CompleteUpload, BeginnersOK
<1>3. PICK u \in UploadIds : u = tx[h].q.upload
  BY <1>2
<1>4. ~intent[u].made
  BY <1>1, <1>3 DEF BeginnersOK
<1> DEFINE row == [made |-> TRUE, digest |-> tx[h].q.digest, done |-> FALSE]
<1>5. /\ intent' \in [UploadIds -> {NoRow} \cup Intent]
      /\ intent'[u] = row /\ \A v \in UploadIds \ {u} : intent'[v] = intent[v]
  <2>1. row \in Intent
    BY <1>2 DEF Intent
  <2>2. intent' = [intent EXCEPT ![u] = row]
    BY <1>3 DEF begin_upload
  <2> QED
    BY <2>1, <2>2 DEF UploadRows
<1>6. UNCHANGED <<address, quarantine, original, revision, blobs, jobs, repeated>>
  BY DEF begin_upload, storage
<1>7. /\ UploadTxs' /\ UNCHANGED <<part, deployment, served>>
      /\ \A g \in Handlers :
            /\ Completes(g)' => g # h /\ Completes(g) /\ tx'[g] = tx[g]
            /\ Holds(g)' => g # h /\ Holds(g) /\ tx'[g] = tx[g]
            /\ Begins(g)' => g # h /\ Begins(g) /\ tx'[g] = tx[g]
  BY <1>1, UploadsOthers
<1>8. UploadRows'
  <2>1. status' \in Status
    BY DEF begin_upload, SetStatus, UploadRows, Status
  <2> QED
    BY <1>5, <1>6, <2>1 DEF UploadRows
<1>9. MadeByUpload' /\ CompletedTogether'
  <2>1. \A d \in Digests : revision[d].made => revision[d].object \in UploadIds
    <3> SUFFICES ASSUME NEW d \in Digests, revision[d].made PROVE revision[d].object \in UploadIds
      OBVIOUS
    <3>1. revision[d] \in Revision
      BY DEF UploadRows, NoRow
    <3> QED
      BY <3>1 DEF Revision
  <2>2. \A d \in Digests : revision[d].made => revision[d].object # u
    BY <1>4 DEF MadeByUpload
  <2>3. MadeByUpload'
    BY <1>5, <1>6, <2>1, <2>2 DEF MadeByUpload
  <2>4. \A v \in UploadIds :
           IF intent'[v].made /\ intent'[v].done
           THEN jobs'[v] = 1 /\ revision'[intent'[v].digest].made ELSE jobs'[v] = 0
    BY <1>4, <1>5, <1>6 DEF CompletedTogether
  <2> QED
    BY <1>6, <2>3, <2>4 DEF CompletedTogether
<1>10. CompletersOK'
  <2>1. ASSUME NEW g \in Handlers, Completes(g)' PROVE CompleterOK(g)'
    <3>1. CompleterOK(g) /\ tx[g].q \in UploadRequest /\ tx[g].q.op = "complete_upload"
      BY <1>7, <2>1 DEF CompletersOK, Completes, Past, Busy, UploadTxs, UploadTx, Tx
    <3>2. tx[g].q.upload \in UploadIds \ {u}
      BY <1>4, <3>1 DEF UploadRequest, CreateSource, BeginUpload, CompleteUpload, CompleterOK
    <3> QED
      BY <1>5, <1>6, <1>7, <2>1, <3>1, <3>2 DEF CompleterOK
  <2> QED
    BY <1>7, <2>1 DEF CompletersOK
<1>11. BeginnersOK'
  <2>1. ASSUME NEW g \in Handlers, Begins(g)' PROVE tx[g].q.upload \in UploadIds \ {u}
    <3>1. g # h /\ Begins(g) /\ tx[g].q \in UploadRequest
      BY <1>7, <2>1 DEF Begins, Past, Busy, UploadTxs, UploadTx, Tx
    <3> QED
      BY <1>1, <1>3, <3>1 DEF BeginnersOK, Begins, UploadRequest, CreateSource, BeginUpload,
                              CompleteUpload
  <2> QED
    BY <1>5, <1>6, <1>7, <2>1 DEF BeginnersOK
<1> QED
  BY <1>7, <1>8, <1>9, <1>10, <1>11

\* The client's steps: an object in quarantine stays there, and an address
\* expires only once its intent is committed.
LEMMA ClientInv ==
    ASSUME UploadsInv, NEW u \in UploadIds,
           ExpireAddress(u) \/ \E bytes \in {"announced", "other"} : Put(u, bytes)
    PROVE  UploadsInv'
<1> USE DEF UploadsInv
<1>1. /\ UNCHANGED <<part, deployment, tx, served>>
      /\ UNCHANGED <<status, intent, original, revision, blobs, jobs, repeated>>
  BY DEF ExpireAddress, Put, storage, requestVars
<1>2. /\ address' \subseteq address
      /\ \A v \in address : intent[v].made \/ v \in address'
      /\ quarantine' \in [UploadIds -> Object]
      /\ \A v \in UploadIds : quarantine[v] # "absent" => quarantine'[v] # "absent"
  BY DEF ExpireAddress, Put, storage, UploadRows, Object
<1>3. UploadTxs' /\ UploadRows' /\ MadeByUpload' /\ CompletedTogether'
  BY <1>1, <1>2 DEF UploadTxs, UploadRows, MadeByUpload, CompletedTogether
<1>4. \A g \in Handlers :
         (Completes(g)' <=> Completes(g)) /\ (Holds(g)' <=> Holds(g)) /\ (Begins(g)' <=> Begins(g))
  BY <1>1 DEF Completes, Holds, Begins, Past, Busy
<1>5. CompletersOK'
  <2>1. ASSUME NEW g \in Handlers, Completes(g)' PROVE CompleterOK(g)'
    <3>1. CompleterOK(g) /\ tx[g].q \in UploadRequest /\ tx[g].q.op = "complete_upload"
      BY <1>4, <2>1 DEF CompletersOK, Completes, Past, Busy, UploadTxs, UploadTx, Tx
    <3>2. tx[g].q.upload \in UploadIds
      BY <3>1 DEF UploadRequest, CreateSource, BeginUpload, CompleteUpload
    <3> QED
      BY <1>1, <1>2, <1>4, <3>1, <3>2 DEF CompleterOK
  <2> QED
    BY <1>4, <2>1 DEF CompletersOK
<1>6. BeginnersOK'
  BY <1>1, <1>2, <1>4 DEF BeginnersOK
<1> QED
  BY <1>1, <1>3, <1>5, <1>6

LEMMA PromoteInv ==
    ASSUME UploadsInv, NEW h \in Handlers, Promote(h)
    PROVE  UploadsInv'
<1> USE DEF UploadsInv
<1>1. /\ Busy(h) /\ tx[h].q.op = "complete_upload" /\ tx[h].at = "next"
      /\ tx[h].q \in UploadRequest
  BY DEF Promote, At, Busy, UploadTxs, UploadTx, Tx
<1>2. CompleterOK(h)
  BY <1>1 DEF CompletersOK, Completes, Past
<1>3. PICK u \in UploadIds : u = tx[h].q.upload
  BY <1>1 DEF UploadRequest, CreateSource, BeginUpload, CompleteUpload
<1>4. PICK seen \in SeenIntent : seen = tx[h].seen
  BY <1>2 DEF CompleterOK, SeenIntent
<1>5. PICK known \in KnownUpload : known = tx[h].known /\ known \in WithStatus
  BY <1>1, <1>2 DEF CompleterOK, KnownUpload
<1>6. Goto(h, "then", seen, known) /\ "then" \in Phase
  BY <1>4, <1>5 DEF Promote, Phase
<1>7. /\ UploadTxs' /\ \A g \in Handlers \ {h} : tx'[g] = tx[g]
      /\ tx'[h] = [at |-> "then", q |-> tx[h].q, seen |-> seen, known |-> known]
  BY <1>1, <1>6, GotoTx DEF UploadTxs, UploadTx
<1>8. UNCHANGED <<part, deployment, served>>
  BY <1>6 DEF Goto
<1>9. UNCHANGED <<status, intent, address, quarantine, revision, blobs, jobs, repeated>>
  BY DEF Promote
<1>10. /\ original' \in [UploadIds -> Object] /\ original'[u] # "absent"
       /\ \A v \in UploadIds \ {u} : original'[v] = original[v]
  BY <1>2, <1>3 DEF Promote, UploadRows, CompleterOK
<1>11. ASSUME NEW g \in Handlers
       PROVE  /\ Completes(g)' => Completes(g)
              /\ Holds(g)' => g # h /\ Holds(g)
              /\ Begins(g)' => g # h /\ Begins(g)
  BY <1>1, <1>7 DEF Completes, Holds, Begins, Past, Busy
<1>12. UploadRows' /\ MadeByUpload'
  BY <1>9, <1>10 DEF UploadRows, MadeByUpload
<1>13. CompletedTogether'
  <2>1. \A d \in Digests : revision[d].made /\ revision[d].object = u => u \in repeated
    BY <1>2, <1>3 DEF CompleterOK, MadeByUpload
  <2>2. \A d \in Digests : revision[d].made => revision[d].object \in UploadIds
    <3> SUFFICES ASSUME NEW d \in Digests, revision[d].made PROVE revision[d].object \in UploadIds
      OBVIOUS
    <3>1. revision[d] \in Revision
      BY DEF UploadRows, NoRow
    <3> QED
      BY <3>1 DEF Revision
  <2> QED
    BY <1>9, <1>10, <2>1, <2>2 DEF CompletedTogether
<1>14. CompletersOK'
  <2>1. ASSUME NEW g \in Handlers, Completes(g)' PROVE CompleterOK(g)'
    <3>1. CompleterOK(g) /\ tx[g].q \in UploadRequest /\ tx[g].q.op = "complete_upload"
      BY <1>11, <2>1 DEF CompletersOK, Completes, Past, Busy, UploadTxs, UploadTx, Tx
    <3>2. tx[g].q.upload \in UploadIds
      BY <3>1 DEF UploadRequest, CreateSource, BeginUpload, CompleteUpload
    <3>3. \A v \in UploadIds : original[v] # "absent" => original'[v] # "absent"
      BY <1>10
    <3>4. CASE g = h
      BY <1>2, <1>3, <1>4, <1>5, <1>7, <1>9, <1>10, <1>11, <3>4 DEF CompleterOK
    <3>5. CASE g # h
      BY <1>7, <1>9, <1>11, <3>1, <3>2, <3>3, <3>5 DEF CompleterOK
    <3> QED
      BY <3>4, <3>5
  <2> QED
    BY <1>11, <2>1 DEF CompletersOK
<1>15. BeginnersOK'
  BY <1>7, <1>9, <1>11 DEF BeginnersOK
<1> QED
  BY <1>7, <1>8, <1>12, <1>13, <1>14, <1>15

LEMMA CompleteUploadInv ==
    ASSUME UploadsInv, NEW h \in Handlers, complete_upload(h)
    PROVE  UploadsInv'
<1> USE DEF UploadsInv
<1> DEFINE known == tx[h].known
<1>1. /\ Busy(h) /\ tx[h].q.op = "complete_upload" /\ tx[h].at = "commit" /\ End(h)
      /\ tx[h].q \in UploadRequest
  BY DEF complete_upload, At, Busy, UploadTxs, UploadTx, Tx
<1>2. CompleterOK(h) /\ Holds(h)
  BY <1>1 DEF CompletersOK, Completes, Holds, Past
<1>3. PICK u \in UploadIds : u = tx[h].q.upload
  BY <1>1 DEF UploadRequest, CreateSource, BeginUpload, CompleteUpload
<1>4. PICK d \in Digests : d = tx[h].seen.digest
  BY <1>2 DEF CompleterOK, Intent
<1>5. /\ known \in WithJob /\ (known.queued <=> jobs[u] > 0)
      /\ known.existed <=> revision[d].made
  BY <1>1, <1>2, <1>3, <1>4 DEF CompleterOK
<1>6. intent[u] \in Intent /\ intent[u].made /\ intent[u].digest = d /\ original[u] # "absent"
  BY <1>1, <1>2, <1>3, <1>4 DEF CompleterOK, UploadRows, NoRow
<1>7. /\ intent' \in [UploadIds -> {NoRow} \cup Intent]
      /\ intent'[u].made /\ intent'[u].done /\ intent'[u].digest = d
      /\ \A v \in UploadIds \ {u} : intent'[v] = intent[v]
  <2>1. intent' = [intent EXCEPT ![u] = [intent[u] EXCEPT !.done = TRUE]]
    BY <1>3 DEF complete_upload
  <2>2. /\ [intent[u] EXCEPT !.done = TRUE] \in Intent
        /\ [intent[u] EXCEPT !.done = TRUE].made /\ [intent[u] EXCEPT !.done = TRUE].done
        /\ [intent[u] EXCEPT !.done = TRUE].digest = d
    BY <1>6 DEF Intent
  <2> QED
    BY <2>1, <2>2 DEF UploadRows
<1>8. UNCHANGED <<address, quarantine, original>>
  BY DEF complete_upload, storage
<1>9. /\ repeated \subseteq repeated' /\ repeated' \subseteq UploadIds
      /\ \A g \in Handlers \ {h} : Completes(g) /\ tx[g].q.upload = u => u \in repeated'
  BY <1>3 DEF complete_upload, UploadRows, Rivals, Completes, Past
<1>10. /\ jobs' \in [UploadIds -> Nat] /\ jobs'[u] = 1
       /\ \A v \in UploadIds \ {u} : jobs'[v] = jobs[v]
  <2>1. jobs[u] \in {0, 1} /\ jobs \in [UploadIds -> Nat]
    BY DEF CompletedTogether, UploadRows
  <2>2. CASE known.queued
    BY <1>5, <2>1, <2>2 DEF complete_upload
  <2>3. CASE ~known.queued
    <3>1. jobs[u] = 0 /\ jobs' = [jobs EXCEPT ![u] = jobs[u] + 1]
      BY <1>3, <1>5, <2>1, <2>3 DEF complete_upload
    <3> QED
      BY <2>1, <3>1
  <2> QED
    BY <2>2, <2>3
<1>11. /\ revision' \in [Digests -> {NoRow} \cup Revision] /\ blobs' \in [Digests -> Nat]
       /\ \A e \in Digests \ {d} : revision'[e] = revision[e] /\ blobs'[e] = blobs[e]
       /\ IF revision[d].made THEN revision'[d] = revision[d] /\ blobs'[d] = blobs[d]
          ELSE /\ revision'[d] = [made |-> TRUE, object |-> u, bytes |-> original[u]]
               /\ blobs'[d] = blobs[d] + 1
  <2>1. revision \in [Digests -> {NoRow} \cup Revision] /\ blobs \in [Digests -> Nat]
    BY DEF UploadRows
  <2>2. CASE revision[d].made
    BY <1>5, <2>1, <2>2 DEF complete_upload
  <2>3. CASE ~revision[d].made
    <3>1. [made |-> TRUE, object |-> u, bytes |-> original[u]] \in Revision
      BY DEF Revision, UploadRows
    <3>2. /\ revision' = [revision EXCEPT ![d] = [made |-> TRUE, object |-> u,
                                                 bytes |-> original[u]]]
          /\ blobs' = [blobs EXCEPT ![d] = blobs[d] + 1]
      BY <1>3, <1>4, <1>5, <2>3 DEF complete_upload
    <3> QED
      BY <2>1, <2>3, <3>1, <3>2
  <2> QED
    BY <2>2, <2>3
<1>12. revision'[d].made /\ \A e \in Digests : revision[e].made => revision'[e] = revision[e]
  BY <1>11
<1>13. UploadRows'
  <2>1. status' \in Status
    BY DEF complete_upload, SetStatus, UploadRows, Status
  <2> QED
    BY <1>7, <1>8, <1>9, <1>10, <1>11, <2>1 DEF UploadRows
<1>14. \A e \in Digests : revision[e].made => revision[e].object \in UploadIds
  <2> SUFFICES ASSUME NEW e \in Digests, revision[e].made PROVE revision[e].object \in UploadIds
    OBVIOUS
  <2>1. revision[e] \in Revision
    BY DEF UploadRows, NoRow
  <2> QED
    BY <2>1 DEF Revision
<1>15. MadeByUpload'
  <2> SUFFICES ASSUME NEW e \in Digests, revision'[e].made
               PROVE  intent'[revision'[e].object].made /\ intent'[revision'[e].object].done
    BY DEF MadeByUpload
  <2>1. CASE revision[e].made
    BY <1>7, <1>12, <1>14, <2>1 DEF MadeByUpload
  <2>2. CASE ~revision[e].made
    BY <1>7, <1>11, <2>2
  <2> QED
    BY <2>1, <2>2
<1>16. CompletedTogether'
  <2>1. ASSUME NEW v \in UploadIds
        PROVE  IF intent'[v].made /\ intent'[v].done
               THEN jobs'[v] = 1 /\ revision'[intent'[v].digest].made ELSE jobs'[v] = 0
    <3>1. CASE v = u
      BY <1>7, <1>10, <1>12, <3>1
    <3>2. CASE v # u
      <4>1. intent'[v] = intent[v] /\ jobs'[v] = jobs[v]
        BY <1>7, <1>10, <3>2
      <4>2. intent[v].made => intent[v].digest \in Digests
        <5> SUFFICES ASSUME intent[v].made PROVE intent[v].digest \in Digests
          OBVIOUS
        <5>1. intent[v] \in Intent
          BY DEF UploadRows, NoRow
        <5> QED
          BY <5>1 DEF Intent
      <4> QED
        BY <1>12, <4>1, <4>2 DEF CompletedTogether
    <3> QED
      BY <3>1, <3>2
  <2>2. ASSUME NEW e \in Digests
        PROVE  IF revision'[e].made
               THEN /\ blobs'[e] = 1 /\ original'[revision'[e].object] # "absent"
                    /\ revision'[e].object \notin repeated' =>
                          original'[revision'[e].object] = revision'[e].bytes
               ELSE blobs'[e] = 0
    <3>1. CASE e # d \/ revision[e].made
      <4>1. revision'[e] = revision[e] /\ blobs'[e] = blobs[e]
        BY <1>11, <3>1
      <4> QED
        BY <1>8, <1>9, <4>1 DEF CompletedTogether
    <3>2. CASE e = d /\ ~revision[d].made
      <4>1. blobs[d] = 0
        BY <3>2 DEF CompletedTogether
      <4> QED
        BY <1>6, <1>8, <1>11, <3>2, <4>1
    <3> QED
      BY <3>1, <3>2
  <2> QED
    BY <2>1, <2>2 DEF CompletedTogether
<1>17. /\ UploadTxs' /\ UNCHANGED <<part, deployment, served>>
       /\ \A g \in Handlers :
             /\ Completes(g)' => g # h /\ Completes(g) /\ tx'[g] = tx[g]
             /\ Holds(g)' => g # h /\ Holds(g) /\ tx'[g] = tx[g]
             /\ Begins(g)' => g # h /\ Begins(g) /\ tx'[g] = tx[g]
  BY <1>1, UploadsOthers
<1>18. CompletersOK'
  <2>1. ASSUME NEW g \in Handlers, Completes(g)' PROVE CompleterOK(g)' /\ ~Holds(g)'
    <3>1. /\ CompleterOK(g) /\ tx[g].q \in UploadRequest /\ tx[g].q.op = "complete_upload"
          /\ tx'[g] = tx[g] /\ g # h /\ Completes(g)
      BY <1>17, <2>1 DEF CompletersOK, Completes, Past, Busy, UploadTxs, UploadTx, Tx
    <3>2. PICK v \in UploadIds : v = tx[g].q.upload
      BY <3>1 DEF UploadRequest, CreateSource, BeginUpload, CompleteUpload
    <3>3. PICK e \in Digests : e = tx[g].seen.digest
      BY <3>1 DEF CompleterOK, Intent
    <3>4. ~Holds(g) /\ ~Holds(g)'
      BY <1>2, <1>17, <3>1 DEF CompletersOK
    <3>5. tx[g].at # "commit" /\ tx[g].at # "locked"
      BY <3>1, <3>4 DEF Holds
    <3>6. intent'[v].made /\ intent'[v].digest = e /\ (v \notin repeated' => ~intent'[v].done)
      <4>1. CASE v = u
        BY <1>7, <1>9, <3>1, <3>2, <3>3, <4>1, <1>6 DEF CompleterOK
      <4>2. CASE v # u
        BY <1>7, <1>9, <3>1, <3>2, <3>3, <4>2 DEF CompleterOK
      <4> QED
        BY <4>1, <4>2
    <3>7. revision[e].made => revision'[e].made
      BY <1>12
    <3> QED
      BY <1>8, <3>1, <3>2, <3>3, <3>4, <3>5, <3>6, <3>7 DEF CompleterOK
  <2>2. \A g \in Handlers : ~Holds(g)'
    BY <2>1 DEF Holds
  <2> QED
    BY <2>1, <2>2 DEF CompletersOK
<1>19. BeginnersOK'
  <2>1. ASSUME NEW g \in Handlers, Begins(g)' PROVE ~intent'[tx[g].q.upload].made
    <3>1. /\ g # h /\ Begins(g) /\ tx[g].q \in UploadRequest /\ ~intent[tx[g].q.upload].made
      BY <1>17, <2>1 DEF Begins, BeginnersOK, Past, Busy, UploadTxs, UploadTx, Tx
    <3>2. tx[g].q.upload \in UploadIds /\ tx[g].q.upload # u
      BY <1>6, <3>1 DEF Begins, UploadRequest, CreateSource, BeginUpload, CompleteUpload
    <3> QED
      BY <1>7, <3>1, <3>2
  <2> QED
    BY <1>8, <1>17, <2>1 DEF BeginnersOK
<1> QED
  BY <1>13, <1>15, <1>16, <1>17, <1>18, <1>19

LEMMA UploadsInvNext ==
    ASSUME UploadsInv, part = "uploads", [Next]_vars
    PROVE  UploadsInv'
<1>1. ASSUME NEW h \in Handlers, NEW q \in UploadRequest, Receive(h, q), UNCHANGED uploadVars
      PROVE  UploadsInv'
  <2>1. NoRow \in SeenIntent /\ NoRow \in KnownUpload /\ UploadTxs
    BY DEF SeenIntent, KnownUpload, UploadsInv
  <2>2. /\ UploadTxs' /\ tx'[h].at = "read" /\ \A g \in Handlers \ {h} : tx'[g] = tx[g]
    BY <1>1, <2>1, ReceiveTx DEF UploadTxs, UploadTx
  <2>3. served' \in 0 .. MaxRequests[part]
    BY <1>1, RequestsAssumption DEF Receive, UploadsInv
  <2>4. ~Completes(h)' /\ ~Holds(h)' /\ ~Begins(h)'
    BY <2>2 DEF Completes, Holds, Begins, Past
  <2> QED
    BY <1>1, <2>2, <2>3, <2>4, UploadsTxStep DEF Receive
<1>2. ASSUME NEW h \in Handlers, Undo(h), UNCHANGED uploadVars
      PROVE  UploadsInv'
  BY <1>2, UploadsEnd DEF Undo
<1>3. CASE UNCHANGED vars
  <2>1. UNCHANGED <<part, deployment, tx, served, status, intent, address, quarantine, original,
                    revision, blobs, jobs, repeated>>
    BY <1>3 DEF vars, requestVars, uploadVars, storage
  <2>2. UploadTxs' /\ UploadRows' /\ MadeByUpload' /\ CompletedTogether'
    BY <2>1 DEF UploadsInv, UploadTxs, UploadRows, MadeByUpload, CompletedTogether
  <2>3. CompletersOK' /\ BeginnersOK'
    BY <2>1
    DEF UploadsInv, CompletersOK, CompleterOK, BeginnersOK, Completes, Holds, Begins, Past, Busy
  <2> QED
    BY <2>1, <2>2, <2>3 DEF UploadsInv
<1> QED
  BY <1>1, <1>2, <1>3, CreateSourceInv, SignUploadInv, BeginUploadInv, VerifyUploadInv, PromoteInv,
     LookForRevisionInv, FlushCompletionInv, LookForJobInv, CompleteUploadInv, ClientInv
  DEF Next, UploadsNext

-----------------------------------------------------------------------------
(* The four parts together.                                                *)

ConnectorInv ==
    /\ IF part = "notion" THEN NotionInv ELSE NotionInit
    /\ IF part = "uploads" THEN UploadsInv ELSE UploadsInit

LEMMA ConnectorInvNext == ASSUME ConnectorInv, [Next]_vars PROVE ConnectorInv'
<1>1. part' = part
  BY PartFixed
<1>2. part # "notion" => UNCHANGED notionVars
  BY DEF Next, vars
<1>3. part # "uploads" => UNCHANGED uploadVars
  BY DEF Next, vars
<1>4. IF part' = "notion" THEN NotionInv' ELSE NotionInit'
  BY <1>1, <1>2, NotionInvNext DEF ConnectorInv, NotionInit, notionVars
<1>5. IF part' = "uploads" THEN UploadsInv' ELSE UploadsInit'
  BY <1>1, <1>3, UploadsInvNext DEF ConnectorInv, UploadsInit, uploadVars, storage
<1> QED
  BY <1>4, <1>5 DEF ConnectorInv

LEMMA ConnectorInduction == Spec => []ConnectorInv
<1>1. Init => ConnectorInv
  BY NotionInvInit, UploadsInvInit DEF ConnectorInv, Init
<1>2. ConnectorInv /\ [Next]_vars => ConnectorInv'
  BY ConnectorInvNext
<1> QED
  BY <1>1, <1>2, PTL DEF Spec

LEMMA ConnectorPauses == ConnectorInv => SyncPauses
<1> SUFFICES ASSUME ConnectorInv, NEW p \in Pages \ overlapped, binding[p].made
             PROVE  /\ {s \in SourceId : sourceOf[s] = p} = {binding[p].source} \ {0}
                    /\ {binding[p].snapshot} \ {"none"} \subseteq Versions(p)
                    /\ p \notin decided => Versions(p) \subseteq {binding[p].snapshot}
                    /\ binding[p].sync = "paused" <=> binding[p].conflict = "unresolved"
  BY DEF SyncPauses
<1>1. NotionInv
  BY DEF ConnectorInv, NotionInit, NoRow
<1>2. binding[p] \in Binding
  BY <1>1 DEF NotionInv, NotionRows, NoRow
<1>3. binding[p].source \in 0 .. MaxSources
  BY <1>2 DEF Binding
<1>4. /\ binding[p].source = 0 <=> binding[p].snapshot = "none"
      /\ \A s \in SourceId : sourceOf[s] = p <=> s = binding[p].source
      /\ \A x \in snapshots : x.source = binding[p].source => x.content = binding[p].snapshot
      /\ binding[p].source # 0 =>
            [source |-> binding[p].source, content |-> binding[p].snapshot] \in snapshots
      /\ binding[p].sync = "paused" <=> binding[p].conflict = "unresolved"
  BY <1>1 DEF NotionInv, BoundOK
<1>5. \A x \in snapshots : x.source # 0
  <2>1. \A x \in snapshots : x.source \in SourceId
    BY <1>1 DEF NotionInv, NotionRows
  <2> QED
    BY <2>1, NotionAssumption DEF SourceId
<1>6. {s \in SourceId : sourceOf[s] = p} = {binding[p].source} \ {0}
  <2>1. binding[p].source # 0 => binding[p].source \in SourceId
    BY <1>3, NotionAssumption DEF SourceId
  <2>2. 0 \notin SourceId
    BY NotionAssumption DEF SourceId
  <2> QED
    BY <1>4, <2>1, <2>2
<1>7. Versions(p) = {binding[p].snapshot} \ {"none"}
  <2>1. CASE binding[p].source = 0
    BY <1>4, <1>5, <2>1 DEF Versions
  <2>2. CASE binding[p].source # 0
    <3>1. PICK y \in snapshots : y.source = binding[p].source /\ y.content = binding[p].snapshot
      BY <1>4, <2>2
    <3> QED
      BY <1>4, <2>2, <3>1 DEF Versions
  <2> QED
    BY <2>1, <2>2
<1> QED
  BY <1>4, <1>6, <1>7

\* The types of all four parts.
LEMMA ExchangeTypes == RowsInv /\ ConnectorInv => TypeOK
<1> SUFFICES ASSUME RowsInv, ConnectorInv PROVE TypeOK
  OBVIOUS
<1>1. part = "proposals" => ProposalsTypeOK
  BY DEF RowsInv, ProposalsInv
<1>2. ASSUME part = "conversations" PROVE ConversationsTypeOK
  <2>1. ConversationsInv
    BY <1>2 DEF RowsInv
  <2>2. RequestsTypeOK(ConversationRequest)
    BY <2>1 DEF ConversationsInv, ConversationTxs, ConversationTx, Tx, RequestsTypeOK, Busy
  <2>3. announced \in [ConvIds -> 0 .. 1]
    BY <2>1 DEF ConversationsInv, DatabaseOK
  <2> QED
    BY <2>1, <2>2, <2>3 DEF ConversationsInv, DatabaseOK, ConversationsTypeOK
<1>3. ASSUME part = "notion" PROVE NotionTypeOK
  <2>1. NotionInv
    BY <1>3 DEF ConnectorInv
  <2>2. RequestsTypeOK(NotionRequest)
    BY <2>1 DEF NotionInv, NotionTxs, NotionTx, Tx, RequestsTypeOK, Busy
  <2> QED
    BY <2>1, <2>2 DEF NotionInv, NotionRows, NotionTypeOK
<1>4. ASSUME part = "uploads" PROVE UploadsTypeOK
  <2>1. UploadsInv
    BY <1>4 DEF ConnectorInv
  <2>2. RequestsTypeOK(UploadRequest)
    BY <2>1 DEF UploadsInv, UploadTxs, UploadTx, Tx, RequestsTypeOK, Busy
  <2> QED
    BY <2>1, <2>2 DEF UploadsInv, UploadRows, Status, UploadsTypeOK
<1> QED
  BY <1>1, <1>2, <1>3, <1>4 DEF TypeOK

\* Every request, row and index of the four parts has its type; in particular
\* no turn is ever numbered past the bound (append_turn, the index computed
\* with "or").
THEOREM TypeCorrect == Spec => []TypeOK
  BY RowsInduction, ConnectorInduction, ExchangeTypes, PTL

\* A page's one source holds what its binding remembers, and no other content
\* until a conflict was resolved, and it is paused exactly while it has one to
\* resolve, unless two requests wrote the binding at a time
\* (sync_binding_snapshot, resolve_conflict).
THEOREM SyncsPause == Spec => []SyncPauses
  BY ConnectorInduction, ConnectorPauses, PTL

\* An upload is completed as a whole and once, and the object of a revision
\* stays what it was unless two requests completed the upload at a time
\* (complete_upload, promote_from_quarantine, enqueue_job_with_outbox).
THEOREM UploadsTogether == Spec => []CompletedTogether
<1>1. ConnectorInv => CompletedTogether
  <2> SUFFICES ASSUME ConnectorInv PROVE CompletedTogether
    OBVIOUS
  <2>1. CASE part = "uploads"
    BY <2>1 DEF ConnectorInv, UploadsInv
  <2>2. CASE part # "uploads"
    BY <2>2 DEF ConnectorInv, UploadsInit, CompletedTogether, NoRow
  <2> QED
    BY <2>1, <2>2
<1> QED
  BY <1>1, ConnectorInduction, PTL


-----------------------------------------------------------------------------
(* What has been made stays as it is.                                      *)

\* A decision changes a pending proposal, or one that two were resolving.
LEMMA DecisionsStay ==
    ASSUME ProposalsInv, NEW h \in Handlers, Past(h), Decide(h)
    PROVE  \A p \in Proposals \ contested' :
              proposal[p].made /\ proposal[p].status # "pending" => proposal'[p] = proposal[p]
<1>1. /\ contested \subseteq contested'
      /\ \A p \in Proposals \ {tx[h].q.proposal} : proposal'[p] = proposal[p]
  BY DecideStep
<1>2. tx[h].q.proposal \notin contested => proposal[tx[h].q.proposal].status = "pending"
  BY DEF ProposalsInv, ResolversOK, ResolverOK
<1> QED
  BY <1>1, <1>2

\* The revision that becomes current is a new row.
LEMMA MemoryOnlyGrows ==
    ASSUME ProposalsInv, NEW i, NEW base, NEW from, set_current_memory_revision(i, base, from)
    PROVE  \A r \in Revisions : memory'[r] = memory[r]
<1>1. PICK r, row : r \in MemoryId \ Revisions /\ memory' = [memory EXCEPT ![r] = row]
  BY DEF set_current_memory_revision
<1> QED
  BY <1>1 DEF Revisions, ProposalsInv, ProposalsTypeOK

LEMMA ProposalsStay ==
    ASSUME ProposalsInv, ProposalsNext
    PROVE  MemoryStays
<1>1. PICK h \in Handlers :
          \/ UNCHANGED proposalVars \/ create_memory_item(h) \/ create_proposal(h)
          \/ DecideOnly(h) \/ DecideAndRewrite(h)
  BY DEF ProposalsNext, ReadProposal, ReadCurrent
<1>2. CASE UNCHANGED proposalVars
  BY <1>2 DEF proposalVars, MemoryStays
<1>3. CASE create_memory_item(h)
  <2>1. \A r \in Revisions : memory'[r] = memory[r]
    BY <1>3, MemoryOnlyGrows DEF create_memory_item
  <2> QED
    BY <1>3, <2>1 DEF create_memory_item, MemoryStays
<1>4. CASE create_proposal(h)
  <2>1. PICK p, row : ~proposal[p].made /\ proposal' = [proposal EXCEPT ![p] = row]
    BY <1>4 DEF create_proposal
  <2>2. \A q \in Proposals : proposal[q].made => proposal'[q] = proposal[q]
    BY <2>1 DEF ProposalsInv, ProposalsTypeOK
  <2> QED
    BY <1>4, <2>2 DEF create_proposal, MemoryStays
<1>5. CASE DecideOnly(h)
  <2>1. Past(h) /\ Decide(h) /\ UNCHANGED memory
    BY <1>5 DEF DecideOnly, At, Past
  <2> QED
    BY <2>1, DecisionsStay DEF MemoryStays
<1>6. CASE DecideAndRewrite(h)
  <2>1. Past(h) /\ Decide(h)
    BY <1>6 DEF DecideAndRewrite, At, Past
  <2>2. \A r \in Revisions : memory'[r] = memory[r]
    BY <1>6, MemoryOnlyGrows DEF DecideAndRewrite
  <2> QED
    BY <2>1, <2>2, DecisionsStay DEF MemoryStays
<1> QED
  BY <1>1, <1>2, <1>3, <1>4, <1>5, <1>6

LEMMA SnapshotsStay ==
    ASSUME NotionNext
    PROVE  snapshots \subseteq snapshots'
  BY DEF NotionNext, notionVars, connect, ReadNotion, list_pages, FindBinding, select_pages,
         sync_binding_snapshot, resolve_conflict

\* Whoever holds the source knows whether the digest has a revision, and a
\* completion of what is completed changes nothing of the intent.
LEMMA CompletionStays ==
    ASSUME UploadsInv, NEW h \in Handlers, complete_upload(h)
    PROVE  /\ \A d \in Digests : revision[d].made => revision'[d] = revision[d]
           /\ \A u \in UploadIds : intent[u].made /\ intent[u].done => intent'[u] = intent[u]
<1> USE DEF UploadsInv
<1>1. /\ Busy(h) /\ tx[h].q.op = "complete_upload" /\ tx[h].at = "commit"
      /\ tx[h].q \in UploadRequest
  BY DEF complete_upload, At, Busy, UploadTxs, UploadTx, Tx
<1>2. CompleterOK(h) /\ Holds(h)
  BY <1>1 DEF CompletersOK, Completes, Holds, Past
<1>3. PICK u \in UploadIds : u = tx[h].q.upload
  BY <1>1 DEF UploadRequest, CreateSource, BeginUpload, CompleteUpload
<1>4. PICK d \in Digests : d = tx[h].seen.digest
  BY <1>2 DEF CompleterOK, Intent
<1>5. tx[h].known.existed <=> revision[d].made
  BY <1>1, <1>2, <1>4 DEF CompleterOK
<1>6. \A e \in Digests : revision[e].made => revision'[e] = revision[e]
  <2>1. CASE tx[h].known.existed
    BY <2>1 DEF complete_upload
  <2>2. CASE ~tx[h].known.existed
    <3>1. PICK row : revision' = [revision EXCEPT ![d] = row]
      BY <1>4, <2>2 DEF complete_upload
    <3> QED
      BY <1>5, <2>2, <3>1 DEF UploadRows
  <2> QED
    BY <2>1, <2>2
<1>7. intent[u] \in Intent
  BY <1>1, <1>2, <1>3 DEF CompleterOK, UploadRows, NoRow
<1>8. intent' = [intent EXCEPT ![u] = [intent[u] EXCEPT !.done = TRUE]]
  BY <1>3 DEF complete_upload
<1>9. intent[u].done => [intent[u] EXCEPT !.done = TRUE] = intent[u]
  BY <1>7 DEF Intent
<1> QED
  BY <1>6, <1>8, <1>9 DEF UploadRows

LEMMA UploadsStay ==
    ASSUME UploadsInv, UploadsNext
    PROVE  /\ \A d \in Digests : revision[d].made => revision'[d] = revision[d]
           /\ \A u \in UploadIds : intent[u].made /\ intent[u].done => intent'[u] = intent[u]
<1>1. CASE UNCHANGED <<intent, revision>>
  BY <1>1
<1>2. ASSUME NEW h \in Handlers, begin_upload(h)
      PROVE  /\ UNCHANGED revision
             /\ \A u \in UploadIds : intent[u].made => intent'[u] = intent[u]
  <2>1. PICK v, row : v = tx[h].q.upload /\ intent' = [intent EXCEPT ![v] = row]
    BY <1>2 DEF begin_upload
  <2>2. ~intent[v].made
    BY <1>2, <2>1 DEF begin_upload, At, Begins, Past, UploadsInv, BeginnersOK
  <2>3. \A u \in UploadIds : intent[u].made => intent'[u] = intent[u]
    BY <2>1, <2>2 DEF UploadsInv, UploadRows
  <2> QED
    BY <1>2, <2>3 DEF begin_upload
<1>3. \/ UNCHANGED <<intent, revision>>
      \/ \E h \in Handlers : begin_upload(h) \/ complete_upload(h)
  BY DEF UploadsNext, uploadVars, create_source, SignUpload, VerifyUpload, Promote,
         LookForRevision, FlushCompletion, LookForJob, Put, ExpireAddress
<1> QED
  BY <1>1, <1>2, <1>3, CompletionStays

\* "revision immutable" (SCHEMA_OWNERSHIP.md), for any requests in any order
\* (set_current_memory_revision, resolve_proposal, complete_upload,
\* sync_binding_snapshot).
THEOREM RevisionsStay == Spec => RevisionsImmutable
<1>1. RowsInv /\ ConnectorInv /\ [Next]_vars => [MemoryStays /\ SourcesStay]_vars
  <2> SUFFICES ASSUME RowsInv, ConnectorInv, Next PROVE MemoryStays /\ SourcesStay
    OBVIOUS
  <2>1. UNCHANGED proposalVars => MemoryStays
    BY DEF proposalVars, MemoryStays
  <2>2. MemoryStays
    BY <2>1, ProposalsStay DEF Next, RowsInv
  <2>3. snapshots \subseteq snapshots'
    BY SnapshotsStay DEF Next, notionVars
  <2>4. /\ \A d \in Digests : revision[d].made => revision'[d] = revision[d]
        /\ \A u \in UploadIds : intent[u].made /\ intent[u].done => intent'[u] = intent[u]
    <3>1. CASE UNCHANGED uploadVars
      BY <3>1 DEF uploadVars
    <3>2. CASE part = "uploads" /\ UploadsNext
      BY <3>2, UploadsStay DEF ConnectorInv
    <3> QED
      BY <3>1, <3>2 DEF Next
  <2> QED
    BY <2>2, <2>3, <2>4 DEF SourcesStay
<1> QED
  BY <1>1, RowsInduction, ConnectorInduction, PTL DEF Spec, RevisionsImmutable
=============================================================================
