----------------------------- MODULE NotionSync -----------------------------
(***************************************************************************)
(* The Notion connector: a connection, the pages selected for it and the   *)
(* inbound synchronisation of a page into a source, with conflicts that    *)
(* wait for the user.  The session writes the columns whose value differs  *)
(* from the one it had read, and no others.                                *)
(***************************************************************************)
EXTENDS Requests

CONSTANTS
    Pages,          \* the pages of the provider
    Contents,       \* what a page holds when it is fetched
    MaxSources      \* bound: sources made

ASSUME NotionAssumption ==
    /\ MaxSources \in Nat
    /\ "none" \notin Contents \cup Pages
    /\ IsFiniteSet(Pages) /\ Pages # {}

VARIABLES
    connection,     \* notion_connection with its pagination cursor
    binding,        \* notion_page_binding
    sourceOf,       \* the page a source was made for
    snapshots,      \* source_revision: source and content
    decided,        \* pages with a conflict that the user has resolved
    overlapped      \* pages on which two requests were writing at a time

notionVars == <<connection, binding, sourceOf, snapshots, decided, overlapped>>

SourceId == 1 .. MaxSources
Connection == [made : {TRUE}, cursor : 0 .. Cardinality(Pages) - 1]
Binding == [made : {TRUE}, source : 0 .. MaxSources, snapshot : Contents \cup {"none"},
            conflict : {"none", "unresolved", "resolved"}, sync : {"idle", "paused"}]

Connect == [op : {"connect"}]
ListPages == [op : {"list_pages"}]
OnPage == [op : {"select_pages", "resolve_conflict"}, page : Pages]
Sync == [op : {"sync_binding_snapshot"}, page : Pages, content : Contents]
NotionRequest == Connect \cup ListPages \cup OnPage \cup Sync

NotionTypeOK ==
    /\ RequestsTypeOK(NotionRequest)
    /\ connection \in {NoRow} \cup Connection
    /\ binding \in [Pages -> {NoRow} \cup Binding]
    /\ sourceOf \in [SourceId -> Pages \cup {"none"}]
    /\ snapshots \subseteq [source : SourceId, content : Contents]
    /\ decided \subseteq Pages /\ overlapped \subseteq Pages

NotionInit ==
    /\ connection = NoRow
    /\ binding = [p \in Pages |-> NoRow]
    /\ sourceOf = [s \in SourceId |-> "none"]
    /\ snapshots = {}
    /\ decided = {} /\ overlapped = {}

connect(h) ==
    /\ At(h, "connect", "read")
    /\ ~connection.made
    /\ connection' = [made |-> TRUE, cursor |-> 0]
    /\ End(h)
    /\ UNCHANGED <<binding, sourceOf, snapshots, decided, overlapped>>

\* The connection with its cursor, or the binding: read within tenant_scope.
\* What is not there is answered with nothing or 404, and so is the list while
\* rate_limited_until has not passed: nothing changes then.
ReadNotion(h, op, row) ==
    /\ At(h, op, "read")
    /\ \/ row.made /\ Goto(h, "commit", row, NoRow)
       \/ (row.made => op = "list_pages") /\ End(h)
    /\ UNCHANGED notionVars

\* The adapter has returned a page of the list and where the next one starts.
list_pages(h) ==
    /\ At(h, "list_pages", "commit")
    /\ connection' = [connection EXCEPT !.cursor = (tx[h].seen.cursor + 1) % Cardinality(Pages)]
    /\ End(h)
    /\ UNCHANGED <<binding, sourceOf, snapshots, decided, overlapped>>

\* A page that has a binding keeps it.  uq_notion_page_binding_page makes the
\* second of two insertions fail.
FindBinding(h) ==
    /\ At(h, "select_pages", "read")
    /\ IF connection.made /\ ~binding[tx[h].q.page].made
       THEN Goto(h, "commit", NoRow, NoRow) ELSE End(h)
    /\ UNCHANGED notionVars

select_pages(h) ==
    LET p == tx[h].q.page IN
    /\ At(h, "select_pages", "commit")
    /\ ~binding[p].made
    /\ binding' = [binding EXCEPT ![p] = [made |-> TRUE, source |-> 0, snapshot |-> "none",
                                          conflict |-> "none", sync |-> "idle"]]
    /\ End(h)
    /\ UNCHANGED <<connection, sourceOf, snapshots, decided, overlapped>>

\* Mutant: the last writer wins.
SyncedLast(b, content, new) ==
    IF b.snapshot = content THEN b
    ELSE [b EXCEPT !.source = IF b.source = 0 THEN new ELSE b.source,
                   !.snapshot = content, !.sync = "idle"]

\* sync_binding_snapshot: what becomes of a binding when its page is fetched.
\* An unresolved conflict pauses, another content is a conflict, the same is
\* nothing to do, and a first one makes the source.
Synced(b, content, new) ==
    CASE b.conflict = "unresolved" -> [b EXCEPT !.sync = "paused"]
      [] b.conflict # "unresolved" /\ b.snapshot \notin {"none", content} ->
            [b EXCEPT !.conflict = "unresolved", !.sync = "paused"]
      [] b.conflict # "unresolved" /\ b.snapshot = content -> b
      [] OTHER -> [b EXCEPT !.source = new, !.snapshot = content, !.sync = "idle"]

\* The columns that differ from what was read are written.
Write(h, new) ==
    LET p == tx[h].q.page IN
    /\ binding' = [binding EXCEPT ![p] =
                      [c \in DOMAIN @ |-> IF new[c] # tx[h].seen[c] THEN new[c] ELSE @[c]]]
    /\ overlapped' = IF \E g \in Rivals(h) : /\ tx[g].q.op \in {"resolve_conflict",
                                                               "sync_binding_snapshot"}
                                             /\ tx[g].q.page = p
                     THEN overlapped \cup {p} ELSE overlapped
    /\ End(h)
    /\ UNCHANGED connection

Unused == {s \in SourceId : sourceOf[s] = "none"}

sync_binding_snapshot(h) ==
    LET q == tx[h].q
        seen == tx[h].seen
    IN
    /\ At(h, "sync_binding_snapshot", "commit")
    /\ \E fresh \in Unused :
          LET new == Synced(seen, q.content, fresh) IN
          /\ \A s \in Unused : fresh <= s
          /\ sourceOf' = IF new.source = fresh THEN [sourceOf EXCEPT ![fresh] = q.page]
                         ELSE sourceOf
          /\ snapshots' = IF new.snapshot # seen.snapshot
                          THEN snapshots \cup {[source |-> new.source, content |-> new.snapshot]}
                          ELSE snapshots
          /\ Write(h, new)
    /\ UNCHANGED decided

\* keep_notion, keep_memdot or reviewed_merge: each does the same, also where
\* there is no conflict.
resolve_conflict(h) ==
    /\ At(h, "resolve_conflict", "commit")
    /\ Write(h, [tx[h].seen EXCEPT !.conflict = "resolved", !.sync = "idle"])
    /\ decided' = IF tx[h].seen.conflict = "unresolved" THEN decided \cup {tx[h].q.page}
                  ELSE decided
    /\ UNCHANGED <<sourceOf, snapshots>>

NotionNext ==
    \E h \in Handlers :
        \/ \E q \in NotionRequest : Receive(h, q) /\ UNCHANGED notionVars
        \/ connect(h)
        \/ ReadNotion(h, "list_pages", connection)
        \/ list_pages(h)
        \/ FindBinding(h)
        \/ select_pages(h)
        \/ \E op \in {"sync_binding_snapshot", "resolve_conflict"} :
              ReadNotion(h, op, binding[tx[h].q.page])
        \/ sync_binding_snapshot(h)
        \/ resolve_conflict(h)

-----------------------------------------------------------------------------
Versions(p) == {r.content : r \in {x \in snapshots : x.source = binding[p].source}}

\* "Inbound sync ...; pauses on conflict instead of LWW" (the docstring of
\* sync_binding_snapshot): a page has one source, which holds the content the
\* binding remembers, and until the user has resolved a conflict holds no
\* other, however often the page is synchronised; and a page is paused exactly
\* while it has a conflict to resolve.  Where two requests write the binding
\* of a page at a time, a second source can be left behind, and a conflict
\* unpaused.  Of the page's versions after a resolution nothing is said:
\* FSD-NOT-006 wants a new one, and resolve_conflict, which writes the
\* binding's states only, makes none.
SyncPauses ==
    \A p \in Pages \ overlapped : binding[p].made =>
        /\ {s \in SourceId : sourceOf[s] = p} = {binding[p].source} \ {0}
        /\ {binding[p].snapshot} \ {"none"} \subseteq Versions(p)
        /\ p \notin decided => Versions(p) \subseteq {binding[p].snapshot}
        /\ binding[p].sync = "paused" <=> binding[p].conflict = "unresolved"
=============================================================================
