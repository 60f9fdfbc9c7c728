--------------------------- MODULE Conversations ----------------------------
(***************************************************************************)
(* Conversations captured from the user (append_turn) and from external    *)
(* clients (record_interaction), and their deletion: tombstone, workflow   *)
(* and event, with the replay of tombstones after a restore.               *)
(***************************************************************************)
EXTENDS Requests

CONSTANTS
    ConvIds,        \* conversation ids
    Clients,        \* client_conversation_id of external clients
    TurnKeys,       \* client_turn_id and idempotency_key
    MaxTurns        \* bound: turns

ASSUME ConversationsAssumption == MaxTurns \in Nat /\ "native" \notin Clients

VARIABLES
    conversation,   \* the client it was captured from
    turn,           \* conversation_turn
    tombstone,      \* conversations with a deletion_tombstone
    workflow,       \* conversations with a deletion_workflow
    announced,      \* number of deletion.tombstoned events of each
    backup,         \* a copy of the database
    lost,           \* tombstones that a restore took away
    split,          \* clients whose first two interactions overlapped
    late,           \* conversations deleted while a turn was being added
    replayed        \* conversations whose tombstone was replayed

captured == <<conversation, turn>>
deletion == <<tombstone, workflow, announced, replayed>>
recovery == <<backup, lost>>
conversationVars == <<captured, deletion, recovery, split, late>>

TurnId == 1 .. MaxTurns
NoKey == [kind |-> "none"]
ClientKey(k) == [kind |-> "client", key |-> k]
AutoKey(i) == [kind |-> "auto", index |-> i]    \* f"{client_conversation_id}:{turn_index}"
Key == {NoKey} \cup {ClientKey(k) : k \in TurnKeys} \cup {AutoKey(i) : i \in 0 .. MaxTurns}
Conversation == [made : {TRUE}, client : Clients \cup {"native"}]
\* "after" is no column: what the conversation was when the turn was added.
Turn == [made : {TRUE}, conv : ConvIds, index : 0 .. MaxTurns, key : Key,
         after : {"live", "deleted", "restored"}]

OptionalKey == {NoKey} \cup {ClientKey(k) : k \in TurnKeys}
CreateConversation == [op : {"create_conversation"}, conv : ConvIds]
AppendTurn == [op : {"append_turn"}, conv : ConvIds, key : OptionalKey]
RecordInteraction == [op : {"record_interaction"}, client : Clients, conv : ConvIds,
                      key : OptionalKey]
\* By the conversation's own route, or the one for any entity's tombstone.
Deletions == {"delete_conversation", "create_tombstone"}
DeleteConversation == [op : Deletions, conv : ConvIds]
ConversationRequest == CreateConversation \cup AppendTurn \cup RecordInteraction
                       \cup DeleteConversation

ConversationsTypeOK ==
    /\ RequestsTypeOK(ConversationRequest)
    /\ conversation \in [ConvIds -> {NoRow} \cup Conversation]
    /\ turn \in [TurnId -> {NoRow} \cup Turn]
    /\ tombstone \subseteq ConvIds /\ workflow \subseteq ConvIds
    /\ announced \in [ConvIds -> 0 .. 1]
    /\ lost \subseteq ConvIds /\ replayed \subseteq ConvIds
    /\ split \subseteq Clients /\ late \subseteq ConvIds

ConversationsInit ==
    /\ conversation = [c \in ConvIds |-> NoRow]
    /\ turn = [t \in TurnId |-> NoRow]
    /\ tombstone = {} /\ workflow = {}
    /\ announced = [c \in ConvIds |-> 0]
    /\ backup = NoRow /\ lost = {} /\ replayed = {}
    /\ split = {} /\ late = {}

Turns == {t \in TurnId : turn[t].made}
TurnsOf(c) == {t \in Turns : turn[t].conv = c}
Keyed(c, k) == {t \in TurnsOf(c) : turn[t].key = k /\ k # NoKey}
From(cl) == {c \in ConvIds : conversation[c].made /\ conversation[c].client = cl}

\* Deleted, deleted and brought back by a restore, or neither.
Standing(c) == IF c \in tombstone THEN "deleted" ELSE IF c \in lost THEN "restored" ELSE "live"

\* An id nobody else uses.
FreshConv(h, c) ==
    /\ ~conversation[c].made /\ c \notin tombstone \cup lost
    /\ \A g \in Handlers \ {h} : Busy(g) =>
          ~(tx[g].q.op \in {"create_conversation", "record_interaction"} /\ tx[g].q.conv = c)

-----------------------------------------------------------------------------
(* Turns.                                                                  *)

create_conversation(h) ==
    /\ At(h, "create_conversation", "read")
    /\ conversation' = [conversation EXCEPT ![tx[h].q.conv] = [made |-> TRUE, client |-> "native"]]
    /\ End(h)
    /\ UNCHANGED <<turn, deletion, recovery, split, late>>

\* (last_turn or -1) + 1: the index 0 counts as none.
NextIndex(last) == IF last = 0 THEN 0 ELSE last + 1

\* The query for the last index raises if there is more than one turn.
Numberable(c) == Cardinality(TurnsOf(c)) <= 1
IndexIn(c) == IF TurnsOf(c) = {} THEN 0 ELSE NextIndex(turn[CHOOSE t \in TurnsOf(c) : TRUE].index)

\* append_turn: tombstone and conversation, both asked for before the scope.
FindConversation(h) ==
    LET c == tx[h].q.conv
        seen == Seen(conversation[c], NoRow)
    IN /\ At(h, "append_turn", "read")
       /\ IF seen.made /\ c \notin Seen(tombstone, {})
          THEN Goto(h, "next", [made |-> TRUE, conv |-> c, new |-> FALSE], NoRow) ELSE End(h)
       /\ UNCHANGED conversationVars

\* record_interaction, within its scope: more than one conversation of this
\* client, or a deleted one, raises; none makes one.
FindByClient(h) ==
    LET q == tx[h].q
        found == From(q.client)
    IN /\ At(h, "record_interaction", "read")
       /\ IF found = {} THEN Goto(h, "next", [made |-> TRUE, conv |-> q.conv, new |-> TRUE], NoRow)
          ELSE IF Cardinality(found) = 1 /\ found \cap tombstone = {}
          THEN Goto(h, "next", [made |-> TRUE, conv |-> CHOOSE c \in found : TRUE,
                                new |-> FALSE], NoRow)
          ELSE End(h)
       /\ UNCHANGED conversationVars

\* A turn with this key is answered again, or a conflict; otherwise the new
\* one gets its index.
LookForTurn(h) ==
    LET q == tx[h].q
        c == tx[h].seen.conv
    IN /\ Busy(h) /\ q.op \in {"append_turn", "record_interaction"} /\ tx[h].at = "next"
       /\ IF Keyed(c, q.key) = {} /\ Numberable(c)
          THEN Goto(h, "commit", tx[h].seen, [made |-> TRUE, index |-> IndexIn(c)])
          ELSE End(h)
       /\ UNCHANGED conversationVars

\* Mutant: the table has no unique client_turn_id.
InsertsTwice(c, k) == TRUE

\* uq_conversation_turn_client, which leaves rows without the id alone.
Insertable(c, k) == Keyed(c, k) = {}

\* The turn is inserted, with its conversation if that is new.
AddTurn(h) ==
    LET q == tx[h].q
        c == tx[h].seen.conv
        i == tx[h].known.index
        k == IF q.op = "record_interaction" /\ q.key = NoKey THEN AutoKey(i) ELSE q.key
    IN
    /\ Busy(h) /\ q.op \in {"append_turn", "record_interaction"} /\ tx[h].at = "commit"
    /\ Insertable(c, k)
    /\ \E t \in TurnId \ Turns :
          /\ \A u \in TurnId \ Turns : t <= u
          /\ turn' = [turn EXCEPT ![t] =
                         [made |-> TRUE, conv |-> c, index |-> i, key |-> k,
                          after |-> Standing(c)]]
    /\ IF tx[h].seen.new
       THEN /\ conversation' = [conversation EXCEPT ![c] = [made |-> TRUE, client |-> q.client]]
            /\ split' = IF \E g \in Rivals(h) : tx[g].q.op = "record_interaction" /\ tx[g].seen.new
                                                 /\ tx[g].q.client = q.client
                        THEN split \cup {q.client} ELSE split
       ELSE UNCHANGED <<conversation, split>>
    /\ End(h)
    /\ UNCHANGED <<deletion, recovery, late>>

-----------------------------------------------------------------------------
(* Deletion.                                                               *)

\* delete_conversation looks the conversation up before the scope, the route
\* for tombstones looks nothing up; then create_tombstone looks for one.
FindTombstone(h) ==
    LET q == tx[h].q IN
    /\ Busy(h) /\ q.op \in Deletions /\ tx[h].at = "read"
    /\ IF /\ q.op = "delete_conversation" => Seen(conversation[q.conv].made, FALSE)
          /\ q.conv \notin tombstone
       THEN Goto(h, "commit", [made |-> TRUE], NoRow) ELSE End(h)
    /\ UNCHANGED conversationVars

\* Mutant: without uq_deletion_tombstone_entity.
EntombableTwice(c) == TRUE

\* uq_deletion_tombstone_entity
Entombable(c) == c \notin tombstone

create_tombstone(h) ==
    LET c == tx[h].q.conv IN
    /\ Busy(h) /\ tx[h].q.op \in Deletions /\ tx[h].at = "commit"
    /\ Entombable(c)
    /\ tombstone' = tombstone \cup {c}
    /\ workflow' = workflow \cup {c}
    /\ announced' = [announced EXCEPT ![c] = @ + 1]
    /\ late' = IF \E g \in Rivals(h) : tx[g].q.op \in {"append_turn", "record_interaction"}
                                       /\ tx[g].seen.conv = c
               THEN late \cup {c} ELSE late
    /\ End(h)
    /\ UNCHANGED <<captured, replayed, recovery, split>>

-----------------------------------------------------------------------------
(* Backup and restore, by the operator and with no request in progress.    *)

Quiet == \A h \in Handlers : ~Busy(h)

Backup ==
    /\ Quiet /\ backup = NoRow
    /\ backup' = [made |-> TRUE, captured |-> captured, deletion |-> deletion]
    /\ UNCHANGED <<requestVars, captured, deletion, lost, split, late>>

Restore ==
    /\ Quiet /\ backup.made /\ lost = {}
    /\ conversation' = backup.captured[1] /\ turn' = backup.captured[2]
    /\ tombstone' = backup.deletion[1] /\ workflow' = backup.deletion[2]
    /\ announced' = backup.deletion[3] /\ replayed' = backup.deletion[4]
    /\ lost' = tombstone \ tombstone'
    /\ UNCHANGED <<requestVars, backup, split, late>>

\* Mutant: the replay brings back the tombstones only.
ReplayTombstones(missing) == tombstone' = tombstone \cup missing /\ UNCHANGED workflow

Replay(missing) == tombstone' = tombstone \cup missing /\ workflow' = workflow \cup missing

\* Tombstone and workflow for each row that is missing, and no event.  The
\* rows are those the operator has kept or, by default and for the route
\* restore-replay, those of the restored database, which misses none.  There
\* is no scope: in the service it lists none, and inserts none.
replay_tombstones_after_restore(rows) ==
    /\ Quiet /\ lost # {}
    /\ Replay(rows \ tombstone)
    /\ replayed' = replayed \cup (rows \ tombstone)
    /\ lost' = lost \ rows
    /\ UNCHANGED <<requestVars, captured, announced, backup, split, late>>

ConversationsNext ==
    \/ \E h \in Handlers :
          \/ \E q \in ConversationRequest :
                /\ q.op \in {"create_conversation", "record_interaction"} => FreshConv(h, q.conv)
                /\ q.op = "create_tombstone" => conversation[q.conv].made
                /\ Receive(h, q)
                /\ UNCHANGED conversationVars
          \/ create_conversation(h)
          \/ FindConversation(h)
          \/ FindByClient(h)
          \/ LookForTurn(h)
          \/ AddTurn(h)
          \/ FindTombstone(h)
          \/ create_tombstone(h)
    \/ Backup
    \/ Restore
    \/ \E rows \in {tombstone, lost} : replay_tombstones_after_restore(Seen(rows, {}))

-----------------------------------------------------------------------------
\* An interaction that is repeated with its key is captured once: a client
\* has one conversation, and a key one turn in it, unless the client's first
\* two interactions overlapped (neither finds the other's conversation).
CapturedOnce ==
    /\ \A cl \in Clients \ split : Cardinality(From(cl)) <= 1
    /\ \A t, u \in Turns :
          turn[t].key = turn[u].key /\ turn[t].key # NoKey /\ turn[t].conv = turn[u].conv => t = u

\* A deletion happens once, by whichever route, and holds while its tombstone
\* is there: a tombstone comes with its workflow and its one event (without
\* the event if it was replayed), and a conversation that has one gets no
\* further turn, except from a request that had looked for the tombstone
\* before it was there.  What a restore takes away is the subject of
\* DeletedNeverReappears.
DeletionHolds ==
    /\ workflow = tombstone
    /\ \A c \in ConvIds : announced[c] = IF c \in tombstone \ replayed THEN 1 ELSE 0
    /\ \A t \in Turns : turn[t].after = "deleted" => turn[t].conv \in late

\* "A restored backup MUST apply deletion history before serving content; a
\* deleted item must never reappear as current" (FSD-EXP-006): no turn is
\* added to a conversation whose tombstone a restore took away and nothing
\* has brought back.  Requests are served while it is away, and the route
\* restore-replay lists the tombstones of the restored database only.
DeletedNeverReappears == \A t \in Turns : turn[t].after # "restored"
=============================================================================
