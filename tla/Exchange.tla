------------------------------ MODULE Exchange ------------------------------
(***************************************************************************)
(* What goes in and out of an account: proposals, conversations, Notion    *)
(* pages and uploads, served by the same handlers.  The four write         *)
(* different tables, so a behaviour uses one of them.                      *)
(***************************************************************************)
EXTENDS Proposals, Conversations, NotionSync, Uploads

ASSUME ExchangeAssumption == Parts \subseteq {"proposals", "conversations", "notion", "uploads"}

vars == <<requestVars, proposalVars, conversationVars, notionVars, uploadVars>>

TypeOK ==
    /\ part = "proposals" => ProposalsTypeOK
    /\ part = "conversations" => ConversationsTypeOK
    /\ part = "notion" => NotionTypeOK
    /\ part = "uploads" => UploadsTypeOK

Init == RequestsInit /\ ProposalsInit /\ ConversationsInit /\ NotionInit /\ UploadsInit

Next ==
    \/ /\ part = "proposals" /\ ProposalsNext
       /\ UNCHANGED <<conversationVars, notionVars, uploadVars>>
    \/ /\ part = "conversations" /\ ConversationsNext
       /\ UNCHANGED <<proposalVars, notionVars, uploadVars>>
    \/ /\ part = "notion" /\ NotionNext
       /\ UNCHANGED <<proposalVars, conversationVars, uploadVars>>
    \/ /\ part = "uploads" /\ UploadsNext
       /\ UNCHANGED <<proposalVars, conversationVars, notionVars>>
    \/ /\ \E h \in Handlers : Undo(h)
       /\ UNCHANGED <<proposalVars, conversationVars, notionVars, uploadVars>>

Spec == Init /\ [][Next]_vars

-----------------------------------------------------------------------------
MemoryStays ==
    /\ \A r \in Revisions : memory'[r] = memory[r]
    /\ \A p \in Proposals \ contested' :
          proposal[p].made /\ proposal[p].status # "pending" => proposal'[p] = proposal[p]
SourcesStay ==
    /\ snapshots \subseteq snapshots'
    /\ \A d \in Digests : revision[d].made => revision'[d] = revision[d]
    /\ \A u \in UploadIds : intent[u].made /\ intent[u].done => intent'[u] = intent[u]

\* "revision immutable" (SCHEMA_OWNERSHIP.md): no request replaces a memory
\* revision, a source's revision or a synchronised snapshot that another has
\* made since it looked, a completed upload stays completed, and a proposal
\* is decided once unless two requests were resolving it at a time.
RevisionsImmutable == [][MemoryStays /\ SourcesStay]_vars
=============================================================================
