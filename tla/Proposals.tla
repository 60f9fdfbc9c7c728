------------------------------ MODULE Proposals -----------------------------
(***************************************************************************)
(* Memory items and the proposals to rewrite them, from the user and from  *)
(* external clients (propose_memory).  The pointer to the current revision *)
(* is set together with its outbox event, as in Documents.                 *)
(***************************************************************************)
EXTENDS Requests

CONSTANTS Items, Proposals, MaxMemory   \* MaxMemory bounds memory revisions

ASSUME ProposalsAssumption ==
    MaxMemory \in Nat /\ "user" \notin Proposals /\ "nothing" \notin Items

VARIABLES
    memory,     \* memory_revision
    pointer,    \* current_memory_revision of each item, 0 for none
    proposal,
    contested,  \* proposals that two requests were resolving at a time
    forked      \* items that two approvals were rewriting at a time

proposalVars == <<memory, pointer, proposal, contested, forked>>

MemoryId == 1 .. MaxMemory
MemoryRevision == [made : {TRUE}, item : Items, base : 0 .. MaxMemory,
                   from : Proposals \cup {"user"}]
\* The item it rewrites; "nothing" if target_type is another ("memory", the
\* default for external clients) or the patch has no assertion_text.
Target == Items \cup {"nothing"}
Proposal == [made : {TRUE}, target : Target, status : {"pending", "approved", "rejected"}]

CreateItem == [op : {"create_memory_item"}, item : Items]
Propose == [op : {"create_proposal"}, proposal : Proposals, target : Target,
            external : BOOLEAN]
Resolve == [op : {"resolve_proposal"}, proposal : Proposals, approve : BOOLEAN]
ProposalRequest == CreateItem \cup Propose \cup Resolve

ProposalsTypeOK ==
    /\ RequestsTypeOK(ProposalRequest)
    /\ memory \in [MemoryId -> {NoRow} \cup MemoryRevision]
    /\ pointer \in [Items -> 0 .. MaxMemory]
    /\ proposal \in [Proposals -> {NoRow} \cup Proposal]
    /\ contested \subseteq Proposals
    /\ forked \subseteq Items

ProposalsInit ==
    /\ memory = [i \in MemoryId |-> NoRow]
    /\ pointer = [i \in Items |-> 0]
    /\ proposal = [p \in Proposals |-> NoRow]
    /\ contested = {}
    /\ forked = {}

Revisions == {r \in MemoryId : memory[r].made}
RevisionsOf(i) == {r \in Revisions : memory[r].item = i}

\* A new revision becomes current, whatever is current by then, and is
\* announced.  The session has not flushed the revision when the function is
\* called, so today its foreign key fails, and the request with it.
set_current_memory_revision(i, base, from) ==
    /\ deployment = "repaired"
    /\ \E r \in MemoryId \ Revisions :
          /\ \A s \in MemoryId \ Revisions : r <= s
          /\ memory' = [memory EXCEPT ![r] = [made |-> TRUE, item |-> i, base |-> base,
                                              from |-> from]]
          /\ pointer' = [pointer EXCEPT ![i] = r]

\* The item is new: nothing can have referred to it.
create_memory_item(h) ==
    LET q == tx[h].q IN
    /\ At(h, "create_memory_item", "read")
    /\ pointer[q.item] = 0
    /\ set_current_memory_revision(q.item, 0, "user")
    /\ End(h)
    /\ UNCHANGED <<proposal, contested, forked>>

\* No policy admits an insert under external_propose.
create_proposal(h) ==
    LET q == tx[h].q IN
    /\ At(h, "create_proposal", "read")
    /\ ~proposal[q.proposal].made
    /\ q.external => deployment # "service"
    /\ proposal' = [proposal EXCEPT ![q.proposal] =
                       [made |-> TRUE, target |-> q.target, status |-> "pending"]]
    /\ End(h)
    /\ UNCHANGED <<memory, pointer, contested, forked>>

\* Mutant: a decided proposal may be decided again.
ReadAnyProposal(h) ==
    LET seen == Seen(proposal[tx[h].q.proposal], NoRow) IN
    /\ At(h, "resolve_proposal", "read")
    /\ IF seen.made THEN Goto(h, "next", seen, NoRow) ELSE End(h)
    /\ UNCHANGED proposalVars

\* resolve_proposal up to tenant_scope: no proposal is an exception, a
\* decided one is answered with its status.
ReadProposal(h) ==
    LET seen == Seen(proposal[tx[h].q.proposal], NoRow) IN
    /\ At(h, "resolve_proposal", "read")
    /\ IF seen.made /\ seen.status = "pending" THEN Goto(h, "next", seen, NoRow) ELSE End(h)
    /\ UNCHANGED proposalVars

Rewrites(h) == tx[h].q.approve /\ tx[h].seen.target # "nothing"

\* The item and its current revision; an item that does not exist raises.
ReadCurrent(h) ==
    LET i == tx[h].seen.target IN
    /\ At(h, "resolve_proposal", "next") /\ Rewrites(h)
    /\ IF pointer[i] = 0 THEN End(h)
       ELSE Goto(h, "commit", tx[h].seen, [made |-> TRUE, rev |-> pointer[i]])
    /\ UNCHANGED proposalVars

Resolvers(h) == {g \in Rivals(h) : tx[g].q.op = "resolve_proposal"}

\* The status is set, whatever it is by then.
Decide(h) ==
    LET q == tx[h].q IN
    /\ proposal' = [proposal EXCEPT ![q.proposal].status =
                       IF q.approve THEN "approved" ELSE "rejected"]
    /\ contested' = IF \E g \in Resolvers(h) : tx[g].q.proposal = q.proposal
                    THEN contested \cup {q.proposal} ELSE contested
    /\ End(h)

DecideOnly(h) ==
    /\ At(h, "resolve_proposal", "next") /\ ~Rewrites(h)
    /\ Decide(h)
    /\ UNCHANGED <<memory, pointer, forked>>

DecideAndRewrite(h) ==
    LET i == tx[h].seen.target IN
    /\ At(h, "resolve_proposal", "commit")
    /\ set_current_memory_revision(i, tx[h].known.rev, tx[h].q.proposal)
    /\ forked' = IF \E g \in Resolvers(h) : tx[g].at = "commit" /\ tx[g].seen.target = i
                 THEN forked \cup {i} ELSE forked
    /\ Decide(h)

ProposalsNext ==
    \E h \in Handlers :
        \/ \E q \in ProposalRequest : Receive(h, q) /\ UNCHANGED proposalVars
        \/ create_memory_item(h)
        \/ create_proposal(h)
        \/ ReadProposal(h)
        \/ ReadCurrent(h)
        \/ DecideOnly(h)
        \/ DecideAndRewrite(h)

-----------------------------------------------------------------------------
\* A proposal makes one revision at most, and none unless it stands approved;
\* one that names an item has rewritten it if it is approved, also when
\* decisions are repeated or undone; and the revisions of an item form one
\* chain that ends in the current one.  This is lost where two requests
\* resolve the same proposal, or rewrite the same item, at a time:
\* resolve_proposal locks nothing and compares no base.  Nothing is said of an
\* approved proposal that names no item: "Approval creates a new canonical
\* version" (FSD-MEM-002), but resolve_proposal makes one for the target_type
\* memory_item only, and external clients propose "memory" by default.
ProposalAppliedOnce ==
    /\ \A p \in Proposals \ contested :
          LET made == Cardinality({r \in Revisions : memory[r].from = p})
              approved == proposal[p].made /\ proposal[p].status = "approved"
          IN /\ made <= 1 /\ (made = 1 => approved)
             /\ approved /\ proposal[p].target # "nothing" => made = 1
    /\ \A i \in Items \ forked :
          /\ \A r, s \in RevisionsOf(i) : memory[r].base = memory[s].base => r = s
          /\ \A r \in RevisionsOf(i) :
                r = pointer[i] \/ \E s \in RevisionsOf(i) : memory[s].base = r
=============================================================================
