------------------------------ MODULE Tenancy -------------------------------
(***************************************************************************)
(* Tenant contexts on pooled database connections: tenant_scope and        *)
(* get_db_session of the core, memdot_begin_tenant_context and             *)
(* memdot_rls_ok of the database, and the row-security policies.           *)
(*                                                                         *)
(* A request takes a connection, runs the statements of its handler in one *)
(* transaction and gives the connection back.  The context is a group of   *)
(* transaction-local settings, so it lives from the scope that sets it to  *)
(* the end of the transaction.  Row security is in force: the core's role  *)
(* is neither superuser nor exempt.                                        *)
(***************************************************************************)
EXTENDS Naturals, Sequences

CONSTANTS
    Accounts,
    Actors,
    AccountOf,      \* the account of an actor
    Kind,           \* actor.kind
    Conns           \* connections of the pool

ASSUME TenancyAssumption ==
    /\ AccountOf \in [Actors -> Accounts]
    /\ Kind \in [Actors -> {"user", "external_client", "system"}]

\* A row belongs to an account and lies in a private space or not.  Its table
\* is the spaces, the conversations, another table whose policies name
\* purposes (those of the first migration), or one that is open: the tables
\* added later (memory_item, memory_revision, current_memory_revision,
\* projection, upload_intent, current_active_parse_run, those of learning,
\* Notion, deletion and export), whose tenant_first_party names none.
Table == {"space", "ledger", "conversation", "open"}
Row == [account : Accounts, private : BOOLEAN, table : Table]
SpaceOf(r) == [r EXCEPT !.table = "space"]

External == {"external_read", "external_propose", "external_interaction"}
Purpose == {"first_party", "worker"} \cup External

VARIABLES
    ctx,        \* the settings in force on each connection
    stale,      \* connections whose context is more than a minute old
    use,        \* the request each connection serves, and its steps to go
    revoked,    \* actors with revoked_at set
    lapsed,     \* actors whose membership or newest grant is gone
    touched     \* rows the request has been shown or has written

vars == <<ctx, stale, use, revoked, lapsed, touched>>

NoContext == [set |-> FALSE]
SomeContext == [set : {TRUE}, account : Accounts, actor : Actors, purpose : Purpose]

\* The kind of actor a purpose is for.
KindFor(p) ==
    CASE p = "first_party" -> "user"
      [] p = "worker" -> "system"
      [] OTHER -> "external_client"

\* Mutant: the kind goes where the purpose belongs.
ContextByKind(a, p) ==
    [set |-> TRUE, account |-> AccountOf[a], actor |-> a, purpose |-> KindFor(p)]

\* The settings that memdot_begin_tenant_context makes.
Context(a, p) == [set |-> TRUE, account |-> AccountOf[a], actor |-> a, purpose |-> p]
Free == [busy |-> FALSE]

\* What the handlers do, in order.  "save": save_revision, complete_upload,
\* retry_processing, resolve_proposal; "get": get_document and the other
\* getters; "list": session_status, list and export; "create": create_document
\* and its like.  An external request opens its scope when it is loaded:
\* "search": search and prepare_context; "fetch": fetch; "interact":
\* record_interaction and propose_memory.
Handler ==
    [create   |-> <<"scope", "write">>,
     list     |-> <<"scope", "read">>,
     get      |-> <<"read">>,
     save     |-> <<"read", "scope", "write">>,
     search   |-> <<"scope", "search">>,
     fetch    |-> <<"scope", "fetch">>,
     interact |-> <<"scope", "search", "scope", "write">>]

Step == {"scope", "read", "search", "fetch", "write"}
Request == [busy : {TRUE}, actor : Actors, purpose : Purpose, handler : DOMAIN Handler,
            steps : Seq(Step)]

Suits(h, p) ==
    CASE h \in {"search", "fetch"} -> p = "external_read"
      [] h = "interact" -> p \in {"external_propose", "external_interaction"}
      [] OTHER -> p \notin External

TypeOK ==
    /\ ctx \in [Conns -> {NoContext} \cup SomeContext]
    /\ stale \subseteq Conns
    /\ use \in [Conns -> {Free} \cup Request]
    /\ revoked \subseteq Actors
    /\ lapsed \subseteq Actors
    /\ touched \in [Conns -> SUBSET Row]

Init ==
    /\ ctx = [c \in Conns |-> NoContext]
    /\ stale = {}
    /\ use = [c \in Conns |-> Free]
    /\ revoked = {}
    /\ lapsed = {}
    /\ touched = [c \in Conns |-> {}]

-----------------------------------------------------------------------------
(* The database.                                                           *)

\* memdot_begin_tenant_context: signature and age are right, for the core
\* has just signed; actor, purpose and membership or grant are looked up.
Admits(a, p) ==
    /\ a \notin revoked
    /\ Kind[a] = KindFor(p)
    /\ p # "worker" => a \notin lapsed

\* Mutants: the account is not compared, and the actor not looked up again.
RlsOkAnyAccount(c, account) ==
    ctx[c].set /\ c \notin stale /\ ctx[c].actor \notin revoked
RlsOkUnrevoked(c, account) ==
    ctx[c].set /\ c \notin stale /\ ctx[c].account = account

\* memdot_rls_ok: every statement checks the seal, its age, the account and
\* whether the actor has been revoked since.
RlsOk(c, account) ==
    /\ ctx[c].set
    /\ c \notin stale
    /\ ctx[c].account = account
    /\ ctx[c].actor \notin revoked

\* The tables that external policies open to each purpose: tenant_external_read
\* and tenant_external_write (SELECT only), tenant_external_interaction (ALL).
Readable(p) ==
    CASE p = "external_read" -> {"space", "ledger", "conversation"}
      [] p = "external_interaction" -> {"space", "conversation"}
      [] p = "external_propose" -> {"space"}
      [] OTHER -> {}

\* Mutant: the policies leave out memdot_external_space_ok.
ShownPrivate(c, r) ==
    /\ RlsOk(c, r.account)
    /\ ctx[c].purpose \in External => r.table \in Readable(ctx[c].purpose) \cup {"open"}

\* What a SELECT shows.  Policies are permissive and any one suffices:
\* tenant_first_party shows its account everything, in open tables whatever
\* the purpose, and the external policies show what is in no private space.
Shown(c, r) ==
    /\ RlsOk(c, r.account)
    /\ \/ r.table = "open"
       \/ ctx[c].purpose \notin External
       \/ ~r.private /\ r.table \in Readable(ctx[c].purpose)

Writable(c, r) ==
    /\ Shown(c, r)
    /\ \/ r.table = "open"
       \/ ctx[c].purpose \notin External
       \/ ctx[c].purpose = "external_interaction" /\ r.table = "conversation"

-----------------------------------------------------------------------------
(* A request.                                                              *)

\* get_db_session: a connection as the pool left it.
Checkout(c, a, p, h) ==
    /\ use[c] = Free
    /\ Suits(h, p)
    /\ use' = [use EXCEPT ![c] = [busy |-> TRUE, actor |-> a, purpose |-> p,
                                  handler |-> h, steps |-> Handler[h]]]
    /\ UNCHANGED <<ctx, stale, revoked, lapsed, touched>>

AtStep(c, s) == use[c].busy /\ use[c].steps # <<>> /\ Head(use[c].steps) = s
Advance(c) == use' = [use EXCEPT ![c].steps = Tail(@)]

\* The transaction ends, by commit or rollback, and its settings with it;
\* the reset that follows only clears a transaction that is then closed.
Release(c) ==
    /\ use' = [use EXCEPT ![c] = Free]
    /\ ctx' = [ctx EXCEPT ![c] = NoContext]
    /\ stale' = stale \ {c}
    /\ touched' = [touched EXCEPT ![c] = {}]
    /\ UNCHANGED <<revoked, lapsed>>

\* tenant_scope: clear, then begin.
Scope(c) ==
    /\ AtStep(c, "scope")
    /\ Admits(use[c].actor, use[c].purpose)
    /\ ctx' = [ctx EXCEPT ![c] = Context(use[c].actor, use[c].purpose)]
    /\ stale' = stale \ {c}
    /\ Advance(c)
    /\ UNCHANGED <<revoked, lapsed, touched>>

Touch(c, rows) ==
    /\ touched' = [touched EXCEPT ![c] = @ \cup rows]
    /\ Advance(c)
    /\ UNCHANGED <<ctx, stale, revoked, lapsed>>

\* A SELECT shows what the policies let through; hidden rows are no error.
Read(c) == AtStep(c, "read") /\ Touch(c, {r \in Row : Shown(c, r)})

\* A search asks in the spaces that the request was shown when it was loaded
\* (eligible_space_ids), and before a row is written its space is looked up.
Search(c) ==
    AtStep(c, "search") /\ Touch(c, {r \in Row : Shown(c, r) /\ Shown(c, SpaceOf(r))})

\* A fetch asks for any id and drops what lies in a space that it was shown
\* to be private; a space it was not shown counts as general.
Fetch(c) ==
    AtStep(c, "fetch") /\ Touch(c, {r \in Row : Shown(c, r) /\ ~(r.private /\ Shown(c, SpaceOf(r)))})

\* An external client's handlers write proposals and turns.
Write(c, r) ==
    /\ AtStep(c, "write")
    /\ Writable(c, r)
    /\ use[c].handler = "interact" => r.table \in {"ledger", "conversation"}
    /\ Touch(c, {r})

\* The handler is through: get_db_session commits and closes.
Commit(c) == use[c].busy /\ use[c].steps = <<>> /\ Release(c)

\* The scope is refused, a WITH CHECK fails, or anything else raises:
\* tenant_scope and get_db_session roll back.
Fail(c) == use[c].busy /\ use[c].steps # <<>> /\ Release(c)

-----------------------------------------------------------------------------
(* Time and the operator.                                                  *)

Age(c) ==
    /\ ctx[c].set /\ c \notin stale
    /\ stale' = stale \cup {c}
    /\ UNCHANGED <<ctx, use, revoked, lapsed, touched>>

Revoke(a) ==
    /\ revoked' = revoked \cup {a}
    /\ UNCHANGED <<ctx, stale, use, lapsed, touched>>

Lapse(a) ==
    /\ lapsed' = lapsed \cup {a}
    /\ UNCHANGED <<ctx, stale, use, revoked, touched>>

Next ==
    \/ \E c \in Conns :
          \/ \E a \in Actors, p \in Purpose, h \in DOMAIN Handler : Checkout(c, a, p, h)
          \/ Scope(c) \/ Read(c) \/ Search(c) \/ Fetch(c)
          \/ Commit(c) \/ Fail(c) \/ Age(c)
          \/ \E r \in Row : Write(c, r)
    \/ \E a \in Actors : Revoke(a) \/ Lapse(a)

Spec == Init /\ [][Next]_vars

-----------------------------------------------------------------------------
(* Properties.                                                             *)

\* A connection never carries the context of an earlier request: the context
\* in force names the actor and the purpose of the request being served
\* ("pooled connections MUST reset them", TRD-DATA-004).
ContextIsRequesters ==
    \A c \in Conns : ctx[c].set =>
        /\ use[c].busy
        /\ ctx[c].actor = use[c].actor
        /\ ctx[c].purpose = use[c].purpose
        /\ ctx[c].account = AccountOf[use[c].actor]

\* No request is shown or writes a row of another account, also one that
\* reads before it opens its scope, on a connection others have used.
Isolation ==
    \A c \in Conns : use[c].busy =>
        \A r \in touched[c] : r.account = AccountOf[use[c].actor]

\* An external client's requests see and write nothing that lies in a private
\* space, whatever purpose they change to on whatever connection (the policies
\* with memdot_external_space_ok, and eligible_space_ids for the searches), but
\* for one way, in which the code falls short of TRD-DATA-005: a fetch by id
\* from an open table, whose row is shown while its space is not.
PrivateByPolicy ==
    \A c \in Conns : use[c].busy /\ Kind[use[c].actor] = "external_client" =>
        \A r \in touched[c] : r.private => r.table = "open" /\ use[c].handler = "fetch"

\* Revocation takes effect inside open transactions: from the moment an
\* actor is revoked, or its context is a minute old, no statement on its
\* behalf is shown or writes another row.
RevocationIsImmediate ==
    [][\A c \in Conns : use[c].busy /\ (c \in stale \/ use[c].actor \in revoked) =>
          touched'[c] \subseteq touched[c]]_vars
=============================================================================
