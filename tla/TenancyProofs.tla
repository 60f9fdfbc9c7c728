--------------------------- MODULE TenancyProofs ----------------------------
(***************************************************************************)
(* Tenant isolation for any accounts, actors and pool.                     *)
(***************************************************************************)
EXTENDS Tenancy, TLAPS

\* A connection in the pool has shown nothing, and a context was admitted
\* for an actor of the right kind.
FreeIsEmpty == \A c \in Conns : ~use[c].busy => touched[c] = {}
KindFits == \A c \in Conns : ctx[c].set => Kind[ctx[c].actor] = KindFor(ctx[c].purpose)

\* A request's handler suits its purpose, and what it has still to do is in
\* that handler.
StepOf(h, s) ==
    /\ s = "read" => h \in {"list", "get", "save"}
    /\ s = "fetch" => h = "fetch"
    /\ s = "write" => h \in {"create", "save", "interact"}
StepsFit ==
    \A c \in Conns : use[c].busy =>
        /\ Suits(use[c].handler, use[c].purpose)
        /\ \A i \in 1 .. Len(use[c].steps) : StepOf(use[c].handler, use[c].steps[i])

IInv == /\ TypeOK
        /\ FreeIsEmpty
        /\ KindFits
        /\ StepsFit
        /\ ContextIsRequesters
        /\ Isolation
        /\ PrivateByPolicy

\* A connection is free or serves a request; its context is empty or
\* somebody's.
LEMMA Shapes ==
    ASSUME TypeOK, NEW c \in Conns
    PROVE  /\ use[c] = Free \/ use[c] \in Request
           /\ use[c].busy \in BOOLEAN
           /\ use[c].busy => use[c] \in Request
           /\ ctx[c].set \in BOOLEAN
           /\ ctx[c].set => ctx[c] \in SomeContext
           /\ touched[c] \subseteq Row
<1>1. use[c] = Free \/ use[c] \in Request
  BY DEF TypeOK
<1>2. ctx[c] = NoContext \/ ctx[c] \in SomeContext
  BY DEF TypeOK
<1>3. touched[c] \subseteq Row
  BY DEF TypeOK
<1>4. Free.busy = FALSE /\ NoContext.set = FALSE
  BY DEF Free, NoContext
<1>5. \A q \in Request : q.busy = TRUE
  BY DEF Request
<1>6. \A x \in SomeContext : x.set = TRUE
  BY DEF SomeContext
<1> QED
  BY <1>1, <1>2, <1>3, <1>4, <1>5, <1>6

\* What a statement is shown is the requester's, and for an external client
\* private only in an open table.
LEMMA ShownIsOwn ==
    ASSUME IInv, NEW c \in Conns, NEW r \in Row, Shown(c, r)
    PROVE  /\ use[c].busy
           /\ r.account = AccountOf[use[c].actor]
           /\ Kind[use[c].actor] = "external_client" =>
                 use[c].purpose \in External /\ (r.private => r.table = "open")
           /\ c \notin stale
           /\ use[c].actor \notin revoked
<1>1. ctx[c].set /\ ctx[c].account = r.account /\ c \notin stale /\ ctx[c].actor \notin revoked
  BY DEF Shown, RlsOk
<1>2. /\ use[c].busy
      /\ ctx[c].actor = use[c].actor
      /\ ctx[c].purpose = use[c].purpose
      /\ ctx[c].account = AccountOf[use[c].actor]
  BY <1>1 DEF IInv, ContextIsRequesters
<1>3. Kind[ctx[c].actor] = KindFor(ctx[c].purpose)
  BY <1>1 DEF IInv, KindFits
<1>4. Kind[use[c].actor] = "external_client" =>
         use[c].purpose \in External /\ (r.private => r.table = "open")
  <2>1. ctx[c].purpose \in Purpose
    BY <1>1, Shapes DEF IInv, SomeContext
  <2>2. KindFor(ctx[c].purpose) = "external_client" => ctx[c].purpose \in External
    BY <2>1 DEF KindFor, Purpose, External
  <2> QED
    BY <1>2, <1>3, <2>2 DEF Shown
<1> QED
  BY <1>1, <1>2, <1>4

\* The statement that a handler is at is one of its own, and an external
\* client's handlers are a search, a fetch and an interaction.
LEMMA StepFits ==
    ASSUME IInv, NEW c \in Conns, NEW s, AtStep(c, s)
    PROVE  /\ StepOf(use[c].handler, s)
           /\ use[c].purpose \in External => use[c].handler \in {"search", "fetch", "interact"}
<1>1. use[c].busy /\ use[c].steps # <<>> /\ Head(use[c].steps) = s
  BY DEF AtStep
<1>2. use[c] \in Request
  BY <1>1, Shapes DEF IInv
<1>3. use[c].steps \in Seq(Step) /\ use[c].handler \in DOMAIN Handler
  BY <1>2 DEF Request
<1>4. s = use[c].steps[1] /\ 1 \in 1 .. Len(use[c].steps)
  BY <1>1, <1>3
<1>5. StepOf(use[c].handler, s)
  BY <1>1, <1>4 DEF IInv, StepsFit
<1>6. use[c].purpose \in External => use[c].handler \in {"search", "fetch", "interact"}
  BY <1>1 DEF IInv, StepsFit, Suits
<1> QED
  BY <1>5, <1>6

LEMMA InitIInv == Init => IInv
<1> SUFFICES ASSUME Init PROVE IInv
  OBVIOUS
<1>1. \A c \in Conns : ~ctx[c].set /\ ~use[c].busy /\ touched[c] = {}
  BY DEF Init, NoContext, Free
<1>2. TypeOK
  BY DEF Init, TypeOK
<1> QED
  BY <1>1, <1>2 DEF IInv, FreeIsEmpty, KindFits, StepsFit, ContextIsRequesters, Isolation,
                    PrivateByPolicy

\* Steps that leave the requests alone keep the invariant: the operator's
\* and the clock's, and the stuttering step.
LEMMA OutsideIInv ==
    ASSUME IInv, UNCHANGED <<ctx, use, touched>>,
           revoked' \subseteq Actors, lapsed' \subseteq Actors, stale' \subseteq Conns
    PROVE  IInv'
<1>1. TypeOK'
  BY DEF IInv, TypeOK
<1> QED
  BY <1>1 DEF IInv, FreeIsEmpty, KindFits, StepsFit, ContextIsRequesters, Isolation, PrivateByPolicy

\* Each step of a handler is one of its own.
LEMMA HandlerSteps ==
    ASSUME NEW h \in DOMAIN Handler
    PROVE  /\ Handler[h] \in Seq(Step)
           /\ \A i \in 1 .. Len(Handler[h]) : StepOf(h, Handler[h][i])
<1>1. h \in {"create", "list", "get", "save", "search", "fetch", "interact"}
  BY DEF Handler
<1>2. /\ Handler["create"] = <<"scope", "write">>
      /\ Handler["list"] = <<"scope", "read">>
      /\ Handler["get"] = <<"read">>
      /\ Handler["save"] = <<"read", "scope", "write">>
      /\ Handler["search"] = <<"scope", "search">>
      /\ Handler["fetch"] = <<"scope", "fetch">>
      /\ Handler["interact"] = <<"scope", "search", "scope", "write">>
  BY DEF Handler
<1>3. /\ <<"scope", "write">> \in Seq(Step)
      /\ <<"scope", "read">> \in Seq(Step)
      /\ <<"read">> \in Seq(Step)
  BY DEF Step
<1>4. /\ <<"read", "scope", "write">> \in Seq(Step)
      /\ <<"scope", "search">> \in Seq(Step)
      /\ <<"scope", "fetch">> \in Seq(Step)
      /\ <<"scope", "search", "scope", "write">> \in Seq(Step)
  BY DEF Step
<1>5. /\ \A a : \A i \in 1 .. Len(<<a>>) : <<a>>[i] = a
      /\ \A a, b : \A i \in 1 .. Len(<<a, b>>) : <<a, b>>[i] \in {a, b}
      /\ \A a, b, d : \A i \in 1 .. Len(<<a, b, d>>) : <<a, b, d>>[i] \in {a, b, d}
      /\ \A a, b, d, e : \A i \in 1 .. Len(<<a, b, d, e>>) : <<a, b, d, e>>[i] \in {a, b, d, e}
  OBVIOUS
<1>6. Handler[h] \in Seq(Step)
  BY <1>1, <1>2, <1>3, <1>4
<1>7. ASSUME NEW i \in 1 .. Len(Handler[h]) PROVE StepOf(h, Handler[h][i])
  <2>1. /\ h = "create" => Handler[h][i] \in {"scope", "write"}
        /\ h = "list" => Handler[h][i] \in {"scope", "read"}
        /\ h = "get" => Handler[h][i] = "read"
    BY <1>2, <1>5
  <2>2. /\ h = "save" => Handler[h][i] \in {"read", "scope", "write"}
        /\ h = "search" => Handler[h][i] \in {"scope", "search"}
        /\ h = "fetch" => Handler[h][i] \in {"scope", "fetch"}
        /\ h = "interact" => Handler[h][i] \in {"scope", "search", "scope", "write"}
    BY <1>2, <1>5
  <2> QED
    BY <1>1, <2>1, <2>2 DEF StepOf
<1> QED
  BY <1>6, <1>7

\* A request begins on a connection that carries no context.
LEMMA CheckoutIInv ==
    ASSUME IInv, NEW c \in Conns, NEW a \in Actors, NEW p \in Purpose,
           NEW h \in DOMAIN Handler, Checkout(c, a, p, h)
    PROVE  IInv'
<1>1. PICK q : q = [busy |-> TRUE, actor |-> a, purpose |-> p, handler |-> h,
                    steps |-> Handler[h]]
  OBVIOUS
<1>2. /\ q \in Request /\ q.busy /\ q.actor = a /\ q.purpose = p /\ q.handler = h
      /\ q.steps = Handler[h]
  BY <1>1, HandlerSteps DEF Request
<1>3. /\ use' = [use EXCEPT ![c] = q]
      /\ UNCHANGED <<ctx, stale, revoked, lapsed, touched>>
      /\ Suits(h, p)
  BY <1>1 DEF Checkout
<1>4. TypeOK'
  BY <1>2, <1>3 DEF IInv, TypeOK
<1>5. ~use[c].busy
  BY DEF Checkout, Free
<1>6. ~ctx[c].set /\ touched[c] = {}
  BY <1>5 DEF IInv, ContextIsRequesters, FreeIsEmpty
<1>7. use'[c] = q /\ \A d \in Conns \ {c} : use'[d] = use[d]
  BY <1>3 DEF IInv, TypeOK
<1>8. StepsFit'
  <2> SUFFICES ASSUME NEW d \in Conns, use'[d].busy
               PROVE  /\ Suits(use'[d].handler, use'[d].purpose)
                      /\ \A i \in 1 .. Len(use'[d].steps) :
                            StepOf(use'[d].handler, use'[d].steps[i])
    BY DEF StepsFit
  <2>1. CASE d = c
    BY <1>2, <1>3, <1>7, <2>1, HandlerSteps
  <2>2. CASE d # c
    BY <1>7, <2>2 DEF IInv, StepsFit
  <2> QED
    BY <2>1, <2>2
<1> QED
  BY <1>2, <1>3, <1>4, <1>6, <1>7, <1>8
     DEF IInv, FreeIsEmpty, KindFits, ContextIsRequesters, Isolation, PrivateByPolicy

\* Advancing changes only the steps that are left.
LEMMA AdvanceOK ==
    ASSUME TypeOK, StepsFit, NEW c \in Conns, use[c].busy, use[c].steps # <<>>, Advance(c)
    PROVE  /\ use' \in [Conns -> {Free} \cup Request]
           /\ \A d \in Conns : /\ use'[d].busy = use[d].busy
                               /\ use'[d].busy => /\ use'[d].actor = use[d].actor
                                                  /\ use'[d].purpose = use[d].purpose
                                                  /\ use'[d].handler = use[d].handler
           /\ StepsFit'
<1>1. use[c] \in Request
  BY Shapes
<1>2. PICK t \in Seq(Step) : t = use[c].steps
  BY <1>1 DEF Request
<1>3. PICK u \in Seq(Step) : u = Tail(t)
  <2>1. t # <<>>
    BY <1>2
  <2>2. Tail(t) \in Seq(Step)
    BY <2>1
  <2> QED
    BY <2>2
<1>4. Len(u) = Len(t) - 1 /\ \A i \in 1 .. Len(u) : u[i] = t[i + 1] /\ i + 1 \in 1 .. Len(t)
  BY <1>2, <1>3
<1>5. PICK q : q = [use[c] EXCEPT !.steps = u]
  OBVIOUS
<1>6. /\ q \in Request /\ q.busy = use[c].busy /\ q.actor = use[c].actor
      /\ q.purpose = use[c].purpose /\ q.handler = use[c].handler /\ q.steps = u
  BY <1>1, <1>5 DEF Request
<1>7. use' = [use EXCEPT ![c] = q]
  BY <1>2, <1>3, <1>5 DEF Advance
<1>8. use' \in [Conns -> {Free} \cup Request]
  BY <1>6, <1>7 DEF TypeOK
<1>9. use'[c] = q /\ \A d \in Conns \ {c} : use'[d] = use[d]
  BY <1>7 DEF TypeOK
<1>10. StepsFit'
  <2> SUFFICES ASSUME NEW d \in Conns, use'[d].busy
               PROVE  /\ Suits(use'[d].handler, use'[d].purpose)
                      /\ \A i \in 1 .. Len(use'[d].steps) :
                            StepOf(use'[d].handler, use'[d].steps[i])
    BY DEF StepsFit
  <2>1. CASE d = c
    BY <1>2, <1>4, <1>6, <1>9, <2>1 DEF StepsFit
  <2>2. CASE d # c
    BY <1>9, <2>2 DEF StepsFit
  <2> QED
    BY <2>1, <2>2
<1> QED
  BY <1>6, <1>8, <1>9, <1>10

LEMMA ScopeIInv ==
    ASSUME IInv, NEW c \in Conns, Scope(c)
    PROVE  IInv'
<1> DEFINE x == Context(use[c].actor, use[c].purpose)
<1>1. /\ use[c].busy /\ use[c].steps # <<>> /\ Advance(c)
      /\ Kind[use[c].actor] = KindFor(use[c].purpose)
      /\ ctx' = [ctx EXCEPT ![c] = x]
      /\ stale' = stale \ {c}
      /\ UNCHANGED <<revoked, lapsed, touched>>
  BY DEF Scope, AtStep, Admits
<1>2. use[c] \in Request
  BY <1>1, Shapes DEF IInv
<1>3. use[c].actor \in Actors /\ use[c].purpose \in Purpose
  BY <1>2 DEF Request
<1>4. /\ x \in SomeContext /\ x.set /\ x.account = AccountOf[use[c].actor]
      /\ x.actor = use[c].actor /\ x.purpose = use[c].purpose
  BY <1>3, TenancyAssumption DEF Context, SomeContext
<1> HIDE DEF x
<1>5. /\ use' \in [Conns -> {Free} \cup Request]
      /\ \A d \in Conns : /\ use'[d].busy = use[d].busy
                          /\ use'[d].busy => /\ use'[d].actor = use[d].actor
                                             /\ use'[d].purpose = use[d].purpose
                                             /\ use'[d].handler = use[d].handler
      /\ StepsFit'
  BY <1>1, AdvanceOK DEF IInv
<1>6. TypeOK'
  BY <1>1, <1>4, <1>5 DEF IInv, TypeOK
<1>7. ctx'[c] = x /\ \A d \in Conns \ {c} : ctx'[d] = ctx[d]
  BY <1>1 DEF IInv, TypeOK
<1>8. KindFits' /\ ContextIsRequesters'
  <2> SUFFICES ASSUME NEW d \in Conns, ctx'[d].set
               PROVE  /\ Kind[ctx'[d].actor] = KindFor(ctx'[d].purpose)
                      /\ use'[d].busy /\ ctx'[d].actor = use'[d].actor
                      /\ ctx'[d].purpose = use'[d].purpose
                      /\ ctx'[d].account = AccountOf[use'[d].actor]
    BY DEF KindFits, ContextIsRequesters
  <2>1. CASE d = c
    BY <1>1, <1>4, <1>5, <1>7, <2>1
  <2>2. CASE d # c
    BY <1>5, <1>7, <2>2 DEF IInv, KindFits, ContextIsRequesters
  <2> QED
    BY <2>1, <2>2
<1> QED
  BY <1>1, <1>5, <1>6, <1>8 DEF IInv, FreeIsEmpty, Isolation, PrivateByPolicy

\* A statement that touches only rows its connection is shown.
LEMMA TouchIInv ==
    ASSUME IInv, NEW c \in Conns, NEW rows \in SUBSET Row,
           \A r \in rows : Shown(c, r),
           Kind[use[c].actor] = "external_client" =>
              use[c].handler = "fetch" \/ \A r \in rows : ~r.private,
           use[c].busy, use[c].steps # <<>>, Advance(c),
           touched' = [touched EXCEPT ![c] = @ \cup rows],
           UNCHANGED <<ctx, stale, revoked, lapsed>>
    PROVE  IInv'
<1>1. /\ use' \in [Conns -> {Free} \cup Request]
      /\ \A d \in Conns : /\ use'[d].busy = use[d].busy
                          /\ use'[d].busy => /\ use'[d].actor = use[d].actor
                                             /\ use'[d].purpose = use[d].purpose
                                             /\ use'[d].handler = use[d].handler
      /\ StepsFit'
  BY AdvanceOK DEF IInv
<1>2. TypeOK'
  BY <1>1 DEF IInv, TypeOK
<1>3. /\ touched'[c] = touched[c] \cup rows
      /\ \A d \in Conns \ {c} : touched'[d] = touched[d]
  BY DEF IInv, TypeOK
<1>4. \A r \in rows : /\ r.account = AccountOf[use[c].actor]
                      /\ Kind[use[c].actor] = "external_client" =>
                            (r.private => r.table = "open" /\ use[c].handler = "fetch")
  BY ShownIsOwn
<1>5. FreeIsEmpty' /\ KindFits' /\ StepsFit' /\ ContextIsRequesters'
  BY <1>1, <1>3 DEF IInv, FreeIsEmpty, KindFits, ContextIsRequesters
<1>6. Isolation'
  BY <1>1, <1>3, <1>4 DEF IInv, Isolation
<1>7. PrivateByPolicy'
  BY <1>1, <1>3, <1>4 DEF IInv, PrivateByPolicy
<1> QED
  BY <1>2, <1>5, <1>6, <1>7 DEF IInv

\* The end of a transaction clears context and request.
LEMMA ReleaseIInv ==
    ASSUME IInv, NEW c \in Conns, Release(c)
    PROVE  IInv'
<1>1. TypeOK'
  BY DEF IInv, TypeOK, Release
<1>2. /\ use'[c] = Free /\ ctx'[c] = NoContext /\ touched'[c] = {}
      /\ \A d \in Conns \ {c} : use'[d] = use[d] /\ ctx'[d] = ctx[d] /\ touched'[d] = touched[d]
  BY DEF IInv, TypeOK, Release
<1>3. ~use'[c].busy /\ ~ctx'[c].set
  BY <1>2 DEF Free, NoContext
<1> QED
  BY <1>1, <1>2, <1>3
     DEF IInv, FreeIsEmpty, KindFits, StepsFit, ContextIsRequesters, Isolation, PrivateByPolicy

LEMMA NextIInv == IInv /\ [Next]_vars => IInv'
<1> SUFFICES ASSUME IInv, [Next]_vars PROVE IInv'
  OBVIOUS
<1>1. ASSUME NEW c \in Conns, NEW a \in Actors, NEW p \in Purpose, NEW h \in DOMAIN Handler,
             Checkout(c, a, p, h)
      PROVE  IInv'
  BY <1>1, CheckoutIInv
<1>2. ASSUME NEW c \in Conns, Scope(c) PROVE IInv'
  BY <1>2, ScopeIInv
<1>3. ASSUME NEW c \in Conns, Read(c) \/ Search(c) \/ Fetch(c) PROVE IInv'
  <2>1. PICK rows \in SUBSET Row :
            /\ Touch(c, rows)
            /\ \/ AtStep(c, "read") /\ rows = {r \in Row : Shown(c, r)}
               \/ AtStep(c, "search") /\ rows = {r \in Row : Shown(c, r) /\ Shown(c, SpaceOf(r))}
               \/ AtStep(c, "fetch")
                  /\ rows = {r \in Row : Shown(c, r) /\ ~(r.private /\ Shown(c, SpaceOf(r)))}
    BY <1>3 DEF Read, Search, Fetch
  <2>2. /\ use[c].busy /\ use[c].steps # <<>> /\ Advance(c)
        /\ touched' = [touched EXCEPT ![c] = @ \cup rows]
        /\ UNCHANGED <<ctx, stale, revoked, lapsed>>
        /\ \A r \in rows : Shown(c, r)
    BY <2>1 DEF Touch, AtStep
  <2>3. ASSUME Kind[use[c].actor] = "external_client", NEW r \in rows, r.private
        PROVE  use[c].handler = "fetch"
    <3>1. use[c].purpose \in External
      BY <2>2, <2>3, ShownIsOwn
    <3>2. ~AtStep(c, "read")
      BY <3>1, StepFits DEF StepOf
    <3>3. AtStep(c, "fetch") => use[c].handler = "fetch"
      BY StepFits DEF StepOf
    <3>4. ~Shown(c, SpaceOf(r))
      <4>1. r \in Row
        BY <2>3
      <4>2. /\ SpaceOf(r) \in Row /\ SpaceOf(r).private /\ SpaceOf(r).table = "space"
        BY <2>3, <4>1 DEF SpaceOf, Row, Table
      <4> QED
        BY <2>3, <4>2, ShownIsOwn
    <3> QED
      BY <2>1, <3>2, <3>3, <3>4
  <2> QED
    BY <2>2, <2>3, TouchIInv
<1>4. ASSUME NEW c \in Conns, NEW r \in Row, Write(c, r) PROVE IInv'
  <2>1. /\ use[c].busy /\ use[c].steps # <<>> /\ Advance(c)
        /\ touched' = [touched EXCEPT ![c] = @ \cup {r}]
        /\ UNCHANGED <<ctx, stale, revoked, lapsed>>
        /\ Shown(c, r)
    BY <1>4 DEF Write, AtStep, Writable, Touch
  <2>2. {r} \in SUBSET Row /\ \A s \in {r} : Shown(c, s)
    BY <2>1
  <2>3. Kind[use[c].actor] = "external_client" => ~r.private
    <3>1. AtStep(c, "write")
      BY <1>4 DEF Write
    <3>2. use[c].purpose \in External => use[c].handler = "interact"
      BY <3>1, StepFits DEF StepOf
    <3>3. use[c].handler = "interact" => r.table # "open"
      BY <1>4 DEF Write
    <3> QED
      BY <2>1, <3>2, <3>3, ShownIsOwn
  <2> QED
    BY <2>1, <2>2, <2>3, TouchIInv
<1>5. ASSUME NEW c \in Conns, Commit(c) \/ Fail(c) PROVE IInv'
  BY <1>5, ReleaseIInv DEF Commit, Fail
<1>6. ASSUME NEW c \in Conns, Age(c) PROVE IInv'
  BY <1>6, OutsideIInv DEF Age, IInv, TypeOK
<1>7. ASSUME NEW a \in Actors, Revoke(a) \/ Lapse(a) PROVE IInv'
  BY <1>7, OutsideIInv DEF Revoke, Lapse, IInv, TypeOK
<1>8. CASE UNCHANGED vars
  BY <1>8, OutsideIInv DEF vars, IInv, TypeOK
<1> QED
  BY <1>1, <1>2, <1>3, <1>4, <1>5, <1>6, <1>7, <1>8 DEF Next

LEMMA Inductive == Spec => []IInv
BY InitIInv, NextIInv, PTL DEF Spec

\* The connections, contexts and requests keep their types.
THEOREM TypeCorrect == Spec => []TypeOK
<1>1. IInv => TypeOK
  BY DEF IInv
<1> QED
  BY <1>1, Inductive, PTL

\* A pooled connection carries the context of the request it serves and of
\* no other (memdot_clear_tenant_context, transaction-local settings).
THEOREM ContextsDoNotLeak == Spec => []ContextIsRequesters
<1>1. IInv => ContextIsRequesters
  BY DEF IInv
<1> QED
  BY <1>1, Inductive, PTL

\* No request reads or writes a row of another account (memdot_rls_ok).
THEOREM TenantsIsolated == Spec => []Isolation
<1>1. IInv => Isolation
  BY DEF IInv
<1> QED
  BY <1>1, Inductive, PTL

\* External clients touch rows of a private space in one way only: by fetching
\* an id from a table whose policies name no purpose.
THEOREM PrivateRowsHidden == Spec => []PrivateByPolicy
<1>1. IInv => PrivateByPolicy
  BY DEF IInv
<1> QED
  BY <1>1, Inductive, PTL

\* From its revocation on, and once its context is a minute old, an actor's
\* statements touch nothing new (memdot_rls_ok looks the actor up each time).
THEOREM RevocationHolds == Spec => RevocationIsImmediate
<1> DEFINE Step1 == \A c \in Conns :
                       use[c].busy /\ (c \in stale \/ use[c].actor \in revoked) =>
                          touched'[c] \subseteq touched[c]
<1>1. IInv /\ [Next]_vars => [Step1]_vars
  <2> SUFFICES ASSUME IInv, Next, NEW c \in Conns, use[c].busy,
                      c \in stale \/ use[c].actor \in revoked
               PROVE  touched'[c] \subseteq touched[c]
    BY DEF vars
  <2>1. \A r \in Row : ~Shown(c, r)
    BY ShownIsOwn
  <2>2. ASSUME NEW d \in Conns, Read(d) \/ Search(d) \/ Fetch(d)
        PROVE  touched'[c] \subseteq touched[c]
    <3>1. PICK rows \in SUBSET Row : (\A r \in rows : Shown(d, r))
                                    /\ touched' = [touched EXCEPT ![d] = @ \cup rows]
      BY <2>2 DEF Read, Search, Fetch, Touch
    <3> QED
      BY <2>1, <3>1 DEF IInv, TypeOK
  <2>3. ASSUME NEW d \in Conns, NEW r \in Row, Write(d, r)
        PROVE  touched'[c] \subseteq touched[c]
    BY <2>1, <2>3 DEF Write, Writable, Touch, IInv, TypeOK
  <2>4. ASSUME NEW d \in Conns, Commit(d) \/ Fail(d) PROVE touched'[c] \subseteq touched[c]
    BY <2>4 DEF Commit, Fail, Release, IInv, TypeOK
  <2>5. ASSUME UNCHANGED touched PROVE touched'[c] \subseteq touched[c]
    BY <2>5
  <2> QED
    BY <2>2, <2>3, <2>4, <2>5 DEF Next, Checkout, Scope, Age, Revoke, Lapse
<1> QED
  BY <1>1, Inductive, PTL DEF Spec, RevocationIsImmediate
=============================================================================
