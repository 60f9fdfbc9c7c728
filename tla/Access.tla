------------------------------- MODULE Access -------------------------------
(***************************************************************************)
(* How a request gets its identity: the OpenID Connect login with its      *)
(* single-use challenge, the accounts it provisions, the browser sessions  *)
(* that are rotated and revoked, and the signed envelopes of the MCP edge. *)
(*                                                                         *)
(* A handler is one transaction (READ COMMITTED): statements that insert a *)
(* unique key or update a row wait for the transaction that holds it, and  *)
(* the commit follows the answer.  An answer that refuses the request      *)
(* commits too; an exception rolls everything back.                        *)
(*                                                                         *)
(* Time counts half seconds of the service's clock: the program reads      *)
(* whole seconds (int(time.time())), PostgreSQL's now() does not.          *)
(***************************************************************************)
EXTENDS Naturals, FiniteSets, Sequences

CONSTANTS
    Challenges,     \* states a login can be begun with, each with its nonce
    Subjects,       \* subjects of the one issuer
    Jtis,           \* token ids
    SessionIds,
    AccountIds,
    Nonces,         \* envelopes of the edge, each with its nonce
    Purposes,       \* external purposes; each has the scope of its name
    Handlers,
    ChallengeTtl, SessionTtl, IdleTtl, RecentAuth,      \* in half seconds
    MAX_SKEW_SECONDS,
    Mixes           \* operations and purposes used together; bounds on requests, on time,
                    \* and on the challenges and envelopes that are issued

ASSUME AccessAssumption ==
    /\ {ChallengeTtl, SessionTtl, IdleTtl, RecentAuth, MAX_SKEW_SECONDS} \subseteq Nat
    /\ "none" \notin Jtis \cup Challenges
    /\ SessionIds \cup AccountIds \subseteq Nat \ {0}
    /\ \A m \in Mixes : /\ {m.requests, m.time, m.issued} \subseteq Nat
                        /\ m.selfHost \in BOOLEAN /\ m.purposes \subseteq Purposes

VARIABLES
    now,
    challenge,      \* oidc_login_challenge
    replay,         \* oidc_token_replay
    account,        \* account with its user, identity and actor
    bootstrap,      \* operator_bootstrap: the operator's account
    session,        \* browser_session, with the login it descends from
    envelope,       \* what the edge has signed
    nonce,          \* service_auth_nonce: when the row expires, in seconds
    grant,          \* external_client_grant of the one client
    tx,
    requests,
    mix,            \* the operations in use; fixed
    raced,          \* logins of which two handlers revoked the same session
    late,           \* a request that needs a recent login was served without
    accepted        \* the calls that consumed each envelope: when they began and ended

identities == <<challenge, replay, account, bootstrap>>
external == <<envelope, nonce, grant, accepted>>
vars == <<now, identities, session, external, tx, requests, mix, raced, late>>

None == [made |-> FALSE]
Second(t) == t \div 2

Challenge == [made : {TRUE}, expires_at : Nat, consumed : BOOLEAN]
Account == [made : {TRUE}, subject : Subjects, status : {"pending_attestation", "active"},
            attested : BOOLEAN]
BrowserSession == [made : {TRUE}, account : AccountIds, login : SessionIds, begun : Nat,
                   by : Challenges, jti : Jtis \cup {"none"}, subject : Subjects,
                   expires_at : Nat, idle_expires_at : Nat, last_auth_at : Nat,
                   revoked : BOOLEAN]
Envelope == [made : {TRUE}, ts : Nat, purpose : Purposes, scopes : SUBSET Purposes]
Accepted == [began : Nat, ended : Nat]                  \* in seconds
Token == [made : {TRUE}, nonce : Challenges, subject : Subjects, jti : Jtis \cup {"none"}]

Callback == [op : {"callback"}, state : Challenges, cookie : Challenges \cup {"none"}]
SessionRequest == [op : {"attest", "logout", "rotate", "use"}, session : SessionIds,
                   csrf : BOOLEAN]
External == [op : {"external"}, nonce : Nonces, purpose : Purposes,
             bearer : {{}, Purposes}]      \* the scopes of the bearer token, if there is one
Request == Callback \cup SessionRequest \cup External

Idle == [at |-> "idle", q |-> None, token |-> None, locks |-> {}, id |-> 0, row |-> None,
         start |-> 0, consumed |-> FALSE]
Phase == {"load", "exchange", "replay", "consume", "provision", "insert", "flush", "consume_nonce",
          "resolve", "commit"}

TypeOK ==
    /\ now \in 0 .. mix.time
    /\ challenge \in [Challenges -> {None} \cup Challenge]
    /\ replay \subseteq Jtis
    /\ \A a \in AccountIds : account[a] = None \/ account[a] \in Account
    /\ bootstrap \in {0} \cup AccountIds
    /\ \A s \in SessionIds : session[s] = None \/ session[s] \in BrowserSession
    /\ \A n \in Nonces : envelope[n] = None \/ envelope[n] \in Envelope
    /\ \A n \in Nonces : nonce[n] = None \/ nonce[n].expires_at \in Nat
    /\ grant.scopes \subseteq Purposes /\ grant.revoked \in BOOLEAN
    /\ \A h \in Handlers : tx[h] = Idle \/ (tx[h].at \in Phase /\ tx[h].q \in Request)
    /\ requests \in 0 .. mix.requests
    /\ raced \subseteq SessionIds /\ late \in BOOLEAN
    /\ \A n \in Nonces : accepted[n] \in Seq(Accepted)

Init ==
    /\ mix \in Mixes
    /\ now = 0
    /\ challenge = [c \in Challenges |-> None]
    /\ replay = {} /\ bootstrap = 0 /\ requests = 0
    /\ account = [a \in AccountIds |-> None]
    /\ session = [s \in SessionIds |-> None]
    /\ envelope = [n \in Nonces |-> None]
    /\ nonce = [n \in Nonces |-> None]
    /\ grant \in [scopes : IF "external" \in mix.ops THEN SUBSET mix.purposes ELSE {{}},
                  revoked : {FALSE}]
    /\ tx = [h \in Handlers |-> Idle]
    /\ raced = {} /\ late = FALSE
    /\ accepted = [n \in Nonces |-> <<>>]

-----------------------------------------------------------------------------
Tick ==
    /\ now < mix.time
    /\ now' = now + 1
    /\ UNCHANGED <<identities, session, external, tx, requests, mix, raced, late>>

Others(h) == Handlers \ {h}
Free(h, key) == \A g \in Others(h) : key \notin tx[g].locks
At(h, phase) == tx[h].at = phase
unchanged == UNCHANGED <<now, identities, session, external, requests, mix, raced, late>>

\* The handler goes on to its next statement, holding the rows in keys.
Go(h, phase, keys) ==
    tx' = [tx EXCEPT ![h].at = phase, ![h].locks = @ \cup keys] /\ unchanged
End(h) == tx' = [tx EXCEPT ![h] = Idle] /\ unchanged

Receive(h, q) ==
    /\ tx[h] = Idle
    /\ q.op \in mix.ops
    /\ requests < mix.requests
    /\ requests' = requests + 1
    /\ tx' = [tx EXCEPT ![h].at = "load", ![h].q = q]
    /\ UNCHANGED <<now, identities, session, external, mix, raced, late>>

ReceiveCallback(h) == \E q \in Callback : challenge[q.state] # None /\ Receive(h, q)
ReceiveSession(h) == \E q \in SessionRequest : session[q.session] # None /\ Receive(h, q)

\* The edge's call, on time, late, or once more.
ReceiveExternal(h) ==
    \E q \in External : envelope[q.nonce] # None /\ q.purpose \in mix.purposes /\ Receive(h, q)

-----------------------------------------------------------------------------
(* Login.                                                                  *)

oidc_begin(c) ==
    /\ "callback" \in mix.ops
    /\ Cardinality({d \in Challenges : challenge[d] # None}) < mix.issued
    /\ challenge[c] = None
    /\ challenge' = [challenge EXCEPT ![c] = [made |-> TRUE, consumed |-> FALSE,
                                              expires_at |-> now + ChallengeTtl]]
    /\ UNCHANGED <<now, replay, account, bootstrap, session, external, tx, requests, mix,
                   raced, late>>

\* The cookie is the state, and the challenge is neither used nor expired.
LoadChallenge(h) ==
    LET q == tx[h].q
        c == challenge[q.state]
    IN /\ At(h, "load") /\ q.op = "callback"
       /\ IF q.cookie = q.state /\ ~c.consumed /\ now < c.expires_at
          THEN Go(h, "exchange", {}) ELSE End(h)

\* The issuer answers the code with a token or fails; the token's nonce has
\* to be the challenge's.
exchange_code(h) ==
    /\ At(h, "exchange")
    /\ \/ End(h)
       \/ \E t \in Token :
             /\ t.nonce = tx[h].q.state
             /\ tx' = [tx EXCEPT ![h].at = IF t.jti = "none" THEN "consume" ELSE "replay",
                                 ![h].token = t]
             /\ unchanged

RecordReplay(h) ==
    LET j == tx[h].token.jti IN
    /\ At(h, "replay")
    /\ Free(h, <<"jti", j>>)
    /\ IF j \in replay THEN End(h) ELSE Go(h, "consume", {<<"jti", j>>})

\* Mutant: what was loaded before the exchange is relied on.
ConsumeLoaded(h) ==
    LET c == tx[h].q.state IN
    /\ At(h, "consume")
    /\ Free(h, <<"challenge", c>>)
    /\ Go(h, "provision", {<<"challenge", c>>})

\* Mutant: a token without an id is recorded too.
RecordedAlways(t) == {t.jti}

\* The token's id is recorded, if it has one.
Recorded(t) == {t.jti} \cap Jtis

\* The request is refused, and what it has done so far is committed: the
\* token's id, and the challenge if it was consumed.
Refuse(h, consumed) ==
    /\ replay' = replay \cup Recorded(tx[h].token)
    /\ challenge' = [challenge EXCEPT ![tx[h].q.state].consumed = @ \/ consumed]
    /\ tx' = [tx EXCEPT ![h] = Idle]
    /\ UNCHANGED <<now, account, bootstrap, session, external, requests, mix, raced, late>>

\* One UPDATE consumes the challenge, if it still can be.
Consume(h) ==
    LET c == tx[h].q.state
        row == challenge[c]
    IN /\ At(h, "consume")
       /\ Free(h, <<"challenge", c>>)
       /\ IF ~row.consumed /\ now < row.expires_at
          THEN Go(h, "provision", {<<"challenge", c>>}) ELSE Refuse(h, FALSE)

AccountOf(subject) == {a \in AccountIds : account[a] # None /\ account[a].subject = subject}
Taken(a) == account[a] # None \/ \E g \in Handlers : tx[g].id = a
NewAccount == {a \in AccountIds : ~Taken(a) /\ \A b \in AccountIds : b < a => Taken(b)}

\* The account of the identity, or a new one: the operator's if there is no
\* operator yet, and one that awaits its attestation otherwise.  Whether the
\* rows can be inserted shows at "insert".
Provision(h) ==
    LET known == AccountOf(tx[h].token.subject)
        operator == mix.selfHost /\ bootstrap = 0
    IN /\ At(h, "provision")
       /\ \E a \in IF known # {} /\ ~operator THEN known ELSE NewAccount :
             /\ tx' = [tx EXCEPT ![h].at = "insert", ![h].id = a,
                                 ![h].row = [made |-> TRUE, operator |-> operator,
                                             new |-> known = {} \/ operator]]
             /\ unchanged

\* memdot_auth_provision_*: the identity's index, then the bootstrap's.  A
\* loser waits, fails and is rolled back, its challenge unconsumed; one that
\* finds the operator before it inserts answers 409 and keeps what it did.
InsertAccount(h) ==
    LET subject == tx[h].token.subject
        operator == tx[h].row.operator
        keys == {<<"subject", subject>>} \cup (IF operator THEN {<<"bootstrap">>} ELSE {})
        lost == AccountOf(subject) # {} \/ (operator /\ bootstrap # 0)
    IN /\ At(h, "insert")
       /\ \/ ~tx[h].row.new /\ Go(h, "commit", {})
          \/ /\ tx[h].row.new
             /\ \A k \in keys : Free(h, k)
             /\ IF lost THEN End(h) ELSE Go(h, "commit", keys)
          \/ operator /\ bootstrap # 0 /\ Refuse(h, TRUE)

session_expiry(s) == [s EXCEPT !.expires_at = now + SessionTtl,
                               !.idle_expires_at = now + IdleTtl]
NewSession == {s \in SessionIds : /\ session[s] = None
                                  /\ \A r \in SessionIds : r < s => session[r] # None}

\* The new session is added under the account's own context, and everything
\* is committed together.
CommitLogin(h) ==
    LET q == tx[h].q
        t == tx[h].token
        a == tx[h].id
    IN /\ At(h, "commit") /\ q.op = "callback"
       /\ \E s \in NewSession :
             session' = [session EXCEPT ![s] = session_expiry(
                [made |-> TRUE, account |-> a, login |-> s, begun |-> now, by |-> q.state,
                 jti |-> t.jti, subject |-> t.subject, expires_at |-> 0,
                 idle_expires_at |-> 0, last_auth_at |-> now, revoked |-> FALSE])]
       /\ challenge' = [challenge EXCEPT ![q.state].consumed = TRUE]
       /\ replay' = replay \cup Recorded(t)
       /\ account' = IF tx[h].row.new
                     THEN [account EXCEPT ![a] =
                             [made |-> TRUE, subject |-> t.subject, attested |-> FALSE,
                              status |-> IF tx[h].row.operator THEN "active"
                                         ELSE "pending_attestation"]]
                     ELSE account
       /\ bootstrap' = IF tx[h].row.operator THEN a ELSE bootstrap
       /\ tx' = [tx EXCEPT ![h] = Idle]
       /\ UNCHANGED <<now, external, requests, mix, raced, late>>

-----------------------------------------------------------------------------
(* Browser sessions.                                                       *)

\* Mutant: the loader does not look at revoked_at.
ActiveUnlessExpired(s) == s # None /\ now <= s.expires_at /\ now <= s.idle_expires_at

\* memdot_auth_load_session and is_session_active; the idle limit is set with
\* the session and moved by no request.
Active(s) == s # None /\ ~s.revoked /\ now <= s.expires_at /\ now <= s.idle_expires_at

recent_auth_satisfied(s) == now - s.last_auth_at <= RecentAuth

\* _load_browser_session, and require_csrf where the route asks for it.
LoadSession(h) ==
    LET q == tx[h].q
        s == session[q.session]
    IN /\ At(h, "load") /\ q.op \in {"attest", "logout", "rotate"}
       /\ IF Active(s) /\ q.csrf
          THEN tx' = [tx EXCEPT ![h].at = "flush", ![h].row = s] /\ unchanged ELSE End(h)

\* The routes of the other services load the same row (load_session_context);
\* those that export or delete want a recent login.  They write nothing here.
load_session_context(h) ==
    LET q == tx[h].q
        s == session[q.session]
    IN /\ At(h, "load") /\ q.op = "use"
       /\ late' = (late \/ (/\ Active(s) /\ q.csrf /\ recent_auth_satisfied(s)
                            /\ now - session[s.login].begun > RecentAuth))
       /\ tx' = [tx EXCEPT ![h] = Idle]
       /\ UNCHANGED <<now, identities, session, external, requests, mix, raced>>

\* The UPDATE of the session's or the account's row waits for another one.
FlushSession(h) ==
    LET q == tx[h].q
        key == IF q.op = "attest" THEN <<"account", tx[h].row.account>>
               ELSE <<"session", q.session>>
    IN /\ At(h, "flush")
       /\ Free(h, key)
       /\ Go(h, "commit", {key})

record_adult_attestation(h) ==
    LET a == tx[h].row.account IN
    /\ At(h, "commit") /\ tx[h].q.op = "attest"
    /\ account' = [account EXCEPT ![a].attested = TRUE, ![a].status = "active"]
    /\ tx' = [tx EXCEPT ![h] = Idle]
    /\ UNCHANGED <<now, challenge, replay, bootstrap, session, external, requests, mix, raced,
                   late>>

\* Two handlers that loaded the same live session both revoke it.
Racing(h) ==
    raced \cup (IF session[tx[h].q.session].revoked /\ ~tx[h].row.revoked
                THEN {tx[h].row.login} ELSE {})

logout(h) ==
    /\ At(h, "commit") /\ tx[h].q.op = "logout"
    /\ session' = [session EXCEPT ![tx[h].q.session].revoked = TRUE]
    /\ raced' = Racing(h)
    /\ tx' = [tx EXCEPT ![h] = Idle]
    /\ UNCHANGED <<now, identities, external, requests, mix, late>>

\* Mutant: the rotation counts as a login.
SuccessorAuthenticated(s) == session_expiry([s EXCEPT !.revoked = FALSE, !.last_auth_at = now])

\* A new id and secret, new limits, and the login time of the old session.
Successor(s) == session_expiry([s EXCEPT !.revoked = FALSE])

rotate_session(h) ==
    /\ At(h, "commit") /\ tx[h].q.op = "rotate"
    /\ \E s \in NewSession :
          session' = [session EXCEPT ![tx[h].q.session].revoked = TRUE,
                                     ![s] = Successor(tx[h].row)]
    /\ raced' = Racing(h)
    /\ tx' = [tx EXCEPT ![h] = Idle]
    /\ UNCHANGED <<now, identities, external, requests, mix, late>>

-----------------------------------------------------------------------------
(* The MCP edge.                                                           *)

\* build_service_auth_headers, on a host whose clock is within the skew;
\* the envelope expires MAX_SKEW_SECONDS after its stamp.
Sign(n, ts, purpose, scopes) ==
    /\ "external" \in mix.ops
    /\ {purpose} \cup scopes \subseteq mix.purposes
    /\ Cardinality({m \in Nonces : envelope[m] # None}) < mix.issued
    /\ envelope[n] = None
    /\ envelope' = [envelope EXCEPT ![n] = [made |-> TRUE, ts |-> ts, purpose |-> purpose,
                                            scopes |-> scopes]]
    /\ UNCHANGED <<now, identities, session, nonce, grant, accepted, tx, requests, mix, raced,
                   late>>

RevokeGrant ==
    /\ "external" \in mix.ops
    /\ ~grant.revoked
    /\ grant' = [grant EXCEPT !.revoked = TRUE]
    /\ UNCHANGED <<now, identities, session, envelope, nonce, accepted, tx, requests, mix, raced,
                   late>>

\* |now - ts| <= MAX_SKEW_SECONDS and exp >= now, in whole seconds.
Timely(e) ==
    /\ Second(now) <= e.ts + MAX_SKEW_SECONDS
    /\ e.ts <= Second(now) + MAX_SKEW_SECONDS

\* parse_service_auth up to the nonce; its transaction begins here.  Without
\* a good envelope the bearer token is all the request has.
parse_service_auth(h) ==
    LET q == tx[h].q IN
    /\ At(h, "load") /\ q.op = "external"
    /\ IF Timely(envelope[q.nonce])
       THEN tx' = [tx EXCEPT ![h].at = "consume_nonce", ![h].start = now] /\ unchanged
       ELSE Go(h, "resolve", {})

\* Mutant: a nonce is remembered for a second less.
RememberedShorter(n, start) == nonce[n] # None /\ (nonce[n].expires_at - 1) * 2 >= start

Remembered(n, start) == nonce[n] # None /\ nonce[n].expires_at * 2 >= start

\* memdot_consume_service_auth_nonce: the rows that expired before the
\* transaction began are deleted, and its own is inserted if it is not there.
\* Both wait for another transaction that deletes or inserts the same row.
consume_service_auth_nonce(h) ==
    LET n == tx[h].q.nonce
        start == tx[h].start
        written == {m \in Nonces : (nonce[m] # None \/ m = n) /\ ~Remembered(m, start)}
    IN /\ At(h, "consume_nonce")
       /\ \A m \in written \cup {n} : Free(h, <<"nonce", m>>)
       /\ tx' = [tx EXCEPT ![h].at = "resolve", ![h].consumed = n \in written,
                           ![h].locks = {<<"nonce", m>> : m \in written}]
       /\ unchanged

\* load_external_context: the grant is looked up again and cuts the scopes
\* down; the purpose is the route's, and an envelope has to name it too.
resolve_external_grant(h) ==
    LET q == tx[h].q
        e == envelope[q.nonce]
        scopes == grant.scopes \cap (IF tx[h].consumed THEN e.scopes ELSE q.bearer)
    IN /\ At(h, "resolve")
       /\ tx' = [tx EXCEPT ![h].at = "commit", ![h].row =
                    IF /\ ~grant.revoked
                       /\ q.purpose \in scopes
                       /\ tx[h].consumed => e.purpose = q.purpose
                    THEN [made |-> TRUE, purpose |-> q.purpose, scopes |-> scopes] ELSE None]
       /\ unchanged

\* Served or refused, what was done to the nonces is committed.
CommitExternal(h) ==
    LET n == tx[h].q.nonce
        began == Second(tx[h].start)
    IN /\ At(h, "commit") /\ tx[h].q.op = "external"
       /\ nonce' = [m \in Nonces |->
                       IF <<"nonce", m>> \notin tx[h].locks THEN nonce[m]
                       ELSE IF m = n THEN [made |-> TRUE, expires_at |-> began + MAX_SKEW_SECONDS]
                       ELSE None]
       /\ accepted' = IF tx[h].consumed
                      THEN [accepted EXCEPT ![n] =
                              Append(@, [began |-> began, ended |-> Second(now)])]
                      ELSE accepted
       /\ tx' = [tx EXCEPT ![h] = Idle]
       /\ UNCHANGED <<now, identities, session, envelope, grant, requests, mix, raced, late>>

-----------------------------------------------------------------------------
\* The exception, the lost connection or the end of the process.
Undo(h) == tx[h] # Idle /\ End(h)

Step(h) ==
    \/ LoadChallenge(h) \/ exchange_code(h) \/ RecordReplay(h) \/ Consume(h)
    \/ Provision(h) \/ InsertAccount(h) \/ CommitLogin(h)
    \/ LoadSession(h) \/ load_session_context(h) \/ FlushSession(h)
    \/ record_adult_attestation(h) \/ logout(h) \/ rotate_session(h)
    \/ parse_service_auth(h) \/ consume_service_auth_nonce(h) \/ resolve_external_grant(h)
    \/ CommitExternal(h)

Next ==
    \/ Tick
    \/ \E c \in Challenges : oidc_begin(c)
    \/ \E n \in Nonces, ts \in 0 .. Second(now) + MAX_SKEW_SECONDS, p \in Purposes,
         scopes \in SUBSET Purposes : Sign(n, ts, p, scopes)
    \/ RevokeGrant
    \/ \E h \in Handlers :
          ReceiveCallback(h) \/ ReceiveSession(h) \/ ReceiveExternal(h) \/ Step(h) \/ Undo(h)

Spec == Init /\ [][Next]_vars

-----------------------------------------------------------------------------
(* Properties.                                                             *)

Sessions == {s \in SessionIds : session[s] # None}
Logins == {s \in Sessions : session[s].login = s}
Live(s) == ~session[s].revoked

\* A login is its own: no challenge and no token begins two of them, the
\* session belongs to the account of the token's subject, a subject has one
\* account and there is one operator, whoever logs in at the same time.  A
\* hosted account is active only by its attestation.
LoginOnce ==
    /\ \A s, r \in Logins : s # r =>
          /\ session[s].by # session[r].by
          /\ session[s].jti = "none" \/ session[s].jti # session[r].jti
    /\ \A s \in Sessions : account[session[s].account].subject = session[s].subject
    /\ \A c \in Subjects : Cardinality(AccountOf(c)) <= 1
    /\ \A a \in AccountIds : account[a] # None =>
          (account[a].status = "active") = (account[a].attested \/ a = bootstrap)

\* Logout and rotation end the session they are called with: of the sessions
\* that descend from one login at most one is live, and two only after two
\* handlers loaded the same session before either had revoked it.
OneLivePerLogin ==
    \A s, r \in Sessions :
        s # r /\ Live(s) /\ Live(r) /\ session[s].login = session[r].login
            => session[s].login \in raced

\* An export or a deletion is served only RecentAuth after its user was with
\* the issuer, however often the session was rotated since.
RecentAuthIsRecent == ~late

\* An envelope is consumed once while it can be told from a replay: a second
\* call that consumes it ends MAX_SKEW_SECONDS after the first one began, when
\* its row has expired but its stamp was still in time.  The second may have
\* begun before that: a later call, of any envelope, deletes the row.
ReplayNeedsASkew ==
    \A n \in Nonces : \A i, j \in DOMAIN accepted[n] :
        i < j => accepted[n][j].ended >= accepted[n][i].began + MAX_SKEW_SECONDS

SessionsStay ==
    \A s \in Sessions : session'[s] \in {session[s], [session[s] EXCEPT !.revoked = TRUE]}
IdentitiesStay ==
    /\ replay \subseteq replay'
    /\ \A c \in Challenges : challenge[c] # None /\ challenge[c].consumed =>
          challenge'[c] = challenge[c]
    /\ \A a \in AccountIds : account[a] # None =>
          account'[a] \in {account[a], [account[a] EXCEPT !.attested = TRUE,
                                                         !.status = "active"]}
    /\ bootstrap # 0 => bootstrap' = bootstrap

\* What was ended or used up stays so, whoever still works with what he read
\* before: a revoked session is never live again and no session's limits are
\* moved, a consumed challenge and a token's id are never free again, a
\* revoked grant is not restored, and an account keeps its subject, its
\* attestation and its operator.
SpentStaysSpent ==
    [][SessionsStay /\ IdentitiesStay /\ (grant.revoked => grant' = grant)]_vars
=============================================================================
