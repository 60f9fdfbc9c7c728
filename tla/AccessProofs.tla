---------------------------- MODULE AccessProofs ----------------------------
(***************************************************************************)
(* That logins, sessions and envelopes keep the invariants of Access for   *)
(* any number of handlers, challenges, tokens and envelopes.               *)
(*                                                                         *)
(* A handler works with what it read earlier, so the invariant says of     *)
(* every phase which of it still holds: by a lock the handler keeps, or    *)
(* because nobody ever changes it.                                         *)
(***************************************************************************)
EXTENDS Access, FiniteSetTheorems, TLAPS

Provisioned == [made : {TRUE}, operator : BOOLEAN, new : BOOLEAN]
Resolved == [made : {TRUE}, purpose : Purposes, scopes : SUBSET Purposes]
Nonce == [made : {TRUE}, expires_at : Nat]

Rows == {None} \cup Provisioned \cup BrowserSession \cup Resolved
Requests == {None} \cup Request
Tokens == {None} \cup Token
Ids == {0} \cup AccountIds

Named == Jtis \cup Challenges \cup Subjects \cup AccountIds \cup SessionIds \cup Nonces
Key == {<<"bootstrap">>} \cup
       ({"jti", "challenge", "subject", "account", "session", "nonce"} \X Named)

Tx == [at : {"idle"} \cup Phase, q : Requests, token : Tokens, locks : SUBSET Key,
       id : Ids, row : Rows, start : Nat, consumed : BOOLEAN]

-----------------------------------------------------------------------------
(* The tables.                                                             *)

AccountsOK ==
    /\ \A a \in AccountIds : account[a] # None =>
          (account[a].status = "active") = (account[a].attested \/ a = bootstrap)
    /\ \A a, b \in AccountIds :
          account[a] # None /\ account[b] # None /\ account[a].subject = account[b].subject
              => a = b
    /\ bootstrap # 0 => account[bootstrap] # None

\* A session carries its login's time and is its account's; its challenge and
\* its token are spent.
SessionOK(s) ==
    /\ session[s].login \in Sessions
    /\ session[session[s].login].login = session[s].login
    /\ session[session[s].login].begun = session[s].begun
    /\ session[s].last_auth_at = session[s].begun
    /\ account[session[s].account] # None
    /\ account[session[s].account].subject = session[s].subject
    /\ challenge[session[s].by] # None
    /\ challenge[session[s].by].consumed
    /\ session[s].jti # "none" => session[s].jti \in replay

LoginsApart ==
    \A s, r \in Logins : s # r =>
        /\ session[s].by # session[r].by
        /\ session[s].jti = "none" \/ session[s].jti # session[r].jti

SessionsOK == LoginsApart /\ OneLivePerLogin /\ \A s \in Sessions : SessionOK(s)

\* Every call that consumed n began a skew ago.
Due(n) ==
    \A i \in DOMAIN accepted[n] : accepted[n][i].began + MAX_SKEW_SECONDS <= Second(now)

\* A call that consumed n is covered by n's row or began a skew ago.
NoncesOK ==
    \A n \in Nonces : \A i \in DOMAIN accepted[n] :
        \/ nonce[n] # None /\ accepted[n][i].began + MAX_SKEW_SECONDS <= nonce[n].expires_at
        \/ accepted[n][i].began + MAX_SKEW_SECONDS <= Second(now)

-----------------------------------------------------------------------------
(* The handlers.                                                           *)

CallbackPhase == {"load", "exchange", "replay", "consume", "provision", "insert", "commit"}
SessionPhase == {"load", "flush", "commit"}
ExternalPhase == {"load", "consume_nonce", "resolve", "commit"}

\* The account a callback has found or is about to insert.
AccountReady(x) ==
    /\ x.id \in AccountIds
    /\ x.row \in Provisioned
    /\ x.row.new => account[x.id] = None
    /\ ~x.row.new => account[x.id] # None /\ account[x.id].subject = x.token.subject
    /\ x.row.operator => x.row.new
    /\ x.at = "commit" /\ x.row.new =>
          <<"subject", x.token.subject>> \in x.locks /\ AccountOf(x.token.subject) = {}
    /\ x.at = "commit" /\ x.row.operator => <<"bootstrap">> \in x.locks /\ bootstrap = 0

CallbackOK(x) ==
    /\ x.q \in Callback
    /\ x.at \in CallbackPhase
    /\ challenge[x.q.state] # None
    /\ x.at \notin {"load", "exchange"} => x.token \in Token
    /\ x.at = "replay" => x.token.jti \in Jtis
    /\ x.at \in {"consume", "provision", "insert", "commit"} /\ x.token.jti # "none" =>
          <<"jti", x.token.jti>> \in x.locks /\ x.token.jti \notin replay
    /\ x.at \in {"provision", "insert", "commit"} =>
          <<"challenge", x.q.state>> \in x.locks /\ ~challenge[x.q.state].consumed
    /\ x.at \in {"insert", "commit"} => AccountReady(x)

\* Of a session it loaded, only the revocation can have changed since.
SessionRequestOK(x) ==
    /\ x.q \in SessionRequest
    /\ x.at \in SessionPhase
    /\ session[x.q.session] # None
    /\ x.at # "load" => x.row = [session[x.q.session] EXCEPT !.revoked = FALSE]

ExternalOK(x) ==
    /\ x.q \in External
    /\ x.at \in ExternalPhase
    /\ envelope[x.q.nonce] # None
    /\ x.start <= now
    /\ x.consumed => <<"nonce", x.q.nonce>> \in x.locks
    /\ \A n \in Nonces : <<"nonce", n>> \in x.locks => Due(n)

TxOK(x) == x = Idle \/ CallbackOK(x) \/ SessionRequestOK(x) \/ ExternalOK(x)

Exclusive == \A g, h \in Handlers : g # h => tx[g].locks \cap tx[h].locks = {}

\* No two handlers insert the same account.
Inserting(x) == x.at \in {"insert", "commit"} /\ x.q \in Callback /\ x.row.new
InsertsApart ==
    \A g, h \in Handlers : g # h /\ Inserting(tx[g]) /\ Inserting(tx[h]) => tx[g].id # tx[h].id

HandlersOK ==
    /\ tx \in [Handlers -> Tx]
    /\ Exclusive
    /\ InsertsApart
    /\ \A h \in Handlers : TxOK(tx[h])

Tables ==
    /\ mix \in Mixes
    /\ now \in 0 .. mix.time /\ requests \in 0 .. mix.requests
    /\ challenge \in [Challenges -> {None} \cup Challenge]
    /\ replay \subseteq Jtis
    /\ account \in [AccountIds -> {None} \cup Account]
    /\ bootstrap \in Ids
    /\ session \in [SessionIds -> {None} \cup BrowserSession]
    /\ envelope \in [Nonces -> {None} \cup Envelope]
    /\ nonce \in [Nonces -> {None} \cup Nonce]
    /\ grant \in [scopes : SUBSET Purposes, revoked : BOOLEAN]
    /\ raced \subseteq SessionIds
    /\ late = FALSE
    /\ accepted \in [Nonces -> Seq(Accepted)]

IInv == Tables /\ AccountsOK /\ SessionsOK /\ NoncesOK /\ ReplayNeedsASkew /\ HandlersOK

-----------------------------------------------------------------------------
(* Steps of one handler.                                                   *)

LEMMA IdleTx == Idle \in Tx /\ None \notin Request /\ TxOK(Idle) /\ ~Inserting(Idle)
<1>1. Idle \in Tx
  BY DEF Idle, Tx, Requests, Tokens, Ids, Rows
<1>2. None \notin Request
  BY DEF None, Request, Callback, SessionRequest, External
<1>3. TxOK(Idle) /\ ~Inserting(Idle)
  BY DEF TxOK, Inserting, Idle
<1> QED
  BY <1>1, <1>2, <1>3

\* What a handler knows stays true when no table changes.
LEMMA TxKept ==
    ASSUME NEW x, TxOK(x), unchanged
    PROVE  TxOK(x)'
<1>1. UNCHANGED <<now, challenge, replay, account, bootstrap, session, envelope, nonce, accepted>>
  BY DEF unchanged, identities, external
<1>2. CallbackOK(x) => CallbackOK(x)'
  BY <1>1 DEF CallbackOK, AccountReady, AccountOf
<1>3. SessionRequestOK(x) => SessionRequestOK(x)'
  BY <1>1 DEF SessionRequestOK
<1>4. ExternalOK(x) => ExternalOK(x)'
  BY <1>1 DEF ExternalOK, Due
<1> QED
  BY <1>2, <1>3, <1>4 DEF TxOK

LEMMA TablesKept ==
    ASSUME unchanged, Tables /\ AccountsOK /\ SessionsOK /\ NoncesOK /\ ReplayNeedsASkew
    PROVE  (Tables /\ AccountsOK /\ SessionsOK /\ NoncesOK /\ ReplayNeedsASkew)'
<1>1. UNCHANGED <<now, challenge, replay, account, bootstrap, session, envelope, nonce, grant,
                  accepted, requests, mix, raced, late>>
  BY DEF unchanged, identities, external
<1> QED
  BY <1>1 DEF Tables, AccountsOK, SessionsOK, LoginsApart, OneLivePerLogin, SessionOK, Sessions,
              Logins, Live, NoncesOK, ReplayNeedsASkew

\* The step of a handler that only this handler sees.
LEMMA Moves ==
    ASSUME IInv, NEW h \in Handlers, NEW x \in Tx, tx' = [tx EXCEPT ![h] = x], unchanged,
           TxOK(x),
           \A g \in Others(h) : x.locks \cap tx[g].locks = {},
           Inserting(x) => \A g \in Others(h) : Inserting(tx[g]) => tx[g].id # x.id
    PROVE  IInv'
<1>1. /\ tx' \in [Handlers -> Tx]
      /\ tx'[h] = x
      /\ \A g \in Others(h) : tx'[g] = tx[g]
  BY DEF IInv, HandlersOK, Others
<1>2. Exclusive'
  BY <1>1 DEF IInv, HandlersOK, Exclusive, Others
<1>3. InsertsApart'
  BY <1>1 DEF IInv, HandlersOK, InsertsApart, Inserting, Others
<1>4. ASSUME NEW g \in Handlers PROVE TxOK(tx[g])'
  <2>1. PICK y : y = tx'[g]
    OBVIOUS
  <2>2. TxOK(y)
    BY <1>1, <2>1 DEF IInv, HandlersOK, Others
  <2>3. TxOK(y)'
    BY <2>2, TxKept
  <2> QED
    BY <2>1, <2>3
<1>5. HandlersOK'
  BY <1>1, <1>2, <1>3, <1>4 DEF HandlersOK
<1> QED
  BY <1>5, TablesKept DEF IInv

LEMMA Ends ==
    ASSUME IInv, NEW h \in Handlers, End(h)
    PROVE  IInv'
<1>1. Idle \in Tx /\ TxOK(Idle) /\ ~Inserting(Idle)
  BY IdleTx
<1>2. \A g \in Others(h) : Idle.locks \cap tx[g].locks = {}
  BY DEF Idle
<1>3. tx' = [tx EXCEPT ![h] = Idle] /\ unchanged
  BY DEF End
<1> QED
  BY <1>1, <1>2, <1>3, Moves

\* Busy with q, and what q's kind of request knows.
LEMMA Busy ==
    ASSUME IInv, NEW h \in Handlers, tx[h].at # "idle"
    PROVE  /\ tx[h] \in Tx /\ tx[h].q \in Request
           /\ tx[h].q.op = "callback" => CallbackOK(tx[h])
           /\ tx[h].q.op = "external" => ExternalOK(tx[h])
           /\ tx[h].q.op \notin {"callback", "external"} => SessionRequestOK(tx[h])
<1>1. tx[h] \in Tx /\ TxOK(tx[h])
  BY DEF IInv, HandlersOK
<1>2. tx[h] # Idle
  BY DEF Idle
<1>3. CallbackOK(tx[h]) \/ SessionRequestOK(tx[h]) \/ ExternalOK(tx[h])
  BY <1>1, <1>2 DEF TxOK
<1>4. \A q \in Callback : q.op = "callback"
  BY DEF Callback
<1>5. \A q \in SessionRequest : q.op \in {"attest", "logout", "rotate", "use"}
  BY DEF SessionRequest
<1>6. \A q \in External : q.op = "external"
  BY DEF External
<1>7. tx[h].q \in Request
  BY <1>3 DEF CallbackOK, SessionRequestOK, ExternalOK, Request
<1>8. CallbackOK(tx[h]) => tx[h].q.op = "callback"
  BY <1>4 DEF CallbackOK
<1>9. SessionRequestOK(tx[h]) => tx[h].q.op \in {"attest", "logout", "rotate", "use"}
  BY <1>5 DEF SessionRequestOK
<1>10. ExternalOK(tx[h]) => tx[h].q.op = "external"
  BY <1>6 DEF ExternalOK
<1> QED
  BY <1>1, <1>3, <1>7, <1>8, <1>9, <1>10

\* The handler goes on, having locked rows that are free.
LEMMA Goes ==
    ASSUME IInv, NEW h \in Handlers, NEW phase \in Phase, NEW keys \in SUBSET Key,
           \A k \in keys : Free(h, k),
           Go(h, phase, keys),
           NEW x, x = [tx[h] EXCEPT !.at = phase, !.locks = @ \cup keys],
           TxOK(x),
           Inserting(x) => Inserting(tx[h])
    PROVE  IInv'
<1>1. tx[h] \in Tx /\ tx \in [Handlers -> Tx]
  BY DEF IInv, HandlersOK
<1>2. x.locks = tx[h].locks \cup keys /\ x.id = tx[h].id
  BY <1>1 DEF Tx
<1>3. x \in Tx
  BY <1>1 DEF Tx
<1>4. tx' = [tx EXCEPT ![h] = x] /\ unchanged
  BY <1>1 DEF Go
<1>5. \A g \in Others(h) : x.locks \cap tx[g].locks = {}
  BY <1>2 DEF IInv, HandlersOK, Exclusive, Free, Others
<1>6. Inserting(x) => \A g \in Others(h) : Inserting(tx[g]) => tx[g].id # x.id
  BY <1>2 DEF IInv, HandlersOK, InsertsApart, Others
<1> QED
  BY <1>3, <1>4, <1>5, <1>6, Moves

-----------------------------------------------------------------------------
(* The first state, the clock, and what comes from outside.                *)

LEMMA InitInv == Init => IInv
<1> SUFFICES ASSUME Init PROVE IInv
  OBVIOUS
<1>1. Tables
  <2>1. mix \in Mixes /\ mix.time \in Nat /\ mix.requests \in Nat
    BY AccessAssumption DEF Init
  <2>2. grant \in [scopes : SUBSET Purposes, revoked : BOOLEAN]
    BY AccessAssumption DEF Init
  <2>3. accepted \in [Nonces -> Seq(Accepted)]
    BY DEF Init
  <2> QED
    BY <2>1, <2>2, <2>3 DEF Init, Tables, Ids
<1>2. AccountsOK
  BY DEF Init, AccountsOK
<1>3. SessionsOK
  <2>1. Sessions = {}
    BY DEF Init, Sessions
  <2> QED
    BY <2>1 DEF SessionsOK, LoginsApart, Logins, OneLivePerLogin
<1>4. NoncesOK /\ ReplayNeedsASkew
  <2>1. \A n \in Nonces : accepted[n] = <<>>
    BY DEF Init
  <2> QED
    BY <2>1 DEF NoncesOK, ReplayNeedsASkew
<1>5. HandlersOK
  <2>1. Idle \in Tx /\ TxOK(Idle) /\ ~Inserting(Idle)
    BY IdleTx
  <2>2. tx \in [Handlers -> Tx] /\ \A h \in Handlers : tx[h] = Idle
    BY <2>1 DEF Init
  <2>3. Exclusive
    BY <2>2 DEF Exclusive, Idle
  <2>4. InsertsApart
    BY <2>1, <2>2 DEF InsertsApart
  <2> QED
    BY <2>1, <2>2, <2>3, <2>4 DEF HandlersOK
<1> QED
  BY <1>1, <1>2, <1>3, <1>4, <1>5 DEF IInv

LEMMA HandlersKept ==
    ASSUME HandlersOK, tx' = tx, \A h \in Handlers : \A x : x = tx[h] => TxOK(x)'
    PROVE  HandlersOK'
<1>1. Exclusive' /\ InsertsApart'
  BY DEF HandlersOK, Exclusive, InsertsApart, Inserting
<1>2. ASSUME NEW h \in Handlers PROVE TxOK(tx[h])'
  <2>1. PICK x : x = tx[h]
    OBVIOUS
  <2>2. TxOK(x)'
    BY <2>1
  <2> QED
    BY <2>1, <2>2
<1> QED
  BY <1>1, <1>2 DEF HandlersOK

\* Time makes more calls due.
LEMMA TickInv ==
    ASSUME IInv, Tick
    PROVE  IInv'
<1>1. UNCHANGED <<challenge, replay, account, bootstrap, session, envelope, nonce, grant,
                  accepted, tx, requests, mix, raced, late>>
  BY DEF Tick, identities, external
<1>2. mix.time \in Nat /\ now \in 0 .. mix.time /\ now' = now + 1 /\ now < mix.time
  BY AccessAssumption DEF IInv, Tables, Tick
<1>3. now \in Nat /\ now' \in 0 .. mix.time
  BY <1>2
<1>4. Tables'
  BY <1>1, <1>3 DEF IInv, Tables
<1>5. AccountsOK' /\ SessionsOK' /\ ReplayNeedsASkew'
  BY <1>1 DEF IInv, AccountsOK, SessionsOK, LoginsApart, OneLivePerLogin, SessionOK, Sessions,
              Logins, Live, ReplayNeedsASkew
<1>6. Second(now) <= Second(now)' /\ Second(now) \in Nat /\ Second(now)' \in Nat
  BY <1>2, <1>3 DEF Second
<1>7. \A n \in Nonces : \A i \in DOMAIN accepted[n] :
         accepted[n][i].began + MAX_SKEW_SECONDS \in Nat
  <2> SUFFICES ASSUME NEW n \in Nonces, NEW i \in DOMAIN accepted[n]
               PROVE  accepted[n][i].began + MAX_SKEW_SECONDS \in Nat
    OBVIOUS
  <2>1. accepted[n] \in Seq(Accepted)
    BY DEF IInv, Tables
  <2>2. accepted[n][i] \in Accepted
    BY <2>1
  <2> QED
    BY <2>2, AccessAssumption DEF Accepted
<1>8. \A n \in Nonces : Due(n) => Due(n)'
  BY <1>1, <1>6, <1>7 DEF Due
<1>9. NoncesOK'
  BY <1>1, <1>6, <1>7 DEF IInv, NoncesOK
<1>10. ASSUME NEW x \in Tx, TxOK(x) PROVE TxOK(x)'
  <2>1. CallbackOK(x) => CallbackOK(x)'
    BY <1>1 DEF CallbackOK, AccountReady, AccountOf
  <2>2. SessionRequestOK(x) => SessionRequestOK(x)'
    BY <1>1 DEF SessionRequestOK
  <2>3. x.start \in Nat
    BY DEF Tx
  <2>4. x.start <= now => x.start <= now'
    BY <2>3, <1>2, <1>3
  <2>5. ExternalOK(x) => ExternalOK(x)'
    BY <1>1, <1>8, <2>4 DEF ExternalOK
  <2> QED
    BY <1>10, <2>1, <2>2, <2>5 DEF TxOK
<1>11. \A h \in Handlers : \A x : x = tx[h] => TxOK(x)'
  BY <1>10 DEF IInv, HandlersOK
<1>12. HandlersOK /\ tx' = tx
  BY <1>1 DEF IInv
<1>13. HandlersOK'
  BY <1>11, <1>12, HandlersKept
<1> QED
  BY <1>4, <1>5, <1>9, <1>13 DEF IInv

LEMMA BeginInv ==
    ASSUME IInv, NEW c \in Challenges, oidc_begin(c)
    PROVE  IInv'
<1>1. UNCHANGED <<now, replay, account, bootstrap, session, envelope, nonce, grant,
                  accepted, tx, requests, mix, raced, late>>
  BY DEF oidc_begin, external
<1>2. challenge \in [Challenges -> {None} \cup Challenge] /\ now \in Nat
  BY AccessAssumption DEF IInv, Tables
<1>3. [made |-> TRUE, consumed |-> FALSE, expires_at |-> now + ChallengeTtl] \in Challenge
  BY <1>2, AccessAssumption DEF Challenge
<1>4. /\ challenge' \in [Challenges -> {None} \cup Challenge]
      /\ \A d \in Challenges : challenge[d] # None => challenge'[d] = challenge[d]
  BY <1>2, <1>3 DEF oidc_begin
<1>5. Tables'
  BY <1>1, <1>4 DEF IInv, Tables
<1>6. AccountsOK' /\ ReplayNeedsASkew' /\ NoncesOK'
  BY <1>1 DEF IInv, AccountsOK, NoncesOK, ReplayNeedsASkew
<1>7. LoginsApart' /\ OneLivePerLogin'
  BY <1>1 DEF IInv, SessionsOK, LoginsApart, OneLivePerLogin, Sessions, Logins, Live
<1>8. ASSUME NEW s \in Sessions PROVE SessionOK(s)'
  <2>1. SessionOK(s) /\ session[s] \in BrowserSession
    BY DEF IInv, Tables, SessionsOK, Sessions
  <2>2. session[s].by \in Challenges
    BY <2>1 DEF BrowserSession
  <2> QED
    BY <1>1, <1>4, <2>1, <2>2 DEF SessionOK, Sessions
<1>9. SessionsOK'
  BY <1>1, <1>7, <1>8 DEF SessionsOK, Sessions
<1>10. ASSUME NEW x \in Tx, TxOK(x) PROVE TxOK(x)'
  <2>1. CallbackOK(x) => CallbackOK(x)'
    <3>1. \A q \in Callback : q.state \in Challenges
      BY DEF Callback
    <3> QED
      BY <1>1, <1>4, <3>1 DEF CallbackOK, AccountReady, AccountOf
  <2>2. SessionRequestOK(x) => SessionRequestOK(x)'
    BY <1>1 DEF SessionRequestOK
  <2>3. ExternalOK(x) => ExternalOK(x)'
    BY <1>1 DEF ExternalOK, Due
  <2> QED
    BY <1>10, <2>1, <2>2, <2>3 DEF TxOK
<1>11. \A h \in Handlers : \A x : x = tx[h] => TxOK(x)'
  BY <1>10 DEF IInv, HandlersOK
<1>12. HandlersOK /\ tx' = tx
  BY <1>1 DEF IInv
<1>13. HandlersOK'
  BY <1>11, <1>12, HandlersKept
<1> QED
  BY <1>5, <1>6, <1>9, <1>13 DEF IInv

LEMMA SignInv ==
    ASSUME IInv, NEW n \in Nonces, NEW ts \in Nat, NEW p \in Purposes,
           NEW scopes \in SUBSET Purposes, Sign(n, ts, p, scopes)
    PROVE  IInv'
<1>1. UNCHANGED <<now, challenge, replay, account, bootstrap, session, nonce, grant,
                  accepted, tx, requests, mix, raced, late>>
  BY DEF Sign, identities
<1>2. [made |-> TRUE, ts |-> ts, purpose |-> p, scopes |-> scopes] \in Envelope
  BY DEF Envelope
<1>3. /\ envelope' \in [Nonces -> {None} \cup Envelope]
      /\ \A m \in Nonces : envelope[m] # None => envelope'[m] # None
  BY <1>2 DEF IInv, Tables, Sign
<1>4. Tables'
  BY <1>1, <1>3 DEF IInv, Tables
<1>5. AccountsOK' /\ SessionsOK' /\ ReplayNeedsASkew' /\ NoncesOK'
  BY <1>1 DEF IInv, AccountsOK, SessionsOK, LoginsApart, OneLivePerLogin, SessionOK, Sessions,
              Logins, Live, NoncesOK, ReplayNeedsASkew
<1>6. ASSUME NEW x, TxOK(x) PROVE TxOK(x)'
  <2>1. CallbackOK(x) => CallbackOK(x)'
    BY <1>1 DEF CallbackOK, AccountReady, AccountOf
  <2>2. SessionRequestOK(x) => SessionRequestOK(x)'
    BY <1>1 DEF SessionRequestOK
  <2>3. \A q \in External : q.nonce \in Nonces
    BY DEF External
  <2>4. ExternalOK(x) => ExternalOK(x)'
    BY <1>1, <1>3, <2>3 DEF ExternalOK, Due
  <2> QED
    BY <1>6, <2>1, <2>2, <2>4 DEF TxOK
<1>7. \A h \in Handlers : \A x : x = tx[h] => TxOK(x)'
  BY <1>6 DEF IInv, HandlersOK
<1>8. HandlersOK /\ tx' = tx
  BY <1>1 DEF IInv
<1>9. HandlersOK'
  BY <1>7, <1>8, HandlersKept
<1> QED
  BY <1>4, <1>5, <1>9 DEF IInv

LEMMA RevokeGrantInv ==
    ASSUME IInv, RevokeGrant
    PROVE  IInv'
<1>1. UNCHANGED <<now, challenge, replay, account, bootstrap, session, envelope, nonce,
                  accepted, tx, requests, mix, raced, late>>
  BY DEF RevokeGrant, identities
<1>2. Tables'
  BY <1>1 DEF IInv, Tables, RevokeGrant
<1>3. AccountsOK' /\ SessionsOK' /\ ReplayNeedsASkew' /\ NoncesOK'
  BY <1>1 DEF IInv, AccountsOK, SessionsOK, LoginsApart, OneLivePerLogin, SessionOK, Sessions,
              Logins, Live, NoncesOK, ReplayNeedsASkew
<1>4. ASSUME NEW x, TxOK(x) PROVE TxOK(x)'
  BY <1>1, <1>4 DEF TxOK, CallbackOK, AccountReady, AccountOf, SessionRequestOK, ExternalOK, Due
<1>5. \A h \in Handlers : \A x : x = tx[h] => TxOK(x)'
  BY <1>4 DEF IInv, HandlersOK
<1>6. HandlersOK /\ tx' = tx
  BY <1>1 DEF IInv
<1>7. HandlersOK'
  BY <1>5, <1>6, HandlersKept
<1> QED
  BY <1>2, <1>3, <1>7 DEF IInv

\* The row a request names is there, and stays.
Known(q) ==
    \/ q \in Callback /\ challenge[q.state] # None
    \/ q \in SessionRequest /\ session[q.session] # None
    \/ q \in External /\ envelope[q.nonce] # None

LEMMA ReceiveInv ==
    ASSUME IInv, NEW h \in Handlers, NEW q, Known(q), Receive(h, q)
    PROVE  IInv'
<1>1. UNCHANGED <<now, challenge, replay, account, bootstrap, session, envelope, nonce, grant,
                  accepted, mix, raced, late>>
  BY DEF Receive, identities, external
<1>2. PICK x : x = [at |-> "load", q |-> q, token |-> None, locks |-> {}, id |-> 0,
                    row |-> None, start |-> 0, consumed |-> FALSE]
  OBVIOUS
<1>3. tx \in [Handlers -> Tx] /\ tx[h] = Idle
  BY DEF IInv, HandlersOK, Receive
<1>4. /\ DOMAIN tx' = Handlers
      /\ tx'[h] = [Idle EXCEPT !.at = "load", !.q = q]
      /\ \A g \in Others(h) : tx'[g] = tx[g]
  BY <1>3 DEF Receive, Others
<1>5. tx'[h] = x
  BY <1>2, <1>4 DEF Idle
<1>6. x \in Tx /\ x.locks = {} /\ ~Inserting(x)
  <2>1. q \in Requests
    BY DEF Known, Requests, Request
  <2> QED
    BY <1>2, <2>1 DEF Tx, Phase, Tokens, Ids, Rows, Inserting
<1>7. TxOK(x)
  <2>1. now \in Nat
    BY AccessAssumption DEF IInv, Tables
  <2>2. x.at = "load" /\ x.q = q /\ x.start <= now /\ x.consumed = FALSE /\ x.locks = {}
    BY <1>2, <2>1
  <2> QED
    BY <2>2 DEF Known, TxOK, CallbackOK, CallbackPhase, SessionRequestOK, SessionPhase,
                ExternalOK, ExternalPhase
<1>8. tx' = [tx EXCEPT ![h] = x]
  BY <1>3, <1>4, <1>5 DEF Receive, Others
<1>9. Tables'
  <2>1. requests' \in 0 .. mix.requests
    BY AccessAssumption DEF IInv, Tables, Receive
  <2> QED
    BY <1>1, <2>1 DEF IInv, Tables
<1>10. AccountsOK' /\ SessionsOK' /\ ReplayNeedsASkew' /\ NoncesOK'
  BY <1>1 DEF IInv, AccountsOK, SessionsOK, LoginsApart, OneLivePerLogin, SessionOK, Sessions,
              Logins, Live, NoncesOK, ReplayNeedsASkew
<1>11. tx' \in [Handlers -> Tx] /\ tx'[h] = x /\ \A g \in Others(h) : tx'[g] = tx[g]
  BY <1>3, <1>4, <1>5, <1>6, <1>8
<1>12. Exclusive' /\ InsertsApart'
  BY <1>6, <1>11 DEF IInv, HandlersOK, Exclusive, InsertsApart, Inserting, Others
<1>13. ASSUME NEW y, TxOK(y) PROVE TxOK(y)'
  BY <1>1, <1>13 DEF TxOK, CallbackOK, AccountReady, AccountOf, SessionRequestOK, ExternalOK, Due
<1>14. ASSUME NEW g \in Handlers PROVE TxOK(tx[g])'
  <2>1. PICK y : y = tx'[g]
    OBVIOUS
  <2>2. TxOK(y)
    BY <1>7, <1>11, <2>1 DEF IInv, HandlersOK, Others
  <2>3. TxOK(y)'
    BY <2>2, <1>13
  <2> QED
    BY <2>1, <2>3
<1> QED
  BY <1>9, <1>10, <1>11, <1>12, <1>14 DEF IInv, HandlersOK

LEMMA ArrivalsInv ==
    ASSUME IInv, NEW h \in Handlers,
           ReceiveCallback(h) \/ ReceiveSession(h) \/ ReceiveExternal(h)
    PROVE  IInv'
<1>1. PICK q : Known(q) /\ Receive(h, q)
  BY DEF ReceiveCallback, ReceiveSession, ReceiveExternal, Known
<1> QED
  BY <1>1, ReceiveInv

-----------------------------------------------------------------------------
(* Login.                                                                  *)

LEMMA LoadChallengeInv ==
    ASSUME IInv, NEW h \in Handlers, LoadChallenge(h)
    PROVE  IInv'
<1>1. CASE End(h)
  BY <1>1, Ends
<1>2. CASE Go(h, "exchange", {})
  <2>1. tx[h].at = "load" /\ tx[h].q.op = "callback"
    BY DEF LoadChallenge, At
  <2>2. tx[h] \in Tx /\ CallbackOK(tx[h])
    BY <2>1, Busy
  <2>3. PICK x : x = [tx[h] EXCEPT !.at = "exchange", !.locks = @ \cup {}]
    OBVIOUS
  <2>4. x.at = "exchange" /\ x.q = tx[h].q
    BY <2>2, <2>3 DEF Tx
  <2>5. TxOK(x) /\ ~Inserting(x)
    BY <2>2, <2>4 DEF TxOK, CallbackOK, CallbackPhase, Inserting
  <2>6. "exchange" \in Phase /\ {} \in SUBSET Key /\ \A k \in {} : Free(h, k)
    BY DEF Phase
  <2> QED
    BY <1>2, <2>3, <2>5, <2>6, Goes
<1> QED
  BY <1>1, <1>2 DEF LoadChallenge

LEMMA ExchangeInv ==
    ASSUME IInv, NEW h \in Handlers, exchange_code(h)
    PROVE  IInv'
<1>1. CASE End(h)
  BY <1>1, Ends
<1>2. ASSUME NEW t \in Token,
             tx' = [tx EXCEPT ![h].at = IF t.jti = "none" THEN "consume" ELSE "replay",
                              ![h].token = t],
             unchanged
      PROVE  IInv'
  <2>1. tx[h].at = "exchange"
    BY DEF exchange_code, At
  <2>2. tx[h] \in Tx /\ TxOK(tx[h]) /\ tx \in [Handlers -> Tx]
    BY DEF IInv, HandlersOK
  <2>3. CallbackOK(tx[h])
    BY <2>1, <2>2 DEF TxOK, Idle, SessionRequestOK, SessionPhase, ExternalOK, ExternalPhase
  <2>4. PICK phase \in {"consume", "replay"} :
           phase = IF t.jti = "none" THEN "consume" ELSE "replay"
    OBVIOUS
  <2>5. PICK x : x = [tx[h] EXCEPT !.at = phase, !.token = t]
    OBVIOUS
  <2>6. x.at = phase /\ x.q = tx[h].q /\ x.token = t /\ x.locks = tx[h].locks
    BY <2>2, <2>5 DEF Tx
  <2>7. x \in Tx
    BY <2>2, <2>4, <2>5 DEF Tx, Phase, Tokens
  <2>8. tx' = [tx EXCEPT ![h] = x]
    BY <1>2, <2>2, <2>4, <2>5
  <2>9. t.jti \in Jtis \cup {"none"}
    BY DEF Token
  <2>10. TxOK(x) /\ ~Inserting(x)
    BY <2>3, <2>4, <2>6, <2>9 DEF TxOK, CallbackOK, CallbackPhase, Inserting
  <2>11. \A g \in Others(h) : x.locks \cap tx[g].locks = {}
    BY <2>6 DEF IInv, HandlersOK, Exclusive, Others
  <2> QED
    BY <1>2, <2>7, <2>8, <2>10, <2>11, Moves
<1> QED
  BY <1>1, <1>2 DEF exchange_code

LEMMA RecordReplayInv ==
    ASSUME IInv, NEW h \in Handlers, RecordReplay(h)
    PROVE  IInv'
<1> DEFINE j == tx[h].token.jti
<1>1. CASE End(h)
  BY <1>1, Ends
<1>2. CASE j \notin replay /\ Go(h, "consume", {<<"jti", j>>})
  <2>1. tx[h].at = "replay"
    BY DEF RecordReplay, At
  <2>2. tx[h] \in Tx /\ TxOK(tx[h])
    BY DEF IInv, HandlersOK
  <2>3. CallbackOK(tx[h])
    BY <2>1, <2>2 DEF TxOK, Idle, SessionRequestOK, SessionPhase, ExternalOK, ExternalPhase
  <2>4. tx[h].token \in Token /\ j \in Jtis
    BY <2>1, <2>3 DEF CallbackOK
  <2>5. PICK keys : keys = {<<"jti", j>>}
    OBVIOUS
  <2>6. keys \in SUBSET Key
    BY <2>4, <2>5 DEF Key, Named
  <2>7. \A k \in keys : Free(h, k)
    BY <2>5 DEF RecordReplay
  <2>8. PICK x : x = [tx[h] EXCEPT !.at = "consume", !.locks = @ \cup keys]
    OBVIOUS
  <2>9. /\ x.at = "consume" /\ x.q = tx[h].q /\ x.token = tx[h].token
        /\ <<"jti", j>> \in x.locks
    BY <2>2, <2>5, <2>8 DEF Tx
  <2>10. TxOK(x) /\ ~Inserting(x)
    BY <1>2, <2>3, <2>4, <2>9 DEF TxOK, CallbackOK, CallbackPhase, Inserting
  <2>11. "consume" \in Phase /\ Go(h, "consume", keys)
    BY <1>2, <2>5 DEF Phase
  <2> QED
    BY <2>6, <2>7, <2>8, <2>10, <2>11, Goes
<1> QED
  BY <1>1, <1>2 DEF RecordReplay

LEMMA RowsMade ==
    /\ None \notin Challenge /\ None \notin Account
    /\ None \notin BrowserSession /\ None \notin Nonce
<1>1. None.made = FALSE
  BY DEF None
<1>2. \A r \in Challenge : r.made = TRUE
  BY DEF Challenge
<1>3. \A r \in Account : r.made = TRUE
  BY DEF Account
<1>4. \A r \in BrowserSession : r.made = TRUE
  BY DEF BrowserSession
<1>5. \A r \in Nonce : r.made = TRUE
  BY DEF Nonce
<1> QED
  BY <1>1, <1>2, <1>3, <1>4, <1>5

\* A handler that ends, and has changed tables: the others' knowledge stays.
LEMMA Commits ==
    ASSUME HandlersOK, NEW h \in Handlers, tx' = [tx EXCEPT ![h] = Idle],
           \A g \in Others(h) : \A x : x = tx[g] => TxOK(x)'
    PROVE  HandlersOK'
<1>1. Idle \in Tx /\ TxOK(Idle)' /\ ~Inserting(Idle) /\ Idle.locks = {}
  BY IdleTx DEF TxOK, Idle
<1>2. /\ tx' \in [Handlers -> Tx]
      /\ tx'[h] = Idle
      /\ \A g \in Others(h) : tx'[g] = tx[g]
  BY <1>1 DEF HandlersOK, Others
<1>3. Exclusive' /\ InsertsApart'
  BY <1>1, <1>2 DEF HandlersOK, Exclusive, InsertsApart, Inserting, Others
<1>4. ASSUME NEW g \in Handlers PROVE TxOK(tx[g])'
  <2>1. PICK y : y = tx'[g]
    OBVIOUS
  <2>2. TxOK(y)'
    BY <1>1, <1>2, <2>1 DEF Others
  <2> QED
    BY <2>1, <2>2
<1> QED
  BY <1>2, <1>3, <1>4 DEF HandlersOK

\* A login spends its own challenge and its own token, which it holds.
Spends(h) ==
    /\ CallbackOK(tx[h]) /\ tx[h].at \in {"consume", "insert", "commit"}
    /\ replay' = replay \cup Recorded(tx[h].token)
    /\ challenge' \in [Challenges -> {None} \cup Challenge]
    /\ \A c \in Challenges : challenge[c] # None =>
          /\ challenge'[c] # None
          /\ challenge[c].consumed => challenge'[c].consumed
          /\ challenge'[c].consumed =>
                challenge[c].consumed \/ <<"challenge", c>> \in tx[h].locks

LEMMA LoginKept ==
    ASSUME NEW h \in Handlers, Spends(h), NEW x, x.locks \cap tx[h].locks = {}, CallbackOK(x),
           x.at \in {"insert", "commit"} /\ AccountReady(x) => AccountReady(x)'
    PROVE  CallbackOK(x)'
<1>1. x.q.state \in Challenges
  BY DEF CallbackOK, Callback
<1>2. challenge'[x.q.state] # None
  BY <1>1 DEF Spends, CallbackOK
<1>3. x.at \in {"provision", "insert", "commit"} => ~challenge'[x.q.state].consumed
  BY <1>1 DEF Spends, CallbackOK
<1>4. x.at \in {"consume", "provision", "insert", "commit"} /\ x.token.jti # "none"
        => x.token.jti \notin replay'
  <2> SUFFICES ASSUME x.at \in {"consume", "provision", "insert", "commit"},
                      x.token.jti # "none", x.token.jti \in replay'
               PROVE  FALSE
    OBVIOUS
  <2>1. <<"jti", x.token.jti>> \in x.locks /\ x.token.jti \notin replay
    BY DEF CallbackOK
  <2>2. x.token.jti = tx[h].token.jti
    BY <2>1 DEF Spends, Recorded
  <2>3. <<"jti", tx[h].token.jti>> \in tx[h].locks
    BY <2>2 DEF Spends, CallbackOK
  <2> QED
    BY <2>1, <2>2, <2>3
<1> QED
  BY <1>2, <1>3, <1>4 DEF CallbackOK

LEMMA RefuseInv ==
    ASSUME IInv, NEW h \in Handlers, NEW b \in BOOLEAN, Refuse(h, b), CallbackOK(tx[h]),
           tx[h].at \in {"consume", "insert"}, b => tx[h].at = "insert"
    PROVE  IInv'
<1>1. UNCHANGED <<now, account, bootstrap, session, envelope, nonce, grant, accepted, requests,
                  mix, raced, late>>
  BY DEF Refuse, external
<1>2. PICK c \in Challenges : c = tx[h].q.state
  BY DEF CallbackOK, Callback
<1>3. /\ challenge \in [Challenges -> {None} \cup Challenge]
      /\ challenge[c] \in Challenge
      /\ b => <<"challenge", c>> \in tx[h].locks
  BY <1>2 DEF IInv, Tables, CallbackOK
<1>4. challenge' = [challenge EXCEPT ![c] = [challenge[c] EXCEPT !.consumed = @ \/ b]]
  BY <1>2, <1>3 DEF Refuse
<1>5. PICK d \in BOOLEAN : d = challenge[c].consumed
  BY <1>3 DEF Challenge
<1>6. PICK row : row = [challenge[c] EXCEPT !.consumed = d \/ b]
  OBVIOUS
<1>7. row \in Challenge /\ row.consumed = (d \/ b) /\ row # None
  <2>1. row \in Challenge /\ row.consumed = (d \/ b)
    BY <1>3, <1>5, <1>6 DEF Challenge
  <2> QED
    BY <2>1, RowsMade
<1>8. challenge' = [challenge EXCEPT ![c] = row]
  BY <1>4, <1>5, <1>6
<1>9. Spends(h)
  BY <1>3, <1>5, <1>7, <1>8 DEF Refuse, Spends
<1>10. Tables'
  <2>1. replay' \subseteq Jtis
    BY DEF IInv, Tables, Refuse, Recorded
  <2> QED
    BY <1>1, <1>9, <2>1 DEF IInv, Tables, Spends
<1>11. AccountsOK' /\ NoncesOK' /\ ReplayNeedsASkew'
  BY <1>1 DEF IInv, AccountsOK, NoncesOK, ReplayNeedsASkew
<1>12. SessionsOK'
  <2>1. LoginsApart' /\ OneLivePerLogin'
    BY <1>1 DEF IInv, SessionsOK, LoginsApart, OneLivePerLogin, Sessions, Logins, Live
  <2>2. ASSUME NEW s \in Sessions PROVE SessionOK(s)'
    <3>1. SessionOK(s) /\ session[s] \in BrowserSession
      BY DEF IInv, Tables, SessionsOK, Sessions
    <3>2. session[s].by \in Challenges
      BY <3>1 DEF BrowserSession
    <3>3. challenge'[session[s].by] # None /\ challenge'[session[s].by].consumed
      BY <1>9, <3>1, <3>2 DEF Spends, SessionOK
    <3>4. replay \subseteq replay'
      BY DEF Refuse
    <3> QED
      BY <1>1, <3>1, <3>3, <3>4 DEF SessionOK, Sessions
  <2> QED
    BY <1>1, <2>1, <2>2 DEF SessionsOK, Sessions
<1>13. ASSUME NEW g \in Others(h), NEW x, x = tx[g] PROVE TxOK(x)'
  <2>1. TxOK(x) /\ x.locks \cap tx[h].locks = {}
    BY <1>13 DEF IInv, HandlersOK, Exclusive, Others
  <2>2. AccountReady(x) => AccountReady(x)'
    BY <1>1 DEF AccountReady, AccountOf
  <2>3. CallbackOK(x) => CallbackOK(x)'
    BY <1>9, <2>1, <2>2, LoginKept
  <2>4. SessionRequestOK(x) => SessionRequestOK(x)'
    BY <1>1 DEF SessionRequestOK
  <2>5. ExternalOK(x) => ExternalOK(x)'
    BY <1>1 DEF ExternalOK, Due
  <2> QED
    BY <2>1, <2>3, <2>4, <2>5 DEF TxOK
<1>14. HandlersOK /\ tx' = [tx EXCEPT ![h] = Idle]
  BY DEF IInv, Refuse
<1>15. HandlersOK'
  BY <1>13, <1>14, Commits
<1> QED
  BY <1>10, <1>11, <1>12, <1>15 DEF IInv

LEMMA ConsumeInv ==
    ASSUME IInv, NEW h \in Handlers, Consume(h)
    PROVE  IInv'
<1>1. tx[h].at = "consume"
  BY DEF Consume, At
<1>2. tx[h] \in Tx /\ TxOK(tx[h])
  BY DEF IInv, HandlersOK
<1>3. CallbackOK(tx[h])
  BY <1>1, <1>2 DEF TxOK, Idle, SessionRequestOK, SessionPhase, ExternalOK, ExternalPhase
<1>4. PICK c \in Challenges : c = tx[h].q.state
  BY <1>3 DEF CallbackOK, Callback
<1>5. CASE Refuse(h, FALSE)
  BY <1>1, <1>3, <1>5, RefuseInv
<1>6. CASE ~challenge[c].consumed /\ Go(h, "provision", {<<"challenge", c>>})
  <2>1. PICK keys : keys = {<<"challenge", c>>}
    OBVIOUS
  <2>2. keys \in SUBSET Key /\ "provision" \in Phase
    BY <2>1 DEF Key, Named, Phase
  <2>3. \A k \in keys : Free(h, k)
    BY <1>4, <2>1 DEF Consume
  <2>4. PICK x : x = [tx[h] EXCEPT !.at = "provision", !.locks = @ \cup keys]
    OBVIOUS
  <2>5. /\ x.at = "provision" /\ x.q = tx[h].q /\ x.token = tx[h].token
        /\ <<"challenge", c>> \in x.locks /\ tx[h].locks \subseteq x.locks
    BY <1>2, <2>1, <2>4 DEF Tx
  <2>6. TxOK(x) /\ ~Inserting(x)
    BY <1>1, <1>3, <1>4, <1>6, <2>5 DEF TxOK, CallbackOK, CallbackPhase, Inserting
  <2>7. Go(h, "provision", keys)
    BY <1>6, <2>1
  <2> QED
    BY <2>2, <2>3, <2>4, <2>6, <2>7, Goes
<1> QED
  BY <1>4, <1>5, <1>6 DEF Consume

LEMMA ProvisionInv ==
    ASSUME IInv, NEW h \in Handlers, Provision(h)
    PROVE  IInv'
<1>1. tx[h].at = "provision"
  BY DEF Provision, At
<1>2. tx[h] \in Tx /\ TxOK(tx[h]) /\ tx \in [Handlers -> Tx]
  BY DEF IInv, HandlersOK
<1>3. CallbackOK(tx[h])
  BY <1>1, <1>2 DEF TxOK, Idle, SessionRequestOK, SessionPhase, ExternalOK, ExternalPhase
<1>4. PICK u : u = tx[h].token.subject
  OBVIOUS
<1>5. PICK operator \in BOOLEAN : operator = (mix.selfHost /\ bootstrap = 0)
  OBVIOUS
<1>6. PICK new \in BOOLEAN : new = (AccountOf(u) = {} \/ operator)
  OBVIOUS
<1>7. PICK a : /\ a \in IF AccountOf(u) # {} /\ ~operator THEN AccountOf(u) ELSE NewAccount
               /\ tx' = [tx EXCEPT ![h].at = "insert", ![h].id = a,
                                   ![h].row = [made |-> TRUE, operator |-> operator, new |-> new]]
               /\ unchanged
  BY <1>4, <1>5, <1>6 DEF Provision
<1>8. PICK row \in Provisioned : row = [made |-> TRUE, operator |-> operator, new |-> new]
  BY DEF Provisioned
<1>9. PICK x : x = [tx[h] EXCEPT !.at = "insert", !.id = a, !.row = row]
  OBVIOUS
<1>10. /\ x.at = "insert" /\ x.q = tx[h].q /\ x.token = tx[h].token /\ x.locks = tx[h].locks
       /\ x.id = a /\ x.row = row /\ x.row.new = new /\ x.row.operator = operator
  BY <1>2, <1>8, <1>9 DEF Tx
<1>11. a \in AccountIds
  BY <1>7 DEF AccountOf, NewAccount
<1>12. new => account[a] = None /\ \A g \in Handlers : tx[g].id # a
  BY <1>6, <1>7 DEF NewAccount, Taken
<1>13. ~new => account[a] # None /\ account[a].subject = u
  BY <1>6, <1>7 DEF AccountOf
<1>14. x \in Tx
  BY <1>2, <1>9, <1>11 DEF Tx, Phase, Ids, Rows
<1>15. tx' = [tx EXCEPT ![h] = x]
  BY <1>2, <1>7, <1>8, <1>9
<1>16. AccountReady(x)
  BY <1>4, <1>6, <1>10, <1>11, <1>12, <1>13 DEF AccountReady
<1>17. TxOK(x)
  BY <1>1, <1>3, <1>10, <1>16 DEF TxOK, CallbackOK, CallbackPhase
<1>18. \A g \in Others(h) : x.locks \cap tx[g].locks = {}
  BY <1>10 DEF IInv, HandlersOK, Exclusive, Others
<1>19. Inserting(x) => \A g \in Others(h) : Inserting(tx[g]) => tx[g].id # x.id
  BY <1>10, <1>12 DEF Inserting, Others
<1> QED
  BY <1>7, <1>14, <1>15, <1>17, <1>18, <1>19, Moves

LEMMA InsertAccountInv ==
    ASSUME IInv, NEW h \in Handlers, InsertAccount(h)
    PROVE  IInv'
<1>1. tx[h].at = "insert"
  BY DEF InsertAccount, At
<1>2. tx[h] \in Tx /\ TxOK(tx[h])
  BY DEF IInv, HandlersOK
<1>3. CallbackOK(tx[h])
  BY <1>1, <1>2 DEF TxOK, Idle, SessionRequestOK, SessionPhase, ExternalOK, ExternalPhase
<1>4. AccountReady(tx[h]) /\ tx[h].token \in Token
  BY <1>1, <1>3 DEF CallbackOK
<1>5. PICK u \in Subjects : u = tx[h].token.subject
  BY <1>4 DEF Token
<1>6. PICK operator \in BOOLEAN : operator = tx[h].row.operator
  BY <1>4 DEF AccountReady, Provisioned
<1>7. ASSUME NEW keys \in SUBSET Key, \A k \in keys : Free(h, k), Go(h, "commit", keys),
             tx[h].row.new => <<"subject", u>> \in keys /\ AccountOf(u) = {},
             operator => <<"bootstrap">> \in keys /\ bootstrap = 0
      PROVE  IInv'
  <2>1. PICK x : x = [tx[h] EXCEPT !.at = "commit", !.locks = @ \cup keys]
    OBVIOUS
  <2>2. /\ x.at = "commit" /\ x.q = tx[h].q /\ x.token = tx[h].token /\ x.id = tx[h].id
        /\ x.row = tx[h].row /\ tx[h].locks \subseteq x.locks /\ keys \subseteq x.locks
    BY <1>2, <2>1 DEF Tx
  <2>3. AccountReady(x)
    BY <1>4, <1>5, <1>6, <1>7, <2>2 DEF AccountReady
  <2>4. TxOK(x)
    BY <1>1, <1>3, <2>2, <2>3 DEF TxOK, CallbackOK, CallbackPhase
  <2>5. Inserting(x) => Inserting(tx[h])
    BY <1>1, <2>2 DEF Inserting
  <2>6. "commit" \in Phase
    BY DEF Phase
  <2> QED
    BY <1>7, <2>1, <2>4, <2>5, <2>6, Goes
<1>8. CASE ~tx[h].row.new /\ Go(h, "commit", {})
  <2>1. operator = FALSE
    BY <1>4, <1>6, <1>8 DEF AccountReady
  <2>2. {} \in SUBSET Key /\ \A k \in {} : Free(h, k)
    OBVIOUS
  <2> QED
    BY <1>7, <1>8, <2>1, <2>2
<1>9. CASE End(h)
  BY <1>9, Ends
<1>10. CASE Refuse(h, TRUE)
  BY <1>1, <1>3, <1>10, RefuseInv
<1>11. CASE \E keys : /\ keys = {<<"subject", u>>} \cup (IF operator THEN {<<"bootstrap">>} ELSE {})
                      /\ \A k \in keys : Free(h, k)
                      /\ ~(AccountOf(u) # {} \/ (operator /\ bootstrap # 0))
                      /\ Go(h, "commit", keys)
  <2>1. PICK keys : /\ keys = {<<"subject", u>>} \cup (IF operator THEN {<<"bootstrap">>} ELSE {})
                    /\ \A k \in keys : Free(h, k)
                    /\ ~(AccountOf(u) # {} \/ (operator /\ bootstrap # 0))
                    /\ Go(h, "commit", keys)
    BY <1>11
  <2>2. keys \in SUBSET Key
    BY <2>1 DEF Key, Named
  <2> QED
    BY <1>7, <2>1, <2>2
<1> QED
  BY <1>5, <1>6, <1>8, <1>9, <1>10, <1>11 DEF InsertAccount

\* What the tables become when h logs in, and what h knew.
LoginStep(h, a, u, c, j, s, r) ==
    /\ a = tx[h].id /\ u = tx[h].token.subject /\ c = tx[h].q.state /\ j = tx[h].token.jti
    /\ s \in SessionIds /\ session[s] = None
    /\ r \in BrowserSession /\ r # None
    /\ r.account = a /\ r.login = s /\ r.begun = r.last_auth_at /\ r.by = c
    /\ r.jti = j /\ r.subject = u
    /\ session' = [session EXCEPT ![s] = r]
    /\ Spends(h) /\ challenge'[c].consumed /\ ~challenge[c].consumed
    /\ j # "none" => j \in replay' /\ j \notin replay
    /\ account' = IF tx[h].row.new
                  THEN [account EXCEPT ![a] =
                          [made |-> TRUE, subject |-> u, attested |-> FALSE,
                           status |-> IF tx[h].row.operator THEN "active"
                                      ELSE "pending_attestation"]]
                  ELSE account
    /\ bootstrap' = IF tx[h].row.operator THEN a ELSE bootstrap
    /\ AccountReady(tx[h]) /\ tx[h].at = "commit"
    /\ a \in AccountIds /\ u \in Subjects /\ c \in Challenges /\ challenge[c] # None
    /\ tx' = [tx EXCEPT ![h] = Idle]
    /\ UNCHANGED <<now, envelope, nonce, grant, accepted, requests, mix, raced, late>>

LEMMA LoginAccounts ==
    ASSUME IInv, NEW h \in Handlers, NEW a, NEW u, NEW c, NEW j, NEW s, NEW r,
           LoginStep(h, a, u, c, j, s, r)
    PROVE  /\ account' \in [AccountIds -> {None} \cup Account] /\ bootstrap' \in Ids
           /\ AccountsOK'
           /\ \A b \in AccountIds : account[b] # None => account'[b] = account[b]
           /\ account'[a] # None /\ account'[a].subject = u
           /\ ~tx[h].row.new => account' = account
<1>1. /\ account \in [AccountIds -> {None} \cup Account]
      /\ AccountsOK /\ a \in AccountIds /\ u \in Subjects /\ bootstrap \in Ids
      /\ 0 \notin AccountIds /\ AccountReady(tx[h]) /\ a = tx[h].id /\ u = tx[h].token.subject
      /\ bootstrap' = IF tx[h].row.operator THEN a ELSE bootstrap
  BY AccessAssumption DEF IInv, Tables, LoginStep
<1>2. CASE ~tx[h].row.new
  <2>1. tx[h].row.operator = FALSE /\ account[a] # None /\ account[a].subject = u
    BY <1>1, <1>2 DEF AccountReady, Provisioned
  <2>2. account' = account /\ bootstrap' = bootstrap
    BY <1>2, <2>1 DEF LoginStep
  <2> QED
    BY <1>1, <1>2, <2>1, <2>2 DEF AccountsOK
<1>3. CASE tx[h].row.new
  <2>1. PICK operator \in BOOLEAN : operator = tx[h].row.operator
    BY <1>1 DEF AccountReady, Provisioned
  <2>2. PICK row : row = [made |-> TRUE, subject |-> u, attested |-> FALSE,
                          status |-> IF operator THEN "active" ELSE "pending_attestation"]
    OBVIOUS
  <2>3. /\ row \in Account /\ row # None /\ row.subject = u /\ row.attested = FALSE
        /\ (row.status = "active") = operator
    <3>1. row \in Account
      BY <1>1, <2>2 DEF Account
    <3> QED
      BY <2>2, <3>1, RowsMade
  <2>4. account' = [account EXCEPT ![a] = row]
    BY <1>3, <2>1, <2>2 DEF LoginStep
  <2>5. account[a] = None /\ AccountOf(u) = {} /\ (operator => bootstrap = 0)
    BY <1>1, <1>3, <2>1 DEF AccountReady, LoginStep
  <2>6. /\ account' \in [AccountIds -> {None} \cup Account]
        /\ account'[a] = row
        /\ \A b \in AccountIds \ {a} : account'[b] = account[b]
    BY <1>1, <2>3, <2>4
  <2>7. bootstrap' = IF operator THEN a ELSE bootstrap
    BY <1>1, <2>1
  <2>8. bootstrap' \in Ids /\ (bootstrap' # 0 => account'[bootstrap'] # None)
    BY <1>1, <2>3, <2>6, <2>7 DEF Ids, AccountsOK
  <2>9. \A b \in AccountIds : account'[b] # None =>
           (account'[b].status = "active") = (account'[b].attested \/ b = bootstrap')
    <3>1. a # bootstrap /\ \A b \in AccountIds : b # 0
      BY <1>1, <2>5 DEF AccountsOK
    <3>2. (row.status = "active") = (row.attested \/ a = bootstrap')
      BY <2>3, <2>7, <3>1
    <3>3. \A b \in AccountIds \ {a} : (b = bootstrap') = (b = bootstrap)
      BY <2>5, <2>7, <3>1
    <3> QED
      BY <1>1, <2>6, <3>2, <3>3 DEF AccountsOK
  <2>10. \A b \in AccountIds \ {a} : account'[b] # None => account'[b].subject # u
    BY <2>5, <2>6 DEF AccountOf
  <2>11. \A b, d \in AccountIds :
            account'[b] # None /\ account'[d] # None /\ account'[b].subject = account'[d].subject
               => b = d
    BY <1>1, <2>3, <2>6, <2>10 DEF AccountsOK
  <2> QED
    BY <1>3, <2>3, <2>5, <2>6, <2>8, <2>9, <2>11 DEF AccountsOK
<1> QED
  BY <1>2, <1>3

LEMMA LoginSessions ==
    ASSUME IInv, NEW h \in Handlers, NEW a, NEW u, NEW c, NEW j, NEW s, NEW r,
           LoginStep(h, a, u, c, j, s, r)
    PROVE  SessionsOK' /\ session' \in [SessionIds -> {None} \cup BrowserSession]
<1>1. /\ session \in [SessionIds -> {None} \cup BrowserSession] /\ s \in SessionIds
      /\ session[s] = None /\ r \in BrowserSession /\ r # None
      /\ session' = [session EXCEPT ![s] = r] /\ raced' = raced
  BY DEF IInv, Tables, LoginStep
<1>2. /\ session' \in [SessionIds -> {None} \cup BrowserSession]
      /\ session'[s] = r
      /\ \A q \in SessionIds \ {s} : session'[q] = session[q]
  BY <1>1
<1>3. Sessions' = Sessions \cup {s} /\ s \notin Sessions
  BY <1>1, <1>2 DEF Sessions
<1>4. \A q \in Sessions : q # s /\ session'[q] = session[q] /\ session[q].login \in Sessions
  BY <1>2, <1>3 DEF IInv, SessionsOK, SessionOK, Sessions
<1>5. r.login = s /\ r.by = c /\ r.jti = j
  BY DEF LoginStep
<1>6. OneLivePerLogin'
  <2> SUFFICES ASSUME NEW p \in Sessions', NEW q \in Sessions', p # q, Live(p)', Live(q)',
                      session'[p].login = session'[q].login
               PROVE  session'[p].login \in raced'
    BY DEF OneLivePerLogin
  <2>1. p # s /\ q # s
    BY <1>2, <1>3, <1>4, <1>5
  <2>2. p \in Sessions /\ q \in Sessions /\ Live(p) /\ Live(q)
    BY <1>3, <1>4, <2>1 DEF Live
  <2> QED
    BY <1>1, <1>4, <2>2 DEF IInv, SessionsOK, OneLivePerLogin
<1>7. LoginsApart'
  <2>1. Logins' = Logins \cup {s}
    BY <1>2, <1>3, <1>4, <1>5 DEF Logins
  <2>2. ASSUME NEW q \in Logins
        PROVE  session[q].by # c /\ (session[q].jti = "none" \/ session[q].jti # j)
    <3>1. SessionOK(q)
      BY DEF IInv, SessionsOK, Logins
    <3> QED
      BY <3>1 DEF SessionOK, LoginStep
  <2>3. Logins \subseteq Sessions
    BY DEF Logins
  <2> QED
    BY <1>2, <1>4, <1>5, <2>1, <2>2, <2>3 DEF IInv, SessionsOK, LoginsApart
<1>8. /\ \A b \in AccountIds : account[b] # None => account'[b] = account[b]
      /\ account'[a] # None /\ account'[a].subject = u
  BY LoginAccounts
<1>9. ASSUME NEW q \in Sessions PROVE SessionOK(q)'
  <2>1. SessionOK(q) /\ session[q] \in BrowserSession
    BY DEF IInv, Tables, SessionsOK, Sessions
  <2>2. session[q].by \in Challenges /\ session[q].account \in AccountIds
    BY <2>1 DEF BrowserSession
  <2>3. challenge'[session[q].by] # None /\ challenge'[session[q].by].consumed
    BY <2>1, <2>2 DEF LoginStep, Spends, SessionOK
  <2>4. replay \subseteq replay'
    BY DEF LoginStep, Spends
  <2>5. account'[session[q].account] = account[session[q].account]
    BY <1>8, <2>1, <2>2 DEF SessionOK
  <2>6. PICK l \in Sessions : l = session[q].login
    BY <1>4
  <2>7. session'[q] = session[q] /\ session'[l] = session[l] /\ l \in Sessions'
    BY <1>3, <1>4, <2>6
  <2> QED
    BY <2>1, <2>3, <2>4, <2>5, <2>6, <2>7 DEF SessionOK
<1>10. SessionOK(s)'
  <2>1. challenge'[c] # None /\ challenge'[c].consumed /\ (j # "none" => j \in replay')
    BY DEF LoginStep, Spends
  <2>2. r.account = a /\ r.begun = r.last_auth_at /\ r.subject = u
    BY DEF LoginStep
  <2>3. s \in Sessions'
    BY <1>3
  <2> QED
    BY <1>2, <1>5, <1>8, <2>1, <2>2, <2>3 DEF SessionOK
<1>11. \A q \in Sessions' : SessionOK(q)'
  BY <1>3, <1>9, <1>10
<1> QED
  BY <1>2, <1>6, <1>7, <1>11 DEF SessionsOK

LEMMA LoginOthers ==
    ASSUME IInv, NEW h \in Handlers, NEW a, NEW u, NEW c, NEW j, NEW s, NEW r,
           LoginStep(h, a, u, c, j, s, r),
           NEW g \in Others(h), NEW x, x = tx[g]
    PROVE  TxOK(x)'
<1>1. TxOK(x) /\ x.locks \cap tx[h].locks = {} /\ g \in Handlers /\ g # h
  BY DEF IInv, HandlersOK, Exclusive, Others
<1>2. /\ account \in [AccountIds -> {None} \cup Account]
      /\ a \in AccountIds /\ AccountReady(tx[h]) /\ tx[h].at = "commit" /\ a = tx[h].id
      /\ u = tx[h].token.subject
      /\ account' \in [AccountIds -> {None} \cup Account]
      /\ \A b \in AccountIds : account[b] # None => account'[b] = account[b]
      /\ account' = IF tx[h].row.new
                    THEN [account EXCEPT ![a] =
                            [made |-> TRUE, subject |-> u, attested |-> FALSE,
                             status |-> IF tx[h].row.operator THEN "active"
                                        ELSE "pending_attestation"]]
                    ELSE account
      /\ bootstrap' = IF tx[h].row.operator THEN a ELSE bootstrap
  <2>1. account \in [AccountIds -> {None} \cup Account]
    BY DEF IInv, Tables
  <2>2. /\ account' \in [AccountIds -> {None} \cup Account]
        /\ \A b \in AccountIds : account[b] # None => account'[b] = account[b]
    BY LoginAccounts
  <2> QED
    BY <2>1, <2>2 DEF LoginStep
<1>3. ASSUME CallbackOK(x) PROVE CallbackOK(x)'
  <2>1. ASSUME x.at \in {"insert", "commit"}, AccountReady(x) PROVE AccountReady(x)'
    <3>1. x.id \in AccountIds /\ x.row \in Provisioned
      BY <2>1 DEF AccountReady
    <3>2. \A b \in AccountIds \ {a} : account'[b] = account[b]
      BY <1>2
    <3>3. x.row.new => account'[x.id] = None
      <4>1. CASE tx[h].row.new /\ x.row.new
        <5>1. Inserting(x) /\ Inserting(tx[h])
          BY <1>2, <1>3, <2>1, <4>1 DEF Inserting, CallbackOK, LoginStep, Spends
        <5>2. x.id # a
          BY <1>1, <1>2, <5>1 DEF IInv, HandlersOK, InsertsApart
        <5> QED
          BY <2>1, <3>1, <3>2, <5>2 DEF AccountReady
      <4>2. CASE ~tx[h].row.new
        BY <1>2, <2>1, <4>2 DEF AccountReady
      <4> QED
        BY <4>1, <4>2
    <3>4. ~x.row.new => account'[x.id] # None /\ account'[x.id].subject = x.token.subject
      BY <1>2, <2>1, <3>1 DEF AccountReady
    <3>5. x.at = "commit" /\ x.row.new => AccountOf(x.token.subject)' = {}
      <4> SUFFICES ASSUME x.at = "commit", x.row.new,
                          NEW b \in AccountIds, account'[b] # None,
                          account'[b].subject = x.token.subject
                   PROVE  FALSE
        BY DEF AccountOf
      <4>1. AccountOf(x.token.subject) = {} /\ <<"subject", x.token.subject>> \in x.locks
        BY <2>1 DEF AccountReady
      <4>2. b = a /\ tx[h].row.new
        BY <1>2, <3>2, <4>1 DEF AccountOf
      <4>3. account'[a].subject = u
        BY LoginAccounts
      <4>4. <<"subject", u>> \in tx[h].locks
        BY <1>2, <4>2 DEF AccountReady
      <4> QED
        BY <1>1, <4>1, <4>2, <4>3, <4>4
    <3>6. x.at = "commit" /\ x.row.operator => bootstrap' = 0
      BY <1>1, <1>2, <2>1 DEF AccountReady
    <3> QED
      BY <2>1, <3>3, <3>4, <3>5, <3>6 DEF AccountReady
  <2>2. Spends(h)
    BY DEF LoginStep
  <2> QED
    BY <1>1, <1>3, <2>1, <2>2, LoginKept
<1>4. SessionRequestOK(x) => SessionRequestOK(x)'
  <2>1. \A q \in SessionRequest : q.session \in SessionIds
    BY DEF SessionRequest
  <2>2. \A q \in SessionIds : session[q] # None => session'[q] = session[q]
    BY DEF IInv, Tables, LoginStep
  <2> QED
    BY <2>1, <2>2 DEF SessionRequestOK
<1>5. ExternalOK(x) => ExternalOK(x)'
  <2>1. UNCHANGED <<now, envelope, accepted>>
    BY DEF LoginStep
  <2> QED
    BY <2>1 DEF ExternalOK, Due
<1> QED
  BY <1>1, <1>3, <1>4, <1>5 DEF TxOK

LEMMA CommitLoginInv ==
    ASSUME IInv, NEW h \in Handlers, CommitLogin(h)
    PROVE  IInv'
<1>1. tx[h].at = "commit" /\ tx[h].q.op = "callback"
  BY DEF CommitLogin, At
<1>2. CallbackOK(tx[h]) /\ tx[h] \in Tx
  BY <1>1, Busy
<1>3. /\ tx[h].token \in Token /\ AccountReady(tx[h]) /\ tx[h].q \in Callback
      /\ <<"challenge", tx[h].q.state>> \in tx[h].locks
      /\ challenge[tx[h].q.state] # None /\ ~challenge[tx[h].q.state].consumed
      /\ tx[h].token.jti # "none" => tx[h].token.jti \notin replay
  BY <1>1, <1>2 DEF CallbackOK
<1>4. PICK c \in Challenges : c = tx[h].q.state
  BY <1>3 DEF Callback
<1>5. PICK u \in Subjects : u = tx[h].token.subject
  BY <1>3 DEF Token
<1>6. PICK j \in Jtis \cup {"none"} : j = tx[h].token.jti
  BY <1>3 DEF Token
<1>7. PICK a \in AccountIds : a = tx[h].id
  BY <1>3 DEF AccountReady
<1>8. PICK s \in NewSession :
         session' = [session EXCEPT ![s] = session_expiry(
                [made |-> TRUE, account |-> a, login |-> s, begun |-> now, by |-> c,
                 jti |-> j, subject |-> u, expires_at |-> 0,
                 idle_expires_at |-> 0, last_auth_at |-> now, revoked |-> FALSE])]
  BY <1>4, <1>5, <1>6, <1>7 DEF CommitLogin
<1>9. PICK r : r = session_expiry(
                [made |-> TRUE, account |-> a, login |-> s, begun |-> now, by |-> c,
                 jti |-> j, subject |-> u, expires_at |-> 0,
                 idle_expires_at |-> 0, last_auth_at |-> now, revoked |-> FALSE])
  OBVIOUS
<1>10. s \in SessionIds /\ session[s] = None
  BY DEF NewSession
<1>11. now \in Nat
  BY AccessAssumption DEF IInv, Tables
<1>12. /\ r \in BrowserSession /\ r # None
       /\ r.account = a /\ r.login = s /\ r.begun = now /\ r.last_auth_at = now /\ r.by = c
       /\ r.jti = j /\ r.subject = u /\ r.revoked = FALSE
  <2>1. PICK e \in Nat, i \in Nat, n \in Nat :
           e = now + SessionTtl /\ i = now + IdleTtl /\ n = now
    BY <1>11, AccessAssumption
  <2>2. r = [made |-> TRUE, account |-> a, login |-> s, begun |-> n, by |-> c,
             jti |-> j, subject |-> u, expires_at |-> e,
             idle_expires_at |-> i, last_auth_at |-> n, revoked |-> FALSE]
    BY <1>9, <2>1 DEF session_expiry
  <2>3. [made |-> TRUE, account |-> a, login |-> s, begun |-> n, by |-> c,
         jti |-> j, subject |-> u, expires_at |-> e,
         idle_expires_at |-> i, last_auth_at |-> n, revoked |-> FALSE] \in BrowserSession
    BY <1>10 DEF BrowserSession
  <2>4. r \in BrowserSession
    BY <2>2, <2>3
  <2> QED
    BY <2>1, <2>2, <2>4, RowsMade
<1>13. Spends(h) /\ challenge'[c].consumed
  <2>1. challenge \in [Challenges -> {None} \cup Challenge] /\ challenge[c] \in Challenge
    BY <1>3, <1>4 DEF IInv, Tables
  <2>2. PICK row : row = [challenge[c] EXCEPT !.consumed = TRUE]
    OBVIOUS
  <2>3. row \in Challenge /\ row.consumed = TRUE /\ row # None
    <3>1. row \in Challenge /\ row.consumed = TRUE
      BY <2>1, <2>2 DEF Challenge
    <3> QED
      BY <3>1, RowsMade
  <2>4. challenge' = [challenge EXCEPT ![c] = row]
    BY <1>4, <2>2, <2>1 DEF CommitLogin
  <2>5. replay' = replay \cup Recorded(tx[h].token)
    BY DEF CommitLogin
  <2> QED
    BY <1>1, <1>2, <1>3, <1>4, <2>1, <2>3, <2>4, <2>5 DEF Spends
<1>14. j # "none" => j \in replay' /\ j \notin replay
  BY <1>3, <1>6 DEF CommitLogin, Recorded
<1>15. LoginStep(h, a, u, c, j, s, r)
  <2>1. UNCHANGED <<now, envelope, nonce, grant, accepted, requests, mix, raced, late>>
    BY DEF CommitLogin, external
  <2>2. session' = [session EXCEPT ![s] = r]
    BY <1>8, <1>9
  <2>3. /\ account' = IF tx[h].row.new
                      THEN [account EXCEPT ![a] =
                              [made |-> TRUE, subject |-> u, attested |-> FALSE,
                               status |-> IF tx[h].row.operator THEN "active"
                                          ELSE "pending_attestation"]]
                      ELSE account
        /\ bootstrap' = IF tx[h].row.operator THEN a ELSE bootstrap
        /\ tx' = [tx EXCEPT ![h] = Idle]
    BY <1>5, <1>7 DEF CommitLogin
  <2> QED
    BY <1>1, <1>3, <1>4, <1>5, <1>6, <1>7, <1>10, <1>12, <1>13, <1>14, <2>1, <2>2, <2>3
       DEF LoginStep
<1>16. UNCHANGED <<now, envelope, nonce, grant, accepted, requests, mix, raced, late>>
  BY <1>15 DEF LoginStep
<1>17. /\ account' \in [AccountIds -> {None} \cup Account] /\ bootstrap' \in Ids /\ AccountsOK'
  BY <1>15, LoginAccounts
<1>18. SessionsOK' /\ session' \in [SessionIds -> {None} \cup BrowserSession]
  BY <1>15, LoginSessions
<1>19. replay' \subseteq Jtis /\ challenge' \in [Challenges -> {None} \cup Challenge]
  BY <1>13 DEF IInv, Tables, Spends, Recorded
<1>20. Tables'
  BY <1>16, <1>17, <1>18, <1>19 DEF IInv, Tables
<1>21. NoncesOK' /\ ReplayNeedsASkew'
  BY <1>16 DEF IInv, NoncesOK, ReplayNeedsASkew
<1>22. ASSUME NEW g \in Others(h), NEW x, x = tx[g] PROVE TxOK(x)'
  BY <1>15, <1>22, LoginOthers
<1>23. HandlersOK /\ tx' = [tx EXCEPT ![h] = Idle]
  BY <1>15 DEF IInv, LoginStep
<1>24. HandlersOK'
  BY <1>22, <1>23, Commits
<1> QED
  BY <1>17, <1>18, <1>20, <1>21, <1>24 DEF IInv

-----------------------------------------------------------------------------
(* Browser sessions.                                                       *)

LEMMA LoadSessionInv ==
    ASSUME IInv, NEW h \in Handlers, LoadSession(h)
    PROVE  IInv'
<1>1. CASE End(h)
  BY <1>1, Ends
<1>2. CASE /\ Active(session[tx[h].q.session])
           /\ tx' = [tx EXCEPT ![h].at = "flush", ![h].row = session[tx[h].q.session]]
           /\ unchanged
  <2>1. tx[h].at = "load" /\ tx[h].q.op \in {"attest", "logout", "rotate"}
    BY DEF LoadSession, At
  <2>2. tx[h] \in Tx /\ SessionRequestOK(tx[h]) /\ tx \in [Handlers -> Tx]
    BY <2>1, Busy DEF IInv, HandlersOK
  <2>3. PICK p \in SessionIds : p = tx[h].q.session
    BY <2>2 DEF SessionRequestOK, SessionRequest
  <2>4. PICK row : row = session[p]
    OBVIOUS
  <2>5. row \in BrowserSession /\ ~row.revoked
    BY <1>2, <2>3, <2>4 DEF Active, IInv, Tables
  <2>6. row = [row EXCEPT !.revoked = FALSE]
    BY <2>5 DEF BrowserSession
  <2>7. PICK x : x = [tx[h] EXCEPT !.at = "flush", !.row = row]
    OBVIOUS
  <2>8. x.at = "flush" /\ x.q = tx[h].q /\ x.row = row /\ x.locks = tx[h].locks
    BY <2>2, <2>7 DEF Tx
  <2>9. x \in Tx
    BY <2>2, <2>5, <2>7 DEF Tx, Phase, Rows
  <2>10. tx' = [tx EXCEPT ![h] = x]
    BY <1>2, <2>2, <2>3, <2>4, <2>7
  <2>11. TxOK(x) /\ ~Inserting(x)
    BY <2>2, <2>3, <2>4, <2>6, <2>8 DEF TxOK, SessionRequestOK, SessionPhase, Inserting
  <2>12. \A g \in Others(h) : x.locks \cap tx[g].locks = {}
    BY <2>8 DEF IInv, HandlersOK, Exclusive, Others
  <2> QED
    BY <1>2, <2>9, <2>10, <2>11, <2>12, Moves
<1> QED
  BY <1>1, <1>2 DEF LoadSession

\* The time a session shows is its login's, so no one is late.
LEMMA UseInv ==
    ASSUME IInv, NEW h \in Handlers, load_session_context(h)
    PROVE  IInv'
<1>1. tx[h].at = "load" /\ tx[h].q.op = "use"
  BY DEF load_session_context, At
<1>2. SessionRequestOK(tx[h])
  BY <1>1, Busy
<1>3. PICK p \in Sessions : p = tx[h].q.session
  BY <1>2 DEF SessionRequestOK, SessionRequest, Sessions
<1>4. session[session[p].login].begun = session[p].last_auth_at
  BY DEF IInv, SessionsOK, SessionOK
<1>5. session[p] \in BrowserSession /\ now \in Nat /\ late = FALSE
  BY AccessAssumption DEF IInv, Tables, Sessions
<1>6. session[p].last_auth_at \in Nat
  BY <1>5 DEF BrowserSession
<1>7. PICK d \in Int : d = now - session[p].last_auth_at
  BY <1>5, <1>6
<1>8. ~(d <= RecentAuth /\ d > RecentAuth)
  BY AccessAssumption
<1>9. late' = late
  BY <1>3, <1>4, <1>5, <1>7, <1>8 DEF load_session_context, recent_auth_satisfied
<1>10. End(h)
  BY <1>9 DEF load_session_context, End, unchanged
<1> QED
  BY <1>10, Ends

LEMMA FlushSessionInv ==
    ASSUME IInv, NEW h \in Handlers, FlushSession(h)
    PROVE  IInv'
<1>1. tx[h].at = "flush"
  BY DEF FlushSession, At
<1>2. tx[h] \in Tx /\ TxOK(tx[h])
  BY DEF IInv, HandlersOK
<1>3. SessionRequestOK(tx[h])
  BY <1>1, <1>2 DEF TxOK, Idle, CallbackOK, CallbackPhase, ExternalOK, ExternalPhase
<1>4. PICK p \in SessionIds : p = tx[h].q.session
  BY <1>3 DEF SessionRequestOK, SessionRequest
<1>5. tx[h].row \in BrowserSession
  <2>1. session[p] \in BrowserSession /\ tx[h].row = [session[p] EXCEPT !.revoked = FALSE]
    BY <1>1, <1>3, <1>4 DEF SessionRequestOK, IInv, Tables
  <2> QED
    BY <2>1 DEF BrowserSession
<1>6. PICK a \in AccountIds : a = tx[h].row.account
  BY <1>5 DEF BrowserSession
<1>7. PICK keys : /\ keys \in {{<<"account", a>>}, {<<"session", p>>}}
                  /\ \A k \in keys : Free(h, k)
                  /\ Go(h, "commit", keys)
  BY <1>4, <1>6 DEF FlushSession
<1>8. keys \in SUBSET Key /\ "commit" \in Phase
  BY <1>7 DEF Key, Named, Phase
<1>9. PICK x : x = [tx[h] EXCEPT !.at = "commit", !.locks = @ \cup keys]
  OBVIOUS
<1>10. x.at = "commit" /\ x.q = tx[h].q /\ x.row = tx[h].row
  BY <1>2, <1>9 DEF Tx
<1>11. TxOK(x) /\ ~Inserting(x)
  <2>1. x.q \notin Callback
    BY <1>3, <1>10 DEF SessionRequestOK, SessionRequest, Callback
  <2> QED
    BY <1>1, <1>3, <1>10, <2>1 DEF TxOK, SessionRequestOK, SessionPhase, Inserting
<1> QED
  BY <1>7, <1>8, <1>9, <1>11, Goes

LEMMA AttestInv ==
    ASSUME IInv, NEW h \in Handlers, record_adult_attestation(h)
    PROVE  IInv'
<1>1. UNCHANGED <<now, challenge, replay, bootstrap, session, envelope, nonce, grant,
                  accepted, requests, mix, raced, late>>
  BY DEF record_adult_attestation, external
<1>2. tx[h].at = "commit" /\ tx[h].q.op = "attest"
  BY DEF record_adult_attestation, At
<1>3. SessionRequestOK(tx[h])
  BY <1>2, Busy
<1>4. PICK p \in Sessions : p = tx[h].q.session
  BY <1>3 DEF SessionRequestOK, SessionRequest, Sessions
<1>5. session[p] \in BrowserSession /\ tx[h].row = [session[p] EXCEPT !.revoked = FALSE]
  BY <1>2, <1>3, <1>4 DEF SessionRequestOK, IInv, Tables, Sessions
<1>6. PICK a \in AccountIds : a = tx[h].row.account /\ a = session[p].account
  BY <1>5 DEF BrowserSession
<1>7. account \in [AccountIds -> {None} \cup Account] /\ account[a] \in Account
  BY <1>6 DEF IInv, Tables, SessionsOK, SessionOK
<1>8. PICK row : row = [account[a] EXCEPT !.attested = TRUE, !.status = "active"]
  OBVIOUS
<1>9. /\ row \in Account /\ row # None /\ row.attested = TRUE /\ row.status = "active"
      /\ row.subject = account[a].subject
  <2>1. /\ row \in Account /\ row.attested = TRUE /\ row.status = "active"
        /\ row.subject = account[a].subject
    BY <1>7, <1>8 DEF Account
  <2> QED
    BY <2>1, RowsMade
<1>10. account' = [account EXCEPT ![a] = row]
  BY <1>6, <1>7, <1>8 DEF record_adult_attestation
<1>11. /\ account' \in [AccountIds -> {None} \cup Account]
       /\ account'[a] = row
       /\ \A b \in AccountIds \ {a} : account'[b] = account[b]
       /\ account[a] # None
  BY <1>7, <1>9, <1>10, RowsMade
<1>12. \A b \in AccountIds : /\ (account'[b] = None) = (account[b] = None)
                             /\ account'[b].subject = account[b].subject
  BY <1>9, <1>11
<1>13. Tables'
  BY <1>1, <1>11 DEF IInv, Tables
<1>14. AccountsOK'
  <2>1. \A b \in AccountIds : account'[b] # None =>
           (account'[b].status = "active") = (account'[b].attested \/ b = bootstrap')
    BY <1>1, <1>9, <1>11 DEF IInv, AccountsOK
  <2>2. bootstrap' # 0 => account'[bootstrap'] # None
    BY <1>1, <1>12 DEF IInv, Tables, Ids, AccountsOK
  <2> QED
    BY <1>12, <2>1, <2>2 DEF IInv, AccountsOK
<1>15. NoncesOK' /\ ReplayNeedsASkew'
  BY <1>1 DEF IInv, NoncesOK, ReplayNeedsASkew
<1>16. SessionsOK'
  <2>1. LoginsApart' /\ OneLivePerLogin'
    BY <1>1 DEF IInv, SessionsOK, LoginsApart, OneLivePerLogin, Sessions, Logins, Live
  <2>2. ASSUME NEW s \in Sessions PROVE SessionOK(s)'
    <3>1. SessionOK(s) /\ session[s] \in BrowserSession
      BY DEF IInv, Tables, SessionsOK, Sessions
    <3>2. session[s].account \in AccountIds
      BY <3>1 DEF BrowserSession
    <3> QED
      BY <1>1, <1>12, <3>1, <3>2 DEF SessionOK, Sessions
  <2> QED
    BY <1>1, <2>1, <2>2 DEF SessionsOK, Sessions
<1>17. ASSUME NEW g \in Others(h), NEW x, x = tx[g] PROVE TxOK(x)'
  <2>1. TxOK(x)
    BY <1>17 DEF IInv, HandlersOK, Others
  <2>2. \A u : AccountOf(u)' = AccountOf(u)
    BY <1>12 DEF AccountOf
  <2>3. AccountReady(x) => AccountReady(x)'
    BY <1>1, <1>12, <2>2 DEF AccountReady
  <2>4. CallbackOK(x) => CallbackOK(x)'
    BY <1>1, <2>3 DEF CallbackOK
  <2>5. SessionRequestOK(x) => SessionRequestOK(x)'
    BY <1>1 DEF SessionRequestOK
  <2>6. ExternalOK(x) => ExternalOK(x)'
    BY <1>1 DEF ExternalOK, Due
  <2> QED
    BY <2>1, <2>4, <2>5, <2>6 DEF TxOK
<1>18. HandlersOK /\ tx' = [tx EXCEPT ![h] = Idle]
  BY DEF IInv, record_adult_attestation
<1>19. HandlersOK'
  BY <1>17, <1>18, Commits
<1> QED
  BY <1>13, <1>14, <1>15, <1>16, <1>19 DEF IInv

\* All of a session but its limits and its revocation.
Alike(r, t) ==
    /\ r.account = t.account /\ r.login = t.login /\ r.begun = t.begun /\ r.by = t.by
    /\ r.jti = t.jti /\ r.subject = t.subject /\ r.last_auth_at = t.last_auth_at

LEMMA RevokedRow ==
    ASSUME NEW r \in BrowserSession, NEW v, v = [r EXCEPT !.revoked = TRUE]
    PROVE  /\ v \in BrowserSession /\ v # None /\ v.revoked = TRUE /\ Alike(v, r)
           /\ [v EXCEPT !.revoked = FALSE] = [r EXCEPT !.revoked = FALSE]
<1>1. v \in BrowserSession /\ v.revoked = TRUE /\ Alike(v, r)
  BY DEF BrowserSession, Alike
<1>2. [v EXCEPT !.revoked = FALSE] = [r EXCEPT !.revoked = FALSE]
  BY DEF BrowserSession
<1> QED
  BY <1>1, <1>2, RowsMade

\* The session p is revoked, and gets a successor or not.  The race is told
\* by p having been revoked already.
LEMMA RevocationInv ==
    ASSUME IInv, NEW h \in Handlers, NEW p \in Sessions, p = tx[h].q.session,
           SessionRequestOK(tx[h]),
           session' \in [SessionIds -> {None} \cup BrowserSession],
           session'[p] = [session[p] EXCEPT !.revoked = TRUE],
           \A q \in Sessions \ {p} : session'[q] = session[q],
           \A s \in Sessions' \ Sessions : Alike(session'[s], session[p]),
           \A s, t \in Sessions' \ Sessions : s = t,
           raced' \subseteq SessionIds, raced \subseteq raced',
           session[p].revoked => session[p].login \in raced',
           tx' = [tx EXCEPT ![h] = Idle],
           UNCHANGED <<now, challenge, replay, account, bootstrap, envelope, nonce, grant,
                       accepted, requests, mix, late>>
    PROVE  IInv'
<1>1. session[p] \in BrowserSession /\ \A q \in Sessions : session[q] \in BrowserSession
  BY DEF IInv, Tables, Sessions
<1>2. PICK v : v = [session[p] EXCEPT !.revoked = TRUE]
  OBVIOUS
<1>3. /\ v \in BrowserSession /\ v # None /\ v.revoked = TRUE /\ Alike(v, session[p])
      /\ [v EXCEPT !.revoked = FALSE] = [session[p] EXCEPT !.revoked = FALSE]
  BY <1>1, <1>2, RevokedRow
<1>4. session'[p] = v
  BY <1>2
<1>5. Sessions \subseteq Sessions'
  BY <1>3, <1>4 DEF Sessions
<1>6. \A q \in Sessions : Alike(session'[q], session[q])
  BY <1>3, <1>4 DEF Alike
<1>7. Tables'
  BY DEF IInv, Tables
<1>8. AccountsOK' /\ NoncesOK' /\ ReplayNeedsASkew'
  BY DEF IInv, AccountsOK, NoncesOK, ReplayNeedsASkew
<1>9. \A q \in Sessions : SessionOK(q) /\ session[q].login \in Sessions
  BY DEF IInv, SessionsOK, SessionOK
<1>10. ASSUME NEW q \in Sessions, NEW s \in Sessions', Alike(session'[s], session[q])
       PROVE  SessionOK(s)'
  <2>1. PICK l \in Sessions : l = session[q].login
    BY <1>9
  <2>2. session'[l].login = session[l].login /\ session'[l].begun = session[l].begun
    BY <1>6 DEF Alike
  <2>3. session'[s].login = l /\ l \in Sessions'
    BY <1>5, <1>10, <2>1 DEF Alike
  <2>4. SessionOK(q)
    BY <1>9
  <2> QED
    BY <1>10, <2>1, <2>2, <2>3, <2>4 DEF SessionOK, Alike
<1>11. ASSUME NEW s \in Sessions' PROVE SessionOK(s)'
  <2>1. \E q \in Sessions : Alike(session'[s], session[q])
    BY <1>6
  <2> QED
    BY <1>10, <2>1
<1>12. Logins' = Logins /\ \A q \in Logins : session'[q].by = session[q].by
                                             /\ session'[q].jti = session[q].jti
  <2>1. \A s \in Sessions' \ Sessions : session'[s].login # s
    BY <1>9 DEF Alike
  <2>2. \A q \in Sessions : session'[q].login = session[q].login
    BY <1>6 DEF Alike
  <2>3. Logins' = Logins
    BY <1>5, <2>1, <2>2 DEF Logins
  <2> QED
    BY <1>6, <2>3 DEF Logins, Alike
<1>13. LoginsApart'
  BY <1>12 DEF IInv, SessionsOK, LoginsApart
<1>14. OneLivePerLogin'
  <2> SUFFICES ASSUME NEW s \in Sessions', NEW t \in Sessions', s # t, Live(s)', Live(t)',
                      session'[s].login = session'[t].login
               PROVE  session'[s].login \in raced'
    BY DEF OneLivePerLogin
  <2>1. s # p /\ t # p
    BY <1>3, <1>4 DEF Live
  <2>2. \A q \in Sessions \ {p} : Live(q)' = Live(q)
    BY DEF Live
  <2>3. \A q, r \in Sessions : q # r /\ Live(q) /\ Live(r) /\ session[q].login = session[r].login
            => session[q].login \in raced
    BY DEF IInv, SessionsOK, OneLivePerLogin
  <2>4. CASE s \in Sessions /\ t \in Sessions
    BY <2>1, <2>2, <2>3, <2>4
  <2>5. ASSUME NEW q \in Sessions \ {p}, Live(q)', session'[q].login = session[p].login
        PROVE  session[p].login \in raced'
    <3>1. Live(q) /\ session[q].login = session[p].login
      BY <2>2, <2>5
    <3>2. CASE session[p].revoked
      BY <3>2
    <3>3. CASE ~session[p].revoked
      BY <2>3, <3>1, <3>3 DEF Live
    <3> QED
      BY <3>2, <3>3
  <2>6. \A q \in Sessions' \ Sessions : session'[q].login = session[p].login
    BY DEF Alike
  <2>7. CASE s \notin Sessions
    BY <2>1, <2>5, <2>6, <2>7
  <2>8. CASE t \notin Sessions
    BY <2>1, <2>5, <2>6, <2>8
  <2> QED
    BY <2>4, <2>7, <2>8
<1>15. SessionsOK'
  BY <1>11, <1>13, <1>14 DEF SessionsOK
<1>16. ASSUME NEW g \in Others(h), NEW x, x = tx[g] PROVE TxOK(x)'
  <2>1. TxOK(x)
    BY <1>16 DEF IInv, HandlersOK, Others
  <2>2. AccountReady(x) => AccountReady(x)'
    BY DEF AccountReady, AccountOf
  <2>3. CallbackOK(x) => CallbackOK(x)'
    BY <2>2 DEF CallbackOK
  <2>4. ASSUME SessionRequestOK(x) PROVE SessionRequestOK(x)'
    <3>1. PICK q \in Sessions : q = x.q.session
      BY <2>4 DEF SessionRequestOK, SessionRequest, Sessions
    <3>2. session'[q] # None
      BY <1>5 DEF Sessions
    <3>3. [session'[q] EXCEPT !.revoked = FALSE] = [session[q] EXCEPT !.revoked = FALSE]
      BY <1>3, <1>4
    <3> QED
      BY <2>4, <3>1, <3>2, <3>3 DEF SessionRequestOK
  <2>5. ExternalOK(x) => ExternalOK(x)'
    BY DEF ExternalOK, Due
  <2> QED
    BY <2>1, <2>3, <2>4, <2>5 DEF TxOK
<1>17. HandlersOK
  BY DEF IInv
<1>18. HandlersOK'
  BY <1>16, <1>17, Commits
<1> QED
  BY <1>7, <1>8, <1>15, <1>18 DEF IInv

\* What a handler that revokes a session knows of it.
LEMMA Revoking ==
    ASSUME IInv, NEW h \in Handlers, tx[h].at = "commit", tx[h].q.op \in {"logout", "rotate"},
           NEW p, p = tx[h].q.session
    PROVE  /\ SessionRequestOK(tx[h]) /\ p \in Sessions /\ session[p] \in BrowserSession
           /\ tx[h].row = [session[p] EXCEPT !.revoked = FALSE]
           /\ Racing(h) \subseteq SessionIds /\ raced \subseteq Racing(h)
           /\ session[p].revoked => session[p].login \in Racing(h)
<1>1. SessionRequestOK(tx[h])
  BY Busy
<1>2. p \in Sessions
  BY <1>1 DEF SessionRequestOK, SessionRequest, Sessions
<1>3. session[p] \in BrowserSession
  BY <1>2 DEF IInv, Tables, Sessions
<1>4. tx[h].row = [session[p] EXCEPT !.revoked = FALSE]
  BY <1>1 DEF SessionRequestOK
<1>5. tx[h].row.revoked = FALSE /\ tx[h].row.login = session[p].login
      /\ session[p].login \in SessionIds
  BY <1>3, <1>4 DEF BrowserSession
<1>6. raced \subseteq SessionIds
  BY DEF IInv, Tables
<1>7. Racing(h) = raced \cup (IF session[p].revoked THEN {session[p].login} ELSE {})
  BY <1>5 DEF Racing
<1> QED
  BY <1>1, <1>2, <1>3, <1>4, <1>5, <1>6, <1>7

LEMMA LogoutInv ==
    ASSUME IInv, NEW h \in Handlers, logout(h)
    PROVE  IInv'
<1>1. tx[h].at = "commit" /\ tx[h].q.op \in {"logout", "rotate"}
  BY DEF logout, At
<1>2. PICK p : p = tx[h].q.session
  OBVIOUS
<1>3. /\ SessionRequestOK(tx[h]) /\ p \in Sessions /\ session[p] \in BrowserSession
      /\ Racing(h) \subseteq SessionIds /\ raced \subseteq Racing(h)
      /\ session[p].revoked => session[p].login \in Racing(h)
  BY <1>1, <1>2, Revoking
<1>4. PICK v : v = [session[p] EXCEPT !.revoked = TRUE]
  OBVIOUS
<1>5. v \in BrowserSession /\ v # None
  BY <1>3, <1>4, RevokedRow
<1>6. session \in [SessionIds -> {None} \cup BrowserSession] /\ p \in SessionIds
  BY <1>3 DEF IInv, Tables, Sessions
<1>7. session' = [session EXCEPT ![p] = v]
  BY <1>2, <1>4, <1>6 DEF logout
<1>8. /\ session' \in [SessionIds -> {None} \cup BrowserSession]
      /\ session'[p] = [session[p] EXCEPT !.revoked = TRUE]
      /\ \A q \in Sessions \ {p} : session'[q] = session[q]
      /\ Sessions' \ Sessions = {}
  BY <1>3, <1>4, <1>5, <1>6, <1>7 DEF Sessions
<1>9. /\ raced' = Racing(h) /\ tx' = [tx EXCEPT ![h] = Idle]
      /\ UNCHANGED <<now, challenge, replay, account, bootstrap, envelope, nonce, grant,
                     accepted, requests, mix, late>>
  BY DEF logout, identities, external
<1>10. /\ \A s \in Sessions' \ Sessions : Alike(session'[s], session[p])
       /\ \A s, t \in Sessions' \ Sessions : s = t
  BY <1>8
<1> QED
  BY <1>2, <1>3, <1>8, <1>9, <1>10, RevocationInv

\* The successor has new limits and nothing else of its own.
LEMMA RotateInv ==
    ASSUME IInv, NEW h \in Handlers, rotate_session(h)
    PROVE  IInv'
<1>1. tx[h].at = "commit" /\ tx[h].q.op \in {"logout", "rotate"}
  BY DEF rotate_session, At
<1>2. PICK p : p = tx[h].q.session
  OBVIOUS
<1>3. /\ SessionRequestOK(tx[h]) /\ p \in Sessions /\ session[p] \in BrowserSession
      /\ tx[h].row = [session[p] EXCEPT !.revoked = FALSE]
      /\ Racing(h) \subseteq SessionIds /\ raced \subseteq Racing(h)
      /\ session[p].revoked => session[p].login \in Racing(h)
  BY <1>1, <1>2, Revoking
<1>4. PICK v : v = [session[p] EXCEPT !.revoked = TRUE]
  OBVIOUS
<1>5. v \in BrowserSession /\ v # None
  BY <1>3, <1>4, RevokedRow
<1>6. session \in [SessionIds -> {None} \cup BrowserSession] /\ p \in SessionIds
  BY <1>3 DEF IInv, Tables, Sessions
<1>7. PICK r : r = Successor(tx[h].row)
  OBVIOUS
<1>8. r \in BrowserSession /\ Alike(r, session[p]) /\ r # None
  <2>1. PICK old \in BrowserSession : old = session[p]
    BY <1>3
  <2>2. PICK row : row = tx[h].row
    OBVIOUS
  <2>3. row = [old EXCEPT !.revoked = FALSE]
    BY <1>3, <2>1, <2>2
  <2>4. row \in BrowserSession
    BY <2>3 DEF BrowserSession
  <2>5. Alike(row, old)
    BY <2>3 DEF BrowserSession, Alike
  <2>6. PICK e \in Nat, i \in Nat : e = now + SessionTtl /\ i = now + IdleTtl
    BY AccessAssumption DEF IInv, Tables
  <2>7. r = [[row EXCEPT !.revoked = FALSE] EXCEPT !.expires_at = e, !.idle_expires_at = i]
    BY <1>7, <2>2, <2>6 DEF Successor, session_expiry
  <2>8. r \in BrowserSession
    BY <2>4, <2>7 DEF BrowserSession
  <2>9. Alike(r, row)
    BY <2>4, <2>7 DEF BrowserSession, Alike
  <2> QED
    BY <2>1, <2>5, <2>8, <2>9, RowsMade DEF Alike
<1>9. PICK s \in NewSession :
         session' = [session EXCEPT ![p].revoked = TRUE, ![s] = r]
  BY <1>2, <1>7 DEF rotate_session
<1>10. s \in SessionIds /\ s \notin Sessions /\ s # p
  BY <1>3 DEF NewSession, Sessions
<1>11. /\ session'[p] = v /\ session'[s] = r /\ DOMAIN session' = SessionIds
       /\ \A q \in SessionIds \ {p, s} : session'[q] = session[q]
  BY <1>4, <1>6, <1>9, <1>10
<1>12. /\ session' \in [SessionIds -> {None} \cup BrowserSession]
       /\ session'[p] = [session[p] EXCEPT !.revoked = TRUE]
       /\ \A q \in Sessions \ {p} : session'[q] = session[q]
       /\ Sessions' \ Sessions = {s}
  <2>1. \A q \in SessionIds : session'[q] \in {None} \cup BrowserSession
    BY <1>5, <1>6, <1>8, <1>11
  <2>2. session' \in [SessionIds -> {None} \cup BrowserSession]
    <3>1. session' = [[session EXCEPT ![p] = v] EXCEPT ![s] = r]
      BY <1>4, <1>6, <1>9
    <3> QED
      BY <1>5, <1>6, <1>8, <1>10, <3>1
  <2>3. \A q \in Sessions \ {p} : session'[q] = session[q]
    BY <1>10, <1>11 DEF Sessions
  <2>4. Sessions' \ Sessions = {s}
    BY <1>3, <1>8, <1>10, <1>11 DEF Sessions
  <2> QED
    BY <1>4, <1>11, <2>2, <2>3, <2>4
<1>13. /\ raced' = Racing(h) /\ tx' = [tx EXCEPT ![h] = Idle]
       /\ UNCHANGED <<now, challenge, replay, account, bootstrap, envelope, nonce, grant,
                      accepted, requests, mix, late>>
  BY DEF rotate_session, identities, external
<1>14. /\ \A q \in Sessions' \ Sessions : Alike(session'[q], session[p])
       /\ \A q, t \in Sessions' \ Sessions : q = t
  BY <1>8, <1>11, <1>12
<1> QED
  BY <1>2, <1>3, <1>12, <1>13, <1>14, RevocationInv

-----------------------------------------------------------------------------
(* The MCP edge.                                                           *)

LEMMA ParseInv ==
    ASSUME IInv, NEW h \in Handlers, parse_service_auth(h)
    PROVE  IInv'
<1>1. tx[h].at = "load" /\ tx[h].q.op = "external"
  BY DEF parse_service_auth, At
<1>2. tx[h] \in Tx /\ ExternalOK(tx[h]) /\ tx \in [Handlers -> Tx] /\ now \in Nat
  <2>1. ExternalOK(tx[h])
    BY <1>1, Busy
  <2>2. tx \in [Handlers -> Tx]
    BY DEF IInv, HandlersOK
  <2> QED
    BY <2>1, <2>2, AccessAssumption DEF IInv, Tables
<1>3. CASE Go(h, "resolve", {})
  <2>1. PICK x : x = [tx[h] EXCEPT !.at = "resolve", !.locks = @ \cup {}]
    OBVIOUS
  <2>2. /\ x.at = "resolve" /\ x.q = tx[h].q /\ x.start = tx[h].start
        /\ x.consumed = tx[h].consumed /\ x.locks = tx[h].locks
    BY <1>2, <2>1 DEF Tx
  <2>3. TxOK(x) /\ ~Inserting(x)
    BY <1>2, <2>2 DEF TxOK, ExternalOK, ExternalPhase, Inserting
  <2>4. "resolve" \in Phase /\ {} \in SUBSET Key /\ \A k \in {} : Free(h, k)
    BY DEF Phase
  <2> QED
    BY <1>3, <2>1, <2>3, <2>4, Goes
<1>4. CASE tx' = [tx EXCEPT ![h].at = "consume_nonce", ![h].start = now] /\ unchanged
  <2>1. PICK x : x = [tx[h] EXCEPT !.at = "consume_nonce", !.start = now]
    OBVIOUS
  <2>2. /\ x.at = "consume_nonce" /\ x.q = tx[h].q /\ x.start = now
        /\ x.consumed = tx[h].consumed /\ x.locks = tx[h].locks
    BY <1>2, <2>1 DEF Tx
  <2>3. x \in Tx
    BY <1>2, <2>1 DEF Tx, Phase
  <2>4. tx' = [tx EXCEPT ![h] = x]
    BY <1>2, <1>4, <2>1
  <2>5. TxOK(x) /\ ~Inserting(x)
    BY <1>2, <2>2 DEF TxOK, ExternalOK, ExternalPhase, Inserting
  <2>6. \A g \in Others(h) : x.locks \cap tx[g].locks = {}
    BY <2>2 DEF IInv, HandlersOK, Exclusive, Others
  <2> QED
    BY <1>4, <2>3, <2>4, <2>5, <2>6, Moves
<1> QED
  BY <1>3, <1>4 DEF parse_service_auth

\* A row that has expired says that its calls began a skew ago.
LEMMA ExpiredIsDue ==
    ASSUME IInv, NEW m \in Nonces, NEW start \in Nat, start <= now, ~Remembered(m, start)
    PROVE  Due(m)
<1> SUFFICES ASSUME NEW i \in DOMAIN accepted[m]
             PROVE  accepted[m][i].began + MAX_SKEW_SECONDS <= Second(now)
  BY DEF Due
<1>1. accepted[m] \in Seq(Accepted) /\ now \in Nat
  BY AccessAssumption DEF IInv, Tables
<1>2. accepted[m][i] \in Accepted
  BY <1>1
<1>3. PICK t \in Nat : t = accepted[m][i].began + MAX_SKEW_SECONDS
  BY <1>2, AccessAssumption DEF Accepted
<1>4. CASE nonce[m] # None /\ t <= nonce[m].expires_at
  <2>1. nonce[m] \in Nonce
    BY <1>4 DEF IInv, Tables
  <2>2. PICK e \in Nat : e = nonce[m].expires_at
    BY <2>1 DEF Nonce
  <2>3. ~(e * 2 >= start)
    BY <1>4, <2>2 DEF Remembered
  <2>4. t <= now \div 2
    BY <1>1, <1>4, <2>2, <2>3
  <2> QED
    BY <1>3, <2>4 DEF Second
<1>5. CASE t <= Second(now)
  BY <1>3, <1>5
<1> QED
  BY <1>3, <1>4, <1>5 DEF IInv, NoncesOK

LEMMA ConsumeNonceInv ==
    ASSUME IInv, NEW h \in Handlers, consume_service_auth_nonce(h)
    PROVE  IInv'
<1>1. tx[h].at = "consume_nonce"
  BY DEF consume_service_auth_nonce, At
<1>2. tx[h] \in Tx /\ TxOK(tx[h]) /\ tx \in [Handlers -> Tx]
  BY DEF IInv, HandlersOK
<1>3. ExternalOK(tx[h])
  BY <1>1, <1>2 DEF TxOK, Idle, CallbackOK, CallbackPhase, SessionRequestOK, SessionPhase
<1>4. PICK n \in Nonces : n = tx[h].q.nonce
  BY <1>3 DEF ExternalOK, External
<1>5. PICK start \in Nat : start = tx[h].start
  BY <1>2 DEF Tx
<1>6. PICK written : written = {m \in Nonces : (nonce[m] # None \/ m = n) /\ ~Remembered(m, start)}
  OBVIOUS
<1>7. /\ \A m \in written \cup {n} : Free(h, <<"nonce", m>>)
      /\ tx' = [tx EXCEPT ![h].at = "resolve", ![h].consumed = n \in written,
                          ![h].locks = {<<"nonce", m>> : m \in written}]
      /\ unchanged
  BY <1>4, <1>5, <1>6 DEF consume_service_auth_nonce
<1>8. PICK locks : locks = {<<"nonce", m>> : m \in written}
  OBVIOUS
<1>9. PICK b \in BOOLEAN : b = (n \in written)
  <2>1. (n \in written) \in BOOLEAN
    OBVIOUS
  <2> QED
    BY <2>1, Zenon
<1>10. PICK x : x = [tx[h] EXCEPT !.at = "resolve", !.consumed = b, !.locks = locks]
  OBVIOUS
<1>11. /\ x.at = "resolve" /\ x.q = tx[h].q /\ x.start = start /\ x.consumed = b
       /\ x.locks = locks
  BY <1>2, <1>5, <1>10 DEF Tx
<1>12. locks \in SUBSET Key
  BY <1>6, <1>8 DEF Key, Named
<1>13. x \in Tx
  BY <1>2, <1>10, <1>12 DEF Tx, Phase
<1>14. tx' = [tx EXCEPT ![h] = x]
  BY <1>2, <1>7, <1>8, <1>9, <1>10
<1>15. \A m : <<"nonce", m>> \in locks => m \in written
  BY <1>8
<1>16. start <= now
  BY <1>3, <1>5 DEF ExternalOK
<1>17. ASSUME NEW m \in Nonces, <<"nonce", m>> \in locks PROVE Due(m)
  BY <1>6, <1>15, <1>16, <1>17, ExpiredIsDue
<1>18. b => <<"nonce", n>> \in locks
  BY <1>8, <1>9
<1>19. TxOK(x) /\ ~Inserting(x)
  BY <1>3, <1>4, <1>11, <1>16, <1>17, <1>18 DEF TxOK, ExternalOK, ExternalPhase, Inserting
<1>20. \A g \in Others(h) : x.locks \cap tx[g].locks = {}
  BY <1>7, <1>8, <1>11 DEF Free
<1> QED
  BY <1>7, <1>13, <1>14, <1>19, <1>20, Moves

LEMMA ResolveInv ==
    ASSUME IInv, NEW h \in Handlers, resolve_external_grant(h)
    PROVE  IInv'
<1>1. tx[h].at = "resolve"
  BY DEF resolve_external_grant, At
<1>2. tx[h] \in Tx /\ TxOK(tx[h]) /\ tx \in [Handlers -> Tx]
  BY DEF IInv, HandlersOK
<1>3. ExternalOK(tx[h])
  BY <1>1, <1>2 DEF TxOK, Idle, CallbackOK, CallbackPhase, SessionRequestOK, SessionPhase
<1>4. PICK p \in Purposes : p = tx[h].q.purpose
  BY <1>3 DEF ExternalOK, External
<1>5. PICK scopes \in SUBSET Purposes :
         scopes = grant.scopes \cap (IF tx[h].consumed THEN envelope[tx[h].q.nonce].scopes
                                     ELSE tx[h].q.bearer)
  BY DEF IInv, Tables
<1>6. [made |-> TRUE, purpose |-> p, scopes |-> scopes] \in Resolved
  BY DEF Resolved
<1>7. PICK row \in {None} \cup Resolved :
         tx' = [tx EXCEPT ![h].at = "commit", ![h].row = row] /\ unchanged
  BY <1>4, <1>5, <1>6 DEF resolve_external_grant
<1>8. PICK x : x = [tx[h] EXCEPT !.at = "commit", !.row = row]
  OBVIOUS
<1>9. /\ x.at = "commit" /\ x.q = tx[h].q /\ x.start = tx[h].start
      /\ x.consumed = tx[h].consumed /\ x.locks = tx[h].locks
  BY <1>2, <1>8 DEF Tx
<1>10. x \in Tx
  BY <1>2, <1>8 DEF Tx, Phase, Rows
<1>11. tx' = [tx EXCEPT ![h] = x]
  BY <1>2, <1>7, <1>8
<1>12. TxOK(x)
  BY <1>3, <1>9 DEF TxOK, ExternalOK, ExternalPhase
<1>13. ~Inserting(x)
  BY <1>3, <1>9 DEF ExternalOK, External, Callback, Inserting
<1>14. \A g \in Others(h) : x.locks \cap tx[g].locks = {}
  BY <1>9 DEF IInv, HandlersOK, Exclusive, Others
<1> QED
  BY <1>7, <1>10, <1>11, <1>12, <1>13, <1>14, Moves

\* A row is replaced or deleted by the one handler that holds it, when the
\* calls it covered are due.
LEMMA CommitExternalInv ==
    ASSUME IInv, NEW h \in Handlers, CommitExternal(h)
    PROVE  IInv'
<1>1. UNCHANGED <<now, challenge, replay, account, bootstrap, session, envelope, grant,
                  requests, mix, raced, late>>
  BY DEF CommitExternal, identities
<1>2. tx[h].at = "commit" /\ tx[h].q.op = "external"
  BY DEF CommitExternal, At
<1>3. ExternalOK(tx[h]) /\ tx[h] \in Tx
  BY <1>2, Busy
<1>4. PICK n \in Nonces : n = tx[h].q.nonce
  BY <1>3 DEF ExternalOK, External
<1>5. now \in Nat /\ tx[h].start \in Nat /\ tx[h].consumed \in BOOLEAN
  BY <1>3, AccessAssumption DEF IInv, Tables, Tx
<1>6. PICK began \in Nat, ended \in Nat : began = Second(tx[h].start) /\ ended = Second(now)
  BY <1>5 DEF Second
<1>7. PICK row \in Nonce : /\ row = [made |-> TRUE, expires_at |-> began + MAX_SKEW_SECONDS]
                           /\ row.expires_at = began + MAX_SKEW_SECONDS
  <2>1. PICK t \in Nat : t = began + MAX_SKEW_SECONDS
    BY AccessAssumption
  <2>2. PICK r : r = [made |-> TRUE, expires_at |-> t]
    OBVIOUS
  <2>3. r \in Nonce /\ r.expires_at = t
    BY <2>2 DEF Nonce
  <2> QED
    BY <2>1, <2>2, <2>3
<1>8. PICK e \in Accepted : e = [began |-> began, ended |-> ended] /\ e.began = began
                            /\ e.ended = ended
  <2>1. PICK r : r = [began |-> began, ended |-> ended]
    OBVIOUS
  <2>2. r \in Accepted /\ r.began = began /\ r.ended = ended
    BY <2>1 DEF Accepted
  <2> QED
    BY <2>1, <2>2
<1>9. row # None
  BY RowsMade
<1>10. /\ nonce \in [Nonces -> {None} \cup Nonce]
       /\ accepted \in [Nonces -> Seq(Accepted)]
       /\ MAX_SKEW_SECONDS \in Nat
  BY AccessAssumption DEF IInv, Tables
<1>11. nonce' = [m \in Nonces |-> IF <<"nonce", m>> \notin tx[h].locks THEN nonce[m]
                                 ELSE IF m = n THEN row ELSE None]
  BY <1>4, <1>6, <1>7 DEF CommitExternal
<1>12. nonce' \in [Nonces -> {None} \cup Nonce]
  BY <1>10, <1>11
<1>13. accepted' = IF tx[h].consumed
                   THEN [accepted EXCEPT ![n] = Append(accepted[n], e)] ELSE accepted
  BY <1>4, <1>6, <1>8, <1>10 DEF CommitExternal
<1>14. accepted' \in [Nonces -> Seq(Accepted)]
  BY <1>8, <1>10, <1>13
<1>15. tx[h].consumed => <<"nonce", n>> \in tx[h].locks
  BY <1>3, <1>4 DEF ExternalOK
<1>16. \A m \in Nonces : <<"nonce", m>> \in tx[h].locks => Due(m)
  BY <1>3 DEF ExternalOK
<1>17. \A m \in Nonces : m # n \/ ~tx[h].consumed => accepted'[m] = accepted[m]
  BY <1>10, <1>13
<1>18. tx[h].consumed =>
          /\ accepted'[n] = Append(accepted[n], e)
          /\ DOMAIN accepted'[n] = 1 .. Len(accepted[n]) + 1
          /\ \A i \in 1 .. Len(accepted[n]) : accepted'[n][i] = accepted[n][i]
          /\ accepted'[n][Len(accepted[n]) + 1] = e
          /\ DOMAIN accepted[n] = 1 .. Len(accepted[n]) /\ Len(accepted[n]) \in Nat
  BY <1>8, <1>10, <1>13
<1>19. Tables'
  BY <1>1, <1>12, <1>14 DEF IInv, Tables
<1>20. AccountsOK' /\ SessionsOK'
  BY <1>1 DEF IInv, AccountsOK, SessionsOK, LoginsApart, OneLivePerLogin, SessionOK, Sessions,
              Logins, Live
<1>21. NoncesOK'
  <2> SUFFICES ASSUME NEW m \in Nonces, NEW i \in DOMAIN accepted'[m]
               PROVE  \/ /\ nonce'[m] # None
                         /\ accepted'[m][i].began + MAX_SKEW_SECONDS <= nonce'[m].expires_at
                      \/ accepted'[m][i].began + MAX_SKEW_SECONDS <= Second(now)
    BY <1>1 DEF NoncesOK, Second
  <2>1. CASE i \in DOMAIN accepted[m] /\ accepted'[m][i] = accepted[m][i]
    <3>1. CASE <<"nonce", m>> \in tx[h].locks
      BY <1>16, <2>1, <3>1 DEF Due
    <3>2. CASE <<"nonce", m>> \notin tx[h].locks
      <4>1. nonce'[m] = nonce[m]
        BY <1>11, <3>2
      <4> QED
        BY <2>1, <4>1 DEF IInv, NoncesOK
    <3> QED
      BY <3>1, <3>2
  <2>2. CASE m # n \/ ~tx[h].consumed
    BY <1>17, <2>1, <2>2
  <2>3. CASE m = n /\ tx[h].consumed
    <3>1. CASE i = Len(accepted[n]) + 1
      <4>1. nonce'[n] = row
        BY <1>11, <1>15, <2>3
      <4>2. accepted'[m][i] = e
        BY <1>18, <2>3, <3>1
      <4>3. began + MAX_SKEW_SECONDS <= row.expires_at
        BY <1>7, <1>10
      <4> QED
        BY <1>8, <1>9, <2>3, <4>1, <4>2, <4>3
    <3>2. CASE i # Len(accepted[n]) + 1
      BY <1>18, <2>1, <2>3, <3>2
    <3> QED
      BY <3>1, <3>2
  <2> QED
    BY <2>2, <2>3
<1>22. ReplayNeedsASkew'
  <2> SUFFICES ASSUME NEW m \in Nonces, NEW i \in DOMAIN accepted'[m],
                      NEW j \in DOMAIN accepted'[m], i < j
               PROVE  accepted'[m][j].ended >= accepted'[m][i].began + MAX_SKEW_SECONDS
    BY DEF ReplayNeedsASkew
  <2>1. CASE m # n \/ ~tx[h].consumed
    BY <1>17, <2>1 DEF IInv, ReplayNeedsASkew
  <2>2. CASE m = n /\ tx[h].consumed
    <3>1. i \in DOMAIN accepted[n] /\ accepted'[m][i] = accepted[n][i]
      BY <1>18, <2>2
    <3>2. CASE j = Len(accepted[n]) + 1
      <4>1. accepted'[m][j] = e
        BY <1>18, <2>2, <3>2
      <4>2. PICK t : t = accepted[n][i].began + MAX_SKEW_SECONDS
        OBVIOUS
      <4>3. t <= ended
        BY <1>6, <1>15, <1>16, <2>2, <3>1, <4>2 DEF Due
      <4>4. t \in Nat
        <5>1. accepted[n][i] \in Accepted
          BY <1>10, <3>1
        <5> QED
          BY <1>10, <4>2, <5>1 DEF Accepted
      <4> QED
        BY <1>8, <3>1, <4>1, <4>2, <4>3, <4>4
    <3>3. CASE j # Len(accepted[n]) + 1
      <4>1. j \in DOMAIN accepted[n] /\ accepted'[m][j] = accepted[n][j]
        BY <1>18, <2>2, <3>3
      <4> QED
        BY <3>1, <4>1 DEF IInv, ReplayNeedsASkew
    <3> QED
      BY <3>2, <3>3
  <2> QED
    BY <2>1, <2>2
<1>23. ASSUME NEW g \in Others(h), NEW x, x = tx[g] PROVE TxOK(x)'
  <2>1. TxOK(x) /\ x.locks \cap tx[h].locks = {}
    BY <1>23 DEF IInv, HandlersOK, Exclusive, Others
  <2>2. CallbackOK(x) => CallbackOK(x)'
    BY <1>1 DEF CallbackOK, AccountReady, AccountOf
  <2>3. SessionRequestOK(x) => SessionRequestOK(x)'
    BY <1>1 DEF SessionRequestOK
  <2>4. ASSUME ExternalOK(x), NEW m \in Nonces, <<"nonce", m>> \in x.locks PROVE Due(m)'
    <3>1. Due(m) /\ accepted'[m] = accepted[m]
      BY <1>15, <1>17, <2>1, <2>4 DEF ExternalOK
    <3> QED
      BY <1>1, <3>1 DEF Due
  <2>5. ExternalOK(x) => ExternalOK(x)'
    BY <1>1, <2>4 DEF ExternalOK
  <2> QED
    BY <2>1, <2>2, <2>3, <2>5 DEF TxOK
<1>24. HandlersOK /\ tx' = [tx EXCEPT ![h] = Idle]
  BY DEF IInv, CommitExternal
<1>25. HandlersOK'
  BY <1>23, <1>24, Commits
<1> QED
  BY <1>19, <1>20, <1>21, <1>22, <1>25 DEF IInv

-----------------------------------------------------------------------------
LEMMA NextInv == IInv /\ [Next]_vars => IInv'
<1> SUFFICES ASSUME IInv, [Next]_vars PROVE IInv'
  OBVIOUS
<1>1. CASE Tick
  BY <1>1, TickInv
<1>2. ASSUME NEW c \in Challenges, oidc_begin(c) PROVE IInv'
  BY <1>2, BeginInv
<1>3. ASSUME NEW n \in Nonces, NEW ts \in 0 .. Second(now) + MAX_SKEW_SECONDS,
             NEW p \in Purposes, NEW scopes \in SUBSET Purposes, Sign(n, ts, p, scopes)
      PROVE  IInv'
  <2>1. ts \in Nat
    OBVIOUS
  <2> QED
    BY <1>3, <2>1, SignInv
<1>4. CASE RevokeGrant
  BY <1>4, RevokeGrantInv
<1>5. ASSUME NEW h \in Handlers,
             ReceiveCallback(h) \/ ReceiveSession(h) \/ ReceiveExternal(h)
      PROVE  IInv'
  BY <1>5, ArrivalsInv
<1>6. ASSUME NEW h \in Handlers, Step(h) PROVE IInv'
  BY <1>6, LoadChallengeInv, ExchangeInv, RecordReplayInv, ConsumeInv, ProvisionInv,
     InsertAccountInv, CommitLoginInv, LoadSessionInv, UseInv, FlushSessionInv, AttestInv,
     LogoutInv, RotateInv, ParseInv, ConsumeNonceInv, ResolveInv, CommitExternalInv DEF Step
<1>7. ASSUME NEW h \in Handlers, Undo(h) PROVE IInv'
  BY <1>7, Ends DEF Undo
<1>8. CASE UNCHANGED vars
  <2>1. unchanged /\ tx' = tx
    BY <1>8 DEF vars, unchanged, external
  <2>2. \A h \in Handlers : \A x : x = tx[h] => TxOK(x)'
    BY <2>1, TxKept DEF IInv, HandlersOK
  <2>3. HandlersOK'
    BY <2>1, <2>2, HandlersKept DEF IInv
  <2> QED
    BY <2>1, <2>3, TablesKept DEF IInv
<1> QED
  BY <1>1, <1>2, <1>3, <1>4, <1>5, <1>6, <1>7, <1>8 DEF Next

LEMMA Invariance == Spec => []IInv
  BY InitInv, NextInv, PTL DEF Spec

\* Every table and every transaction keeps its type, and a request in
\* progress is one the routes of auth and of the MCP edge accept.
THEOREM TypeCorrect == Spec => []TypeOK
<1>1. IInv => TypeOK
  <2> SUFFICES ASSUME IInv PROVE TypeOK
    OBVIOUS
  <2>1. ASSUME NEW h \in Handlers, tx[h] # Idle
        PROVE  tx[h].at \in Phase /\ tx[h].q \in Request
    <3>1. CallbackOK(tx[h]) \/ SessionRequestOK(tx[h]) \/ ExternalOK(tx[h])
      BY <2>1 DEF IInv, HandlersOK, TxOK
    <3> QED
      BY <3>1 DEF CallbackOK, CallbackPhase, SessionRequestOK, SessionPhase, ExternalOK,
                  ExternalPhase, Phase, Request
  <2>2. \A n \in Nonces : nonce[n] = None \/ nonce[n].expires_at \in Nat
    BY DEF IInv, Tables, Nonce
  <2>3. grant.scopes \subseteq Purposes /\ grant.revoked \in BOOLEAN
    BY DEF IInv, Tables
  <2> QED
    BY <2>1, <2>2, <2>3 DEF IInv, Tables, TypeOK, Ids
<1> QED
  BY <1>1, Invariance, PTL

\* No challenge and no token begins two sessions, a session belongs to the
\* account of its subject, a subject has one account, and an account is active
\* by its attestation or as the operator: oidc_callback with its consuming
\* UPDATE, its replay row and memdot_auth_provision_*, however many run.
THEOREM LoginsOnce == Spec => []LoginOnce
<1>1. IInv => LoginOnce
  <2> SUFFICES ASSUME IInv PROVE LoginOnce
    OBVIOUS
  <2>1. /\ \A s, r \in Logins : s # r =>
              /\ session[s].by # session[r].by
              /\ session[s].jti = "none" \/ session[s].jti # session[r].jti
        /\ \A s \in Sessions : account[session[s].account].subject = session[s].subject
    BY DEF IInv, SessionsOK, LoginsApart, SessionOK
  <2>2. ASSUME NEW u \in Subjects PROVE Cardinality(AccountOf(u)) <= 1
    <3>1. \A a, b \in AccountOf(u) : a = b
      BY DEF IInv, AccountsOK, AccountOf
    <3>2. CASE AccountOf(u) = {}
      <4>1. Cardinality(AccountOf(u)) = 0
        BY <3>2, FS_EmptySet
      <4> QED
        BY <4>1
    <3>3. CASE AccountOf(u) # {}
      <4>1. PICK a : AccountOf(u) = {a}
        BY <3>1, <3>3
      <4>2. Cardinality({a}) = 1
        BY FS_Singleton
      <4>3. Cardinality(AccountOf(u)) = 1
        BY <4>1, <4>2
      <4> QED
        BY <4>3
    <3> QED
      BY <3>2, <3>3
  <2>3. \A a \in AccountIds : account[a] # None =>
          (account[a].status = "active") = (account[a].attested \/ a = bootstrap)
    BY DEF IInv, AccountsOK
  <2> QED
    BY <2>1, <2>2, <2>3 DEF LoginOnce
<1> QED
  BY <1>1, Invariance, PTL

\* Of the sessions that descend from one login one is live, unless two
\* handlers of logout and rotate_session loaded the same live one.
THEOREM OneLive == Spec => []OneLivePerLogin
<1>1. IInv => OneLivePerLogin
  BY DEF IInv, SessionsOK
<1> QED
  BY <1>1, Invariance, PTL

\* recent_auth_satisfied means that the user was with the issuer: rotation
\* carries the time of the login along.
THEOREM RecentAuthHolds == Spec => []RecentAuthIsRecent
<1>1. IInv => RecentAuthIsRecent
  BY DEF IInv, Tables, RecentAuthIsRecent
<1> QED
  BY <1>1, Invariance, PTL

\* An envelope that memdot_consume_service_auth_nonce lets through twice was
\* answered the second time a whole skew after its first call began, whatever
\* other calls delete in between.
THEOREM ReplaysNeedASkew == Spec => []ReplayNeedsASkew
<1>1. IInv => ReplayNeedsASkew
  BY DEF IInv
<1> QED
  BY <1>1, Invariance, PTL


-----------------------------------------------------------------------------
(* What is spent stays spent.                                              *)

GrantStays == grant.revoked => grant' = grant

LEMMA Untouched ==
    ASSUME UNCHANGED <<challenge, replay, account, bootstrap, session, grant>>
    PROVE  SessionsStay /\ IdentitiesStay /\ GrantStays
  BY DEF SessionsStay, IdentitiesStay, GrantStays

\* A refused callback adds to what is spent, or leaves it as it is.
LEMMA RefusalSpends ==
    ASSUME IInv, NEW h \in Handlers, tx[h].q \in Callback, challenge[tx[h].q.state] # None,
           NEW b \in BOOLEAN, Refuse(h, b)
    PROVE  SessionsStay /\ IdentitiesStay /\ GrantStays
<1>1. PICK c \in Challenges : c = tx[h].q.state
  BY DEF Callback
<1>2. challenge \in [Challenges -> {None} \cup Challenge] /\ challenge[c] \in Challenge
  BY <1>1 DEF IInv, Tables
<1>3. /\ replay \subseteq replay'
      /\ challenge' = [challenge EXCEPT ![c].consumed = @ \/ b]
      /\ UNCHANGED <<account, bootstrap, session, grant>>
  BY <1>1 DEF Refuse, external
<1>4. challenge'[c] = [challenge[c] EXCEPT !.consumed = @ \/ b]
      /\ \A d \in Challenges : d # c => challenge'[d] = challenge[d]
  BY <1>2, <1>3
<1>5. challenge[c].consumed => challenge'[c] = challenge[c]
  BY <1>2, <1>4 DEF Challenge
<1>6. IdentitiesStay
  BY <1>3, <1>4, <1>5 DEF IdentitiesStay
<1> QED
  BY <1>3, <1>6 DEF SessionsStay, GrantStays

LEMMA LoginSpends ==
    ASSUME IInv, NEW h \in Handlers, CommitLogin(h)
    PROVE  SessionsStay /\ IdentitiesStay /\ GrantStays
<1>1. PICK t \in Tx : t = tx[h]
  BY DEF IInv, HandlersOK
<1>2. t.at = "commit" /\ CallbackOK(t)
  BY <1>1, Busy DEF CommitLogin, At
<1>3. AccountReady(t) /\ ~challenge[t.q.state].consumed /\ t.q.state \in Challenges
  BY <1>2 DEF CallbackOK, Callback
<1>4. SessionsStay
  <2>1. PICK s, row : s \in NewSession /\ session' = [session EXCEPT ![s] = row]
    BY DEF CommitLogin
  <2>2. s \in SessionIds /\ session[s] = None
    BY <2>1 DEF NewSession
  <2>3. \A r \in SessionIds : r # s => session'[r] = session[r]
    BY <2>1 DEF IInv, Tables
  <2> QED
    BY <2>2, <2>3 DEF SessionsStay, Sessions
<1>5. \A c \in Challenges : challenge[c] # None /\ challenge[c].consumed =>
         challenge'[c] = challenge[c]
  BY <1>1, <1>3 DEF CommitLogin, IInv, Tables
<1>6. \A a \in AccountIds : account[a] # None => account'[a] = account[a]
  <2>1. CASE ~t.row.new
    BY <1>1, <2>1 DEF CommitLogin
  <2>2. CASE t.row.new
    <3>1. PICK row : account' = [account EXCEPT ![t.id] = row]
      BY <1>1, <2>2 DEF CommitLogin
    <3> QED
      BY <1>3, <2>2, <3>1 DEF AccountReady, IInv, Tables
  <2> QED
    BY <2>1, <2>2
<1>7. bootstrap # 0 => bootstrap' = bootstrap
  BY <1>1, <1>2, <1>3 DEF CommitLogin, AccountReady
<1>8. replay \subseteq replay' /\ grant' = grant
  BY DEF CommitLogin, external
<1>9. IdentitiesStay
  BY <1>5, <1>6, <1>7, <1>8 DEF IdentitiesStay
<1> QED
  BY <1>4, <1>8, <1>9 DEF GrantStays

LEMMA AttestationSpends ==
    ASSUME IInv, NEW h \in Handlers, record_adult_attestation(h)
    PROVE  SessionsStay /\ IdentitiesStay /\ GrantStays
<1>1. PICK a : a = tx[h].row.account
  OBVIOUS
<1>2. account' = [account EXCEPT ![a].attested = TRUE, ![a].status = "active"]
  BY <1>1 DEF record_adult_attestation
<1>3. account \in [AccountIds -> {None} \cup Account]
  BY DEF IInv, Tables
<1>4. ASSUME NEW b \in AccountIds
      PROVE  account'[b] \in {account[b], [account[b] EXCEPT !.attested = TRUE,
                                                             !.status = "active"]}
  BY <1>2, <1>3
<1>5. UNCHANGED <<challenge, replay, bootstrap, session, grant>>
  BY DEF record_adult_attestation, external
<1> QED
  BY <1>4, <1>5 DEF SessionsStay, IdentitiesStay, GrantStays

\* The session that ends keeps all but its life, and its successor is new.
LEMMA RevocationSpends ==
    ASSUME IInv, NEW h \in Handlers, logout(h) \/ rotate_session(h)
    PROVE  SessionsStay /\ IdentitiesStay /\ GrantStays
<1>1. UNCHANGED <<challenge, replay, account, bootstrap, grant>>
  BY DEF logout, rotate_session, identities, external
<1>2. session \in [SessionIds -> {None} \cup BrowserSession]
  BY DEF IInv, Tables
<1>3. PICK r : r = tx[h].q.session
  OBVIOUS
<1>4. CASE logout(h)
  <2>1. session' = [session EXCEPT ![r].revoked = TRUE]
    BY <1>3, <1>4 DEF logout
  <2> QED
    BY <1>1, <1>2, <2>1 DEF SessionsStay, Sessions, IdentitiesStay, GrantStays
<1>5. CASE rotate_session(h)
  <2>1. PICK s, row : /\ s \in NewSession
                     /\ session' = [session EXCEPT ![r].revoked = TRUE, ![s] = row]
    BY <1>3, <1>5 DEF rotate_session
  <2>2. s \in SessionIds /\ session[s] = None
    BY <2>1 DEF NewSession
  <2>3. ASSUME NEW q \in SessionIds, q # s
        PROVE  session'[q] \in {session[q], [session[q] EXCEPT !.revoked = TRUE]}
    BY <1>2, <2>1, <2>3
  <2> QED
    BY <1>1, <2>2, <2>3 DEF SessionsStay, Sessions, IdentitiesStay, GrantStays
<1> QED
  BY <1>4, <1>5

LEMMA StepsSpend ==
    ASSUME IInv, NEW h \in Handlers, Step(h)
    PROVE  SessionsStay /\ IdentitiesStay /\ GrantStays
<1>1. unchanged => UNCHANGED <<challenge, replay, account, bootstrap, session, grant>>
  BY DEF unchanged, identities, external
<1>2. ASSUME NEW phase, NEW keys, Go(h, phase, keys)
      PROVE  SessionsStay /\ IdentitiesStay /\ GrantStays
  BY <1>1, <1>2, Untouched DEF Go
<1>3. End(h) => SessionsStay /\ IdentitiesStay /\ GrantStays
  BY <1>1, Untouched DEF End
<1>4. ASSUME tx[h].at \in {"consume", "insert"}
      PROVE  tx[h].q \in Callback /\ challenge[tx[h].q.state] # None
  <2>1. tx[h].at \notin SessionPhase \cup ExternalPhase
    BY <1>4 DEF SessionPhase, ExternalPhase
  <2>2. CallbackOK(tx[h])
    <3>1. tx[h] # Idle
      BY <1>4 DEF Idle
    <3>2. ~SessionRequestOK(tx[h]) /\ ~ExternalOK(tx[h])
      BY <2>1 DEF SessionRequestOK, ExternalOK
    <3> QED
      BY <3>1, <3>2 DEF IInv, HandlersOK, TxOK
  <2> QED
    BY <2>2 DEF CallbackOK
<1>5. CASE LoadChallenge(h) \/ RecordReplay(h) \/ FlushSession(h)
  BY <1>2, <1>3, <1>5, Zenon DEF LoadChallenge, RecordReplay, FlushSession
<1>6. CASE Consume(h) \/ InsertAccount(h)
  <2>1. tx[h].at \in {"consume", "insert"}
    BY <1>6 DEF Consume, InsertAccount, At
  <2>2. End(h) \/ (\E phase, keys : Go(h, phase, keys)) \/ (\E b \in BOOLEAN : Refuse(h, b))
    <3>1. TRUE \in BOOLEAN /\ FALSE \in BOOLEAN
      OBVIOUS
    <3> QED
      BY <1>6, <3>1, Zenon DEF Consume, InsertAccount
  <2> QED
    BY <1>2, <1>3, <1>4, <2>1, <2>2, RefusalSpends
<1>7. CASE exchange_code(h) \/ Provision(h) \/ LoadSession(h)
  <2>1. unchanged
    BY <1>7 DEF exchange_code, Provision, LoadSession, End
  <2> QED
    BY <1>1, <2>1, Untouched
<1>8. CASE load_session_context(h) \/ CommitExternal(h)
  BY <1>8, Untouched DEF load_session_context, CommitExternal, identities, external
<1>9. CASE parse_service_auth(h) \/ consume_service_auth_nonce(h) \/ resolve_external_grant(h)
  <2>1. unchanged
    BY <1>9 DEF parse_service_auth, consume_service_auth_nonce, resolve_external_grant, Go
  <2> QED
    BY <1>1, <2>1, Untouched
<1> QED
  BY <1>5, <1>6, <1>7, <1>8, <1>9, LoginSpends, AttestationSpends, RevocationSpends DEF Step

\* Whichever callbacks, rotations, logouts and attestations overlap and
\* whatever they loaded before: revocation, consumption and attestation are
\* final (memdot_oidc_consume_challenge, rotate_session, logout,
\* record_adult_attestation).
THEOREM SpentForGood == Spec => SpentStaysSpent
<1>1. IInv /\ [Next]_vars => [SessionsStay /\ IdentitiesStay /\ (grant.revoked => grant' = grant)]_vars
  <2> SUFFICES ASSUME IInv, Next PROVE SessionsStay /\ IdentitiesStay /\ GrantStays
    BY DEF GrantStays
  <2>1. ASSUME NEW h \in Handlers,
               ReceiveCallback(h) \/ ReceiveSession(h) \/ ReceiveExternal(h) \/ Undo(h)
        PROVE  SessionsStay /\ IdentitiesStay /\ GrantStays
    <3>1. UNCHANGED <<identities, session, external>>
      BY <2>1 DEF ReceiveCallback, ReceiveSession, ReceiveExternal, Receive, Undo, End, unchanged
    <3> QED
      BY <3>1, Untouched DEF identities, external
  <2>2. CASE Tick
    BY <2>2, Untouched DEF Tick, identities, external
  <2>3. ASSUME NEW c \in Challenges, oidc_begin(c)
        PROVE  SessionsStay /\ IdentitiesStay /\ GrantStays
    <3>1. \A d \in Challenges : challenge[d] # None => challenge'[d] = challenge[d]
      BY <2>3 DEF oidc_begin, IInv, Tables
    <3> QED
      BY <2>3, <3>1 DEF oidc_begin, external, SessionsStay, IdentitiesStay, GrantStays
  <2>4. ASSUME NEW n, NEW ts, NEW p, NEW scopes, Sign(n, ts, p, scopes)
        PROVE  SessionsStay /\ IdentitiesStay /\ GrantStays
    BY <2>4, Untouched DEF Sign, identities
  <2>5. CASE RevokeGrant
    BY <2>5 DEF RevokeGrant, identities, SessionsStay, IdentitiesStay, GrantStays
  <2> QED
    BY <2>1, <2>2, <2>3, <2>4, <2>5, StepsSpend DEF Next
<1> QED
  BY <1>1, Invariance, PTL DEF Spec, SpentStaysSpent
=============================================================================
