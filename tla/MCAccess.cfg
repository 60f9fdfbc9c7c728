SPECIFICATION Spec
CONSTANTS
    Challenges = {c1, c2}
    Subjects = {u1, u2}
    Jtis = {j1}
    SessionIds = {1, 2, 3, 4}
    AccountIds = {1, 2, 3}
    Nonces = {n1, n2}
    Purposes = {read, propose}
    Handlers = {h1, h2}
    ChallengeTtl = 1
    SessionTtl = 3
    IdleTtl = 1
    RecentAuth = 1
    MAX_SKEW_SECONDS = 1
    Mixes <- SmallMixes
INVARIANTS TypeOK LoginOnce OneLivePerLogin RecentAuthIsRecent ReplayNeedsASkew
SYMMETRY Symmetry
CHECK_DEADLOCK FALSE
