SPECIFICATION Spec
CONSTANTS
    Handlers = {h1, h2}
    Deployments <- SmallDeployments
    Parts = {"proposals", "conversations", "notion", "uploads"}
    MaxRequests <- SmallRequests
    Items = {i1}
    Proposals = {p1, p2}
    MaxMemory = 4
    ConvIds = {c1, c2}
    Clients = {x}
    TurnKeys = {k1}
    MaxTurns = 3
    Pages = {g1}
    Contents = {a, b}
    MaxSources = 4
    UploadIds = {u1, u2}
    Digests = {d1}
INVARIANTS TypeOK ProposalAppliedOnce CapturedOnce DeletionHolds SyncPauses CompletedTogether
PROPERTIES RevisionsImmutable
SYMMETRY Symmetry
CHECK_DEADLOCK FALSE
