SPECIFICATION FairSpec
CONSTANTS
    h1 = h1
    h2 = h2
    k1 = k1
    d1 = d1
    Docs = {d1}
    Keys = {k1}
    Handlers = {h1, h2}
    MaxRev = 4
    Deployments = {"service", "fixture", "repaired"}
INVARIANTS TypeOK EffectOnce PointersAnnounced
PROPERTIES RequestsEnd ImplementsHistory
CHECK_DEADLOCK FALSE
