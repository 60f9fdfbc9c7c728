SPECIFICATION Spec
CONSTANTS
    NEvents = 4
    Workers = {w1, w2}
    BatchSize = 2
    NTokens = 6
    s1 = s1
    s2 = s2
    r1 = r1
    r2 = r2
    Sources = {s1}
    Revisions = {r1}
    SourceOf <- OneSource
    Contents = {"good", "poor", "unparsable", "oversize"}
    Requests = {"begin_upload", "complete_upload", "retry", "reprocess", "cancel", "tombstone"}
    Shadows = {TRUE, FALSE}
    SystemActor = FALSE
INVARIANTS TypeOK JobFollowsEvent ActiveRunIsGood PromotionAnnounced WaitingHasReason SuccessWithoutShadow
PROPERTIES RecordsFinal
SYMMETRY Symmetry
CHECK_DEADLOCK FALSE
