SPECIFICATION Spec
CONSTANTS
    NEvents = 4
    Workers = {w1}
    BatchSize = 2
    NTokens = 5
    s1 = s1
    s2 = s2
    r1 = r1
    r2 = r2
    Sources = {s1}
    Revisions = {r1}
    SourceOf <- OneSource
    Contents = {"good", "unparsable"}
    Requests = {"begin_upload", "complete_upload", "retry", "reprocess", "cancel", "tombstone"}
    Shadows = {TRUE, FALSE}
    SystemActor = TRUE
PROPERTIES NoPromotionAfterTombstone
CHECK_DEADLOCK FALSE
