SPECIFICATION FairSpec
CONSTANTS
    NEvents = 3
    Workers = {w1}
    BatchSize = 2
    NTokens = 4
    s1 = s1
    s2 = s2
    r1 = r1
    r2 = r2
    Sources = {s1}
    Revisions = {r1}
    SourceOf <- OneSource
    Contents = {"good", "unparsable"}
    Requests = {"begin_upload", "complete_upload", "retry", "reprocess", "cancel", "tombstone"}
    Shadows = {FALSE}
    SystemActor = TRUE
PROPERTIES QueuedJobIsAttempted
CHECK_DEADLOCK FALSE
