SPECIFICATION TimedSpec
CONSTANTS
    NEvents = 3
    Workers = {w1}
    BatchSize = 2
    NTokens = 4
    s1 = s1
    s2 = s2
    r1 = r1
    r2 = r2
    Sources = {s1, s2}
    Revisions = {r1, r2}
    SourceOf <- TwoSources
    Contents = {"good", "unparsable"}
    Requests = {"begin_upload", "complete_upload", "retry", "tombstone"}
    Shadows = {FALSE}
    SystemActor = TRUE
PROPERTIES JobsSettle
CHECK_DEADLOCK FALSE
