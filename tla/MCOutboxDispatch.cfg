SPECIFICATION FairSpec
CONSTANTS
    NEvents = 3
    Workers = {w1, w2}
    BatchSize = 2
    NTokens = 6
    MaxRuns = 2
    OneTransaction = TRUE
INVARIANTS TypeOK ExactlyOnce NeverDiscarded
PROPERTIES ImplementsDelivery EventuallyPublished
CHECK_DEADLOCK FALSE
