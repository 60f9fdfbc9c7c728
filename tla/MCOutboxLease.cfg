SPECIFICATION Spec
CONSTANTS
    NEvents = 2
    Workers = {w1, w2}
    BatchSize = 2
    NTokens = 5
    MaxRuns = 2
    OneTransaction = FALSE
INVARIANTS LeaseRespected
SYMMETRY Symmetry
CHECK_DEADLOCK FALSE
