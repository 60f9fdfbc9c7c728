SPECIFICATION Spec
CONSTANTS
    Users = {u1, u2}
    Nodes = {n1, n2, n3}
    Items = {i1}
    ClientIds = {k1, k2}
    Handlers = {h1, h2}
    LoggedTypes = {"attempt_started", "grade_recorded", "review_rated", "user_chat_marker"}
    MaxAttempts = 2
    MaxLogged = 2
    Mixes <- SmallMixes
INVARIANTS TypeOK GradedOnce RevealedNeverCounts  AcyclicUnlessRaced
SYMMETRY Symmetry
CHECK_DEADLOCK FALSE
