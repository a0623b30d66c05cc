SPECIFICATION ClientSpec
CONSTANTS
    Handlers = {h1, h2, h3}
    Registered = registered
    Requests = {r1}
    RefreshKeys = {k1, k2}
    None = none
SYMMETRY Symmetry
INVARIANTS
    OneLiveToken
    SessionsMatchPassword
    IdempotentAnswers
    ReplayForCause
    ReplayEndsSession
    RefreshRecoverable
CHECK_DEADLOCK FALSE
