SPECIFICATION FairSpec
CONSTANTS
    Events = {e1, e2}
    Malformed = {e2}
    Workers = {w1, w2}
    ClaimLimit = 2
    LeaseDuration = 3
    AttemptTimeout = 2
    PollInterval = 1
    MaxAttempts = 2
    BaseBackoff = 1
    MaxBackoff = 2
    RetryDelay <- MCRetryDelay
    MaxFaults = 2
INVARIANTS
    SettledForCause
    AttemptsBounded
PROPERTIES
    PublishStartsUnderLease
    SettledByOwner
    EveryEventSettles
CHECK_DEADLOCK FALSE
