SPECIFICATION InterfaceSpec
CONSTANTS
    MaxId = 5
    Limit = 2
    Peers = {bob, carol}
    MaxMessages = 5
    PageSize = 2
    address = address
    alice = alice
    bob = bob
    Dimensions = {address, alice, bob}
    Attempts <- MCAttempts
    Global = global
    RuleLimit <- MCLimit
    RuleWindow <- MCWindow
    Second = 2
    MaxTime = 16
INVARIANTS
    ListedExactlyOnce
    HistoryUnbroken
    RetryAfterSuffices
