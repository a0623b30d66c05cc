SPECIFICATION Spec
CONSTANTS
    MaxId = 4
    Limit = 1
INVARIANTS
    StableSnapshot
