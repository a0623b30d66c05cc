SPECIFICATION FairSpec
CONSTANTS
    c1 = c1
    c2 = c2
    i1 = i1
    i2 = i2
    r1 = r1
    Connections = {c1, c2}
    Sessions = {s1}
    Instances = {i1, i2}
    Revokers = {r1}
    Lookups = {l1}
    Home <- MCHome
    MaxFaults = 1
    None = none
INVARIANTS
    RevocationSeesHandshakes
    HubMatchesConnections
PROPERTIES
    RevokedCloses
    OneSurvives
    IndexRestored
