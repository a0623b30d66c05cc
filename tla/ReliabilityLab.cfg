SPECIFICATION LabSpec
CONSTANTS
    PacketUsers = {ua, ub, uc}
    Claims = {p1, p2}
    Deliveries = {d1, d2}
    Total = 5
    Shares = 2
    Nobody = nobody
    Readers = {r1, r2}
    Invalidators = {v1, v2}
    MaxVersion = 3
    Owners = {o1, o2, o3}
    MaxToken = 4
    Unlocked = unlocked
INVARIANTS
    PacketConserved
    StaleIsPendingOrLate
PROPERTIES
    FencedWrites
