SPECIFICATION FairSpec
CONSTANTS
    c1 = c1
    c2 = c2
    i1 = i1
    i2 = i2
    ua = ua
    ub = ub
    Clients = {c1, c2}
    Events = {e1}
    Users = {ua, ub}
    Instances = {i1, i2}
    Stopping = {i1}
    Owner <- MCOwner
    Home <- MCHome
    SendBuffer = 1
    PublishBuffer = 1
    MaxFaults = 1
    None = none
INVARIANTS
    ReportedIsDelivered
    StopsInOrder
PROPERTY
    PublishReturns
CHECK_DEADLOCK FALSE
