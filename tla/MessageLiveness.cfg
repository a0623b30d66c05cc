SPECIFICATION FairSpec
CONSTANTS
    h1 = h1
    h2 = h2
    h3 = h3
    Handlers <- MCHandlers
    Users <- MCUsers
    UserIds <- MCUserIds
    Keys <- MCKeys
    Contents <- MCContents
    BadContents <- MCBadContents
    Clock = {1}
    Commands <- MCLockCommands
PROPERTIES
    EveryHandlerReturns
CHECK_DEADLOCK FALSE
