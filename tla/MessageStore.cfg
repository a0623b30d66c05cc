SPECIFICATION Spec
CONSTANTS
    h1 = h1
    h2 = h2
    h3 = h3
    Handlers <- MCHandlers
    Users <- MCUsers
    UserIds <- MCUserIds
    Keys <- MCKeys
    Contents <- MCContents
    BadContents <- MCBadContents
    Clock <- MCClock
    Commands <- MCCommands
SYMMETRY Symmetry
INVARIANTS
    SequencesContiguous
    OneMessagePerKey
    AnswersAreDurable
    CommittedTogether
    TimeFollowsSequence
PROPERTIES
    AppendOnly
    ImplementsLog
CHECK_DEADLOCK FALSE
