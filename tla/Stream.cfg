SPECIFICATION FairSpec
CONSTANTS
    a1 = a1
    a2 = a2
    w = w
    here = here
    Agents <- MCAgents
    Pages <- MCPages
    Local <- MCPages
    Worker = w
    Capacity = 1
    MaxEvents = 4
    OneWriter = FALSE
CHECK_DEADLOCK FALSE
INVARIANTS
    TypeOK
    SkippedOnlyByOverlap
    ClosedAfterTheRow
    NothingLeftBehind
PROPERTIES
    ClosingNoticed
    ImplementsEventFeed
