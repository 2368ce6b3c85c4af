SPECIFICATION FairSpec
CONSTANTS
    R1 = R1
    R2 = R2
    LateCancel = FALSE
CHECK_DEADLOCK FALSE
INVARIANTS
    TypeOK
    PagesAreComplete
    ReportsHold
    NothingLeftBehind
    StreamIsCommitted
    ShutdownInOrder
PROPERTIES
    RunsAreSagas
    EventuallyReturns
    EventuallyExits
    EventuallyRelayed
