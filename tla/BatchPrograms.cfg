SPECIFICATION FairSpec
CONSTANTS
    NoCrash = NoCrash
CHECK_DEADLOCK FALSE
INVARIANTS
    TypeOK
    NothingIsLost
    ReportsAreTrue
PROPERTIES
    TornBlocksProgress
    FirstRecordStays
    ProgramsFinish
