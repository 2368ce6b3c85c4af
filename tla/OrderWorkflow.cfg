SPECIFICATION FairSpec
CONSTANTS
    Requests = {r1, r2}
    Orders = {"A", "B"}
    Commands <- ClashingCommands
    EmptyValue = "empty"
INVARIANTS
    TypeOK
    TablesAgree
    AckedIsRecorded
    ConflictIsFinal
PROPERTIES
    OrdersMoveForward
    EveryRequestEnds
