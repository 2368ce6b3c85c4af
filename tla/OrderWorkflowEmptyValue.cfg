SPECIFICATION Spec
CONSTANTS
    Requests = {r1, r2}
    Orders = {"A", "B"}
    Commands <- EmptyValueCommands
    EmptyValue = "empty"
INVARIANTS
    AckedIsRecorded
