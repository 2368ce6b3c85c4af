SPECIFICATION FairSpec
CONSTANTS
    R1 = R1
    R2 = R2
    LateCancel = TRUE
CHECK_DEADLOCK FALSE
INVARIANT NothingLeftBehind
