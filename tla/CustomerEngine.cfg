SPECIFICATION FairSpec
CONSTANTS
    N = 5
    ChunkSize = 2
    Checkpointed = TRUE
    SaveAfterSkip = "always"
    Scenario <- FixtureScenario
    MaxAttempts = 3
    MaxSkips = 2
    CrashChoices = {0, 2, 3, 4}
    StartCheckpoints <- EmptyOrCorruptStore
    MayCancel = TRUE
    MidCancel = FALSE
    MaxDisruptions = 3
INVARIANTS
    TypeOK
    SafeCheckpoint
    CompletedMeansSettled
    ResponseMatchesStore
PROPERTIES
    CheckpointNeverRegresses
    EventuallySettled
