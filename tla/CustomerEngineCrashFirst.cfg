SPECIFICATION Spec
CONSTANTS
    N = 5
    ChunkSize = 2
    Checkpointed = TRUE
    SaveAfterSkip = "always"
    Scenario <- FixtureScenario
    MaxAttempts = 3
    MaxSkips = 2
    CrashChoices = {0, 1}
    StartCheckpoints <- EmptyStore
    MayCancel = FALSE
    MidCancel = FALSE
    MaxDisruptions = 3
INVARIANT CompletedMeansSettled
