CHECK_DEADLOCK FALSE
SPECIFICATION LiveSpec
CONSTANTS
    Items <- MCNone
    UserSlots <- MCNone
    Trials <- MCTwoFolds
    Modes <- MCWalk
    Posts <- MCNone
    PreviewInputs <- MCNone
    MaxPreps = 3
    MaxQueued = 1
    MaxRevision = 2
    MaxCrashes = 1
INVARIANTS
    ExperimentEndsQuietly
    ExperimentsKeepTheirRuns
PROPERTIES
    ComparedOnSameData
    BackgroundRespectsLimit
    CancelledExperimentsLaunchNothing
    ExperimentsEnd
