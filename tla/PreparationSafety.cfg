CHECK_DEADLOCK FALSE
SPECIFICATION LiveSpec
CONSTANTS
    j1 = j1
    j2 = j2
    q1 = q1
    local = local
    a1 = a1
    none = none
    NoAgent <- none
    Local <- local
    Requests <- MCOneRequest
    Jobs <- MCOneJob
    SameInput <- MCSameInput
    Agents <- MCLocalOnly
    MaxFailures = 2
    MaxCollections = 1
    MaxRevision = 3
    LeaseTicks = 1
    MaxAttempts = 2
    MaxDelays = 1
    LastAsked = 2
    LastOther = 2
    LastCancelled = 1
INVARIANTS
    NoFalseGap
PROPERTIES
    VersionsAreImmutable
    AcceptedPreviewsAreCurrent
    WaitingJobsGoOn
    CancelledJobsEnd
