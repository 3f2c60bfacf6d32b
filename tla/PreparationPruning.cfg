SPECIFICATION Spec
CONSTANTS
    j1 = j1
    j2 = j2
    q1 = q1
    local = local
    a1 = a1
    none = none
    NoAgent <- none
    Local <- local
    Requests <- MCOneRequest
    Jobs <- MCOneJob
    SameInput <- MCSameInput
    Agents <- MCLocalOnly
    MaxFailures = 2
    MaxCollections = 1
    MaxRevision = 3
    LeaseTicks = 0
    MaxAttempts = 1
    MaxDelays = 0
    LastAsked = 3
    LastOther = 3
    LastCancelled = 1
INVARIANTS
    LeasedVersionsAreKept
