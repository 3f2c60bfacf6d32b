SPECIFICATION LiveSpec
CONSTANTS
    j1 = j1
    j2 = j2
    local = local
    a1 = a1
    none = none
    Jobs <- MCOneJob
    Agents <- MCAgents
    Local <- local
    NoAgent <- none
    MaxFailures = 2
    LeaseTicks = 2
    TransferTicks = 3
    MaxAttempts = 3
    MaxUploads = 2
INVARIANTS
    ResultOfLastLease
    TransferKeepsLease
PROPERTIES
    ImplementsBacktestJob
    ExpiredLeaseIsGivenBack
