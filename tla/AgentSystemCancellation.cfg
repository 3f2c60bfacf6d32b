CHECK_DEADLOCK FALSE
SPECIFICATION SysSpec
CONSTANTS
    j1 = j1
    local = local
    a1 = a1
    a2 = a2
    none = none
    Jobs <- MCJobs
    Agents <- MCOneDevice
    Local <- local
    NoAgent <- none
    MaxFailures = 2
    LeaseTicks = 1
    TransferTicks = 1
    MaxAttempts = 1
    MaxUploads = 1
    MaxWire = 2
    MaxFaults = 1
    MaxRelease = 0
PROPERTIES
    OnlyUsersCancel
