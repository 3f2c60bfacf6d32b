SPECIFICATION LiveSpec
CONSTANTS
    MaxDeploys = 2
    MaxMoment = 3
    MaxFaults = 3
CHECK_DEADLOCK FALSE
INVARIANTS
    RunsOnWholeDatabase
    OldCodeMeetsOldSchema
PROPERTIES
    RestoresFinish
