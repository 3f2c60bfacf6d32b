CHECK_DEADLOCK FALSE
SPECIFICATION LiveSpec
CONSTANTS
    Items <- MCTwo
    UserSlots <- MCOne
    Trials <- MCNone
    Modes <- MCNone
    Posts <- MCAllPosts
    PreviewInputs <- MCSourceInput
    MaxPreps = 2
    MaxQueued = 1
    MaxRevision = 1
    MaxCrashes = 1
INVARIANTS
    ReferencedPreparationsStay
    BatchEndsQuietly
PROPERTIES
    BatchesEnd
