SPECIFICATION Spec
CONSTANTS
    a = a
    b = b
    Symbols <- MCSymbols
    EntryDays <- MCEntryDays
    Split <- MCSplit
    Caps = {1, 2}
    Lot = 1
    LastDay = 5
    MaxDelistings = 1
    MaxHalted = 1
INVARIANTS
    CapHolds
    OutcastsAreLeaving
    BuysAreNotForgotten
    OneBuyPerSymbol
PROPERTIES
    BuysWaitForExits
CHECK_DEADLOCK FALSE
