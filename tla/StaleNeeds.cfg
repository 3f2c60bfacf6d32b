CONSTANTS
  Symbols <- MCSymbols
  Dates <- MCDates
  Rules <- MCRules
  Worlds <- MCWorlds
  Stores <- MCStores
  Others <- MCOthers
  Strategy <- MCStrategy
  MaxOthers = 1
  MaxLost = 1
SPECIFICATION Spec
INVARIANT DroppedNeedsChangeNothing
CHECK_DEADLOCK FALSE
