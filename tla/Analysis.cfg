CONSTANTS
  Symbols <- MCSymbols
  Dates <- MCDates
  Rules <- MCRules
  Worlds <- MCWorlds
  Stores <- MCStores
  Others <- MCOthers
  Strategy <- MCStrategy
  MaxOthers = 1
  MaxLost = 1
SPECIFICATION LiveSpec
INVARIANT PreviewIsTrue
INVARIANT OnlySurvivorsAreFetched
INVARIANT FailsForAReason
PROPERTY AnalysisEnds
CHECK_DEADLOCK FALSE
