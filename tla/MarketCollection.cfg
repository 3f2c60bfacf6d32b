SPECIFICATION Spec
CONSTANTS
  c1 = c1
  c2 = c2
  v1 = v1
  v2 = v2
  absent = absent
  tradeOnly = tradeOnly
  Absent <- absent
  TradeOnly <- tradeOnly
  Codes <- MCCodes
  Ids <- MCIds
  Markets <- MCMarkets
  LastDay = 4
  FirstToday = 3
  Closed <- MCClosed
  CalendarDays <- MCCalendar
  Histories <- MCHistories
  MaxFaults = 1
  BackfillRanges <- MCBackfillRanges
  SyncDates <- MCSyncDates
  MaxLookback = 2
  MaxStarts = 1
INVARIANTS UniversesAreTrue DelistingsAreFinal
PROPERTIES CollectionCatchesUp ExhaustedBackfillsGoOn
CHECK_DEADLOCK FALSE
