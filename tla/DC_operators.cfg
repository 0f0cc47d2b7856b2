CONSTANTS
  Days <- MCTwoDays
  Figures <- MCTwoFigures
  Shown <- MCAllShown
  CoreAttempts = 1
  StartLimit = 1
  MaxFaults = 1
  MaxChanges = 2
  Recurring = TRUE
  RunsPassMidnight = TRUE
  MaxManualRuns = 1
  SenderIsShared = TRUE
SPECIFICATION Spec
INVARIANTS
  OneSalesReportPerDay
  CooInv
PROPERTIES
  SentTextIsFinal
  KeepsPromise
CHECK_DEADLOCK FALSE
