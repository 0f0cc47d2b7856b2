CONSTANTS
  Days <- MCTwoDays
  Figures <- MCTwoFigures
  Shown <- MCAllShown
  CoreAttempts = 1
  StartLimit = 2
  MaxFaults = 1
  MaxChanges = 2
  Recurring = TRUE
  RunsPassMidnight = FALSE
  MaxManualRuns = 0
  SenderIsShared = FALSE
SPECIFICATION Spec
INVARIANTS
  ReconciledMeansTold
CHECK_DEADLOCK FALSE
