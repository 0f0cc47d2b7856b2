CONSTANTS
  Days <- MCTwoDays
  Figures <- MCFourFigures
  Shown <- MCSomeShown
  CoreAttempts = 2
  StartLimit = 3
  MaxFaults = 2
  MaxChanges = 2
  Recurring = FALSE
  RunsPassMidnight = FALSE
  MaxManualRuns = 0
  SenderIsShared = FALSE
SPECIFICATION FairSpec
INVARIANTS
  CorrectionsStartFromTheReport
  ToldInv
  ReconciledMeansTold
PROPERTIES
  SuccessMeansSent
  EveryDayIsReported
CHECK_DEADLOCK FALSE
