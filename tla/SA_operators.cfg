CONSTANTS
  Days <- MCTwoDays
  Figures <- MCGoodFigures
  PartialFigures <- MCPartial
  UntrustedFigures <- MCNone
  BackfillMaxDays = 1
  MaxFaults = 1
  MaxChanges = 1
  MaxManualRuns = 2
  Recurring = TRUE
  RunsPassMidnight = TRUE
  LockIsShared = TRUE
  MayNotPublish = TRUE
  ManualModes <- MCAllModes
SPECIFICATION Spec
INVARIANTS
  AutoInv
  DoneMeansReported
PROPERTIES
  KeepsPromise
CHECK_DEADLOCK FALSE
