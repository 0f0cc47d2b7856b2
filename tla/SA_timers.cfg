CONSTANTS
  Days <- MCThreeDays
  Figures <- MCPlainFigures
  PartialFigures <- MCNone
  UntrustedFigures <- MCUntrusted
  BackfillMaxDays = 2
  MaxFaults = 1
  MaxChanges = 1
  MaxManualRuns = 1
  Recurring = FALSE
  RunsPassMidnight = FALSE
  LockIsShared = FALSE
  MayNotPublish = FALSE
  ManualModes <- MCDate
SPECIFICATION FairSpec
INVARIANTS
  DoneMeansImported
  OnePendingReport
  PendingIsCurrent
PROPERTIES
  EveryClosedDayIsImported
CHECK_DEADLOCK FALSE
