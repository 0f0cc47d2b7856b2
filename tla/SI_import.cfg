SPECIFICATION FairSpec
CONSTANTS
    Days = {1}
    MaxRangeDays = 1
    Books = {"plain", "more", "garbled"}
    FirstBooks = {"plain"}
    ReportOf <- MCReportOf
    PaymentTypes = {}
    Importers = {"cli", "core", "coo"}
    TakeTurns = {"core", "coo"}
    Automation = {"core"}
    DryRuns = {}
    MaxImports = 3
    MaxFaults = 0
    MaxChanges = 1
INVARIANTS TrustedDaysAddUp StoreInv
PROPERTIES KeepsPromise EveryImportEnds
CHECK_DEADLOCK FALSE
