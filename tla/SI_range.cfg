SPECIFICATION Spec
CONSTANTS
    Days = {1, 2}
    MaxRangeDays = 2
    Books = {"plain", "more", "gift", "closed", "odd", "garbled", "refused"}
    FirstBooks = {"plain", "more", "gift", "closed", "odd", "garbled", "refused"}
    ReportOf <- MCReportOf
    PaymentTypes = {"voucher"}
    Importers = {"cli"}
    TakeTurns = {}
    Automation = {}
    DryRuns = {"cli"}
    MaxImports = 2
    MaxFaults = 1
    MaxChanges = 1
INVARIANTS DayIsWhole ResultTellsOfEveryDay
CHECK_DEADLOCK FALSE
