SPECIFICATION Spec
CONSTANTS
    Days = {1}
    MaxRangeDays = 1
    Books = {"more"}
    FirstBooks = {"more"}
    ReportOf <- MCReportOf
    PaymentTypes = {"voucher"}
    Importers = {"cli"}
    TakeTurns = {}
    Automation = {}
    DryRuns = {}
    MaxImports = 3
    MaxFaults = 2
    MaxChanges = 1
INVARIANTS PaymentsFollowTheMap
CHECK_DEADLOCK FALSE
