SPECIFICATION LedgerSpec
CONSTANTS
  MaxAppends = 5
  MaxSyncErrors = 1
  MaxShortWrites = 0
  MaxCrashes = 2
  MaxPowerLosses = 1
INVARIANT NeverReportsTampering
CHECK_DEADLOCK FALSE
