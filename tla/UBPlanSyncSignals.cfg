SPECIFICATION PlanFairSpec
CONSTANTS
  UserCommands = {}
  MaxRetry = 1
  MaxCommands = 0
  MaxLate = 1
  Totals <- MCUnsupported
  Plans <- MCPlans
  MaxRequests = 1
CHECK_DEADLOCK FALSE
PROPERTY SyncEnds
