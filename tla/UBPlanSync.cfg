SPECIFICATION PlanFairSpec
CONSTANTS
  UserCommands = {"cancel", "pair"}
  MaxRetry = 1
  MaxCommands = 1
  MaxLate = 1
  Totals <- MCTotals
  Plans <- MCPlans
  MaxRequests = 1
CHECK_DEADLOCK FALSE
INVARIANTS PlanTypeOK HeadAwaited
PROPERTIES QueueDrains InitialPlanLoads SyncEndsIfPossible
