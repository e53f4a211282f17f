SPECIFICATION FairSpec
CONSTANTS
  Missions <- MCMissions
  FailureModes = {"None", "ErrorAck", "Incorrect1", "Incorrect2", "MissingRequests"}
  MaxRetry = 0
  MaxOps = 2
CHECK_DEADLOCK FALSE
INVARIANTS TypeOK Awaited SuccessMirrors ResumeRestores
PROPERTY EveryTransactionEnds
