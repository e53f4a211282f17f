\* A parameter that is announced while the last index is awaited.
SPECIFICATION FairSpec
CONSTANTS
  Parameters <- MCParameters
  Default = 1
  Values = {0, 1}
  MaxListRetry = 1
  MaxIndexRetry = 1
  MaxNameRetry = 1
  MaxBatch = 0
  MaxOps = 1
  MaxLate = 1
CHECK_DEADLOCK FALSE
INVARIANT MetaDataComplete
