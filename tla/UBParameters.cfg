\* An autopilot with two parameters and a gimbal with one; two reads, writes,
\* refreshes or announcements, which may overlap with the repetitions of others.
SPECIFICATION FairSpec
CONSTANTS
  Parameters <- MCParameters
  Default = 1
  Values = {0, 1}
  MaxListRetry = 1
  MaxIndexRetry = 1
  MaxNameRetry = 1
  MaxBatch = 0
  MaxOps = 2
  MaxLate = 1
CHECK_DEADLOCK FALSE
INVARIANTS TypeOK Attended WritesTakeHold
PROPERTY LoadConcludes
