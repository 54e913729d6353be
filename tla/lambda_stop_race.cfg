SPECIFICATION Spec
CONSTANTS
  BackoffMin = 1
  BackoffMax = 3
  MaxCalls = 2
  MaxDeaths = 1
  MaxTimeouts = 0
  MaxSpawnFails = 0
INVARIANT StaysStopped
CHECK_DEADLOCK FALSE
