SPECIFICATION FairSpec
CONSTANTS
  BackoffMin = 1
  BackoffMax = 3
  MaxCalls = 3
  MaxDeaths = 2
  MaxTimeouts = 1
  MaxSpawnFails = 1
INVARIANTS OwnReply PipeLag
PROPERTIES RespawnEventually CarriersRepushed AliveFlagConverges ShutdownCompletes StopIsFinal
CHECK_DEADLOCK FALSE
