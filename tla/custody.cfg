SPECIFICATION FairSpec
CONSTANTS
  s1 = s1
  s2 = s2
  r1 = r1
  r2 = r2
  Sessions <- TwoSessions
  Requests <- TwoRequests
  DevSessions <- DevS2
  NoSession = NoSession
  Idle = Idle
  MaxSubmits = 3
  MaxCrashes = 2
INVARIANTS OwnRepliesOnly OpenSessionHasDir
PROPERTIES ImplementsHeldSession AnsweredOrClosed TotComesUp
CHECK_DEADLOCK FALSE
