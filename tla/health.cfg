SPECIFICATION FairSpec
CONSTANTS
  imap = imap
  pop3 = pop3
  dispatch = dispatch
  Pull <- TwoAccounts
  IdleFirst <- OnlyImap
  Dispatch = dispatch
  max_silence <- OneSlice
  NoisyRun = 1
  Recycle = 2
  PollInterval = 1
  BackoffMax = 2
  MaxFailures = 1
INVARIANTS TypeOK GaugeAccounted StreakClears NoFalseAlarm EveryStallReportedOnce
PROPERTY WedgeIsSeen
