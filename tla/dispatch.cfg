SPECIFICATION FairSpec
CONSTANTS
  m1 = m1
  m2 = m2
  w1 = w1
  Messages <- MCMessages
  TypesOf <- MCTypesOf
  Wallets <- MCWallets
  WalletOf <- MCWalletOf
  Overlapping = {}
  Sealed <- MCSealed
  PlanOf <- MCPlanOf
  Responses <- MCResponses
  SkipLists <- MCSkipLists
  Averages <- MCAverages
  Threshold = 1
  NoMessage = NoMessage
  MaxRetries = 1
INVARIANTS SinglePath SuccessMeansDelivered AnsweredOrReported NotAllShed
PROPERTY InboxDrains
CHECK_DEADLOCK FALSE
