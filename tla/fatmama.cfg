SPECIFICATION FairSpec
CONSTANTS
  A = A
  B = B
  vb = vb
  w = w
  x = x
  r1 = r1
  elsewhere = elsewhere
  Sites <- TwoSites
  Addrs <- ThreeAddrs
  Managed <- WX
  Boxes <- ThreeAddrs
  BoxOf <- OwnBox
  Init0 <- FirstRoutes
  AutoCreate <- OnlyB
  Production <- NoSites
  Mail <- MailFiles
  Batches <- SixBatches
  From <- Directories
  To <- Recipients
  Headless <- NoTo
  Host <- Hosts
  Wallets <- WAtB
  NoHost = NoHost
  Readers <- OneReader
  None = None
  MaxOps = 1
  MaxFaults = 1
INVARIANTS MailIsAccountedFor PromisedRoutesKept DuplicatesAreAccounted
PROPERTIES ImplementsRelay WaitingMailFindsRoute RelayDrains
CHECK_DEADLOCK FALSE
