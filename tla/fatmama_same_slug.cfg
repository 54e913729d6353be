SPECIFICATION Spec
CONSTANTS
  A = A
  B = B
  vb = vb
  w = w
  x = x
  r1 = r1
  elsewhere = elsewhere
  Sites <- TwoSites
  Addrs <- ThreeAddrs
  Managed <- WX
  Boxes <- ThreeAddrs
  BoxOf <- SameSlug
  Init0 <- FirstRoutes
  AutoCreate <- OnlyB
  Production <- NoSites
  Mail <- MailFiles
  Batches <- OnlyForX
  From <- Directories
  To <- Recipients
  Headless <- NoTo
  Host <- Hosts
  Wallets <- WAtB
  NoHost = NoHost
  Readers <- OneReader
  None = None
  MaxOps = 0
  MaxFaults = 0
INVARIANT RegisteredNeverReclaimed
CHECK_DEADLOCK FALSE
