SPECIFICATION FairSpec
CONSTANTS
  m1 = m1
  m2 = m2
  m3 = m3
  Mail <- ThreeMails
  Spam <- OneSpam
  Accounts <- BothCarriers
  Blank = Blank
  MaxCrashes = 1
  MaxFaults = 2
INVARIANTS NoMailLost DuplicatesAreAccounted
PROPERTIES EventuallyStaged ImplementsAtLeastOnce MailboxDrains SingleMailIsKept
