SPECIFICATION Spec
CONSTANTS
  m1 = m1
  m2 = m2
  m3 = m3
  Mail <- ThreeMails
  Spam <- OneSpam
  Accounts <- PlainPop3
  Blank = Blank
  MaxCrashes = 0
  MaxFaults = 0
INVARIANT NoMailForgotten
