CONSTANTS
  n1 = n1
  n2 = n2
  n3 = n3
  Node = {n1, n2, n3}
  InitialLeaderId = zero
  Reports <- BusyFirst
  MaxMessages = 1
  MaxCopies = 1
  MaxCrashes = 1
SPECIFICATION FairSpec
INVARIANTS
  TermInv
  OnlyElectedLead
PROPERTIES
  StaleServiceFromHandover
  LeaderAgain
