CONSTANTS
  n1 = n1
  n2 = n2
  n3 = n3
  Node = {n1, n2, n3}
  InitialLeaderId = zero
  Reports <- BusyFirst
  MaxMessages = 2
  MaxCopies = 1
  MaxCrashes = 0
SYMMETRY IdleNodes
SPECIFICATION Spec
INVARIANT ServesOnlyIfLeader
