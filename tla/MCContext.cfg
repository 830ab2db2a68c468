CONSTANTS
  j1 = j1
  j2 = j2
  j3 = j3
  o1 = o1
  o2 = o2
  o3 = o3
  u1 = u1
  u2 = u2
  Job = {j1, j2, j3}
  Object = {o1, o2, o3}
  NoObject = NoObject
  User = {u1, u2}
  Target <- MCTarget
  Delete = {j2}
  Nested = {j1}
  Export <- MCExport
  Owns = {o1, o2}
CHECK_DEADLOCK FALSE
SPECIFICATION FairSpec
INVARIANTS
  TypeOK
  PortOutlivesJobs
  QuietDrop
PROPERTIES
  DropCompletes
