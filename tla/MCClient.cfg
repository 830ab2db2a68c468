CONSTANTS
  s1 = s1
  s2 = s2
  Server = {s1, s2}
  MaxImages = 4
  Permits = 2
  Workers = 3
  MayPanic = {s1, s2}
  MayFail = TRUE
SPECIFICATION FairSpec
INVARIANTS
  TypeOK
  CallsLimited
PROPERTIES
  EveryImageEnds
