CONSTANTS
  a = a
  b = b
  c = c
  Call = {a, b, c}
  NoCall = NoCall
  From <- NestedFrom
  Parent <- NestedParent
  MayPanic = {b}
  MayClose = FALSE
  CallSlots = 2
  PoolSize = 1
  Indicator = 2
CHECK_DEADLOCK FALSE
SPECIFICATION FairSpec
PROPERTY EveryCallEnds
