CONSTANTS
  a = a
  b = b
  c = c
  Call = {a, b, c}
  NoCall = NoCall
  From <- ChainFrom
  Parent <- ChainParent
  MayPanic = {}
  MayClose = TRUE
  CallSlots = 2
  PoolSize = 2
  Indicator = 2
CHECK_DEADLOCK FALSE
SPECIFICATION FairSpec
PROPERTIES
  KeepsPromise
  EveryCallEnds
  ServerEndsUnlessPanicked
