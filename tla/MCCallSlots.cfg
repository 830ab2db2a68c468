CONSTANTS
  a = a
  b = b
  c = c
  Call = {a, b, c}
  NoCall = NoCall
  From <- SameFrom
  Parent <- Flat
  MayPanic = {a, b, c}
  MayClose = TRUE
  CallSlots = 2
  PoolSize = 2
  Indicator = 2
SYMMETRY SameCalls
CHECK_DEADLOCK FALSE
SPECIFICATION Spec
INVARIANTS
  TypeOK
  OwnResponse
  PacketInv
  SlotsConserved
  ReplyFindsCaller
  CountIsJobs
  ServerEndsIdle
  NothingLost
  CallsMove
