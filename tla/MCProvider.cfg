CONSTANTS
  c1 = c1
  c2 = c2
  p1 = p1
  p2 = p2
  Client = {c1, c2}
  NoClient = NoClient
  Port = {p1, p2}
  NoPort = NoPort
  OutputPath <- OneFile
  MayPanic = {c1}
  MaxAcceptors = 1
  UniStreams = 2
CHECK_DEADLOCK FALSE
SPECIFICATION FairSpec
INVARIANTS
  TypeOK
  ContextsTracked
  OwnImage
PROPERTIES
  LookedAfter
