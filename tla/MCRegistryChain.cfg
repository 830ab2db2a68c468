CONSTANTS
  a = a
  b = b
  c = c
  p = p
  q = q
  NoObj = NoObj
  Obj = {a, c, p, q}
  Home <- MCHome
  Owner <- Chain
  Initial <- ChainInitial
  MaxServices = 3
SPECIFICATION FairSpec
PROPERTIES
  DropEnds
CHECK_DEADLOCK FALSE
