CONSTANTS
  a = a
  b = b
  c = c
  p = p
  q = q
  NoObj = NoObj
  Obj = {a, b, c, q}
  Home <- MCHome
  Owner <- Callback
  Initial <- CallbackInitial
  MaxServices = 3
SPECIFICATION FairSpec
INVARIANTS
  TypeOK
  OneToOne
  IdsConserved
  RemovalsMove
PROPERTIES
  KeepsPromise
  DropEnds
CHECK_DEADLOCK FALSE
