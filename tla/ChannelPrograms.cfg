SPECIFICATION FairSpec
CONSTANTS
  a = a
  b = b
  p1 = p1
  p2 = p2
  p3 = p3
  g1 = g1
  g2 = g2
  g3 = g3
  Keys = {a, b}
  Calls <- CallIds
  Programs <- AllPrograms
CHECK_DEADLOCK FALSE
INVARIANTS
  PutManyAtomic
  ExactlyOnce
PROPERTIES
  BatchIsMaximal
  EveryCallReturns
