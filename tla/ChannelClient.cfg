SPECIFICATION FairSpec
CONSTANTS
  a = a
  b = b
  c = c
  d = d
  m1 = m1
  m2 = m2
  r1 = r1
  r2 = r2
  E = E
  R = R
  Keys = {a, b, c, d}
  Threads = {m1, m2, r1, r2}
  NoThread = NoThread
  Scenarios <- AllScenarios
INVARIANTS
  EachItemOnceInOrder
  AnswersFit
PROPERTIES
  AllCallsReturn
