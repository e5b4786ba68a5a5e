SPECIFICATION FairSpec
CONSTANTS
  d1 = d1
  d2 = d2
  Scenarios <- AllScenarios
INVARIANTS
  ObjectsMatch
PROPERTIES
  EverythingArrives
