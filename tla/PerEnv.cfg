SPECIFICATION FairSpec
CONSTANTS
  NumEpochs = 2
  NumSteps = 2
  Configs <- AllConfigs
INVARIANTS
  SlotsAgree
  SharesAreEven
PROPERTIES
  EveryCallReturns
