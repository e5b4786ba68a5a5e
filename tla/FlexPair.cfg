SPECIFICATION FairSpec
CONSTANTS
  Slots <- PairSlots
  EnvOf <- PairEnvOf
  RankOf <- PairRankOf
  NumEpochs = 2
  NumSteps = 2
  NumIters = 2
  Configs <- PairConfigs
INVARIANTS
  PlansServeOrRefuse
  TrajectoriesComplete
  RouterOrder
PROPERTIES
  ImplementsLockStep
