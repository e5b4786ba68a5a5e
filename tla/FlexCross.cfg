SPECIFICATION Spec
CONSTANTS
  Slots <- CrossSlots
  EnvOf <- CrossEnvOf
  RankOf <- CrossRankOf
  NumEpochs = 2
  NumSteps = 1
  NumIters = 2
  Configs <- CrossConfigs
INVARIANTS
  TypeOK
  InOrder
  ActionFitsStep
  OneInFlight
  QuietAtEnd
