SPECIFICATION FairSpec
CONSTANTS
  NumEpochs = 2
  NumIters = 2
  Configs <- AllConfigs
INVARIANTS
  CollectivesMatch
  StepsSeparate
  ReducedBeforeStep
PROPERTIES
  TrainingEnds
