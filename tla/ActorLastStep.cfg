SPECIFICATION Spec
CONSTANTS
  NumEpochs = 1
  NumIters = 1
  Configs <- RemainderConfigs
INVARIANTS
  ReducedBeforeStep
