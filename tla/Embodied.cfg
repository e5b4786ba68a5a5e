\* The embodied loops: three programs, one and several workers, stages.
\* A stopped stream and two actors may wait for ever, hence no deadlock check.
SPECIFICATION FairSpec
CONSTANTS
  NumEpochs = 2
  NumEvalSteps = 2
  NumIters = 2
  Configs <- Embodied_Configs
CHECK_DEADLOCK FALSE
INVARIANTS
  MessagesFit
  TrajectoriesFit
  PiecesAccounted
PROPERTIES
  WaitsEnd
