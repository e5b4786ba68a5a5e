SPECIFICATION FairSchedulerSpec
CONSTANTS
  Configs <- Elastic
ACTION_CONSTRAINT
  InOrderOfAlikes
INVARIANTS
  NothingLeftBehind
  BooksAreTrue
  GpusExclusiveIfWaiting
PROPERTIES
  AllStepsEnd
