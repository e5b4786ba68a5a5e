SPECIFICATION FairSpec
CONSTANTS
  Handlers = {1, 2, 3}
  Size <- UnevenSize
  MaxBatch = 3
  NumRequests = 2
  NumCalls = 2
INVARIANTS
  NoRequestLost
  QuietStop
PROPERTIES
  NobodyIsLeftWaiting
