SPECIFICATION FairSpec
CONSTANTS
  Client = {c1, c2}
  Capacity = 2
  BroadcastLimit = 1
  BatchLimit = 2
  MaxSeq = 3
INVARIANTS BufferIsLatestRun InOrderOnce LossOnlyByEviction
PROPERTIES SilentClientLeaves CatchesUp
