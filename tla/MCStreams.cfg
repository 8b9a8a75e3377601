CONSTANTS
  MaxStreams = 2
  Overtaking = {"AppendEntries"}
SPECIFICATION FairSpec
INVARIANTS
  FinishedOnce
  AnswersOwnRequest
PROPERTIES
  GrpcContract
  EveryStreamEnds
CHECK_DEADLOCK FALSE
