SPECIFICATION Spec
CONSTANTS
  NumCmds = 4
  Kind <- AllReads4
  Cnt <- OneTwoOneOne
  QueueSize = 2
  SQSize = 3
  CQSize = 3
  PcmdqSize = 3
INVARIANTS
  PostedIsVisible
  CompletionQueueHasRoom
