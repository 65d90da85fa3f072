SPECIFICATION Spec
CONSTANTS
  NumCmds = 2
  Kind <- LongWriteKind
  Cnt <- LongWriteCnt
  QueueSize = 2
  SQSize = 3
  CQSize = 4
  PcmdqSize = 2
INVARIANTS
  WriteDataComplete
