SPECIFICATION FairSpec
CONSTANTS
  NumCmds = 3
  Kind <- ShortMixedKind
  Cnt <- ShortCnt
  QueueSize = 1
  SQSize = 4
  CQSize = 4
  PcmdqSize = 1
PROPERTIES
  EveryCommandCompletes
