SPECIFICATION Spec
CONSTANTS
  NumCmds = 4
  Kind <- Alternating4
  Cnt <- OneEach4
  QueueSize = 3
  SQSize = 4
  CQSize = 2
  PcmdqSize = 3
INVARIANTS
  PostedIsVisible
