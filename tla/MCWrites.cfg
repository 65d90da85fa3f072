SPECIFICATION Spec
CONSTANTS
  NumCmds = 4
  Kind <- AllWrites4
  Cnt <- OneTwoOneOne
  QueueSize = 2
  SQSize = 3
  CQSize = 3
  PcmdqSize = 3
INVARIANTS
  TypeOK
  TagQueueNeverReadEmpty
  PostedIsVisible
  WriteDataComplete
PROPERTIES
  ServiceSpec
