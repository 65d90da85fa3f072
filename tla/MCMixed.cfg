SPECIFICATION Spec
CONSTANTS
  NumCmds = 3
  Kind <- MixedKind
  Cnt <- MixedCnt
  QueueSize = 2
  SQSize = 4
  CQSize = 4
  PcmdqSize = 2
INVARIANTS
  TagAccounting
  FetchFits
  FetchThreadSleeps
  RunningCountExact
  CompletedOnce
  DoneTagsMatchTLPs
  LiveSubCmdsOwned
  TagQueueNeverReadEmpty
  CompletionQueueHasRoom
PROPERTIES
  ServiceSpec
