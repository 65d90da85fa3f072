SPECIFICATION Spec
CONSTANTS
  NumChans = 1
  NumBanks = 1
  SqSize = 3
  Credit = 1
  WrBuffs = 1
  RdBuffs = 1
  QueueSize = 1
  Loads <- SameBank
  Fetches <- Wrapping
INVARIANTS
  DispatchesToFreeBanks
