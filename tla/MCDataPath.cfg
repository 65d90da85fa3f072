SPECIFICATION FairSpec
CONSTANTS
  NumChans = 2
  NumBanks = 2
  SqSize = 3
  Credit = 1
  WrBuffs = 1
  RdBuffs = 1
  QueueSize = 1
  Loads <- PassLoads
  Fetches <- Wrapping
INVARIANTS
  InOnePlace
  ReadCreditsConserved
  ReadBuffersOwned
  DataIsOwn
  FindsItsEntry
PROPERTIES
  EverySubCommandDone
