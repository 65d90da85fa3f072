SPECIFICATION FairSpec
CONSTANTS
  NumChans = 1
  NumBanks = 2
  NumSlots = 2
  SlotCws = 4
  Credit = 1
  Mode = 0
  NumCmds = 4
  Cws = 4
  Loads <- UniformLoads
  Lbas = {0}
INVARIANTS
  ListsWellFormed
  OneHome
  CountdownExact
  CompletedSlotsAreIdle
  LatchesOwned
  BufferHeld
  ReadsReturnOwnData
  NeverOutOfSlots
  SubmissionHasWork
PROPERTIES
  ServiceSpec
  AllCommandsComplete
