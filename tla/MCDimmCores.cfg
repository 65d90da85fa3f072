SPECIFICATION Spec
CONSTANTS
  NumChans = 2
  NumBanks = 1
  NumSlots = 2
  SlotCws = 2
  Credit = 1
  Mode = 1
  NumCmds = 3
  NumCores = 2
  MaxResidual = 0
  Cws = 2
  Loads <- MixedLoads
  Lbas = {0}
CHECK_DEADLOCK FALSE
INVARIANTS
  OneHome
  CountdownExact
  CreditsConserved
  OneBusMaster
  TagsKept
