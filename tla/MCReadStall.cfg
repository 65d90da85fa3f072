SPECIFICATION Spec
CONSTANTS
  NumChans = 1
  NumBanks = 1
  NumSlots = 2
  SlotCws = 2
  Credit = 2
  Mode = 0
  NumCmds = 2
  Cws = 2
  Loads <- OneBankReads
  Lbas = {0}
INVARIANT
  DL1IsHandedOn
