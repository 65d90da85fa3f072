SPECIFICATION Spec
CONSTANTS
  NumChans = 1
  NumBanks = 1
  NumSlots = 2
  SlotCws = 2
  Credit = 1
  Mode = 0
  NumCmds = 2
  Cws = 1
  Loads <- OneBankWrites
  Lbas = {0}
INVARIANT
  DL2FreeWhenWriteArrives
