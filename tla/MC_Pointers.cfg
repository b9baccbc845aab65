CONSTANTS
  SramSize = 8192
  HasExsram = TRUE
  FlashSize = 262144
  PtrInputs <- MC_PtrInputs
  ExtInputs = {0, 1, 64, 255}
  Disps = {0, 63}
  Drift = 2
  Blocks <- MC_Blocks
SPECIFICATION Spec
INVARIANTS TypeOK
INVARIANTS IoReachesOwner
