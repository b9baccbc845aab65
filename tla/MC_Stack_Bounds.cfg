CONSTANTS
  SramSize = 4096
  FlashSizes = {131072, 262144}
  Targets <- MC_Targets
  IVs = {100}
  RegValues = {0, 165}
  MaxFrames = 3
  CodeLen = 1
  SpInputs = {12288}
  Disciplined = TRUE
SPECIFICATION Spec
INVARIANT NoStackOutOfBounds
CHECK_DEADLOCK FALSE
