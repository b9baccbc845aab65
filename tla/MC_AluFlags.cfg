CONSTANTS
  DOperands <- MC_DOperands
  ROperands <- MC_ROperands
  HiOperands <- MC_HiOperands
  Suspects = {"NEG", "DEC", "SBIW", "SBC", "SBCI", "FMULSU", "SBRC", "SBRS", "LAC", "ELPM+", "EIJMP"}
  SkipBits = {0, 1}
  NextWords <- MC_NextWords
  BranchDisps <- MC_BranchDisps
  JmpWords <- MC_JmpWords
  RjmpFields <- MC_RjmpFields
  Eind = 1
  RampzInput = 1
  SramSize = 8192
  HasExsram = FALSE
  FlashWord <- MC_FlashWord
  FlashSize = 262144
  PcStart = 4096
SPECIFICATION Spec
INVARIANTS
  TypeOK
PROPERTIES
  ArithMatchesReference
CHECK_DEADLOCK FALSE
