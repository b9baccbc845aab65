CONSTANTS
  IVs <- MC_IVs
  InstrCycles <- MC_InstrCycles
  FlashSize <- MC_FlashSize
SPECIFICATION Spec
INVARIANTS
  TypeOK
  PendingExclusive
  NestingMatchesStatus
PROPERTIES
  NoStall
