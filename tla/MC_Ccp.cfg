CONSTANTS
  BlockStepped = FALSE
  CcpValues = {157, 216, 0}
  ClkValues = {0, 1, 4, 40, 255}
  Window = 4
SPECIFICATION Spec
PROPERTY
  CcpWindowUnlocksLock
