CONSTANTS
  a1 = a1
  a2 = a2
  a3 = a3
  a4 = a4
  a5 = a5
  Handles <- MC_Handles5
  Prios = {10, 100}
  CpuPrio = 100
  Rets = {0, 2}
  SchedTicks = {1, 2}
  TickWidth = 2
  MaxTick = 4
SYMMETRY MC_Symmetry5
SPECIFICATION Spec
PROPERTY
  FiresInOrder
CHECK_DEADLOCK FALSE
