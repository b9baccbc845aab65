CONSTANTS
  cpu = cpu
  tc = tc
  rtc = rtc
  Events <- MC_Events
  CpuEvent = cpu
  EventClock <- MC_EventClock
  PeriphNext <- MC_PeriphNext
  ScheduleTicks <- MC_ScheduleTicks
  Psadivs <- MC_Psadivs
  Psbcdivs <- MC_Psbcdivs
SPECIFICATION Spec
INVARIANTS
  TypeOK
  EventsInFuture
PROPERTIES
  RescaleAligned
  EveryEventRuns
