-------------------------- MODULE MC_ClockScheduler --------------------------
(* Instantiates ClockScheduler for TLC: the CPU event and two peripheral  *)
(* events, one on PER (the CPU's scale) and one on PER4 (prescaler A      *)
(* only), so that events of different scales share the queue. PSADIV 0/1  *)
(* and PSBCDIV 0/1 give CPU scales 1, 2 and 4; PSADIV 10 exercises the *)
(* rejected write.                                                         *)
EXTENDS ClockScheduler

CONSTANTS cpu, tc, rtc

MC_Events == {cpu, tc, rtc}
MC_EventClock == (cpu :> "CPU") @@ (tc :> "PER") @@ (rtc :> "PER4")
MC_PeriphNext == {0, 1, 2}
MC_ScheduleTicks == {1, 2}
MC_Psadivs == {0, 1, 10}
MC_Psbcdivs == {0, 1}
==============================================================================
