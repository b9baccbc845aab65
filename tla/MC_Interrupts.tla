---------------------------- MODULE MC_Interrupts ----------------------------
(* Instantiates Interrupts for TLC: two vectors (so that the in-level      *)
(* tie-break by lowest number matters), instructions of one and two       *)
(* cycles, and a 64 KiB flash (2-byte return addresses, RETI of 2 cycles). *)
EXTENDS Interrupts

MC_IVs == {3, 5}
MC_InstrCycles == {1, 2}
MC_FlashSize == 65536
==============================================================================
