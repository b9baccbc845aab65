---------------------------------- MODULE Ccp ----------------------------------
(***************************************************************************)
(* Configuration change protection and the registers it protects: the CCP *)
(* register of the CPU block (src/unnamed/part_000: CPU::setIo, CPU::step,*)
(* CPU::reset) and the CLK block (src/block/clk.cpp: CLK::setIo,          *)
(* CLK::reset), whose LOCK register may only be set inside a CCP window   *)
(* and, once set, freezes CTRL and PSCTRL.                                *)
(*                                                                         *)
(* The guest is the environment: each step is one instruction of one CPU *)
(* cycle (an OUT, or any instruction that touches neither block). Before *)
(* an instruction, CPU::step runs if something steps the CPU block once  *)
(* per CPU cycle (BlockStepped), at the place of Device::stepCPU where    *)
(* "blocks were stepped" before the clock events replaced it. In this    *)
(* repository nothing calls CPU::step: BlockStepped is FALSE for the code.*)
(*                                                                         *)
(* clk.h and cpu.h are not in src/: PSCTRL is taken to hold PSADIV in     *)
(* bits 6..2 and PSBCDIV in bits 1..0, RTCSRC to number ULP 0, TOSC 1,    *)
(* RCOSC 2 and TOSC32 5 as the XMEGA manual does, ccpState() to return    *)
(* CCP_IOREG while ccp_ioreg_cycles_ > 0 and CCP_SPM while                *)
(* ccp_spm_cycles_ > 0.                                                    *)
(***************************************************************************)
EXTENDS Integers, Bitwise

CONSTANTS
  BlockStepped, \* CPU::step runs once per CPU cycle, before the instruction
  CcpValues,    \* values the guest writes to CCP
  ClkValues,    \* values the guest writes to CLK.CTRL, PSCTRL and LOCK
  Window        \* the CCP window, in instructions (4)

ASSUME BlockStepped \in BOOLEAN /\ Window \in Nat \ {0}
ASSUME CcpValues \cup ClkValues \subseteq 0..255

CCP_IOREG == 1
CCP_SPM   == 2
SCLKSEL_PLL == 4
RTCSRC_RCOSC == 2
RTCSRC_TOSC32 == 5

VARIABLES
  ccp_buffer, ccp_ioreg_cycles, ccp_spm_cycles,  \* CPU block
  sclk, psctrl, locked, rtcen, rtcsrc,           \* CLK block
  phase,  \* "step" when CPU::step is due before the next instruction
  since,  \* history: instructions since the last write of 0x9D to CCP
  last    \* history: [reg, v] of the last instruction's write

clk == <<sclk, psctrl, locked, rtcen, rtcsrc>>
vars == <<ccp_buffer, ccp_ioreg_cycles, ccp_spm_cycles, clk, phase, since, last>>

\* cpu.h: ccpState().
CcpState ==
  (IF ccp_ioreg_cycles > 0 THEN CCP_IOREG ELSE 0) +
  (IF ccp_spm_cycles > 0 THEN CCP_SPM ELSE 0)

\* An instruction of the guest: it may run only after CPU::step, when
\* something steps the block; it advances the CCP history.
Instruction(reg, v) ==
  /\ phase = "instr"
  /\ phase' = IF BlockStepped THEN "step" ELSE "instr"
  /\ since' = IF reg = "CCP" /\ v = 157 THEN 0 ELSE IF since < Window THEN since + 1 ELSE since
  /\ last' = [reg |-> reg, v |-> v]

-----------------------------------------------------------------------------
(* Actions *)

\* CPU::reset and CLK::reset, called by Device::reset.
\* CPU::reset: the CCP buffer and both windows cleared.
CpuReset == ccp_buffer = 0 /\ ccp_ioreg_cycles = 0 /\ ccp_spm_cycles = 0

\* CLK::reset: SCLKSEL_RC2M, PSCTRL 0, unlocked, RTCSRC_ULP, RTC disabled
\* (the prescaler dividers it also resets are not state of this module).
ClkReset ==
  /\ sclk = 0 /\ psctrl = 0 /\ locked = FALSE /\ rtcen = 0 /\ rtcsrc = 0

Init ==
  /\ CpuReset
  /\ ClkReset
  /\ phase = IF BlockStepped THEN "step" ELSE "instr"
  /\ since = Window
  /\ last = [reg |-> "none", v |-> 0]

\* CPU::step: decrement both counters, then arm a window from the buffer.
CpuStep ==
  /\ phase = "step"
  /\ LET io  == IF ccp_ioreg_cycles > 0 THEN ccp_ioreg_cycles - 1 ELSE 0
         spm == IF ccp_spm_cycles > 0 THEN ccp_spm_cycles - 1 ELSE 0
     IN  CASE ccp_buffer = 157 -> /\ ccp_ioreg_cycles' = 4 /\ ccp_spm_cycles' = spm
                                  /\ ccp_buffer' = 0
           [] ccp_buffer = 216 -> /\ ccp_ioreg_cycles' = io /\ ccp_spm_cycles' = 4
                                  /\ ccp_buffer' = 0
           [] OTHER -> /\ ccp_ioreg_cycles' = io /\ ccp_spm_cycles' = spm
                       /\ UNCHANGED ccp_buffer
  /\ phase' = "instr"
  /\ UNCHANGED <<clk, since, last>>

\* CPU::setIo(0x04, v): the value is only buffered.
WriteCcp(v) ==
  /\ Instruction("CCP", v)
  /\ ccp_buffer' = v
  /\ UNCHANGED <<ccp_ioreg_cycles, ccp_spm_cycles, clk>>

\* CLK::setIo(CTRL): refused while locked; SCLKSEL above PLL is invalid.
WriteCtrl(v) ==
  /\ Instruction("CTRL", v)
  /\ sclk' = IF ~locked /\ v % 8 <= SCLKSEL_PLL THEN v % 8 ELSE sclk
  /\ UNCHANGED <<ccp_buffer, ccp_ioreg_cycles, ccp_spm_cycles, psctrl, locked, rtcen, rtcsrc>>

\* CLK::setIo(PSCTRL): refused while locked; PSADIV above 9 is invalid.
WritePsctrl(v) ==
  /\ Instruction("PSCTRL", v)
  /\ psctrl' = IF ~locked /\ (v % 128) \div 4 <= 9 THEN v % 128 ELSE psctrl
  /\ UNCHANGED <<ccp_buffer, ccp_ioreg_cycles, ccp_spm_cycles, sclk, locked, rtcen, rtcsrc>>

\* CLK::setIo(LOCK): a non-zero value sets it under CCP_IOREG; it is
\* never cleared.
WriteLock(v) ==
  /\ Instruction("LOCK", v)
  /\ locked' = (locked \/ (v # 0 /\ (CcpState & CCP_IOREG) # 0))
  /\ UNCHANGED <<ccp_buffer, ccp_ioreg_cycles, ccp_spm_cycles, sclk, psctrl, rtcen, rtcsrc>>

\* CLK::setIo(RTCCTRL): not protected; an invalid RTCSRC is refused.
WriteRtcctrl(v) ==
  /\ Instruction("RTCCTRL", v)
  /\ rtcen' = v % 2
  /\ LET vsrc == (v \div 2) % 8
     IN  rtcsrc' = IF vsrc <= RTCSRC_RCOSC \/ vsrc = RTCSRC_TOSC32 THEN vsrc ELSE rtcsrc
  /\ UNCHANGED <<ccp_buffer, ccp_ioreg_cycles, ccp_spm_cycles, sclk, psctrl, locked>>

\* Any other instruction.
Other ==
  /\ Instruction("none", 0)
  /\ UNCHANGED <<ccp_buffer, ccp_ioreg_cycles, ccp_spm_cycles, clk>>

Next ==
  \/ CpuStep
  \/ \E v \in CcpValues : WriteCcp(v)
  \/ \E v \in ClkValues : WriteCtrl(v) \/ WritePsctrl(v) \/ WriteLock(v) \/ WriteRtcctrl(v)
  \/ Other

Spec == Init /\ [][Next]_vars

-----------------------------------------------------------------------------
(* Properties *)

TypeOK ==
  /\ ccp_buffer \in 0..255
  /\ ccp_ioreg_cycles \in 0..4 /\ ccp_spm_cycles \in 0..4
  /\ sclk \in 0..SCLKSEL_PLL /\ psctrl \in 0..127 /\ locked \in BOOLEAN
  /\ rtcen \in 0..1 /\ rtcsrc \in {0, 1, RTCSRC_RCOSC, RTCSRC_TOSC32}

\* "Writing 0x9D to the CCP I/O register arms a 4-CPU-cycle window
\* permitting writes to I/O-register-protected addresses": a non-zero
\* write to CLK.LOCK among the Window instructions after the guest wrote
\* 0x9D to CCP sets the lock.
CcpWindowUnlocksLock ==
  [][last'.reg = "LOCK" /\ last'.v # 0 /\ since < Window => locked']_vars

================================================================================
