----------------------------- MODULE Interrupts -----------------------------
(***************************************************************************)
(* The interrupt path of the emulated XMEGA core (src/device.cpp):         *)
(*                                                                         *)
(*  - Device::setIvLvl, called by peripheral blocks, moves a vector        *)
(*    between the four pending queues iv_pending_.{lo,med,hi,nmi};         *)
(*  - Device::stepCPU, the scheduler callback run on every CPU tick,       *)
(*    either acknowledges the highest eligible interrupt                   *)
(*    (processPendingInterrupts), or executes one instruction, or pays     *)
(*    one cycle of the previous instruction's cycle debt;                  *)
(*  - the instructions that change the interrupt state: RETI, BSET/BCLR    *)
(*    of SREG.I and writes to PMIC.CTRL;                                   *)
(*  - Device::reset, called by the host.                                   *)
(*                                                                         *)
(* Program counter, stack contents and register file are abstracted away: *)
(* an instruction is characterised by its cycle count and its effect on    *)
(* SREG.I, PMIC.STATUS and PMIC.CTRL.                                      *)
(***************************************************************************)
EXTENDS Integers, Sequences, FiniteSets, FiniteSetsExt

CONSTANTS
  IVs,          \* interrupt vector numbers the peripherals may post
  InstrCycles,  \* cycle counts returned by the ordinary instructions
  FlashSize     \* flash size in bytes: selects 2- or 3-byte return PCs

ASSUME IVs \subseteq 0..127 /\ IVs # {}
ASSUME InstrCycles \subseteq 1..5 /\ InstrCycles # {}
ASSUME FlashSize \in Nat \ {0}

\* IntLvl values (INTLVL_NONE .. INTLVL_NMI); STATUS bit of level l is l-1.
NONE == 0
LO   == 1
MED  == 2
HI   == 3
NMI  == 4
Levels == {LO, MED, HI, NMI}
MaskableLevels == {LO, MED, HI}

\* Cycles charged for an interrupt acknowledge (stepCPU) and for RETI.
AckCycles  == 5
RetiCycles == IF FlashSize <= 131072 THEN 2 ELSE 3

VARIABLES
  iv_pending,                  \* [Levels -> SUBSET IVs]: iv_pending_
  status,                      \* PMIC.STATUS as the set of levels executing
  ctrl,                        \* PMIC.CTRL enables as a set of levels
  sregI,                       \* SREG.I
  instruction_cycles,          \* cycle debt of the last instruction
  interrupt_wait_instruction,  \* TRUE until an instruction has retired
  frames        \* history: levels of acknowledged, not yet returned IVs

vars == <<iv_pending, status, ctrl, sregI, instruction_cycles,
          interrupt_wait_instruction, frames>>

-----------------------------------------------------------------------------
(* Mutants: plausible slips in the code, used to check the properties.    *)

\* setIvLvl that adds the vector to its new queue but never removes it
\* from the queue of its previous level.
SetIvLvlNoErase(iv, lvl) ==
  IF lvl = NONE
    THEN [l \in Levels |-> iv_pending[l] \ {iv}]
    ELSE [iv_pending EXCEPT ![lvl] = @ \cup {iv}]

\* currentIntLvl scanning the STATUS bits from LO upwards.
CurrentIntLvlLowest == IF status = {} THEN NONE ELSE Min(status)

\* stepCPU returning right after an acknowledge, without the trailing
\* instruction_cycles_-- that the other paths reach.
AckDebtNoDecrement == AckCycles

\* stepCPU whose instruction loop does not clear interrupt_wait_instruction_.
RetireNoClear(c) ==
  /\ instruction_cycles' = c - 1
  /\ UNCHANGED interrupt_wait_instruction

-----------------------------------------------------------------------------
(* Device::setIvLvl: the case of level lvl inserts iv into that queue and  *)
(* stops if it was already there; otherwise it erases iv from the other   *)
(* queues in the order lo, med, hi, nmi, stopping at the first erase.     *)
(* The NONE case only erases, in the same order.                          *)

QueueOrder == <<LO, MED, HI, NMI>>

EraseFirst(q, iv, order) ==
  LET hits == {i \in DOMAIN order : iv \in q[order[i]]}
  IN  IF hits = {} THEN q
      ELSE [q EXCEPT ![order[Min(hits)]] = @ \ {iv}]

SetIvLvlQueues(iv, lvl) ==
  IF lvl = NONE
    THEN EraseFirst(iv_pending, iv, QueueOrder)
  ELSE IF iv \in iv_pending[lvl]
    THEN iv_pending
  ELSE EraseFirst([iv_pending EXCEPT ![lvl] = @ \cup {iv}], iv,
                  SelectSeq(QueueOrder, LAMBDA l : l # lvl))

\* Device::currentIntLvl: the highest level whose STATUS bit is set.
CurrentIntLvl == IF status = {} THEN NONE ELSE Max(status)

(* Device::processPendingInterrupts, selection part: NMI is always enabled, *)
(* the other levels need their CTRL enable bit, and a level is only taken *)
(* above the level currently executing; the highest such level wins.      *)
Eligible(l) ==
  /\ iv_pending[l] # {}
  /\ l = NMI \/ l \in ctrl
  /\ l > CurrentIntLvl

SelectedLevel ==
  IF \E l \in Levels : Eligible(l)
    THEN Max({l \in Levels : Eligible(l)})
    ELSE NONE

\* Cycle debt left by an acknowledge: 5 cycles, less the one paid by the
\* instruction_cycles_-- at the end of the same stepCPU call.
AckDebt == AckCycles - 1

\* The guard of the acknowledge in Device::stepCPU (CCP is never armed by
\* this version of the code, see README).
AckPossible ==
  instruction_cycles = 0 /\ ~interrupt_wait_instruction /\ sregI

\* The instruction loop of Device::stepCPU after one instruction returned c.
Retire(c) ==
  /\ instruction_cycles' = c - 1
  /\ interrupt_wait_instruction' = FALSE

-----------------------------------------------------------------------------
(* Actions *)

Init ==
  /\ iv_pending = [l \in Levels |-> {}]
  /\ status = {}
  /\ ctrl = {}
  /\ sregI = FALSE
  /\ instruction_cycles = 0
  /\ interrupt_wait_instruction = TRUE
  /\ frames = <<>>

\* A peripheral block sets, changes or clears the level of one of its IVs.
SetIvLvl(iv, lvl) ==
  /\ iv_pending' = SetIvLvlQueues(iv, lvl)
  /\ UNCHANGED <<status, ctrl, sregI, instruction_cycles,
                 interrupt_wait_instruction, frames>>

\* stepCPU acknowledges the lowest-numbered IV of the selected level.
StepCPUAck ==
  /\ AckPossible
  /\ SelectedLevel # NONE
  /\ LET l  == SelectedLevel
         iv == Min(iv_pending[l])
     IN  /\ iv_pending' = [iv_pending EXCEPT ![l] = @ \ {iv}]
         /\ status' = status \cup {l}
         /\ frames' = Append(frames, l)
  /\ instruction_cycles' = AckDebt
  /\ interrupt_wait_instruction' = TRUE
  /\ UNCHANGED <<ctrl, sregI>>

\* Instructions as seen by the interrupt path.
ExecPlain ==
  /\ \E c \in InstrCycles : Retire(c)
  /\ UNCHANGED <<iv_pending, status, ctrl, sregI, frames>>

\* BSET 7 (SEI) and BCLR 7 (CLI), one cycle each.
ExecBsetI ==
  /\ sregI' = TRUE
  /\ Retire(1)
  /\ UNCHANGED <<iv_pending, status, ctrl, frames>>

ExecBclrI ==
  /\ sregI' = FALSE
  /\ Retire(1)
  /\ UNCHANGED <<iv_pending, status, ctrl, frames>>

\* OUT to PMIC.CTRL: sets the LO/MED/HI enable bits.
ExecWritePmicCtrl ==
  /\ \E en \in SUBSET MaskableLevels : ctrl' = en
  /\ Retire(1)
  /\ UNCHANGED <<iv_pending, status, sregI, frames>>

\* RETI clears the highest STATUS bit (or logs that none is set) and pops
\* the return address; SREG.I is left alone.
ExecReti ==
  /\ status' = IF status = {} THEN status ELSE status \ {Max(status)}
  /\ frames' = IF frames = <<>> THEN frames ELSE SubSeq(frames, 1, Len(frames) - 1)
  /\ Retire(RetiCycles)
  /\ UNCHANGED <<iv_pending, ctrl, sregI>>

StepCPUExecute ==
  /\ ~(AckPossible /\ SelectedLevel # NONE)
  /\ instruction_cycles = 0
  /\ \/ ExecPlain
     \/ ExecBsetI
     \/ ExecBclrI
     \/ ExecWritePmicCtrl
     \/ ExecReti

\* stepCPU while the previous instruction (or acknowledge) is still running.
StepCPUWait ==
  /\ instruction_cycles > 0
  /\ instruction_cycles' = instruction_cycles - 1
  /\ UNCHANGED <<iv_pending, status, ctrl, sregI,
                 interrupt_wait_instruction, frames>>

StepCPU == StepCPUAck \/ StepCPUExecute \/ StepCPUWait

\* Device::reset with CPU::reset and PMIC reset; the pending queues are
\* not cleared by the code.
Reset ==
  /\ instruction_cycles' = 0
  /\ interrupt_wait_instruction' = TRUE
  /\ sregI' = FALSE
  /\ status' = {}
  /\ ctrl' = {}
  /\ frames' = <<>>
  /\ UNCHANGED iv_pending

Next ==
  \/ \E iv \in IVs, lvl \in {NONE} \cup Levels : SetIvLvl(iv, lvl)
  \/ StepCPU
  \/ Reset

\* The CPU event returns 1 on every call, so the scheduler runs stepCPU on
\* every CPU tick: stepCPU is weakly fair. Peripherals and the host are not.
Spec == Init /\ [][Next]_vars /\ WF_vars(StepCPU)

-----------------------------------------------------------------------------
(* Properties *)

TypeOK ==
  /\ iv_pending \in [Levels -> SUBSET IVs]
  /\ status \subseteq Levels
  /\ ctrl \subseteq MaskableLevels
  /\ sregI \in BOOLEAN
  /\ instruction_cycles \in 0..AckCycles - 1
  /\ interrupt_wait_instruction \in BOOLEAN
  /\ frames \in Seq(Levels)

\* A pending IV sits in exactly one of the four queues, whatever sequence
\* of setIvLvl calls and acknowledges the peripherals and the CPU made
\* (setIvLvl relies on this when it stops at the first erase).
PendingExclusive ==
  \A iv \in IVs : Cardinality({l \in Levels : iv \in iv_pending[l]}) <= 1

\* The STATUS bits are exactly the levels of the interrupts acknowledged
\* and not yet returned from, and those were entered in strictly rising
\* level order, so the RETI of each handler clears the bit of its own level.
NestingMatchesStatus ==
  /\ {frames[i] : i \in DOMAIN frames} = status
  /\ \A i \in 1..Len(frames) - 1 : frames[i] < frames[i + 1]

\* A pending IV at an enabled level is not left waiting by the CPU step:
\* eventually it is acknowledged or withdrawn, or the guest masks it
\* (SREG.I clear, level disabled) or a handler of its level or above runs.
NoStall ==
  \A iv \in IVs, l \in Levels :
    (iv \in iv_pending[l] /\ sregI /\ (l = NMI \/ l \in ctrl))
      ~> (iv \notin iv_pending[l] \/ ~sregI \/ CurrentIntLvl >= l
          \/ ~(l = NMI \/ l \in ctrl))

=============================================================================
