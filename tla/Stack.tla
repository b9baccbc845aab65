-------------------------------- MODULE Stack --------------------------------
(***************************************************************************)
(* The hardware stack of the emulated core (src/device.cpp): the           *)
(* instructions that push or pop it (CALL, RCALL, ICALL, EICALL, RET,      *)
(* RETI, PUSH, POP) and the return address pushed by the interrupt         *)
(* acknowledge of Device::processPendingInterrupts.                        *)
(*                                                                         *)
(* SRAM is the byte array sram_data_ at data address MEM_SRAM_START; the  *)
(* stack is addressed through Device::stack() = &sram_data_[sp -           *)
(* MEM_SRAM_START]. Only the bytes written are kept (mem); unwritten SRAM *)
(* reads as 0, as the zero-initialised vector does. A return address is   *)
(* 2 bytes when flash_size_ <= 0x20000, else 3.                           *)
(*                                                                         *)
(* The guest program is the environment: it picks the next instruction    *)
(* and its operands. With Disciplined it respects the stack convention    *)
(* (a RET/RETI/POP only undoes the last push of its kind); without it any *)
(* instruction may come next. frames is a history of what was pushed,     *)
(* used only by the properties.                                            *)
(***************************************************************************)
EXTENDS Integers, Sequences, TLC

CONSTANTS
  SramSize,    \* mem_sram_size_
  FlashSizes,  \* flash_size_ of the devices considered, in bytes
  Targets,     \* word addresses the guest calls or jumps to
  IVs,         \* vector numbers an acknowledge may dispatch
  RegValues,   \* byte values the guest loads into the pushed register
  MaxFrames,   \* bound on the nesting depth of the guest program
  CodeLen,     \* words of straight-line code after each entry point
  SpInputs,    \* values the host passes to Device::setSP
  Disciplined  \* the guest respects the stack convention

ASSUME SpInputs \subseteq 0..65535
ASSUME SramSize \in 1..65535 /\ FlashSizes \subseteq Nat \ {0}
ASSUME Targets \subseteq Nat /\ IVs \subseteq 0..127 /\ RegValues \subseteq 0..255
ASSUME MaxFrames \in Nat /\ CodeLen \in Nat /\ Disciplined \in BOOLEAN

MEM_SRAM_START == 8192  \* 0x2000

VARIABLES
  flash_size, \* flash_size_ of the device (constant over a behaviour)
  sp,      \* cpu_.sp_ (uint16_t)
  pc,      \* cpu_.pc_, in words
  mem,     \* [written SRAM addresses -> byte]: sram_data_
  reg,     \* the register the guest pushes and pops
  frames,  \* history: pushed frames, top first
  oob,     \* history: the last step accessed memory outside sram_data_
  last     \* history: the instruction of the last step

vars == <<flash_size, sp, pc, mem, reg, frames, oob, last>>

\* Width of a pushed return PC, as chosen at every push and pop site.
PcWidth == IF flash_size <= 131072 THEN 2 ELSE 3

\* Word addresses inside the device's flash.
InFlash(k) == k < flash_size \div 2

InSram(a) == MEM_SRAM_START <= a /\ a < MEM_SRAM_START + SramSize

\* Slots of a w-byte access through stack() at data address a.
Slots(a, w) == {a - i : i \in 0..w - 1}

\* An access outside sram_data_ is undefined behaviour; the outcomes the
\* build can produce are modelled as a lost write and an arbitrary read.
Garbage == {0, 255}

Read(a) == IF a \in DOMAIN mem THEN mem[a] ELSE 0

\* stack_set<8*w>(p, v): byte i of v (least significant first) at p[-i].
StackSet(a, v, w) ==
  LET ok == {s \in Slots(a, w) : InSram(s)}
  IN  [s \in DOMAIN mem \cup ok |->
         IF s \in ok THEN (v \div 256^(a - s)) % 256 ELSE mem[s]]

\* stack_get<8*w>(p): the inverse of StackSet on the same slots.
StackGet(a, w) ==
  Read(a) + 256 * Read(a - 1) + (IF w = 3 THEN 65536 * Read(a - 2) ELSE 0)

Frame(kind, val, at) == [kind |-> kind, val |-> val, sp |-> at]

-----------------------------------------------------------------------------
(* Mutants: plausible slips in the code, used to check the properties.    *)

\* The push path decrementing SP by 2 whatever the width.
PushPcFixedWidth(v) ==
  /\ mem' = StackSet(sp, v, PcWidth)
  /\ sp' = (sp - 2) % 65536
  /\ oob' = ~(\A s \in Slots(sp, PcWidth) : InSram(s))

\* RET/RETI reading the return address before moving SP.
PopPcBeforeIncrement ==
  /\ sp' = (sp + PcWidth) % 65536
  /\ IF \A s \in Slots(sp, PcWidth) : InSram(s)
       THEN pc' = StackGet(sp, PcWidth) /\ oob' = FALSE
       ELSE pc' \in Garbage /\ oob' = TRUE

-----------------------------------------------------------------------------
(* The shared push and pop paths of a return PC.                          *)

\* stack_set<16|24>(stack(), v); cpu_.sp_ -= 2|3;
PushPc(v) ==
  /\ mem' = StackSet(sp, v, PcWidth)
  /\ sp' = (sp - PcWidth) % 65536
  /\ oob' = ~(\A s \in Slots(sp, PcWidth) : InSram(s))

\* cpu_.sp_ += 2|3; cpu_.pc_ = stack_get<16|24>(stack());
PopPc ==
  LET at == (sp + PcWidth) % 65536
  IN  /\ sp' = at
      /\ IF \A s \in Slots(at, PcWidth) : InSram(s)
           THEN pc' = StackGet(at, PcWidth) /\ oob' = FALSE
           ELSE pc' \in Garbage /\ oob' = TRUE

\* The guest may push only below its nesting bound, and with Disciplined
\* pop only the kind of frame on top.
MayPush == Len(frames) < MaxFrames
MayPop(kind) == ~Disciplined \/ (frames # <<>> /\ Head(frames).kind = kind)
\* The guest program: straight-line code of CodeLen words after each call
\* target and vector. An instruction is executed only from there.
Code == UNION {t..t + CodeLen : t \in Targets \cup {2 * iv : iv \in IVs}}
Fetch == pc \in Code

Popped == IF frames = <<>> THEN <<>> ELSE Tail(frames)

-----------------------------------------------------------------------------
(* Actions *)

Init ==
  /\ flash_size \in FlashSizes
  /\ sp = MEM_SRAM_START + SramSize - 1  \* CPU::reset: mem_exsram_start_-1
  /\ pc \in {t \in Targets : InFlash(t)}
  /\ mem = <<>>
  /\ reg \in RegValues
  /\ frames = <<>>
  /\ oob = FALSE
  /\ last = "none"

\* CALL k: a 2-word instruction.
Call(k) ==
  /\ Fetch
  /\ MayPush
  /\ PushPc(pc + 2)
  /\ pc' = k
  /\ frames' = <<Frame("call", pc + 2, sp)>> \o frames
  /\ last' = "CALL"
  /\ UNCHANGED reg

\* RCALL k, 12-bit signed k: the guest picks k so that it reaches t.
RCall(t) ==
  /\ Fetch
  /\ MayPush
  /\ t - pc - 1 \in -2048..2047
  /\ PushPc(pc + 1)
  /\ pc' = pc + (t - pc - 1) + 1
  /\ frames' = <<Frame("call", pc + 1, sp)>> \o frames
  /\ last' = "RCALL"
  /\ UNCHANGED reg

\* ICALL with Z = z.
ICall(z) ==
  /\ Fetch
  /\ MayPush
  /\ PushPc(pc + 1)
  /\ pc' = z
  /\ frames' = <<Frame("call", pc + 1, sp)>> \o frames
  /\ last' = "ICALL"
  /\ UNCHANGED reg

\* EICALL with EIND:Z = t; without 3-byte PCs it only logs and skips.
EICall(t) ==
  /\ Fetch
  /\ MayPush
  /\ IF PcWidth = 2
       THEN /\ pc' = pc + 1
            /\ UNCHANGED <<sp, mem, frames, oob>>
       ELSE /\ PushPc(pc + 1)
            /\ pc' = t
            /\ frames' = <<Frame("call", pc + 1, sp)>> \o frames
  /\ last' = "EICALL"
  /\ UNCHANGED reg

\* processPendingInterrupts, after the vector is chosen: push the PC of
\* the next instruction and jump to the vector (IVSEL clear).
Ack(iv) ==
  /\ MayPush
  /\ PushPc(pc)
  /\ pc' = 2 * iv
  /\ frames' = <<Frame("irq", pc, sp)>> \o frames
  /\ last' = "ACK"
  /\ UNCHANGED reg

Ret ==
  /\ Fetch
  /\ MayPop("call")
  /\ PopPc
  /\ frames' = Popped
  /\ last' = "RET"
  /\ UNCHANGED <<mem, reg>>

\* RETI: the PMIC.STATUS update is part of the Interrupts module.
Reti ==
  /\ Fetch
  /\ MayPop("irq")
  /\ PopPc
  /\ frames' = Popped
  /\ last' = "RETI"
  /\ UNCHANGED <<mem, reg>>

\* PUSH r: *stack() = r; sp--.
Push ==
  /\ Fetch
  /\ MayPush
  /\ mem' = IF InSram(sp) THEN (sp :> reg) @@ mem ELSE mem
  /\ oob' = ~InSram(sp)
  /\ sp' = (sp - 1) % 65536
  /\ pc' = pc + 1
  /\ frames' = <<Frame("push", reg, sp)>> \o frames
  /\ last' = "PUSH"
  /\ UNCHANGED reg

\* POP d: sp++; d = *stack().
Pop ==
  LET at == (sp + 1) % 65536
  IN  /\ Fetch
      /\ MayPop("push")
      /\ sp' = at
      /\ IF InSram(at) THEN reg' = Read(at) /\ oob' = FALSE
                       ELSE reg' \in Garbage /\ oob' = TRUE
      /\ pc' = pc + 1
      /\ frames' = Popped
      /\ last' = "POP"
      /\ UNCHANGED mem

\* LDI into the pushed register.
Ldi(v) ==
  /\ Fetch
  /\ reg' = v
  /\ pc' = pc + 1
  /\ oob' = FALSE
  /\ last' = "LDI"
  /\ UNCHANGED <<sp, mem, frames>>

\* Device::setSP, called by the host between steps (on an empty stack when
\* Disciplined): a value >= 2 * MEM_SRAM_START is refused and logged.
SetSP(v) ==
  /\ Disciplined => frames = <<>>
  /\ sp' = IF v >= MEM_SRAM_START + MEM_SRAM_START THEN sp ELSE v
  /\ oob' = FALSE
  /\ last' = "SETSP"
  /\ UNCHANGED <<pc, mem, reg, frames>>

Next ==
  /\ \/ \E k \in Targets : InFlash(k) /\ (Call(k) \/ RCall(k) \/ ICall(k) \/ EICall(k))
     \/ \E iv \in IVs : Ack(iv)
     \/ Ret \/ Reti \/ Push \/ Pop
     \/ \E v \in RegValues : Ldi(v)
     \/ \E v \in SpInputs : SetSP(v)
  /\ UNCHANGED flash_size

Spec == Init /\ [][Next]_vars

-----------------------------------------------------------------------------
(* Properties *)

\* A return undoes exactly its push, however calls, interrupt entries and
\* PUSHes of both widths were nested in between: RET and RETI resume at the
\* return address of the CALL-family instruction or acknowledge they
\* match, POP gets back the byte its PUSH saved, and each leaves SP where
\* it was before that push.
ReturnsToCaller ==
  [][frames # <<>> /\ last' \in {"RET", "RETI", "POP"} =>
       /\ sp' = Head(frames).sp
       /\ (IF last' = "POP" THEN reg' ELSE pc') = Head(frames).val]_vars

\* "Stack pointer stays in [MEM_SRAM_START, MEM_SRAM_START+mem_sram_size)
\* ... violations must be reported": no push or pop reaches memory outside
\* sram_data_ without being reported.
NoStackOutOfBounds == ~oob

====
