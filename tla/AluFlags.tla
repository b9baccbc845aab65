------------------------------- MODULE AluFlags -------------------------------
(***************************************************************************)
(* The arithmetic instructions of Device::executeNextInstruction           *)
(* (src/device.cpp) and the SREG flags they compute.                       *)
(*                                                                         *)
(* The state is the part of the register file and SREG one instruction    *)
(* reads and writes: Rd (and Rh = R[d+1] for ADIW/SBIW, or Rh:Rd as Z for *)
(* IJMP/EIJMP/LPM/ELPM), the source register or immediate Rr (the byte  *)
(* at (Z) for XCH, LAS, LAC, LAT), r1:r0 for the multiplications and   *)
(* LPM/ELPM (Rd and Rr are other registers), and the flags C Z N V S H   *)
(* T. An initial state is what the guest sets up with LDI and OUT to     *)
(* SREG; a behaviour is the execution of one instruction from it, and    *)
(* stops there, after at most one setup instruction: LDI of R[d+1]        *)
(* before the instructions that read it, BSET 6 (SET) before BLD. The   *)
(* program counter and the cycles the instruction returns are compared  *)
(* for the skips, branches and jumps, whose subject they are.           *)
(*                                                                         *)
(* The code computes each flag as a bitwise formula of Rd, Rr and the     *)
(* result R masked with one bit (0x80, 0x08 or 0x8000), assigned to a     *)
(* SREG flag field. Bitwise operators act on each bit separately, so the  *)
(* formula masked with bit k is the same formula on bit k of each         *)
(* operand: Bit(x, k) below. A flag is set iff the masked value is non    *)
(* zero (SREG is declared in cpu.h, which is not in src/; its flag fields *)
(* are taken to be bool bit-fields).                                      *)
(*                                                                         *)
(* Each instruction is checked against a reference definition computed   *)
(* from the exact integer results: carry and borrow as the unsigned       *)
(* result leaving 0..2^w-1, overflow as the signed result leaving its     *)
(* range, S as the sign of the exact signed result.                       *)
(***************************************************************************)
EXTENDS Integers, Bitwise

CONSTANTS
  DOperands,   \* values loaded into Rd
  ROperands,   \* values loaded into Rr, also the immediate K
  HiOperands,  \* values loaded into R[d+1], the high byte of ADIW/SBIW
  Suspects,    \* the instructions DefectsMatchReference checks
  SkipBits,    \* bit numbers b of SBRC/SBRS/SBIC/SBIS, and s of BRBS/BRBC
  NextWords,   \* opcodes the word after a skip may hold
  BranchDisps, \* signed 7-bit displacements k of BRBS/BRBC
  JmpWords,    \* first words of JMP (1001 010k kkkk 110k)
  RjmpFields,  \* 12-bit fields k of RJMP (1100 kkkk kkkk kkkk)
  Eind,        \* the value the guest writes to EIND (OUT) before EIJMP
  RampzInput,  \* the value the guest writes to RAMPZ (OUT) before ELPM
  SramSize,    \* mem_sram_size_
  HasExsram,   \* model.has_exsram
  FlashWord(_),\* flash_data_: the word at each word address
  FlashSize,   \* flash_size_ in bytes
  PcStart      \* cpu_.pc_ before the instruction

ASSUME DOperands \cup ROperands \cup HiOperands \subseteq 0..255
ASSUME SkipBits \subseteq 0..5 /\ NextWords \subseteq 0..65535
ASSUME BranchDisps \subseteq -64..63 /\ PcStart >= 2048
ASSUME JmpWords \subseteq 37900..38397 /\ RjmpFields \subseteq 0..4095
ASSUME SramSize \in 1..65535 /\ HasExsram \in BOOLEAN
ASSUME Eind \in 0..255 /\ RampzInput \in 0..255 /\ FlashSize \in Nat \ {0}
ASSUME Eind * 131072 < FlashSize   \* an EIND that addresses this flash

Byte == 0..255

\* Device::Device puts external SRAM right after internal SRAM, at
\* 0x2000 + mem_sram_size_; CPU::CPU: ramp_mask_ = (mem_exsram_start_ +
\* mem_exsram_size_) >> 8, of which the uint8_t rampz_ keeps the low byte.
ExsramEnd == IF HasExsram THEN 16777216 ELSE 8192 + SramSize
RampMask  == (ExsramEnd \div 256) % 256

\* CPU::CPU: eind_mask_ = flash_size_ >> 9, low byte; CPU::setIo stores
\* an OUT to EIND as v & eind_mask_ and one to RAMPZ as v & ramp_mask_.
EindMask == (FlashSize \div 512) % 256
EindReg  == Eind & EindMask

VARIABLES
  Rd,    \* regfile_[d]
  Rh,    \* regfile_[d+1] (r31 when Rh:Rd is Z)
  Rr,    \* regfile_[r], K for the immediate forms, the byte at (Z) for RMW
  R01,   \* reg01_, the pair r1:r0 the multiplications write
  sreg,  \* cpu_.sreg_ as a record of flags
  pc,    \* cpu_.pc_
  cycles,\* opcode_cycles the instruction returns (0 before it)
  op,    \* history: the instruction of the last step, "none" initially
  arg,   \* history: [b, next, k] the bit, skip, branch or jump decoded
  rampz  \* cpu_.rampz_

vars == <<Rd, Rh, Rr, R01, sreg, pc, cycles, op, arg, rampz>>

\* Branches writing Rd, compare branches, and 16-bit branches.
ByteOps    == {"NEG", "INC", "DEC", "ASR", "LSR", "ROR",
               "ADD", "ADC", "SUB", "SBC", "SUBI", "SBCI",
               "AND", "ANDI", "EOR", "OR", "ORI", "COM", "SWAP"}
CompareOps == {"CP", "CPC", "CPI"}
WordOps    == {"ADIW", "SBIW"}
MulOps     == {"MUL", "MULS", "MULSU", "FMUL", "FMULS", "FMULSU"}
SkipOps    == {"CPSE", "SBRC", "SBRS", "SBIC", "SBIS"}
BranchOps  == {"BRBS", "BRBC"}
BitOps     == {"BLD", "BST"}
RmwOps     == {"XCH", "LAS", "LAC", "LAT"}
JumpOps    == {"JMP", "RJMP", "IJMP", "EIJMP"}
\* LPM r0,Z; LPM r0,Z+; ELPM r0,Z; ELPM r0,Z+.
LpmOps     == {"LPM", "LPM+", "ELPM", "ELPM+"}
\* MOV, and SBI/CBI on the I/O byte Rd stands for.
MoveOps    == {"MOV", "SBI", "CBI"}
FlowOps    == SkipOps \cup BranchOps \cup JumpOps
Instructions == ByteOps \cup CompareOps \cup WordOps \cup MulOps \cup FlowOps
                  \cup BitOps \cup RmwOps \cup LpmOps \cup MoveOps
\* The setup instructions, and the instructions that may follow each.
Setups == {"LDI", "BSET"}
Ready(o) ==
  \/ op = "none"
  \/ op = "LDI" /\ o \in WordOps \cup LpmOps \cup {"IJMP", "EIJMP"}
  \/ op = "BSET" /\ o = "BLD"

Flags == [C : BOOLEAN, Z : BOOLEAN, N : BOOLEAN, V : BOOLEAN,
          S : BOOLEAN, H : BOOLEAN, T : BOOLEAN]

\* The SREG values the guest loads: C and Z are the only inputs of these
\* instructions; the others are loaded clear (T is set by BSET 6).
SregInputs ==
  {[C |-> c, Z |-> z, N |-> FALSE, V |-> FALSE, S |-> FALSE, H |-> FALSE,
    T |-> FALSE] : c, z \in BOOLEAN}

Bit(x, k) == (x \div 2^k) % 2 = 1

CarryIn == IF sreg.C THEN 1 ELSE 0

\* The register pair R[d+1]:R[d] (register_get<16>) and the 6-bit K.
Pair == Rh * 256 + Rd
K6   == Rr % 64

-----------------------------------------------------------------------------
(* Mutants: plausible slips in the code, used to check the properties.    *)

\* The result kept as an int, without the conversion to uint8_t.
Wrap8NoMod(x) == x

\* The carry formula with only its generate term (Rd & Rr).
AddCarryGenerateOnly(d, r, R, k) == Bit(d, k) /\ Bit(r, k)

-----------------------------------------------------------------------------
(* The code's computations.                                               *)

\* uint8_t R = <int expression>: conversion to 8 bits (and to 16 bits).
Wrap8(x)  == x % 256
Wrap16(x) == x % 65536

\* ((Rd & Rr) | (Rr & ~R) | (~R & Rd)) & mask: ADD/ADC C (k=7) and H (k=3).
AddCarry(d, r, R, k) ==
  (Bit(d, k) /\ Bit(r, k)) \/ (Bit(r, k) /\ ~Bit(R, k)) \/ (~Bit(R, k) /\ Bit(d, k))

\* ((~Rd & Rr) | (Rr & R) | (R & ~Rd)) & mask: subtract family C and H.
SubCarry(d, r, R, k) ==
  (~Bit(d, k) /\ Bit(r, k)) \/ (Bit(r, k) /\ Bit(R, k)) \/ (Bit(R, k) /\ ~Bit(d, k))

\* ((Rd & Rr & ~R) | (~Rd & ~Rr & R)) & 0x80
AddOverflow(d, r, R) ==
  (Bit(d, 7) /\ Bit(r, 7) /\ ~Bit(R, 7)) \/ (~Bit(d, 7) /\ ~Bit(r, 7) /\ Bit(R, 7))

\* ((Rd & ~Rr & ~R) | (~Rd & Rr & R)) & 0x80
SubOverflow(d, r, R) ==
  (Bit(d, 7) /\ ~Bit(r, 7) /\ ~Bit(R, 7)) \/ (~Bit(d, 7) /\ Bit(r, 7) /\ Bit(R, 7))

\* The Z, N, V assignments most branches share, and S = N ^ V.
ZNVS(s, R, n, v) == [s EXCEPT !.Z = (R = 0), !.N = n, !.V = v, !.S = (n # v)]

Out(R, s) == [R |-> R, sreg |-> s]

\* ADD/ADC (c = 0 or SREG.C).
CodeAdd(d, r, c) ==
  LET R == Wrap8(d + r + c)
  IN  Out(R, [ZNVS(sreg, R, Bit(R, 7), AddOverflow(d, r, R))
                EXCEPT !.C = AddCarry(d, r, R, 7), !.H = AddCarry(d, r, R, 3)])

\* SUB/SUBI/CP/CPI (c = 0) and SBC/SBCI/CPC (c = SREG.C): Z = R == 0.
CodeSub(d, r, c) ==
  LET R == Wrap8(d - r - c)
  IN  Out(R, [ZNVS(sreg, R, Bit(R, 7), SubOverflow(d, r, R))
                EXCEPT !.C = SubCarry(d, r, R, 7), !.H = SubCarry(d, r, R, 3)])

\* CPC: Z = R == 0 && Z.
CodeCpc(d, r, c) == [CodeSub(d, r, c) EXCEPT !.sreg.Z = @ /\ sreg.Z]

\* NEG: R = (0x100 - Rd) & 0xFF, C = R != 0, V = R == 0x80, H = (R & Rd) & 0x08.
CodeNeg(d) ==
  LET R == Wrap8(256 - d)
  IN  Out(R, [ZNVS(sreg, R, Bit(R, 7), R = 128)
                EXCEPT !.C = (R # 0), !.H = Bit(R, 3) /\ Bit(d, 3)])

\* INC (++regfile_[d]) and DEC (--regfile_[d]): V = R == 0x80; C, H kept.
CodeInc(d) == LET R == Wrap8(d + 1) IN Out(R, ZNVS(sreg, R, Bit(R, 7), R = 128))
CodeDec(d) == LET R == Wrap8(d - 1) IN Out(R, ZNVS(sreg, R, Bit(R, 7), R = 128))

\* ASR/LSR/ROR: C = Rd & 1, V = N ^ C (LSR sets N = 0, which is bit 7 of
\* its result).
CodeShift(d, R) ==
  Out(R, [ZNVS(sreg, R, Bit(R, 7), Bit(R, 7) # Bit(d, 0)) EXCEPT !.C = Bit(d, 0)])

CodeAsr(d) == CodeShift(d, shiftR(d, 1) | (d & 128))
CodeLsr(d) == CodeShift(d, shiftR(d, 1))
CodeRor(d) == CodeShift(d, shiftR(d, 1) | (CarryIn * 128))

\* ADIW: C = (~R & Rd) & 0x8000, V = (R & ~Rd) & 0x8000; H kept.
CodeAdiw(d, k) ==
  LET R == Wrap16(d + k)
  IN  Out(R, [ZNVS(sreg, R, Bit(R, 15), Bit(R, 15) /\ ~Bit(d, 15))
                EXCEPT !.C = ~Bit(R, 15) /\ Bit(d, 15)])

\* SBIW: C = (R & ~Rd) & 0x8000, V = (R & ~Rd) & 0x8000; H kept.
CodeSbiw(d, k) ==
  LET R == Wrap16(d - k)
  IN  Out(R, [ZNVS(sreg, R, Bit(R, 15), Bit(R, 15) /\ ~Bit(d, 15))
                EXCEPT !.C = Bit(R, 15) /\ ~Bit(d, 15)])

\* AND, ANDI, EOR, OR, ORI: V = 0, C and H kept.
CodeLogic(R) == Out(R, ZNVS(sreg, R, Bit(R, 7), FALSE))

\* COM: R = 0xFF - Rd, C = 1, V = 0.
CodeCom(d) ==
  LET R == 255 - d IN Out(R, [ZNVS(sreg, R, Bit(R, 7), FALSE) EXCEPT !.C = TRUE])

\* u8_to_s16 (declared outside src/): the byte read as a signed value.
U8ToS16(x) == IF x >= 128 THEN x - 256 ELSE x

\* MUL, MULS, MULSU: uint16_t R = Rd * Rr; C = R & 0x8000, Z = R == 0.
CodeMul(p) ==
  LET R == Wrap16(p) IN Out(R, [sreg EXCEPT !.C = Bit(R, 15), !.Z = (R = 0)])

\* FMUL, FMULS: C = R & 0x8000 before R <<= 1; Z = R == 0 after it.
CodeFmul(p) ==
  LET R == Wrap16(p)
      F == Wrap16(R * 2)
  IN  Out(F, [sreg EXCEPT !.C = Bit(R, 15), !.Z = (F = 0)])

\* opcode_is_32b: JMP, CALL ((op & 0xFE0C) == 0x940C), LDS, STS
\* ((op & 0xFC0F) == 0x9000).
OpcodeIs32b(w) == (w & 65036) = 37900 \/ (w & 64527) = 36864

\* sreg_.data: C, Z, N, V, S, H, T, I from bit 0 (I clear here).
SregData ==
  LET b(f) == IF f THEN 1 ELSE 0
  IN  b(sreg.C) + 2 * b(sreg.Z) + 4 * b(sreg.N) + 8 * b(sreg.V) + 16 * b(sreg.S)
        + 32 * b(sreg.H) + 64 * b(sreg.T)

\* SWAP: ((Rd & 0x0F) << 4) | ((Rd & 0xF0) >> 4).
CodeSwap(d) == Out(((d & 15) * 16) | shiftR(d & 240, 4), sreg)

\* BLD: (regfile_[d] & ~(1 << b)) | (T << b), kept to 8 bits.
CodeBld(d, b) == (d & (255 - 2^b)) | ((IF sreg.T THEN 1 ELSE 0) * 2^b)

\* BST: T = regfile_[d] & (1 << b).
CodeBst(d, b) == [sreg EXCEPT !.T = (d & 2^b) # 0]

\* XCH, LAC, LAS, LAT: z = getDataMem(regz_), then the byte M written back
\* by setDataMem(regz_, .) and the new regfile_[d] R. LAC writes Rd & ~z
\* (~z on 8 bits is 255 - z) and leaves Rd.
CodeRmw(o, d, z) ==
  CASE o = "XCH" -> [R |-> z, M |-> d]
    [] o = "LAC" -> [R |-> d, M |-> d & (255 - z)]
    [] o = "LAS" -> [R |-> z, M |-> d | z]
    [] o = "LAT" -> [R |-> z, M |-> d ^^ z]

\* u16_to_s16<n> (declared outside src/): the n-bit field read as signed.
U16ToS16(x, n) == IF x >= 2^(n - 1) THEN x - 2^n ELSE x

\* JMP: ((((opcode >> 3) & 0x3E) | (opcode & 1)) << 16) | opcode2.
JmpTarget(w, w2) == ((shiftR(w, 3) & 62) | (w & 1)) * 65536 | w2

\* The new cpu_.pc_ and opcode_cycles of JMP, RJMP (pc_ += k + 1), IJMP
\* (pc_ = regz_) and EIJMP (regz_ | eind_ << 16, or a logged pc_++ when
\* flash_size_ <= 0x20000).
CodeJump(o, w, w2) ==
  CASE o = "JMP"  -> [pc |-> JmpTarget(w, w2), cycles |-> 3]
    [] o = "RJMP" -> [pc |-> pc + U16ToS16(w, 12) + 1, cycles |-> 2]
    [] o = "IJMP" -> [pc |-> Pair, cycles |-> 2]
    [] o = "EIJMP" ->
         IF FlashSize <= 131072 THEN [pc |-> pc + 1, cycles |-> 1]
                                ELSE [pc |-> Pair | (EindReg * 65536), cycles |-> 2]

\* LPM and ELPM: v = flash_data_[z >> 1], or flash_data_[(z >> 1) |
\* (rampz_ << 7)] for ELPM; r0 = (z & 1) ? (v >> 8) & 0xFF : v & 0xFF.
\* The Z+ forms then do ++regz_, and ELPM on a wrap to 0 also rampz_++;
\* rampz_ &= ramp_mask_. The new r1:r0, Z and RAMPZ.
CodeLpm(o) ==
  LET elpm == o \in {"ELPM", "ELPM+"}
      word == IF elpm THEN shiftR(Pair, 1) | (rampz * 128) ELSE shiftR(Pair, 1)
      v    == FlashWord(word)
      r0   == IF (Pair & 1) # 0 THEN shiftR(v, 8) & 255 ELSE v & 255
      z    == IF o \in {"LPM+", "ELPM+"} THEN (Pair + 1) % 65536 ELSE Pair
  IN  [R01   |-> (R01 - (R01 % 256)) + r0,
       Z     |-> z,
       rampz |-> IF o = "ELPM+" /\ z = 0 THEN ((rampz + 1) % 256) & RampMask
                                        ELSE rampz]

\* MOV: regfile_[d] = regfile_[r]; SBI: setIoMem(a, getIoMem(a) | (1 << b));
\* CBI: setIoMem(a, getIoMem(a) & ~(1 << b)), the byte kept by setIoMem.
CodeMove(o, b) ==
  CASE o = "MOV" -> Rr
    [] o = "SBI" -> Rd | 2^b
    [] o = "CBI" -> Rd & (255 - 2^b)

\* cpu_.pc_++ and the opcode_cycles an instruction returns.
Retire(n) == pc' = pc + 1 /\ cycles' = n /\ UNCHANGED arg

\* The branch of executeNextInstruction each instruction takes.
Code(o) ==
  CASE o = "NEG"  -> CodeNeg(Rd)
    [] o = "INC"  -> CodeInc(Rd)
    [] o = "DEC"  -> CodeDec(Rd)
    [] o = "ASR"  -> CodeAsr(Rd)
    [] o = "LSR"  -> CodeLsr(Rd)
    [] o = "ROR"  -> CodeRor(Rd)
    [] o = "ADD"  -> CodeAdd(Rd, Rr, 0)
    [] o = "ADC"  -> CodeAdd(Rd, Rr, CarryIn)
    [] o \in {"SUB", "SUBI", "CP", "CPI"} -> CodeSub(Rd, Rr, 0)
    [] o \in {"SBC", "SBCI"} -> CodeSub(Rd, Rr, CarryIn)
    [] o = "CPC"  -> CodeCpc(Rd, Rr, CarryIn)
    [] o = "ADIW" -> CodeAdiw(Pair, K6)
    [] o = "SBIW" -> CodeSbiw(Pair, K6)
    [] o \in {"AND", "ANDI"} -> CodeLogic(Rd & Rr)
    [] o = "EOR"  -> CodeLogic(Rd ^^ Rr)
    [] o \in {"OR", "ORI"} -> CodeLogic(Rd | Rr)
    [] o = "COM"  -> CodeCom(Rd)
    [] o = "SWAP" -> CodeSwap(Rd)
    [] o = "MUL"  -> CodeMul(Rd * Rr)
    [] o = "MULS" -> CodeMul(U8ToS16(Rd) * U8ToS16(Rr))
    [] o = "MULSU" -> CodeMul(U8ToS16(Rd) * Rr)
    [] o = "FMUL" -> CodeFmul(Rd * Rr)
    [] o = "FMULS" -> CodeFmul(U8ToS16(Rd) * U8ToS16(Rr))
    \* FMULSU (0x0388) matches no mask: the FMULSU branch repeats FMULS's
    \* 0x0380, and the final else only logs "unknown opcode".
    [] o = "FMULSU" -> Out(R01, sreg)

-----------------------------------------------------------------------------
(* Actions *)

Init ==
  /\ Rd \in DOperands
  /\ Rh = 0
  /\ Rr \in ROperands
  /\ R01 = 0
  /\ pc = PcStart
  /\ cycles = 0
  /\ arg = [b |-> 0, next |-> 0, k |-> 0]
  /\ sreg \in SregInputs
  /\ op = "none"
  /\ rampz = RampzInput & RampMask

\* A branch that writes its result to Rd.
ExecuteByte(o) ==
  /\ Ready(o)
  /\ Rd' = Code(o).R
  /\ sreg' = Code(o).sreg
  /\ op' = o
  /\ Retire(1)
  /\ UNCHANGED <<Rh, Rr, R01, rampz>>

\* CP, CPC, CPI: flags only.
ExecuteCompare(o) ==
  /\ Ready(o)
  /\ sreg' = Code(o).sreg
  /\ op' = o
  /\ Retire(1)
  /\ UNCHANGED <<Rd, Rh, Rr, R01, rampz>>

\* ADIW, SBIW: register_set<16> of the pair.
ExecuteWord(o) ==
  /\ Ready(o)
  /\ Rd' = Code(o).R % 256
  /\ Rh' = Code(o).R \div 256
  /\ sreg' = Code(o).sreg
  /\ op' = o
  /\ Retire(1)
  /\ UNCHANGED <<Rr, R01, rampz>>

\* The multiplications: reg01_ = R, opcode_cycles = 2 (FMULSU, decoded
\* as an unknown opcode, keeps 1).
ExecuteMul(o) ==
  /\ Ready(o)
  /\ R01' = Code(o).R
  /\ sreg' = Code(o).sreg
  /\ op' = o
  /\ Retire(IF o = "FMULSU" THEN 1 ELSE 2)
  /\ UNCHANGED <<Rd, Rh, Rr, rampz>>

\* SBRC/SBRS test a register, SBIC/SBIS the I/O byte getIoMem(a), CPSE
\* compares Rd with Rr: !(((v >> b) ^ (opcode >> 9)) & 1), bit 9 being set
\* in SBRS and SBIS. On a skip the word after is read from flash: a 32-bit
\* opcode is skipped with its operand word. SBRC/SBRS charge 3 cycles on
\* either skip.
ExecuteSkip(o, b, next) ==
  /\ Ready(o)
  /\ LET skip == IF o = "CPSE" THEN Rd = Rr ELSE Bit(Rd, b) = (o \in {"SBRS", "SBIS"})
     IN  /\ pc' = pc + (IF ~skip THEN 1 ELSE IF OpcodeIs32b(next) THEN 3 ELSE 2)
         /\ cycles' = IF ~skip THEN 1
                      ELSE IF OpcodeIs32b(next) \/ o \in {"SBRC", "SBRS"} THEN 3 ELSE 2
  /\ op' = o
  /\ arg' = [b |-> b, next |-> next, k |-> 0]
  /\ UNCHANGED <<Rd, Rh, Rr, R01, sreg, rampz>>

\* BRBC/BRBS: branch by k + 1 when ((sreg_.data >> s) ^ (opcode >> 10)) & 1,
\* bit 10 being set in BRBC; 2 cycles when taken.
ExecuteBranch(o, s, k) ==
  /\ Ready(o)
  /\ LET taken == Bit(SregData, s) # (o = "BRBC")
     IN  /\ pc' = IF taken THEN pc + k + 1 ELSE pc + 1
         /\ cycles' = IF taken THEN 2 ELSE 1
  /\ op' = o
  /\ arg' = [b |-> s, next |-> 0, k |-> k]
  /\ UNCHANGED <<Rd, Rh, Rr, R01, sreg, rampz>>

\* Setup: LDI r[d+1], h before an instruction that reads the pair.
LoadPair(h) ==
  /\ op = "none"
  /\ Rh' = h
  /\ op' = "LDI"
  /\ Retire(1)
  /\ UNCHANGED <<Rd, Rr, R01, sreg, rampz>>

\* Setup: BSET 6 (SET), sreg_.data |= 1 << 6, before BLD.
SetT ==
  /\ op = "none"
  /\ sreg' = [sreg EXCEPT !.T = TRUE]
  /\ op' = "BSET"
  /\ Retire(1)
  /\ UNCHANGED <<Rd, Rh, Rr, R01, rampz>>

\* BLD and BST with bit b.
ExecuteBit(o, b) ==
  /\ Ready(o)
  /\ IF o = "BLD" THEN Rd' = CodeBld(Rd, b) /\ sreg' = sreg
                   ELSE Rd' = Rd /\ sreg' = CodeBst(Rd, b)
  /\ op' = o
  /\ pc' = pc + 1
  /\ cycles' = 1
  /\ arg' = [b |-> b, next |-> 0, k |-> 0]
  /\ UNCHANGED <<Rh, Rr, R01, rampz>>

\* XCH, LAS, LAC, LAT: read-modify-write of the byte at (Z), one cycle.
ExecuteRmw(o) ==
  /\ Ready(o)
  /\ Rd' = CodeRmw(o, Rd, Rr).R
  /\ Rr' = CodeRmw(o, Rd, Rr).M
  /\ op' = o
  /\ Retire(1)
  /\ UNCHANGED <<Rh, R01, sreg, rampz>>

\* JMP with words w, w2; RJMP with the field w; IJMP and EIJMP through Z.
ExecuteJump(o, w, w2) ==
  /\ Ready(o)
  /\ pc' = CodeJump(o, w, w2).pc
  /\ cycles' = CodeJump(o, w, w2).cycles
  /\ op' = o
  /\ arg' = [b |-> 0, next |-> w2, k |-> w]
  /\ UNCHANGED <<Rd, Rh, Rr, R01, sreg, rampz>>

\* LPM and ELPM into r0, three cycles.
ExecuteLpm(o) ==
  /\ Ready(o)
  /\ R01' = CodeLpm(o).R01
  /\ Rd' = CodeLpm(o).Z % 256
  /\ Rh' = CodeLpm(o).Z \div 256
  /\ rampz' = CodeLpm(o).rampz
  /\ op' = o
  /\ Retire(3)
  /\ UNCHANGED <<Rr, sreg>>

\* MOV Rd, Rr; SBI and CBI with bit b.
ExecuteMove(o, b) ==
  /\ Ready(o)
  /\ Rd' = CodeMove(o, b)
  /\ op' = o
  /\ pc' = pc + 1
  /\ cycles' = 1
  /\ arg' = [b |-> b, next |-> 0, k |-> 0]
  /\ UNCHANGED <<Rh, Rr, R01, sreg, rampz>>

Next ==
  \/ \E h \in HiOperands \ {0} : LoadPair(h)
  \/ SetT
  \/ \E o \in ByteOps : ExecuteByte(o)
  \/ \E o \in CompareOps : ExecuteCompare(o)
  \/ \E o \in WordOps : ExecuteWord(o)
  \/ \E o \in MulOps : ExecuteMul(o)
  \/ \E o \in SkipOps, b \in SkipBits, w \in NextWords : ExecuteSkip(o, b, w)
  \/ \E o \in BranchOps, b \in SkipBits, k \in BranchDisps : ExecuteBranch(o, b, k)
  \/ \E o \in BitOps, b \in SkipBits : ExecuteBit(o, b)
  \/ \E o \in RmwOps : ExecuteRmw(o)
  \/ \E w \in JmpWords, w2 \in NextWords : ExecuteJump("JMP", w, w2)
  \/ \E w \in RjmpFields : ExecuteJump("RJMP", w, 0)
  \/ ExecuteJump("IJMP", 0, 0) \/ ExecuteJump("EIJMP", 0, 0)
  \/ \E o \in LpmOps : ExecuteLpm(o)
  \/ ExecuteMove("MOV", 0)
  \/ \E o \in {"SBI", "CBI"}, b \in SkipBits : ExecuteMove(o, b)

Spec == Init /\ [][Next]_vars

-----------------------------------------------------------------------------
(* Reference definitions, from the exact integer results.                 *)

Signed(x, w) == IF x >= 2^(w - 1) THEN x - 2^w ELSE x

\* C, Z, N, V, S of a w-bit operation whose exact unsigned result is u and
\* exact signed result is v; the other flags are kept from s.
ArithRef(w, u, v, s) ==
  [s EXCEPT !.C = (u < 0 \/ u >= 2^w),
            !.Z = (u % 2^w = 0),
            !.N = (u % 2^w >= 2^(w - 1)),
            !.V = (v < -(2^(w - 1)) \/ v >= 2^(w - 1)),
            !.S = (v < 0)]

\* H: carry out of, or borrow into, the low nibble.
NibbleOut(h) == h < 0 \/ h >= 16

RefAdd(d, r, c) ==
  Out((d + r + c) % 256,
      [ArithRef(8, d + r + c, Signed(d, 8) + Signed(r, 8) + c, sreg)
         EXCEPT !.H = NibbleOut((d % 16) + (r % 16) + c)])

RefSub(d, r, c) ==
  Out((d - r - c) % 256,
      [ArithRef(8, d - r - c, Signed(d, 8) - Signed(r, 8) - c, sreg)
         EXCEPT !.H = NibbleOut((d % 16) - (r % 16) - c)])

\* The subtractions with carry continue a multi-byte operation: the result
\* is zero only if this byte and all the earlier ones are.
RefSubChained(d, r, c) == [RefSub(d, r, c) EXCEPT !.sreg.Z = @ /\ sreg.Z]

\* INC and DEC: +1 and -1 without touching C (nor H).
RefStep(d, delta) ==
  Out((d + delta) % 256,
      [ArithRef(8, d + delta, Signed(d, 8) + delta, sreg) EXCEPT !.C = sreg.C])

\* Shifts: C is the bit shifted out; V is defined as N ^ C.
RefShift(d, R) ==
  Out(R, [sreg EXCEPT !.C = (d % 2 = 1), !.Z = (R = 0), !.N = (R >= 128),
                      !.V = ((R >= 128) # (d % 2 = 1)), !.S = (d % 2 = 1)])

\* Bit k of a bitwise operation, and the byte made of those bits.
BitOf(f, a, b) == CASE f = "and" -> a /\ b [] f = "or" -> a \/ b [] f = "xor" -> a # b

RECURSIVE Bitwise8(_, _, _, _)
Bitwise8(f, d, r, k) ==
  IF k = 8 THEN 0
  ELSE (IF BitOf(f, Bit(d, k), Bit(r, k)) THEN 2^k ELSE 0) + Bitwise8(f, d, r, k + 1)

\* Logic instructions: V cleared, S = N, C and H kept.
RefLogic(R) ==
  Out(R, [sreg EXCEPT !.Z = (R = 0), !.N = (R >= 128), !.V = FALSE, !.S = (R >= 128)])

\* Multiplications: the exact product p in r1:r0, C its bit 15; the
\* fractional ones shift the product left, C its bit 15 before the shift.
RefMul(p, shift) ==
  LET R == (p * 2^shift) % 65536
  IN  Out(R, [sreg EXCEPT !.C = (p % 65536 >= 32768), !.Z = (R = 0)])

Ref(o) ==
  CASE o = "NEG"  -> RefSub(0, Rd, 0)
    [] o = "INC"  -> RefStep(Rd, 1)
    [] o = "DEC"  -> RefStep(Rd, -1)
    [] o = "ASR"  -> RefShift(Rd, (Signed(Rd, 8) \div 2) % 256)
    [] o = "LSR"  -> RefShift(Rd, Rd \div 2)
    [] o = "ROR"  -> RefShift(Rd, Rd \div 2 + 128 * CarryIn)
    [] o = "ADD"  -> RefAdd(Rd, Rr, 0)
    [] o = "ADC"  -> RefAdd(Rd, Rr, CarryIn)
    [] o \in {"SUB", "SUBI", "CP", "CPI"} -> RefSub(Rd, Rr, 0)
    [] o \in {"SBC", "SBCI", "CPC"} -> RefSubChained(Rd, Rr, CarryIn)
    [] o = "ADIW" -> Out((Pair + K6) % 65536,
                         ArithRef(16, Pair + K6, Signed(Pair, 16) + K6, sreg))
    [] o = "SBIW" -> Out((Pair - K6) % 65536,
                         ArithRef(16, Pair - K6, Signed(Pair, 16) - K6, sreg))
    [] o \in {"AND", "ANDI"} -> RefLogic(Bitwise8("and", Rd, Rr, 0))
    [] o = "EOR"  -> RefLogic(Bitwise8("xor", Rd, Rr, 0))
    [] o \in {"OR", "ORI"} -> RefLogic(Bitwise8("or", Rd, Rr, 0))
    [] o = "COM"  -> [RefLogic((-Rd - 1) % 256) EXCEPT !.sreg.C = TRUE]
    [] o = "SWAP" -> Out((Rd % 16) * 16 + Rd \div 16, sreg)
    [] o = "MUL"  -> RefMul(Rd * Rr, 0)
    [] o = "MULS" -> RefMul(Signed(Rd, 8) * Signed(Rr, 8), 0)
    [] o = "MULSU" -> RefMul(Signed(Rd, 8) * Rr, 0)
    [] o = "FMUL" -> RefMul(Rd * Rr, 1)
    [] o = "FMULS" -> RefMul(Signed(Rd, 8) * Signed(Rr, 8), 1)
    [] o = "FMULSU" -> RefMul(Signed(Rd, 8) * Rr, 1)

\* The two-word instructions, from their formats: JMP 1001 010k kkkk 110k,
\* CALL 1001 010k kkkk 111k, LDS 1001 000d dddd 0000, STS 1001 001d dddd 0000.
TwoWord(w) == (w \div 512 = 74 /\ w % 16 >= 12) \/ (w \div 1024 = 36 /\ w % 16 = 0)

\* SREG bit s: C, Z, N, V, S, H.
FlagBit(s) == <<sreg.C, sreg.Z, sreg.N, sreg.V, sreg.S, sreg.H>>[s + 1]

\* Skips, branches and jumps: the next program counter and the cycles, a
\* skip taking one cycle more per word it skips, a taken branch one more.
\* JMP's 22-bit k is opcode bits 8..4 (k21..k17) and 0 (k16), then the
\* second word; RJMP's k is a 12-bit two's complement; EIJMP exists only
\* on devices with more than 128 KiB of flash (otherwise it is a logged
\* fault and PC advances), and jumps to EIND:Z with the EIND the guest
\* wrote, which the ASSUME keeps inside this flash.
RefFlow(o, a) ==
  LET skip  == CASE o = "CPSE" -> Rd = Rr
                 [] o \in {"SBRC", "SBIC"} -> (Rd \div 2^a.b) % 2 = 0
                 [] o \in {"SBRS", "SBIS"} -> (Rd \div 2^a.b) % 2 = 1
      words == IF TwoWord(a.next) THEN 2 ELSE 1
      taken == IF o = "BRBS" THEN FlagBit(a.b) ELSE ~FlagBit(a.b)
  IN  CASE o \in SkipOps ->
             [pc |-> pc + 1 + (IF skip THEN words ELSE 0),
              cycles |-> 1 + (IF skip THEN words ELSE 0)]
        [] o \in BranchOps ->
             [pc |-> pc + 1 + (IF taken THEN a.k ELSE 0),
              cycles |-> IF taken THEN 2 ELSE 1]
        [] o = "JMP" ->
             [pc |-> ((a.k \div 16) % 32) * 131072 + (a.k % 2) * 65536 + a.next,
              cycles |-> 3]
        [] o = "RJMP" -> [pc |-> pc + 1 + Signed(a.k, 12), cycles |-> 2]
        [] o = "IJMP" -> [pc |-> Pair, cycles |-> 2]
        [] o = "EIJMP" ->
             IF FlashSize > 131072 THEN [pc |-> Eind * 65536 + Pair, cycles |-> 2]
                                   ELSE [pc |-> pc + 1, cycles |-> 1]

\* BLD copies T into bit b of Rd; BST copies bit b of Rd into T.
RefBit(o, b) ==
  IF o = "BLD"
    THEN Out(Rd - (IF Bit(Rd, b) THEN 2^b ELSE 0) + (IF sreg.T THEN 2^b ELSE 0), sreg)
    ELSE Out(Rd, [sreg EXCEPT !.T = Bit(Rd, b)])

\* XCH, LAS, LAC, LAT (AVR instruction set): Rd <- (Z) for all four, and
\* (Z) <- Rd, Rd | (Z), ($FF - Rd) & (Z), Rd ^ (Z) respectively.
RefRmw(o) ==
  CASE o = "XCH" -> [R |-> Rr, M |-> Rd]
    [] o = "LAS" -> [R |-> Rr, M |-> Bitwise8("or", Rd, Rr, 0)]
    [] o = "LAC" -> [R |-> Rr, M |-> Bitwise8("and", 255 - Rd, Rr, 0)]
    [] o = "LAT" -> [R |-> Rr, M |-> Bitwise8("xor", Rd, Rr, 0)]

\* LPM and ELPM (AVR instruction set): r0 <- the program-memory byte at Z,
\* or at RAMPZ:Z for ELPM, byte 2w of word w being its low byte; the Z+
\* forms then increment Z, and ELPM increments the 24-bit RAMPZ:Z.
RefLpm(o) ==
  LET elpm == o \in {"ELPM", "ELPM+"}
      a    == (IF elpm THEN rampz * 65536 ELSE 0) + Pair
      b    == IF a % 2 = 1 THEN FlashWord(a \div 2) \div 256 ELSE FlashWord(a \div 2) % 256
      next == IF o \in {"LPM+", "ELPM+"} THEN a + 1 ELSE a
  IN  [R01   |-> (R01 \div 256) * 256 + b,
       Z     |-> next % 65536,
       rampz |-> IF elpm THEN (next \div 65536) % 256 ELSE rampz]

\* MOV copies Rr; SBI sets and CBI clears bit b, leaving the other bits.
RefMove(o, b) ==
  CASE o = "MOV" -> Rr
    [] o = "SBI" -> IF Bit(Rd, b) THEN Rd ELSE Rd + 2^b
    [] o = "CBI" -> IF Bit(Rd, b) THEN Rd - 2^b ELSE Rd

-----------------------------------------------------------------------------
(* Properties *)

TypeOK ==
  /\ Rd \in Byte /\ Rh \in Byte /\ Rr \in Byte /\ R01 \in 0..65535
  /\ sreg \in Flags
  /\ op \in Instructions \cup Setups \cup {"none"}
  /\ cycles \in 0..3
  /\ rampz \in Byte

\* A step executing one of ops leaves the registers it writes and all of
\* SREG as the reference definition says.
StepMatchesReference(ops) ==
  \A o \in ops :
    op' = o =>
      /\ o \notin FlowOps \cup BitOps \cup RmwOps \cup LpmOps \cup MoveOps =>
           /\ sreg' = Ref(o).sreg
           /\ o \in ByteOps => Rd' = Ref(o).R
           /\ o \in WordOps => Rh' * 256 + Rd' = Ref(o).R
           /\ o \in MulOps => R01' = Ref(o).R
      /\ o \in FlowOps => [pc |-> pc', cycles |-> cycles'] = RefFlow(o, arg')
      /\ o \in BitOps => Rd' = RefBit(o, arg'.b).R /\ sreg' = RefBit(o, arg'.b).sreg
      /\ o \in RmwOps => Rd' = RefRmw(o).R /\ Rr' = RefRmw(o).M
      /\ o \in LpmOps => /\ R01' = RefLpm(o).R01 /\ Rh' * 256 + Rd' = RefLpm(o).Z
                        /\ rampz' = RefLpm(o).rampz
      /\ o \in MoveOps => Rd' = RefMove(o, arg'.b)

\* Every instruction of the module but those of Suspects (ADD, ADC, SUB,
\* SUBI, CP, CPI, CPC, INC, ASR, LSR, ROR, ADIW, the logic instructions,
\* COM and the multiplications) computes its result and every flag (C, H,
\* V, N, S, Z, CPC's Z chained with the previous Z, the sign extension of
\* the signed multiplications) as the exact arithmetic says, for every
\* operand; SWAP exchanges the nibbles; BLD and BST move one bit between
\* Rd and T; XCH, LAS and LAT write back the swapped, set or toggled byte
\* and load the old one; CPSE, SBIC and SBIS skip exactly the next
\* instruction, both words of a JMP, CALL, LDS or STS, at one cycle per
\* word skipped; BRBS and BRBC branch on the SREG bit they name; JMP,
\* RJMP and IJMP reach the address their encoding names; LPM and ELPM read
\* the program-memory byte (RAMPZ:)Z names, and LPM Z+ steps Z to the
\* next byte;
\* MOV copies its source and SBI/CBI change only the bit they name.
ArithMatchesReference == [][StepMatchesReference(Instructions \ Suspects)]_vars

\* NEG, DEC, SBIW, SBC, SBCI, FMULSU, SBRC, SBRS, LAC, ELPM+ and EIJMP
\* (Suspects) compute their
\* results and flags as the exact arithmetic says: NEG sets H on a borrow
\* out of bit 3 (R3 | Rd3); DEC sets V when Rd was 0x80 (R = 0x7F); SBIW
\* sets V when R[d+1]:R[d] goes from negative to positive; SBC and SBCI,
\* like CPC, keep Z only when the result is zero, so that Z reports a zero
\* multi-byte difference; FMULSU writes the shifted signed-by-unsigned
\* product to r1:r0; SBRC and SBRS charge one cycle per word skipped;
\* LAC clears the bits of Rd in the byte at (Z) and loads the old byte;
\* ELPM Z+ carries from Z into RAMPZ; EIJMP jumps to EIND:Z with the EIND
\* the guest wrote (through eind_mask_ in the code).
DefectsMatchReference == [][StepMatchesReference(Suspects)]_vars


=====
