------------------------------- MODULE Pointers -------------------------------
(***************************************************************************)
(* Data-space addressing of the emulated core: the pointer registers X, Y *)
(* and Z with their RAMP extension registers, the direct loads and stores *)
(* LDS/STS with RAMPD (src/device.cpp, Device::executeNextInstruction),   *)
(* the CPU block's writes to RAMPD/X/Y/Z and EIND (src/unnamed/part_000, *)
(* CPU::setIo, masked by ramp_mask_ and eind_mask_ computed in the CPU    *)
(* constructor), and the region Device::getDataMem/setDataMem routes an  *)
(* address to.                                                             *)
(*                                                                         *)
(* The byte loaded or stored is abstracted away: a step is characterised  *)
(* by the 24-bit address it accesses and the pointer and extension        *)
(* registers it leaves. Loads into the pointer's own register (which the  *)
(* code logs as undefined) are not among the inputs. RAMP and EIND are    *)
(* taken to be uint8_t, as the 8-bit I/O registers they are read back as; *)
(* only the low byte of each mask then matters.                            *)
(***************************************************************************)
EXTENDS Integers, Bitwise, FiniteSets, SequencesExt

CONSTANTS
  SramSize,     \* mem_sram_size_
  HasExsram,    \* model.has_exsram
  FlashSize,    \* flash_size_ in bytes
  PtrInputs,    \* 16-bit values the guest loads into X, Y, Z or uses as k
  Drift,        \* how far the guest walks a pointer from a loaded value
  ExtInputs,    \* values the guest writes to RAMPD/X/Y/Z and EIND
  Disps,        \* displacements q of LDD/STD
  Blocks        \* the blocks the Device constructor connects, in order:
                \* [name, io (io_addr), size (io_size), iv (iv_base), ivn]

ASSUME SramSize \in 1..65535 /\ HasExsram \in BOOLEAN /\ FlashSize \in Nat \ {0}
ASSUME PtrInputs \subseteq 0..65535 /\ ExtInputs \subseteq 0..255
ASSUME Disps \subseteq 0..63 /\ Drift \in Nat

MEM_IO_SIZE        == 4096      \* 0x1000
MEM_EEPROM_START   == 4096      \* 0x1000
MEM_SRAM_START     == 8192      \* 0x2000
MEM_EMULATOR_START == 65280     \* 0xFF00
MEM_EMULATOR_SIZE  == 256
MEM_MAX_SIZE       == 16777216  \* 0x1000000
EepromSize         == 4096      \* mem_eeprom_size_ at its largest
IV_MAX_COUNT       == 128       \* 0x80

\* Device::Device: the external SRAM starts right after internal SRAM.
ExsramStart == MEM_SRAM_START + SramSize
ExsramSize  == IF HasExsram THEN MEM_MAX_SIZE - ExsramStart ELSE 0

\* CPU::CPU: ramp_mask_ and eind_mask_, low byte.
RampMask == ((ExsramStart + ExsramSize) \div 256) % 256
EindMask == (FlashSize \div 512) % 256

Pointers == {"X", "Y", "Z"}
Exts     == {"D", "X", "Y", "Z", "EIND"}

VARIABLES
  ptr,   \* [Pointers -> 0..65535]: regx_, regy_, regz_
  ext,   \* [Exts -> 0..255]: rampd_, rampx_, rampy_, rampz_, eind_
  acc    \* history: [op, p, arg, region] of the last step: arg is the
         \* data address accessed, or the value an OUT wrote

vars == <<ptr, ext, acc>>

-----------------------------------------------------------------------------
(* The block registry: io_blocks_ and iv_blocks_ (NoBlock for NULL),      *)
(* blocks_, and the BlockError a connectBlock throws, if any.             *)

NoBlock == "none"

EmptyRegistry ==
  [io |-> [a \in 0..MEM_IO_SIZE - 1 |-> NoBlock],
   iv |-> [v \in 0..IV_MAX_COUNT - 1 |-> NoBlock],
   blocks |-> <<>>, error |-> "none"]

\* One of connectBlock's loops: claim base..base+n-1 for a block, stopping
\* (and throwing) at the first entry some block already owns.
Claim(tab, base, n, name) ==
  LET clash == {a \in base..base + n - 1 : tab[a] # NoBlock}
      stop  == IF clash = {} THEN base + n ELSE Min(clash)
  IN [tab   |-> [a \in DOMAIN tab |-> IF a \in base..stop - 1 THEN name ELSE tab[a]],
      clash |-> clash # {}]

\* Device::connectBlock; once one call has thrown, the constructor makes
\* no further call.
ConnectBlock(reg, b) ==
  LET io == Claim(reg.io, b.io, b.size, b.name)
      iv == Claim(reg.iv, b.iv, b.ivn, b.name)
  IN CASE reg.error # "none"                -> reg
       [] b.io + b.size > MEM_IO_SIZE       -> [reg EXCEPT !.error = "io range"]
       [] io.clash                          -> [reg EXCEPT !.io = io.tab,
                                                           !.error = "io overlap"]
       [] b.iv = 0                          -> [reg EXCEPT !.io = io.tab,
                                                           !.blocks = Append(@, b.name)]
       [] b.iv + b.ivn > IV_MAX_COUNT       -> [reg EXCEPT !.io = io.tab,
                                                           !.error = "iv range"]
       [] iv.clash                          -> [reg EXCEPT !.io = io.tab, !.iv = iv.tab,
                                                           !.error = "iv overlap"]
       [] OTHER                             -> [reg EXCEPT !.io = io.tab, !.iv = iv.tab,
                                                           !.blocks = Append(@, b.name)]

\* Device::Device: connectBlock for cpu_, clk_, osc_, pmic_, gpior_.
Registry == FoldLeft(ConnectBlock, EmptyRegistry, Blocks)

IoAddrOf(name) == Blocks[CHOOSE i \in DOMAIN Blocks : Blocks[i].name = name].io

\* Mutant: the block is handed the absolute address, not its own offset.
IoDispatchAbsolute(a) ==
  [addr |-> a, block |-> Registry.io[a], off |-> a]

\* Device::getIoMem / setIoMem: the block that io_blocks_ names, at the
\* offset block->getIo / setIo receives; no block is a logged error.
IoDispatch(a) ==
  LET b == Registry.io[a]
  IN [addr |-> a, block |-> b, off |-> IF b = NoBlock THEN 0 ELSE a - IoAddrOf(b)]

NoIo == [addr |-> 0, block |-> NoBlock, off |-> 0]

-----------------------------------------------------------------------------
(* Mutants: plausible slips in the code, used to check the properties.    *)

\* Post-increment without the 16-bit wrap of the pointer register.
PostIncNoWrap(p) == ptr[p] + 1

-----------------------------------------------------------------------------

\* Device::getDataMem / setDataMem: the region an address is routed to.
Region(a) ==
  CASE a < MEM_IO_SIZE                                           -> "io"
    [] a >= MEM_EEPROM_START /\ a < MEM_EEPROM_START + EepromSize -> "eeprom"
    [] a >= MEM_SRAM_START /\ a < MEM_SRAM_START + SramSize       -> "sram"
    [] a >= MEM_EMULATOR_START
         /\ a < MEM_EMULATOR_START + MEM_EMULATOR_SIZE            -> "emulator"
    [] ExsramSize # 0 /\ a >= ExsramStart
         /\ a < ExsramStart + ExsramSize                          -> "exsram"
    [] OTHER                                                      -> "invalid"

\* reg | (ramp << 16)
Address(p) == ptr[p] + 65536 * ext[p]

Access(op, p, a) ==
  acc' = [op |-> op, p |-> p, arg |-> a, region |-> Region(a),
          io |-> IF Region(a) = "io" THEN IoDispatch(a) ELSE NoIo]

\* ++reg; if(reg == 0) { ramp++; ramp &= ramp_mask_; }
PostIncValue(p) == (ptr[p] + 1) % 65536

PostInc(p) ==
  /\ ptr' = [ptr EXCEPT ![p] = PostIncValue(p)]
  /\ ext' = IF PostIncValue(p) = 0
              THEN [ext EXCEPT ![p] = ((@ + 1) % 256) & RampMask]
              ELSE ext

\* --reg; if(reg == 0xFFFF) { ramp--; ramp &= ramp_mask_; }
DecPtr(p) == (ptr[p] + 65535) % 65536
DecExt(p) == IF DecPtr(p) = 65535 THEN ((ext[p] + 255) % 256) & RampMask
                                  ELSE ext[p]

\* The address a pre-decrement accesses: that of the decremented pointer.
PreDecAddress(p) == DecPtr(p) + 65536 * DecExt(p)

PreDec(p) ==
  /\ ptr' = [ptr EXCEPT ![p] = DecPtr(p)]
  /\ ext' = [ext EXCEPT ![p] = DecExt(p)]

-----------------------------------------------------------------------------
(* Actions *)

\* Device::reset zeroes the register file; CPU::reset zeroes RAMP and EIND.
Init ==
  /\ ptr = [p \in Pointers |-> 0]
  /\ ext = [r \in Exts |-> 0]
  /\ acc = [op |-> "none", p |-> "none", arg |-> 0, region |-> "none", io |-> NoIo]

\* LDI r26..r31: the guest loads a pointer register pair.
SetPtr(p, v) ==
  /\ ptr' = [ptr EXCEPT ![p] = v]
  /\ acc' = [op |-> "LDI", p |-> p, arg |-> 0, region |-> "none", io |-> NoIo]
  /\ UNCHANGED ext

\* CPU::setIo of RAMPD/X/Y/Z (v & ramp_mask_) or EIND (v & eind_mask_),
\* reached through setIoMem at the CPU's I/O address plus the register's
\* offset.
ExtOffset == [D |-> 8, X |-> 9, Y |-> 10, Z |-> 11, EIND |-> 12]

WriteExt(r, v) ==
  /\ ext' = [ext EXCEPT ![r] = v & (IF r = "EIND" THEN EindMask ELSE RampMask)]
  /\ acc' = [op |-> "OUT", p |-> r, arg |-> v, region |-> "io",
             io |-> IoDispatch(IoAddrOf("CPU") + ExtOffset[r])]
  /\ UNCHANGED ptr

\* LD (X i); LD (Y i), LDD (Y iv); LD (Z i), LDD (Z iv).
Ld(p, q) ==
  /\ p = "X" => q = 0
  /\ Access("LD", p, Address(p) + q)
  /\ UNCHANGED <<ptr, ext>>

\* LD (X ii), (Y ii), (Z ii): load, then post-increment.
LdPostInc(p) ==
  /\ Access("LD+", p, Address(p))
  /\ PostInc(p)

\* LD (X iii), (Y iii), (Z iii): pre-decrement, then load.
LdPreDec(p) ==
  /\ Access("-LD", p, PreDecAddress(p))
  /\ PreDec(p)

\* ST (X i); ST (Y i), STD (Y iv); ST (Z i), STD (Z iv).
St(p, q) ==
  /\ p = "X" => q = 0
  /\ Access("ST", p, Address(p) + q)
  /\ UNCHANGED <<ptr, ext>>

\* ST (X ii), (Y ii), (Z ii).
StPostInc(p) ==
  /\ Access("ST+", p, Address(p))
  /\ PostInc(p)

\* ST (X iii), (Y iii), (Z iii).
StPreDec(p) ==
  /\ Access("-ST", p, PreDecAddress(p))
  /\ PreDec(p)

\* LDS Rd, k and STS k, Rr: k | (rampd_ << 16).
Lds(k) ==
  /\ Access("LDS", "D", k + 65536 * ext["D"])
  /\ UNCHANGED <<ptr, ext>>

Sts(k) ==
  /\ Access("STS", "D", k + 65536 * ext["D"])
  /\ UNCHANGED <<ptr, ext>>

\* The guest program walks a pointer at most Drift steps away from a value
\* it loaded (in either direction, modulo 2^16).
NearInput(v) ==
  \E i \in PtrInputs : (v - i) % 65536 <= Drift \/ (i - v) % 65536 <= Drift

Next ==
  \/ \E p \in Pointers, v \in PtrInputs : SetPtr(p, v)
  \/ \E r \in Exts, v \in ExtInputs : WriteExt(r, v)
  \/ \E p \in Pointers, q \in Disps : Ld(p, q) \/ St(p, q)
  \/ \E p \in Pointers :
       /\ LdPostInc(p) \/ LdPreDec(p) \/ StPostInc(p) \/ StPreDec(p)
       /\ NearInput(ptr'[p])
  \/ \E k \in PtrInputs : Lds(k) \/ Sts(k)

Spec == Init /\ [][Next]_vars

-----------------------------------------------------------------------------
(* Properties *)

TypeOK ==
  /\ ptr \in [Pointers -> 0..65535]
  /\ ext \in [Exts -> 0..255]
  /\ acc.region \in {"none", "io", "eeprom", "sram", "emulator", "exsram", "invalid"}

\* The registry the constructor builds from the blocks' declared ranges is
\* complete (no connectBlock throws), and every access the core makes to
\* I/O space, through a pointer, LDS/STS or an OUT to the CPU block,
\* reaches the one block whose declared range holds the address, at the
\* address's offset within that range, or no block when none declares it.
IoReachesOwner ==
  /\ Registry.error = "none"
  /\ Len(Registry.blocks) = Len(Blocks)
  /\ acc.region = "io" =>
       LET a      == acc.io.addr
           owners == {i \in DOMAIN Blocks :
                        Blocks[i].io <= a /\ a < Blocks[i].io + Blocks[i].size}
       IN IF owners = {} THEN acc.io.block = NoBlock
          ELSE \E i \in owners : /\ acc.io.block = Blocks[i].name
                                 /\ acc.io.off = a - Blocks[i].io

=============================================================================
