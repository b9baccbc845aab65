# TLA+ models of the megumi XMEGA emulator core

This directory holds TLA+ specifications of the emulator core in `src/`:
- `src/device.cpp`: Device, with the scheduler, the interrupt path, the instruction executor and the memory router.
- `src/block/clk.cpp`: the CLK block.
- `src/unnamed/part_000`: the CPU block.
- `src/unnamed/part_001`: `device.h`.

It also holds the TLC configurations that check them. Every module is written from the C++ source. Where the code a module needs is not in `src/`, this README says so.

## 1. The system

The core is single-threaded. A host calls `Device::step()` repeatedly. Everything else happens inside the callbacks of the clock event queue:

```
host --step()--> clock event queue --callback--> Device::stepCPU (CPU event)
                         ^                           |  processPendingInterrupts / executeNextInstruction
                         |                           v
           schedule/unschedule  <---- blocks <---- setIoMem / getIoMem (I/O writes, OUT/STS...)
                                        |
                                        +---- setIvLvl ----> pending interrupt queues
```

### Components

| Component | Code | State | Operations |
|---|---|---|---|
| Interrupt controller | `device.cpp` 151-283, RETI 1398-1424, PMIC block (source absent) | `iv_pending_.{lo,med,hi,nmi}`, PMIC `status_` and `ctrl_`, `sreg_.I` | `setIvLvl`, `currentIntLvl`, `processPendingInterrupts`, RETI, SEI/CLI, OUT to PMIC.CTRL |
| CPU step | `device.cpp` 123-148 | `instruction_cycles_`, `interrupt_wait_instruction_` | `stepCPU`: acknowledge, execute, or pay cycle debt |
| Clock scheduler | `device.cpp` 100-120, 1625-1683 | `clk_sys_queue_` (a heap of `ClockEvent{clock,cb,priority,tick,scale}`), `clk_sys_tick_` | `step`, `schedule`, `unschedule`, `onClockConfigChange`, `getClockScale` |
| CLK block | `clk.cpp` | `psctrl_`, the three prescalers, `locked_`, `sclk_`, `rtcctrl` | `setIo`, `getIo`, `reset` |
| Core orchestrator | `device.cpp` 77-97 | everything above | `reset` |
| Instruction executor | `device.cpp` 286-1492 | register file, SREG, PC, SP, RAMPs, SRAM | one branch per opcode class |
| Memory router, block registry | `device.cpp` 1495-1622 | `io_blocks_`, `iv_blocks_` | `connectBlock`, `get/setDataMem`, `get/setIoMem`, `setSP`, `setPC` |
| CPU block (CCP, SP, RAMP I/O) | `part_000` | `ccp_buffer_`, `ccp_ioreg_cycles_`, `ccp_spm_cycles_`, RAMPs, EIND, SP | `getIo`, `setIo`, `reset`, `step` |
| Flash loading | `device.cpp` 206-220 | `flash_data_` | `loadFlash` |
| TC block | `tc.h` (declarations only) | `step_event_` handle, counters | source absent |
| Logging | `part_002` (`log.cpp`) | none relevant | formatting only |

### Hard behaviours

These are the behaviours a test hardly reaches:
- Peripherals post and withdraw interrupt levels between CPU steps, while handlers nest and return.
- `interrupt_wait_instruction_` forces an instruction between two acknowledges.
- `setIvLvl` stops at the first erase, so it relies on a vector sitting in at most one queue.
- The CPU step and the peripheral events share one queue, and all of them must keep running.
- `schedule` rounds the current tick down to a tick of the event's domain.
- `onClockConfigChange` asserts that every event it re-expresses is an exact number of old domain ticks away.
- `CLK::setIo(PSCTRL)` changes the prescalers, but nothing in the code calls `onClockConfigChange`.
- `reset` clears the queue while blocks keep their `ClockEvent*` handles (`tc.h:134`). It also leaves the pending queues alone.
- ALU flag arithmetic, RAMP wrap of pointer post-increment, and 2- versus 3-byte return addresses.

## 2. Modules

| Module | Models | Status |
|---|---|---|
| `Interrupts` | setIvLvl, stepCPU (acknowledge, execute, wait), processPendingInterrupts, RETI, SEI/CLI, OUT to PMIC.CTRL, reset | done |
| `ClockScheduler` | clock event queue (step, schedule, unschedule, onClockConfigChange), CLK PSCTRL write, reset | done |
| `AluFlags` | results and SREG flags of NEG, INC, DEC, ASR, LSR, ROR, ADD, ADC, SUB, SBC, SUBI, SBCI, CP, CPC, CPI, ADIW, SBIW, AND, ANDI, EOR, OR, ORI, COM, MUL, MULS, MULSU, FMUL, FMULS, FMULSU, SWAP, BLD, BST, XCH, LAS, LAC, LAT, LPM, ELPM (plain and Z+), MOV, SBI, CBI; PC and cycles of CPSE, SBRC, SBRS, SBIC, SBIS, BRBS, BRBC, JMP, RJMP, IJMP, EIJMP | done |
| `Stack` | CALL, RCALL, ICALL, EICALL, RET, RETI, PUSH, POP, LDI, the return address pushed by an acknowledge, `Device::setSP` | done |
| `Pointers` | LD/ST/LDD/STD through X, Y and Z (plain, post-increment, pre-decrement), LDS/STS, CPU::setIo of RAMPD/X/Y/Z and EIND, the region `getDataMem`/`setDataMem` route an address to, the block registry `connectBlock` builds and the `getIoMem`/`setIoMem` dispatch | done |
| `EventQueue` | what the clock event queue promises: pending events fired at their tick in (tick, priority) order, the clock moving forward | abstract |
| `EventHeap` | `clk_sys_queue_` as the code keeps it: the libstdc++ `push_heap`/`pop_heap`/`make_heap` under `clock_queue_cmp`, the loop of `Device::step` one callback at a time, `schedule` from callbacks, `unschedule` between steps, `reset`; refines `EventQueue` | done |
| `Ccp` | CCP: `CPU::setIo` of CCP, `CPU::step`, `CPU::reset`; every `CLK::setIo` register (CTRL, PSCTRL, LOCK, RTCCTRL) and `CLK::reset` | done |
| `MC_*` | the instantiations for TLC | done for all |

### Interrupts

Variables:
- `iv_pending`: the four `std::set`s, as a function from level to set.
- `status` and `ctrl`: the PMIC STATUS and CTRL bits, as sets of levels.
- `sregI`.
- `instruction_cycles` and `interrupt_wait_instruction`.
- One history variable: the levels of the handlers entered and not yet returned from (`frames`).

The program counter, the stack bytes and the register file are abstracted out. An instruction is known by its cycle count and its effect on SREG.I, STATUS and CTRL.

`StepCPU` is the whole of `Device::stepCPU`. It has three alternatives:
- `StepCPUAck`: the guard of line 132 holds and `processPendingInterrupts` finds a level.
- `StepCPUExecute`: otherwise, when no cycle debt remains.
- `StepCPUWait`: debt remains.

Each alternative includes the trailing `instruction_cycles_--`. `SetIvLvl` translates the `switch` of `setIvLvl`, including its stop at the first successful erase.

The PMIC block's `setIo` and `reset` are not in `src/`. The CTRL write (`ExecWritePmicCtrl`) and the clearing of STATUS and CTRL on reset are therefore modelled from the specification.

The CPU block arms CCP only in `CPU::step` (`part_000` 90-107). Device never schedules or calls `CPU::step`, so `ccpState()` is always 0 and the `!ccpState()` conjunct of the acknowledge guard is dropped.

### ClockScheduler

The queue is a function from event handle to `[due, scale]`:
- `due = tick - clk_sys_tick_`.
- `phase = clk_sys_tick_ % Period`, where `Period` is the largest scale the configured PSCTRL values give.

Every scale is a power of two dividing `Period`. The rounding of `schedule` and the alignment checked by `onClockConfigChange` therefore depend only on `phase`. This keeps the state space finite without losing either. The 32-bit wrap of `clk_sys_tick_` is not represented (see section 5).

Callbacks are abstracted to their return value:
- The CPU event (`stepCPU`) always returns 1.
- A peripheral event returns any value of `PeriphNext`, and 0 detaches it.

`WritePsctrl` is `CLK::setIo(0x01)`, performed by an instruction of the CPU event: it is enabled only right after a step that fired the CPU event. `OnClockConfigChange` has no caller in the repository. The model lets it be called between two steps on a tick of the slowest clock, the precondition stated by the code comment and the specification.

Priorities and the order of events due at the same tick are not modelled here. With callbacks abstracted, the order among them has no effect on this state. `EventHeap` models them.

### EventQueue and EventHeap

`EventQueue` is the abstract queue: `pending` maps a handle to `[tick, prio]`. `Advance` moves `now` to the earliest due tick, never back. `Fire(h)` fires an event due now that no pending event precedes in (tick, priority) order; it is then dropped or re-armed at a later tick with the same priority. `Schedule` adds an event in the future, `Unschedule` removes one, and `Reset` leaves only the CPU event at tick 1.

`EventHeap` keeps the code's data:
- `heap` is the vector `clk_sys_queue_`, a sequence of handles in array order.
- `ev` maps each allocated handle (a `ClockEvent` address) to `[tick, prio, cb]`. A freed address can be handed out again by a later `schedule`.
- `now` is `clk_sys_tick_`, and `pc` is where `Device::step` is: between steps, in its loop, or in a callback.

The heap algorithms are those of libstdc++ (`bits/stl_heap.h`), written as RECURSIVE operators:
- `SiftUp` is `__push_heap`.
- `HoleDown` plus `SiftUp` is `__adjust_heap`. On a tie it moves to the right child, as libstdc++ does.
- `PopHeap`, `PushHeap` and `MakeHeap` are built from them.

They were compared with g++ on the orders of equal keys they produce.

Only the code's comparator is taken from the specification: `clock_queue_cmp` is not in `src/`. `Later` compares the tick, then the priority, the two fields that order a `ClockEvent`.

The loop of `Device::step` is three actions:
- `StepBegin`: the clock moves to the front's tick.
- `Call` or `StepEnd`: the front fires if it is due; otherwise the loop breaks.
- `Return(next)`: the callback returns. A non-zero value re-arms the event with `pop_heap` then `push_heap`. Zero pops it and frees it.

`held` is the set of handles blocks keep from `schedule`. A block drops its handle when its callback returns 0, when it unschedules, and on reset. Dropping them on reset is the specification's contract for blocks ("handles must be invalidated or re-acquired after reset"), not code: no block's `reset` is in `src/` (`tc.h` declares TC's `step_event_`, but TC::reset is not in the repository). No property is checked about handles kept across reset. While a callback runs, `Schedule` may add events, because blocks schedule from I/O writes and from their own step events. `Unschedule` runs only between steps, as `device.h` requires of callbacks. The CPU callback always returns 1.

### Ccp

The guest's instructions are the environment: each step is one instruction, an OUT to CCP, CLK.CTRL, PSCTRL, LOCK or RTCCTRL, or another instruction. `CPU::setIo(CCP)` only stores the value in `ccp_buffer_`. `CPU::step` decrements the two window counters and arms one of them from the buffer. `CLK::setIo` writes:
- CTRL and PSCTRL only while unlocked, and only with valid values.
- LOCK only when `ccpState()` has `CCP_IOREG`. It is never cleared.
- RTCCTRL always, refusing an invalid RTCSRC.

The constant `BlockStepped` says whether something calls `CPU::step` once per CPU cycle before each instruction. In this repository nothing does: `Device::stepCPU` keeps only the comment "TODO:check Before clock handling blocks were stepped here". The run uses `BlockStepped = FALSE`, which is the code. With `TRUE`, the same property holds (40,188 states).

`cpu.h` and `clk.h` are not in `src/`. `ccpState()` is taken to report `CCP_IOREG` while `ccp_ioreg_cycles_ > 0`. The PSCTRL bit-fields and the RTCSRC numbering are taken from the XMEGA manual.

### AluFlags

The state holds only what one instruction reads and writes:
- `Rd`.
- `Rh`, the register `d+1`, used by ADIW/SBIW.
- `Rr`, the source register or the immediate K.
- `R01`, the pair r1:r0 (`reg01_`) the multiplications write. Rd and Rr are taken to be other registers.
- SREG as a record of the flags C, Z, N, V, S, H and T.

An initial state is what the guest sets up with LDI and OUT to SREG (T clear). Two setup instructions may come before the one under test: `LoadPair` (LDI of r31, the high byte of Z, for XCH/LAS/LAC/LAT, IJMP and EIJMP) and `SetT` (BSET 6, for BLD). `Ready` says which instruction may follow which setup. One action per instruction class executes one branch of `executeNextInstruction`:
- `ExecuteByte` writes Rd.
- `ExecuteCompare` writes only the flags (CP, CPC, CPI).
- `ExecuteWord` writes the register pair (ADIW, SBIW).
- `ExecuteSkip` and `ExecuteBranch` write only `pc` and `cycles`. A skip reads the word after it (an input from `NextWords`) and decides by `opcode_is_32b` how far to skip. SBIC/SBIS test an I/O byte, which `Rd` stands for.
- `ExecuteBit` is BLD (bit b of Rd from T) and BST (T from bit b of Rd).
- `ExecuteRmw` is XCH, LAS, LAC and LAT: `Rd` is the register, `Rr` the data byte at (Z), and both are written.
- `ExecuteJump` writes `pc` and `cycles` of JMP (the 22-bit target spread over the two words, `JmpTarget`), RJMP (a 12-bit signed displacement, `U16ToS16`), IJMP (Z) and EIJMP (EIND:Z, or a no-op of one cycle on a flash of 128 KiB or less).
- `ExecuteLpm` is LPM and ELPM into r0, plain and Z+: r0 (the low byte of `R01`) gets a byte of the flash word `FlashWord(w)`, an input image. The Z+ forms step Z (`Rh:Rd`), and ELPM Z+ carries a wrap of Z into `rampz`, masked by `RampMask` (`ramp_mask_` of `CPU::CPU`, from the SRAM size and `HasExsram`). `rampz` starts at `RampzInput & RampMask`: the guest's OUT to RAMPZ as CPU::setIo stores it. EIJMP likewise uses `EindReg = Eind & EindMask`. Its reference jumps to EIND:Z with the EIND the guest wrote.
- `ExecuteMove` is MOV (Rd from Rr) and SBI/CBI (bit b of the I/O byte `Rd` stands for, set or cleared).
- `ExecuteMul` writes r1:r0 (the multiplications). `u8_to_s16`, declared outside `src/`, is taken to sign-extend a byte.

Each flag formula of the code, `(...) & 0x80`, `& 0x08` or `& 0x8000`, is translated to the same boolean formula on that bit of the operands (`Bit`). A flag is set iff the masked value is non-zero, so the flag fields are taken to be `bool` bit-fields. `cpu.h`, which declares SREG, is not in `src/`.

The reference (`Ref`) computes the flags from the exact integer result:
- C: the unsigned result leaves the word.
- H: the low-nibble result leaves 0..15.
- V: the signed result leaves its range.
- S: the sign of the exact signed result.
- Z: the result is zero. For the carry-chained SBC, SBCI and CPC, Z also requires the previous Z.
- For shifts, C is the bit shifted out, and V is N ^ C by definition.

A behaviour is a single instruction and then stops. The runs of this module therefore set `CHECK_DEADLOCK FALSE`.

### Stack

SRAM is `sram_data_`, addressed through `Device::stack()` = `&sram_data_[sp - MEM_SRAM_START]` (`device.h`, `part_001:208`).
- `mem` keeps only the bytes written. Unwritten SRAM reads as 0, as the zero-initialised vector does.
- A return address is 2 bytes when `flash_size_ <= 0x20000`, else 3 (`PcWidth`). The constant set `FlashSizes` puts both widths in one run.
- `PushPc` and `PopPc` are the shared push and pop paths of a return PC, used by every CALL-family instruction, by the acknowledge, and by RET and RETI. `PopPc` increments SP before it reads, as the code does.
- An access outside `sram_data_` is undefined behaviour. It is modelled as a lost write or an arbitrary read from `Garbage = {0, 255}`, and the history flag `oob` records it.
- `stack_set` and `stack_get` are templates declared outside `src/`. `Slots`, `StackSet` and `StackGet` are written from what they must do (byte i of the value at `p[-i]`), and `PROJECT.json` marks them `spec_modelled`.

The guest program and the host are the environment:
- The guest executes only straight-line code of `CodeLen` words after each call target and vector (`Fetch`). This keeps the PC, which LDI, PUSH and POP advance, finite.
- `MaxFrames` bounds the nesting depth.
- With `Disciplined`, a RET, RETI or POP only undoes the last push of its own kind, and the host calls `setSP` only on an empty stack.
- `frames` is a history of what was pushed, read only by the properties.

### Pointers

A step is characterised by the 24-bit address it accesses and the pointer and extension registers it leaves. The byte moved is abstracted away.
- `acc` records the operation, the pointer, the address (or, for an OUT, the value written) and the region `Region(a)` routes that address to.
- `PostInc` and `PreDec` are the `++reg; if(reg == 0) ramp++ ...` and `--reg; if(reg == 0xFFFF) ramp-- ...` of the code, each masked by `ramp_mask_`.
- `RampMask` and `EindMask` are `ramp_mask_` and `eind_mask_` of the CPU constructor (`part_000:11-12`). RAMP and EIND are taken to be `uint8_t` (the header declaring them is not in `src/`), so only the low byte of each mask matters.
- `Registry` folds `ConnectBlock` (`device.cpp:1495-1522`) over the constant `Blocks` in the constructor's order (cpu_, clk_, osc_, pmic_, gpior_). `Claim` is one of its two loops: it takes the range for the block up to the first entry already owned, where the code throws. `Registry` is a constant, because nothing changes the registry after construction.
- `IoDispatch(a)` is `getIoMem`/`setIoMem`: the block `io_blocks_[a]` names, and the offset `a - block->io_addr()` it receives. Every I/O access in `acc` carries it. An OUT to RAMPD..EIND is routed at the CPU's I/O address plus the register's offset (`ExtOffset`, `part_000:53-61`).
- The guest loads pointers from `PtrInputs` and then walks them at most `Drift` steps away (`NearInput`). Without this bound, post-increments would enumerate all 65536 pointer values.

## 3. Runs

| Run | Expect | Checks |
|---|---|---|
| `interrupts` | pass | `TypeOK`, `PendingExclusive`, `NestingMatchesStatus`, `NoStall` |
| `scheduler` | pass | `TypeOK`, `EventsInFuture`, `RescaleAligned`, `EveryEventRuns` |
| `scale_follows_clock` | violation | `ScaleFollowsClock` |
| `alu_flags` | pass | `TypeOK`, `ArithMatchesReference` |
| `alu_defects` | violation | `DefectsMatchReference` |
| `stack` | pass | `ReturnsToCaller` |
| `stack_bounds` | violation | `NoStackOutOfBounds` |
| `pointers` | pass | `TypeOK`, `IoReachesOwner` |
| `event_heap` | pass | `QueueConsistent`, `FiresInOrder` |
| `event_order` | violation | `FiresInInsertionOrder` |
| `ccp_lock` | violation | `CcpWindowUnlocksLock` |
| `tick_wrap` | violation | `FiresInOrder` |

What the properties say:
- `PendingExclusive`: any sequence of `setIvLvl` calls and acknowledges keeps each vector in at most one queue.
- `NestingMatchesStatus`: the STATUS bits are exactly the levels of the handlers entered and not returned from, entered in rising order. So the "clear the highest bit" of RETI always closes the handler that is returning.
- `NoStall`: a pending vector at an enabled level is eventually served or masked.
- `EventsInFuture`: between two `step()` calls no event is due at or before `clk_sys_tick_`.
- `RescaleAligned`: the assert of `onClockConfigChange` holds whenever the call respects its precondition. This needs `schedule`, `step` and earlier rescales to keep every event on a tick of its domain.
- `EveryEventRuns`: every scheduled event is eventually run or unscheduled.
- `ScaleFollowsClock`: the "live represcaling" promised by the specification. TLC shows it fails: after a PSCTRL write, the events keep their old scale for ever, because nothing calls `onClockConfigChange`.

`DefectsMatchReference` checks the instructions of the constant `Suspects` against the reference. TLC stops at the first defect it meets. Setting `Suspects` to a single instruction shows each of the nine defects of `executeNextInstruction` and the CPU block's masks:
- NEG computes H as `R3 & Rd3` instead of `R3 | Rd3`.
- DEC tests `R == 0x80` for V. That is the INC condition: DEC overflows when R is 0x7F.
- SBIW computes V with the same expression as C.
- SBC and SBCI overwrite Z instead of chaining it as CPC does.
- SBRC and SBRS charge 3 cycles when they skip a one-word instruction. The specification charges one extra cycle per skip, as SBIC, SBIS and CPSE do.
- LAC stores `Rd & ~z` into (Z), the bits of Rd that (Z) lacks, and leaves Rd unchanged. The AVR manual's LAC stores `(0xFF - Rd) & (Z)`, clearing in (Z) the bits set in Rd, and loads Rd with the old (Z), as LAS and LAT do.
- ELPM Z+ carries a wrap of Z into RAMPZ with `rampz_++; rampz_ &= ramp_mask_`. On the modelled device (256 KiB flash, 8 KiB SRAM, no external SRAM) `ramp_mask_` is 0x40, so the guest's OUT RAMPZ,1 is stored as 0, and from RAMPZ:Z = 0x00FFFF RAMPZ stays 0 instead of becoming 1. ELPM never reaches flash above 64 KiB.
- EIJMP jumps to `regz_ | eind_ << 16`, and CPU::setIo stores EIND as `v & eind_mask_`, with `eind_mask_ = flash_size_ >> 9`. On a 256 KiB flash the low byte of that is 0, so OUT EIND,1 is stored as 0 and EIJMP with Z = 0 jumps to word 0 instead of word 0x10000.
- FMULSU is never executed. Its branch tests FMULS's mask `(opcode & 0xFF88) == 0x0380`, so FMULSU's encoding 0x0388 falls through to "unknown opcode" and leaves r1:r0 and SREG unchanged. `spec.md` notes the shared mask.

The Stack and Pointers properties:
- `ReturnsToCaller`: every RET and RETI resumes at the return address of the push it matches, and every POP gets back its PUSH's byte, each leaving SP where it was before that push. This holds across nesting of all kinds and on 2-byte and 3-byte devices.
- `NoStackOutOfBounds`: TLC shows it fails. `Device::setSP` refuses only `sp >= MEM_SRAM_START + MEM_SRAM_START`, so on a 4 KiB device it accepts 0x3000. The next CALL then writes outside `sram_data_`, and no push site checks SP ("TODO detect stack overflows").
- `IoReachesOwner`: the constructor's `connectBlock` calls all succeed, and every I/O access reaches the block whose declared range holds the address, at the address's offset in that range, or no block when none declares it. This covers accesses through a pointer, LDS/STS and OUT. The blocks are adjacent (CPU 0x30-0x3F, CLK 0x40-0x47), so an off-by-one in the claiming loop or in the dispatch offset breaks it. Pointer accesses reach GPIOR, CPU and CLK at 0x00-0x02 and 0x3F-0x41.

Observation: `ramp_mask_` (`part_000:11`) is the data-space end shifted right by 8, not a mask of the legal bits. With 8 KiB SRAM and no external SRAM it is 0x40, so OUT RAMPX,0x40 is kept; with external SRAM its low byte is 0, so RAMP writes and the post-increment carry are lost. `eind_mask_` likewise drops EIND bit 0 on a 256 KiB flash. So on no real device does `LD -X` right after an `LD X+` across the 0xFFFF wrap come back to the same address. For example, with the mask 0x40, a post-increment from RAMPX:X = 0x00FFFF leaves RAMPX at 0, and the pre-decrement then borrows to RAMPX = 0xFF & 0x40 = 0x40. This is not a run: all twelve runs are in use. The same mask is checked where it changes what an instruction does: ELPM Z+ and EIJMP in `AluFlags` (`alu_defects`). ELPM's word address `(z >> 1) | (rampz_ << 7)` (`device.cpp:1146`) shifts RAMPZ by 7 instead of 15. That is unreachable through the guest, because the mask lets through no RAMPZ value that addresses flash.

`ArithMatchesReference` checks every other instruction of the module against the reference. The references of the logic instructions build the byte bit by bit (`Bitwise8`), and those of the multiplications take the exact signed or unsigned product. The reference of a skip recognises two-word instructions from their formats (`TwoWord`), not from `opcode_is_32b`'s masks, and charges one cycle per skipped word. Cycle counts of the other instructions are not compared. For the record, ADIW and SBIW return 1 cycle where the AVR manual says 2. The references of XCH, LAS, LAC and LAT are the AVR manual's: (Z) becomes Rd, Rd | (Z), (0xFF - Rd) & (Z) and Rd ^ (Z), and Rd receives the old (Z). The references of the jumps decode the target from the instruction's bit fields with arithmetic.

The event queue and CCP properties:
- `QueueConsistent`: after any interleaving of `schedule` calls inside callbacks, re-arms, drops, `unschedule` calls and resets, `clk_sys_queue_` holds every live `ClockEvent` exactly once (none lost, leaked or freed while queued) and is a heap under `clock_queue_cmp`.
- `FiresInOrder`: the refinement. `EventHeap`, with `pending` mapped to the queued events' `[tick, prio]`, implements `EventQueue`. The clock never moves back or past a due event, and each firing is of an event first in (tick, priority) order.
- `FiresInInsertionOrder`: TLC shows it fails. The specification promises insertion order among events due at the same tick with the same priority. A `ClockEvent` records no insertion order, and the heap is not stable. In the CPU callback at tick 1, three events a2, a3 and a4 are scheduled at tick 2 with priority 10. The CPU event's re-arm by `pop_heap`/`push_heap` leaves a3 at the front, so a3 fires before a2. The same order came out of g++.
- `FiresInOrder` under `tick_wrap`: TLC shows it fails once ticks wrap. `schedule` computes `tick = clk_sys_tick_ + when * scale` in 32 bits and `clock_queue_cmp` compares ticks as plain integers, so an event scheduled across the wrap is due at a small tick and fires before events that were due earlier, and `Device::step` moves the clock back to it. `MC_EventHeap_Wrap.cfg` sets `TickWidth = 2` to stand for 32: the arithmetic is the same modulo 2^TickWidth, and the CPU callback at tick 2 schedules an event two ticks ahead that lands at tick 0.
- `CcpWindowUnlocksLock`: TLC shows it fails. After the guest writes 0x9D to CCP, a write of 1 to CLK.LOCK within four instructions leaves the lock clear. Nothing calls `CPU::step`, so the value written to CCP stays in `ccp_buffer_` and `ccpState()` stays 0. CLK.CTRL and PSCTRL can therefore never be locked.

Bounds:
- `MC_Interrupts`: two vectors (3 and 5), so two vectors can share a level or sit at different ones. Instruction lengths are 1 and 2 cycles, so debt and an acknowledge can overlap. Flash is 64 KiB, so RETI costs 2 cycles.
- `MC_ClockScheduler`: the CPU event plus one PER and one PER4 event. PER4 drops prescalers B and C, so events of different scales coexist. PSADIV takes 0 and 1 and PSBCDIV takes 0 and 1, giving CPU scales 1, 2 and 4; PSADIV 10 exercises the rejected write. Peripheral callbacks return 0, 1 or 2.

- `MC_AluFlags`: Rd takes all 256 values. Rr/K takes 0, 1, 0x0F, 0x7F, 0x80 and 0xFF: the nibble and sign boundaries, and K values 0, 1, 15 and 63. R[d+1] takes 0x00, 0x7F, 0x80 and 0xFF, so a pair crosses bit 15 and the 0xFFFF/0x0000 wrap. C and Z take both values. Skips and branches test bits 0 and 1, which are C and Z for the branches. The word after a skip is LDI, CALL or STS, or IJMP or LD X+, which share the first bits of the two-word forms. Branch displacements are -64 and 63, from PC 4096. JMP first words 0x940C, 0x940D and 0x95FD give targets with and without bit 16 and the highest 22-bit target; RJMP fields 0, 2047, 2048 and 4095 are the signed extremes, and from PC 4096 they stay in flash. The guest writes 1 to EIND and to RAMPZ, values that address the upper 64K words of a 256 KiB flash. The registers start at what CPU::setIo keeps of them through `eind_mask_` and `ramp_mask_`, which is 0 for both. Flash word w holds w mod 2^16 (`MC_FlashWord`), so a read of another word or of the other byte of a word loads another value.

- `MC_Stack`: 4 KiB SRAM. Flash sizes of 128 KiB and 256 KiB give both return-address widths. The targets 16, 255 and 65791 are, in order: a low address, one whose bytes differ, and one that needs the third byte and lies only in the larger flash. There is one vector, register values 0 and 0xA5, and nesting up to 3. `MC_Stack_Bounds` adds the host input `setSP(0x3000)`.
- `MC_Pointers`: 8 KiB SRAM, with external SRAM and 256 KiB flash. Pointer inputs 0, 0x2000 and 0xFFFF, with Drift 2, make pointers cross the 0xFFFF wrap in both directions. RAMP inputs are 0, 1, 64 and 255, and LDD displacements are 0 and 63. `MC_Blocks` gives the five blocks the constructor connects. The I/O addresses of CPU (0x30) and CLK (0x40) are those in their constructors. The sizes, the OSC and PMIC addresses and OSC's failure vector 1 are the XMEGA A peripheral map, because the block headers are not in `src/`.

- `MC_EventHeap`: five handles (symmetric), so the CPU event and up to four block events, and freed addresses reused. Priorities 10 and 100, so a block event due with the CPU event either precedes it or ties with it. Tick counts 1 and 2, block callbacks returning 0 (drop) or 2 (re-arm), ticks up to 5. Heaps of up to five elements have two levels below the root, so `pop_heap` and `make_heap` both sift through a full level. Ticks are kept modulo 2^16 (`TickWidth`), because TLC integers are 32-bit signed. The wrap itself is never reached below `MaxTick`. `MC_EventHeap_Order` uses one block priority and only re-arming callbacks. Under it, TLC finds the reordering after 11 states.
- `MC_Ccp`: CCP values 0x9D, 0xD8 and 0; CLK values 0, 1, 4, 40 and 255, which cover valid and invalid SCLKSEL, PSADIV and RTCSRC and a zero and a non-zero LOCK write; a window of 4 instructions.

Every mutant listed in `PROJECT.json` is caught under these bounds.

### Fairness

- `WF(StepCPU)`: the CPU event is scheduled by `reset` and its callback always returns 1, so it fires on every CPU tick as long as the host calls `step()`.
- `WF(Step)` in the scheduler: the host calls `step()`.
- Peripherals, the guest program's choices, the host's `reset` and `onClockConfigChange` calls are all unfair. The code gives no guarantee that they happen.
- `EventHeap` and `Ccp` state only safety properties, including the refinement's `[][Next]_vars`. The event heap runs set `CHECK_DEADLOCK FALSE`: the clock stops at `MaxTick`.
- `Stack` and `Pointers` state only safety properties and assume no fairness. The Stack runs set `CHECK_DEADLOCK FALSE`: a guest program that has used its `CodeLen` words and its nesting depth stops, which is a bound of the model and not a deadlock of the code.

## 4. Plan for the next modules

1. `AluFlags` extensions: MOVW, IN, and cycle counts for every instruction.
2. `Skips`: PC and cycle effects of SBRC/SBRS/SBIC/SBIS/CPSE over 16- and 32-bit next opcodes (`opcode_is_32b`).
3. `Device`: the composition of `ClockScheduler` and `Interrupts`, with blocks that hold event handles across `reset` (the stale-handle hazard). Unscheduling from inside a callback is forbidden by `device.h`, so it is left out.
4. Liveness of `EventHeap` under weak fairness of the host's `step()` calls.

## 5. Not modelled

- The guest's OUT to SPL and SPH (`CPU::setIo`, `part_000` 63-66) is not in `Stack`. Nothing holds interrupts off between the two writes, but on the devices modelled every mix of two SRAM addresses' bytes is itself in SRAM. With inputs that make the mix matter, the `stack` run grows past what TLC explores in minutes (over 10 minutes, against 38 s without it).
- The 32-bit wrap of `clk_sys_tick_` is outside the relative-time representation of `ClockScheduler`; `EventHeap` keeps ticks modulo 2^TickWidth and the `tick_wrap` run reaches the wrap with a width of 2.
- `Device::setPC` (`device.cpp` 1535-1545) compares a PC in words with `flash_size_` in bytes, so it accepts PCs up to twice the flash; this host call is reached by no instruction and is noted here, not run. The jumps and skips never check PC against flash either (the TODO at `device.cpp` 291); `AluFlags` keeps PC inside flash by its inputs.
- Logging and flash loading are pure I/O. `connectBlock` is modelled in `Pointers` (`Registry`) as a constant: it runs once in the constructor and nothing changes the registry afterwards. The emulator memory at 0xFF00 only reads back the bytes of `clk_sys_tick_`, and its bytes are not modelled.
- The TC block and PMIC source are not in `src/`.
