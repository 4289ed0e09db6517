# Verification of the RV64IM lab CPU and its difference test

This directory holds TLA+ models of the repository's CPU (`src/chisel`), of the
instruction-set simulator it is compared with (`src/difftest`), their TLC
configurations, and machine-checked proofs: that the CPU implements the
simulator, that the difference test of the two is sound, and that the devices of
the simulation keep their promises.

## 1. Inventory

The repository builds a five-stage in-order RISC-V core in Chisel (RV64I, M,
Zicsr, machine and user mode) and tests it by running the generated Verilog in
Verilator next to a C++ simulator (`cemu`): at each commit of the core the
simulator does one step, and the pc and the register written are compared.

| component | state | operations | talks to |
|---|---|---|---|
| fetch (`fetch/*`) | `state` (boot, send, receive), `pc`, the SRAM's output | next pc: flush target, hold, or +4 | instruction SRAM; redirected by execute |
| decode (`decode/*`, `ARegfile.scala`) | stage register, 32 registers | classify, read and forward operands, load-use stall | execute, memory, write back (forwarding), fetch (stall) |
| execute (`execute/*`, `fu/*`) | stage register | ALU, MDU, LSU address and strobes, branches, CSR access, exceptions | data SRAM, CSR file, fetch (redirect) |
| CSR file (`CSRRegFile.scala`) | CSRs, privilege mode | read, write, interrupt lines to mip, trap, mret | execute; interrupt lines |
| memory, write back (`memory/*`, `writeback/*`) | stage registers | align and extend load data; write the register; commit | data SRAM, register file, debug port |
| simulated SRAM (`nscscc_sram_*.hpp`, `mmio_mem.hpp`) | memory | read, strobed write, poison where no device is | the core's two ports |
| `rv_core.hpp` | pc, GPR | one instruction per `step()` | `rv_priv`, `rv_systembus` |
| `rv_priv.hpp` | CSRs, mode, pending trap | interrupts, CSR access, traps, mret/sret, Sv39 access | `rv_core`, TLB, bus |
| difference test (`sim_mycpu.cpp`) | the two machines, last commit tick | clock, compare at commit, watchdog | both |
| `rv_systembus.hpp` | map of devices, one LR/SC reservation | `add_dev`, read, write, LR, SC, AMO | `rv_priv` of every hart, devices |
| `rv_clint.hpp` | `mtime`, `mtimecmp`, `msip` | tick, register access, the two lines of a hart | bus; the caller of `step()` |
| `rv_plic.hpp` | priorities, enables, thresholds, pending, claimed | `update_ext`, `get_int`, claim, complete | bus; the caller of `step()` |
| `rv_sv39.hpp` | TLB, replacement counter | walk, fill, `sfence_vma` | `rv_priv`, bus |

What is hard, and what makes each part correct:

* **Pipeline.** Up to four instructions are in flight; results are forwarded from
  three stages, a load's result comes one clock late, and redirections (branch,
  trap, mret) race stalls. Correct when every instruction executes with the
  newest operands, exactly the instructions of one path execute, and the
  visible effect is that of the simulator, one instruction at a time.
* **CSR file.** One clock can carry a CSR write, an interrupt line, a trap and an
  mret that assign the same registers; the last assignment wins. Correct when
  exceptions are precise, the mode and `mstatus.mpp` are always legal, and
  writes respect the masks.
* **Interrupts.** A line can rise at any clock: on a bubble, behind a branch, in a
  stall. Correct when the saved pc is that of the first instruction not executed.
* **Arithmetic.** Boundaries: division by zero, overflow, shifts, 32-bit forms.
* **Simulator and harness.** The judge has to be right as well; the comparison is
  late (write back), partial (no memory, no CSR), and the watchdog must not fire.
* **Bus.** One reservation register serves all harts and two access sizes; a map of
  ranges is checked and searched by looking at neighbours only. Correct when a
  successful `sc` means that nobody wrote in between, and when no address has two
  devices.
* **CLINT.** The counter wraps, and compare registers are written in halves.
  Correct when every alarm rings, none rings early, and no hart disturbs another.
* **PLIC.** The claim register is computed before the instruction that reads it, and
  bit words are shifted without a mask. Correct when a claim register that is
  computed in time returns no source twice, a source is passed over only for a
  better one or behind a claimed one, and none is forgotten.
* **Sv39.** A TLB entry outlives the table entry it came from, and large, small,
  global and private entries can answer for one page. Correct when only what the
  program owes a fence for can be stale. The permission check is written out six
  times, and an `sc` without its reservation is decided before the bus looks for
  a device.

`PROJECT.json` lists the hazards line by line with the properties that cover
them, and those that no property covers yet.

## 2. Modules

```
Word ── RvAlu ─────────────┐  (RvAlu, RefAlu ── Units)
  └──── Isa ── CsrFile ────┤
         └──── Memory ─────┼── Core ── CoreProps ── CoreRefines ─┬─ MCRefines
Word ── RefAlu ────────────┤                       (INSTANCE     └─ DiffTest ── MCTest
                           └── RefCore              RefCore)       (INSTANCE RefCore)
CoreProps ── CoreTraps ── MCTraps
Memory ── Programs ── MCCore, MCTraps, MCRefines, MCRef, MCTest
RefAlu ── ByteMem ── Systembus (implements AtomicMem) ─┐
                                       BusMap, Units ──┴─ MCBus
Clint, Plic, Sv39, VaAccess ── MCDevices
proofs: NatLemmas ── WordProofs ─┬─ CoreSafety ── CoreSimulates ── DiffProofs
          │                      └─ AluProofs
          └─ BusProofs, DeviceProofs
```

| module | models |
|---|---|
| `Word` | `UInt(XLEN.W)` values: wrap-around, signed readings, bit operations, extension |
| `RvAlu` | `Alu.scala`, `Mdu.scala`, the condition of `Bru.scala` |
| `Isa` | `Decoder.scala`, `RVI.scala`, `Instructions.scala`: instruction rows and derived signals |
| `CsrFile` | `CSRRegFile.scala`: masks, legality, write value, interrupts taken, trap and mret updates |
| `Memory` | `Lsu.scala`/`MemoryUnit.scala` lanes; `nscscc_sram_slave`, `nscscc_sram_xbar`, `mmio_mem` |
| `Core` | the clocked machine: one step is one rising edge |
| `CoreProps` | type invariant, safety and liveness properties, the statements the code departs from |
| `CoreTraps` | `Core` with the history a trap handler depends on: what the last trap found, and how long execute has been empty |
| `Units` | operands stepped through the units of both machines, and what must agree |
| `RefAlu`, `RefCore` | `rv_core::alu_exec`, `rv_core::exec`, the machine/user part of `rv_priv` |
| `CoreRefines` | the refinement mapping from `Core` to `RefCore`, three history variables, and the list of the clock edges at which the two machines part |
| `DiffTest` | `riscv_test_run` of `sim_mycpu.cpp`: `Core` and `RefCore` side by side, each with its memory, the comparison, `-delay`, `-pc`, the watchdog |
| `AtomicMem` | abstract: what load-reserved and store-conditional promise to the harts that share a memory |
| `ByteMem`, `Systembus` | `mmio_mem` as bytes; `pa_read`, `pa_write`, `pa_lr`, `pa_sc`, `pa_amo_op` of `rv_systembus`, under the checks `rv_core` makes before |
| `BusMap` | `add_dev` and the lookup of `rv_systembus` and `nscscc_sram_xbar` |
| `Clint`, `Plic` | `rv_clint`, `rv_plic`: every call of theirs, in any interleaving |
| `Sv39` | `rv_sv39`: page walk, TLB, `sfence_vma`; a program that rewrites page tables and owes fences |
| `VaAccess` | `va_if`, `va_read`, `va_write`, `va_lr`, `va_sc`, `va_amo` of `rv_priv`, each with its own checks, and what `pa_sc` answers |
| `Programs` | instruction tables and memory images of the runs |
| `MCCore`, `MCTraps`, `MCRefines`, `MCRef`, `MCTest`, `MCBus`, `MCDevices` | instances for TLC |
| `NatLemmas`, `WordProofs`, `AluProofs`, `CoreSafety`, `CoreSimulates`, `DiffProofs`, `BusProofs`, `DeviceProofs` | lemmas, and the theorems of section 5 |

**How state corresponds.** `ds`, `es`, `ms`, `ws` are the registers of the four
`*Stage.scala` files; the `Info` bundle the code copies from stage to stage is a
function of the instruction word (`InstTable[inst]`), except for `valid` and for
the `reg_wen` that `ExecuteUnit` withdraws on a trap, which are fields. `Clock`
is the conjunction of what each part assigns at the edge (`FetchStep`,
`DecodeStep`, ...); combinational signals are operators named as in the code.
Where Chisel assigns a register twice, `CsrStep` keeps the order (last wins).
`RefCore!Step` is one call of `step()`; its disjuncts are the cases of the
`switch` in `exec`. In `DiffTest` one step is one iteration pair of the loop, a
rising and a falling edge: a clock of the core, and if that commits an
instruction a `step()` of the simulator and the comparison (`Commit`), else the
watchdog (`Wait`). `exit` records how the simulator ended the process. `parted` is not
in the code: it says that the core has executed through a clock edge at which the
two machines part (`TestParts`: those of `CoreRefines!Parts`, and a read of `cycle`),
or that they did not start alike (`~SameReset`).

**Options.** `rv_priv::reset` sets `mstatus` and the extensions of `misa` only with
`-rvtest`, to what this core has, or with `-onlymodem` to what a core without user
mode has; without `-rvtest` `mstatus` starts at 0 and `misa.ext` is never
initialised, so `RefCore!ResetFiles` has every value of it. `-onlymodem` also narrows
the writes to `mstatus` (`CsrWriteValue`), and `-initgprs` starts register i at i and leaves
the last of these writes in the debug record. `RefCore` has the three options as constants. The two
machines start alike under `-rvtest` alone (`SameReset`); the agreements of
`DiffTest` are about that, and about no state that follows another reset. A test that finds
`mcycle` at two million is given up (`Timeout`); the counter being arbitrary, any step
may be that one.

`CoreTraps` adds two history variables that no step reads. `frame` is what the last trap
found (pc, mode, interrupt enable) and reported (cause, value), open until mret or
until the handler writes one of the four CSRs that hold it; an exception of the
handler opens a new one, an interrupt must not be able to. `idle` counts the clock edges
since execute last held an instruction.

`CoreRefines` adds history variables that no step reads: `written`, what the last
executed instruction will show on the debug port two clocks later (the simulator
keeps it at once); `seen`, mip as that instruction found it (the core goes on
collecting interrupt lines, the simulator is given them with the next step);
`stored`, the words that the last three executed instructions wrote.

In `Systembus` one step is one instruction of one hart, down to the bus; `last`
records what it returned, so that the promise of `AtomicMem` is about results.
`BusMap` keeps the keys of the `std::map`. In `Plic` one step is one call: `update_ext`, `get_int`, or
an access that writes a setting, reads a claim register or completes a source, in any order;
`asked` is not in the code: it says which contexts `get_int` was called for since a claim register
was last read. `Sv39` counts addresses in pages and has `Fan` entries in
a table; `owed` is not in the code: it is the set of fences that the program that
wrote the tables has still to make.

**Abstractions.** Every one is of data:

* The bit patterns of the instructions are replaced by `InstTable`, which gives the
  fields of each instruction word. Its rows are those of `RVIInstr.table`
  (assumption `IsaAssumption`), and immediates are already extended. The all-zero
  word is illegal, as in RISC-V.
* Widths are parameters. `H` is the number of values of a 32-bit word, `W = H*H` that
  of a 64-bit word, `ByteBits` the bits in a byte. The bit positions the code writes
  as literals (`mstatus` 3, 7, 11, 12, 17; interrupts 3, 7, 11) are constants.
* CSRs are indexed by name; `mhartid` stands for the four identification registers
  that read as zero; `CsrSimOnly` are the five that `csr_read` knows and `addr_table` does not
  (`mconfigptr`, `medeleg`, `mideleg`, `mcycle`, `minstret`); `empty` is any number neither lists. The `uxl` field
  of mstatus is constant (2, U supported; S not) and so built into `Wmpp`.
* One memory device: a read below it gives the poison word, a read above the
  memory fails and leaves `rdata`. Byte-wide devices (UART) are not modelled. The
  SRAM ports carry 32 address bits, and so does the pc register of `FetchUnit.scala:35`,
  which keeps what it sent to the port; the model's carry all of a (narrower) address, so it
  says nothing of code at or above 2^32.
* Signals that are `DontCare` in the code (`dataSram.addr` when the LSU is not
  selected) reach no state, because `en` is low then, and do not appear.
* In `RefCore`, `mcycle`, `cycle` and `minstret` read arbitrary values (a write to `mcycle` is
  accepted and not kept), `medeleg` and `mideleg` read 0, since `csr_write` has no case for them, and
  `tselect` and `tdata1` their constants. Supervisor-mode state is absent: `mie` keeps bits 1, 5 and 9
  in the code (`m_int_mask`) and not in the model. The ways a test ends the process (ecall, ebreak, a
  store to `tohost`, the limit of cycles) are modelled under `RunRiscvTest`.
* The bit words of the PLIC are sets of bit numbers; shifting a word without masking
  it is `Shifted`, true for every bit at or above. Registers of the CLINT are pairs of
  words with `H` values; page table entries are a set of flags and a page.

## 3. Runs

The runs of the CPU and the simulator use 8-bit registers, 4-bit instruction words
(sixteen of them in a table), 1-bit bytes, four general registers and a memory of 3
to 8 double words from address 128. Interrupt positions and `mstatus` fields fit
eight bits. The two MPP bits are positions 1 and 6, which are 0 in every aligned code
address (128..191): the write-port quirk of finding 2 alters a trap vector or a
return address that has 01 or 10 in bits 12:11, so `RefSpec` is claimed for programs
whose addresses have not.

| run | checks | shows |
|---|---|---|
| `core_hazards` | `TypeOK`, `OperandsFresh`, `RefSpec` | every body of four among eight loads, stores and arithmetic instructions (and four others, with a 32-bit multiply and pc-relative), so every distance 1..4 between producer and consumer and every overlap of writers |
| `core_branches` | `OnePath`, `RefSpec` | every body of four jumps, branches taken and not, backwards and forwards, with operands computed or loaded just before |
| `core_traps` | `ModeLegal`, `RefSpec`, `NoParts` | every body of three among illegal instructions, ecall, ebreak, misaligned loads, stores and jumps, and CSR accesses, in machine and in user mode, with a handler that returns |
| `core_interrupts` | `OperandsFresh`, `OnePath`, `CodeFresh`, `Simulates`, `CommitProgress` | timer and external interrupts at every clock of loads, branches, stores, an ecall, in a handler that may return to user mode: the effect on the program is that of the simulator, step by step |
| `core_handlers` | `FrameKept`, `TrapReturns`, `InterruptReplays`, `ExecutesInTime` | the same interrupts at every clock of stores, loads, CSR writes, an ecall and an interrupt enable turned off, under handlers that return at once, save and restore, raise an exception themselves, or open the interrupts: what a trap found is kept, mret leads back, an interrupted instruction can be executed again, execute is never empty for more than four clocks |
| `difftest` | `TestsAgree`, `NoAlarm`, `RegistersAgree`, `MemoryAgrees`, `PassEarned`, `CommitsInTime`, `Ends` | the difference test on every test of three or four body instructions and an exit call: the machines never part on them, no false alarm, all registers and the whole memory equal at every commit though the comparison sees one register, a pass only for a core that passed, a silent watchdog; and on programs on which the machines part for good (finding 4, a mode of `mtvec` the simulator aborts at, a read of `mcycle`) the loop ends, with both `-delay` and `-pc` |
| `units_and_bus` | `AluAgrees`, `MduAgrees`, `AmoAgrees` (the arithmetic of both); `Disjoint`, `LookupFinds`, `AtomicSpec` (the bus) | in some behaviours, every operation on all 65536 operand pairs, and the nine 32-bit atomic operations, which the simulator computes with 64 bits; in the others, every sequence of `add_dev`, then two harts, both sizes, shared and unshared locations, and accesses without a device: the bus implements `AtomicMem` |
| `devices` | `OfferedHighest`, `ClaimExclusive`, `Served` (PLIC); `Isolated`, `TimerSticky`, `NoSpurious`, `ClintAlarmRings` (CLINT); `TlbCurrent` (Sv39); `AccessChecked` (`rv_priv`) | the devices, each in behaviours of its own, since they share no state: the calls of the PLIC in every order, the six access functions on every page in every mode |
| `trap_on_bubble` | `TrapsOnlyOnValid` | finding 1 |
| `csr_write_mask` | `CsrWriteMasked` | finding 2 |
| `mret_in_user` | `MretPrivileged` | finding 3 |
| `ref_jalr` | `JalrTargetOfSum` | finding 4 |

**Why the bounds are enough.** The pipeline holds four instructions between fetch
and write back, and nothing it remembers about an instruction outlives it except
the architectural state. So a body of four instructions, started from the state
the prologue left, fills it with every combination of the chosen instructions;
the halting loop behind it drains it. Values matter only through equality,
ordering, carry, alignment and sign, all of which appear in eight bits; `units_and_bus` covers them exhaustively and the proofs of section 5 hold at every width.

In `core_handlers` a handler of four instructions is longer than the pipeline, so a trap
can come before, at and behind each instruction that saves or restores; two
interrupts with a fixed order let one be up while the other is handled; and every
sequence of lines is possible, since the lines are chosen anew at every clock. TLC
finds all the cases: an interrupted store and CSR write, a frame overwritten by the
handler's own exception, a return to user mode, and four empty clocks in a row.

In `difftest` the bodies include the trapping ones and the early exits. `NoAlarm` and
the agreements are about the time until the machines part; `TestsAgree` says that only
the programs of `PartingImages` make them. There they differ at once or the simulator aborts, and `Ends` and
`CommitsInTime` are what is claimed: `-delay` counts 40 mismatches, more than enough to pass the dump
at 10. `CommitTimeout` is 22 ticks instead of 3000, just above the longest time
between two commits, so a stall that lasted one clock longer would be seen.
`units_and_bus` has 13 addresses, so that ranges of every alignment meet as neighbours, and a
memory of a location with overlapping sizes, one with one size, and two places
without a device, one of them misaligned. In `devices` the PLIC has three
sources and two contexts: the first source has the highest priority and the two
above it can be claimed and hide it, by themselves or together; the second context has enabled
the first source and bit 31, which belongs to none and makes the other two look enabled; thresholds
and the first priority change. So two handlers race, a source is offered that is not pending or
not enabled, and a better one is passed over behind a claimed one. The CLINT counts to 16 in two
words of two bits, so it wraps, with two writes, the number an alarm needs. The TLB
has two entries, so replacement happens, over three-level tables of two entries with
pages, superpages, global pages and a misaligned superpage; a program writes a table
while it owes at most two fences, and may make them one by one.

**Refinement (`RefSpec`).** The mapping in `CoreRefines` reads the machine as a
program sees it: a register is the newest of memory stage, write-back stage and
register file; the pc is that of the oldest instruction that has not executed. The
clock edge that ends a valid execute stage is one `step()`; the others stutter.
`RefSpec` therefore says: precise exceptions, no lost or doubled effects, right
results, right CSRs. It is checked without interrupts, as the difference test is
(`sim_mycpu.cpp:157` steps the simulator with all lines low).

The two machines are not the same on every program. `CoreRefines!Parts` lists the
clock edges at which they part, each with its reason: an interrupt on a bubble
(finding 1), one that mip still records though its line is down, one of a store
or a CSR access that has its effect all the same; vectored `mtvec`; a misaligned
pc, a fetch outside the memory or of an instruction overwritten since; the CSR
writes that are masked differently (finding 2, mip, `mcounteren`), a mode of `mtvec`
that ends the simulator by an assertion (`rv_priv.hpp:286`); accesses
outside the memory, mret in user mode, jalr from an odd base, `cycle` in user mode; and a
read, or for `mcycle` a write, in machine mode of a CSR that only the simulator has
(`SimOnlyParts`): the core traps, the simulator goes on.
`Simulates` says that *every other* clock edge is a step of the simulator called
with the interrupts recorded in mip, or invisible: with interrupts, in any mode,
and also after a parting, since it speaks of each edge by itself. `NoParts` says
that a program reaches none of them, and is a property of the programs: the traps
of `core_traps`, with their handler, are such programs. On those `RefSpec` follows
from `Simulates`, as `PipelineRefines` proves.

`CodeFresh` bounds the one parting that is a matter of timing. The instruction in
execute is the one in memory unless one of the three instructions executed before
it wrote to that word. So a program that modifies itself needs three instructions
between the store and the code, and no stall, branch or trap makes it need more
(there is no `fence.i`).

**Liveness.** `CommitProgress` (`[]<>` a valid write back) is what keeps the
watchdog of `sim_mycpu.cpp` silent. Fairness is `WF_allVars(AllNext)`, that is, of
`Next` with the history it records: the clock keeps ticking, which the main loop (`sim_mycpu.cpp:119`) does unconditionally. `Ends` has
`WF_testVars(Loop)` for the same reason. `ClintAlarmRings` has weak fairness of `Tick`.
For the PLIC there is weak fairness of `get_int` of every context and of the completion of a claimed
source. `Served` itself states what else it takes, as its hypotheses: that from some time on no claim
register is read before `get_int` has been called for the present lines and settings
(a caller that computes the arguments of `step()` for each instruction does that), and that the handler
of the context reads its claim register if it is offered the source again and again (strong, because
another context's claim takes the offer away). No class of the repository calls the PLIC, so these are
conditions on a caller, not facts about one. Nothing
is assumed about the interrupt lines of the core. Every cycle of clock edges in the run makes
progress, so a stall that fed itself would show (the mutant that drops `valid`
from the stall condition makes it do so).

Every property has a mutant: a plausible slip in one definition (a comment
`fault:` marks it, next to the definition it replaces) under which the run's
property fails. The mutants appear in no specification.

## 4. Findings

1. **Traps on bubbles** (`CSRRegFile.scala:166`, run `trap_on_bubble`). `ExecuteUnit`
   masks exceptions of an invalid stage, but the CSR file adds the interrupt lines
   afterwards. An interrupt can be taken while execute holds a bubble, and `mepc`
   gets the bubble's stale pc: after a load-use stall that of the load that has
   executed, and after a taken branch that of the squashed fall-through
   instruction, so the handler returns to a path the program never took.
   `note.md:849` says exceptions are handled only when valid.
2. **MPP filter on every CSR** (`CSRRegFile.scala:152`, run `csr_write_mask`). Bits 12:11
   of the value written to any CSR pass through the filter meant for `mstatus.mpp`.
   A value with 01 or 10 there is not stored in `mscratch`, `mepc`, `mtval`, ..., and
   registers with write mask 0 (`misa`, `tselect`) take these bits. They get
   `mstatus.mpp` instead, so `meie` (bit 11 of `mie`) written alone is set only while mpp
   says machine mode.
3. **mret in user mode** (`Csr.scala:57`, run `mret_in_user`) is executed; the simulator
   treats it as illegal (`rv_priv.hpp:637`).
4. **jalr in the simulator** (`rv_core.hpp:198`, run `ref_jalr`) clears bit 0 of the
   immediate instead of the sum, and traps on an odd base where the core
   (rightly, `note.md:431`) jumps.

Three more departures are in the models as the code has them, and in no run of
their own, because no program of the repository depends on them: LR, SC and AMO
are not checked for alignment although `rv_systembus.hpp:73` asks the core to;
`get_int` of the PLIC (`rv_plic.hpp:35`) shifts the pending, enable and claimed words
without masking them, so a context may be offered a source it has not enabled when
it enabled a higher one, and a claimed source hides every source numbered below it, however urgent
(with source 2 claimed, source 3 of priority 1 is offered before source 1 of priority 5; `OfferedHighest`
says how far this goes); a claim register computed before another context claimed its source returns
it a second time (`rv_plic.hpp:81`); and mxr (`rv_priv.hpp:418`) makes readable the pages that are
not executable, which no program reaches since mxr cannot be written.

## 5. Proofs

`tlapm` proves, for every width, register count, instruction table, memory image
and sequence of interrupt lines that satisfies the assumptions:

| theorem | states | argument |
|---|---|---|
| `CoreSafety!TypeCorrect` | `Spec => []TypeOK` | inductive as it stands; one lemma per part of the clock, over lemmas about every unit (`WordProofs`: each operator returns a word) |
| `CoreSafety!OnePathCorrect` | `Spec => []OnePath` | inductive with `TypeOK`: the invariant relates execute to decode and decode to fetch, so each edge is a case of flush and stall |
| `CoreSafety!OperandsFreshCorrect` | `Spec => []OperandsFresh` | what decode forwards before an edge is the architectural register after it (`ForwardedIsArch`), unless a load in execute writes it, and then decode stalls (`LoadIsI`: DecodeCtrl recognises loads by their not reading a second register) |
| `CoreSafety!ModeLegalCorrect` | `Spec => []ModeLegal` | the write port, a trap and mret each leave the two MPP bits equal; the last of the three assignments wins |
| `CoreSafety!FrameKeptCorrect`, `TrapReturnsCorrect` | `TrapSpec => []FrameKept`, `TrapSpec => TrapReturns` | inductive with the types and `OnePath` (`FrameIInv`): an open frame has machine mode and MIE off, so no interrupt can come (`FrameMasks`), and every CSR write that could disturb it closes it; what the assignments of one clock leave in `mstatus` is `StatusFields` |
| `CoreSafety!InterruptReplaysCorrect` | `TrapSpec => InterruptReplays` | a trap withdraws the register write, and the older results only move on (`ArchRegMoves`); merging the same bytes under the same strobes again changes nothing (`MergeTwice`, `StoreTwice`) |
| `CoreSafety!ExecutesInTimeCorrect` | `TrapSpec => []ExecutesInTime` | `IdleIInv`: the empty clocks behind and the ones to come are at most two, or four once an interrupt has flushed the pipeline, which masks the next |
| `CoreSimulates!CodeFreshCorrect` | `HistorySpec => []CodeFresh` | each stage has a window of its own (`FetchIInv`: one store for the word just read, two or three for decode, three for execute); an edge moves an instruction on and at most one store in |
| `CoreSimulates!CoreSimulatesRef` | `HistorySpec => Simulates` | below |
| `CoreSimulates!PipelineRefines` | `HistorySpec /\ NoParts => RefSpec`, where the simulator is reset by `-rvtest` | `Simulates`, the initial states, and that what mip records is a set of lines the simulator may be called with |
| `DiffProofs!NoAlarmCorrect`, `RegistersAgreeCorrect`, `MemoryAgreesCorrect`, `PassEarnedCorrect` | `TestSpec => []NoAlarm`, and so on | below |
| `DiffProofs!CommitsInTimeCorrect` | `TestSpec => []CommitsInTime` | `Bubbles` counts the clock edges ahead without a commit and goes down at each of them, since without interrupts a bubble neither stalls nor redirects (`BubblesStep`) |
| `AluProofs!AluCorrect`, `MduCorrect`, `AmoCorrect` | the units agree with the simulator's C arithmetic | a word is determined by its bits (`WordProofs`); signed comparisons, shifts and truncation from quotient and remainder by powers of two |
| `BusProofs!DevicesDisjoint` | `MapSpec => []Disjoint` | inductive with the types: of the devices before and after a new range the nearest decides (`NeighboursSuffice`), and the map finds it (`PrevIsLast`, `UpperBoundIsFirst`, from the least element of a set of numbers, `NatLemmas`) |
| `BusProofs!LookupsRight` | `MapSpec => []LookupFinds` | needs `Disjoint`, and that ranges are aligned to their size (`Aligned`): then the remainder is the offset |
| `BusProofs!BusIsAtomic` | `Spec => AtomicSpec` | step simulation; the reservation in the register is a legal one (`LrOK`), and a write that shares a byte with it starts where it starts (`SameStart`), so `Breaks` sees it |
| `DeviceProofs!ClaimsExclusive` | `PlicSpec => ClaimExclusive` | invariant `OfferUnclaimed`: no context asked since the last read of a claim register is offered a claimed source; `get_int` offers none, completions only shrink `claimed`, and a read empties `asked` |
| `DeviceProofs!OfferedIsHighest` | `PlicSpec => OfferedHighest` | finitely many sources have a bound on their priorities (`PriorityBound`), so there is a best candidate (`BestIsBest`); what is pending, enabled, let through and no candidate is hidden by a claimed source at or above it |
| `DeviceProofs!TimerStays` | `ClintSpec => TimerSticky` | type invariant and the arithmetic of a tick |
| `DeviceProofs!MovesQuietly` | `ClintSpec => NoSpurious` | the register words are disjoint (`CmpWords`), and any time with a smaller upper half is below all ones (`UpperOnes`) |
| `DeviceProofs!WritesIsolated` | `ClintSpec => Isolated` | the words of different harts are different (`CmpWords`), so an access reaches the registers of one |
| `DeviceProofs!TlbIsCurrent` | `Sv39Spec => []TlbCurrent` | invariant `TlbIInv`: every entry is what a walk finds now, or a fence is owed for it (`EntriesCurrent`); two entries that answer for one page are excluded the same way (`OneAnswers`); and tables keep their global pages the same in every address space |
| `DeviceProofs!AccessCorrect` | `DevSpec => []AccessChecked` | each of the six functions against the table, over privilege, mprv, sum, mxr, the flags of the page, the device and the reservation; the invariant is that `who` is one of its values |

**The simulation.** The invariant is `SimIInv`: the types, `OnePath`, `OperandsFresh`,
`ModeLegal` and `FetchIInv`, and two more that the step needs and no run states:
`OperandsDecoded` (execute has the operands its own instruction word asks for: the
immediate, the pc, the zero-extended `rs` of a CSR instruction) and `MipRecorded`
(mip and its history hold interrupt numbers only). `OnePath` gives the next pc,
`OperandsFresh` the operands, `ModeLegal` the target mode of a trap. `EdgeSimulates`
splits an edge as the pipeline does: a bubble (`BubbleStep`), an interrupt
(`InterruptStep`), an instruction that traps (`TrapStep`), or one that executes,
with one lemma per kind of instruction (`OpStep`, `JumpStep`, `BranchStep`, `LoadStep`,
`StoreStep`, `CsrOpStep`, `MretStep`, ...). Each of them uses the hypothesis `~Parts` only
for the partings of its kind, so the list has nothing in it to ease the proof: TLC
finds a mutant of `Simulates` where a fault of the core lets another edge part.

**The difference test.** The four theorems are about the time before the machines part
(`~parted`), and so about runs with `-rvtest` and neither `-onlymodem` nor `-initgprs`
(`SameReset`), in which they start alike; for the other options they claim nothing. `RegistersAgree`
leaves out the one commit at which the simulator gives a test up for its length, since it has not executed that
instruction. There the simulator runs for itself, and behind: it is
stepped when an instruction leaves the memory stage, a clock after the core's state
has that instruction's effect. `RegistersAgree` is far from inductive, since nothing
in it speaks of the CSRs, the pc, the memory, or what is in flight. The invariant
`TestIInv` adds `InStep`: the mapped state of the core (`ArchState`, the mapping of
`CoreRefines`) is that of the simulator, or what `After` makes of it while an
instruction is in the memory stage. `After` is the step as a function. That it is one
is proved twice, for the test's simulator (`SimAfter`) and for the simulator the core
refines (`RefAfter`), one lemma per kind of instruction: without interrupts, a read of
`cycle` and an exit, `RefCore!Step` has one outcome. So the core applies `After` at the
clock edge by `EdgeSimulates` (`Moves`), the simulator at the next by `SimAfter`
(`CommitStep`), and the comparison finds the same pc, register and value in both. Where
the simulator leaves by `exit()` instead (`StepExits`), the instruction would have
written no register (`ReportsQuietly`), so the registers still agree, and `Behind` says
that it is the instruction the core commits, and not one at which the simulator would
abort (`Aborts`; `RefNeverAborts` says so a clock earlier, when the core executes it). The invariant also holds that no
interrupt is pending (`NoLines`) and the clocks that may pass until the next commit.

The device theorems hold for any number of harts, sources (up to 31), contexts,
priorities and TLB entries, for any memory, address space and word size, and any
sequence of accesses.

**Assumptions.** `WordAssumption` (XLEN is a power of two and at least 8, H the
number of values of half a word: what `Word` says of 64 and 32 bits),
`IsaAssumption` (the table has only rows of `RVIInstr.table` or the
default), `CsrAssumption` (the field positions are distinct), `MemoryAssumption`
and `CoreAssumption` (the memory fits the address space), `BusMapAssumption` (no sum
of addresses wraps), `ByteMemAssumption` with `SameStart` (accesses that share a byte
start at the same address), `PlicAssumption` (one word per bit array),
`ClintAssumption` (the regions of the registers do not overlap), `Sv39Assumption`,
`DiffTestAssumption` (no interrupt line is connected, `sim_mycpu.cpp:157`; the registers
of the exit call exist; `CommitTimeout` is above the 20 ticks that reset and the first
fetch take, it is 3000 in the code), `TablesAssumption` (a page that is global in one table is global, and the same, in
all: what the G bit promises). TLC evaluates all of them in the runs.
`PipelineRefines` has two hypotheses of its own: `NoParts`, which `core_traps` checks
of its programs, and `Closed` (the sets of interrupt lines that may be up are
closed under union and contain the empty set), since mip records lines one after
the other and the simulator is called with all of them. The sets of the runs
(`NoIrq`, `SomeIrqs`) are closed. `OnePath`, `OperandsFresh` and `CodeFresh` hold under
interrupts too: finding 1 is about the pc that is saved, not about the operands
or the path.

**Only model-checked.** `NoParts` and `TestsAgree`, which are about the programs of
their runs; and liveness: `CommitProgress`, `Ends`, `Served` and `ClintAlarmRings`.
Liveness under fairness and `ENABLED` are out of the prover's reach, and so is
induction over data: what the proofs know of powers of two and of the bits of a word
comes from the least counterexample (`NatLemmas!LeastNat`). `CommitsInTimeCorrect` is the
safety half of what `CommitProgress` says, without interrupts.

## 6. Not modelled, and known limits

* Binary encodings and immediate extraction in `Decoder.scala` (see section 2).
* Interrupts in the difference test: it never gives the simulator one, so nothing
  in the repository says what must match. `Simulates` compares the interrupts the two
  take at the same instruction; that both take one, and when, is not required.
* What happens after a parting (`CoreRefines!Parts`) is not compared with what the
  simulator would have done instead: for accesses outside the memory the hardware
  reads poison and never faults, the simulator raises access faults; with
  vectored `mtvec` the simulator vectors exceptions too (`rv_priv.hpp:718`).
* `PuaCpu.scala`, `Elaborate.scala`: wiring. `src/difftest/test`: programs.
* The C extension of the simulator (switched off, `hasCExt`), supervisor mode: sret,
  sfence.vma as an instruction, delegation, `satp`. `satp` and mxr cannot be written
  (`csr_write`), so `Sv39` and `VaAccess` are models of the classes as they would be used,
  and the walk's own accesses are to memory only.
* The harness registers a memory and a UART but no CLINT and no PLIC; their models
  are driven as `rv_core::step` expects. Accesses outside the tables of the PLIC index
  arrays out of bounds, which C++ leaves undefined; `rv_clint::set_cmp` does not
  compile if it is used. Devices whose address is passed on raw are left out.
* A store into the middle of a reserved double word leaves the reservation
  (`Breaks`, `rv_systembus.hpp:56`): excluded by `SameStart`.
* The harness's traces, performance counters, and the options for dual issue and
  delay slots, which this core has not; a test that ends by `tohost` under translation.
* An instruction interrupted in execute is executed again after the handler, although
  a store and a CSR write have had their effect. `InterruptReplays` bounds that: a store
  leaves its own word, as storing again does; but a CSR instruction that returns the
  value it replaces (csrrw, csrrs, csrrc with an rd) returns its own value the second
  time. No document says which it should be. An mret in the same clock as an interrupt
  takes precedence for the pc, the mode and `mstatus`; the interrupt has written mepc,
  mcause and mtval, and is taken again if its line stays up.

## 7. Plan

Done, in this order: words and units; decoder; CSR file; memory; the clocked
pipeline with `TypeOK`, `OperandsFresh`, `OnePath`, `ModeLegal`; the simulator; the
refinement; interrupts and progress; the proofs of the invariants; the difference
test; the bus with its abstract specification; PLIC, CLINT and Sv39; the proofs
about bus, PLIC and CLINT; the simulation of interrupts and the list of partings;
the proofs of the simulation, of the arithmetic, of the TLB and the access check; the
proof of the difference test; what a trap handler may rely on, with its proofs.

Next, by importance:

1. The simulator interrupted between any two instructions: an undisturbed and an
   interrupted run of a program compute the same.
2. Supervisor mode of `rv_priv` (delegation, sret), with `Sv39` and `VaAccess` under it.
