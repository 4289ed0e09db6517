---------------------------- MODULE CoreRefines ----------------------------
(***************************************************************************)
(* The pipeline implements the instruction-set simulator: the clock edge   *)
(* at which execute holds a valid instruction is one step() of rv_core,    *)
(* every other clock edge is invisible.  The simulator keeps what its last *)
(* step wrote and the interrupt lines it was called with; the core shows   *)
(* the first on its debug port two clocks later, and goes on collecting    *)
(* lines in mip, so history variables keep both.                           *)
(***************************************************************************)
EXTENDS CoreProps

CONSTANTS A0, A7, ExitCall, ToHost    \* of RefCore

VARIABLES
  written,    \* what the last executed instruction will show as debug
  seen,       \* mip as the last executed instruction found it
  stored      \* the memory words the last three executed instructions wrote

historyVars == <<written, seen, stored>>

(* The debug port, one clock before WriteBackUnit drives it. *)
DebugOfMs ==
  LET num == IF ms.wen THEN M.rd ELSE 0
  IN [pc |-> ms.pc, num |-> num, wdata |-> IF num = 0 THEN 0 ELSE MResult]

HistoryInit ==
  /\ written = [pc |-> 0, num |-> 0, wdata |-> 0]
  /\ seen = 0
  /\ stored = <<{}, {}, {}>>
HistoryNext ==
  /\ written' = IF es.valid THEN DebugOfMs' ELSE written
  /\ seen' = IF es.valid THEN csrs["mip"] ELSE seen
  /\ stored' = IF es.valid
               THEN <<IF Stores THEN {IndexOf(DataAddr)} ELSE {}, stored[1], stored[2]>>
               ELSE stored
allVars == <<vars, historyVars>>
AllInit == Init /\ HistoryInit
AllNext == Next /\ HistoryNext
HistorySpec     == AllInit /\ [][AllNext]_allVars
FairHistorySpec == HistorySpec /\ WF_allVars(AllNext)

(* The simulator with the option -rvtest, which makes it start in the      *)
(* state the core is reset to; compared as if no test ended, so that what  *)
(* follows a reported result is compared too.                              *)
Ref == INSTANCE RefCore WITH
         Images <- Memories, RunRiscvTest <- TRUE, OnlyModeM <- FALSE,
         InitGprs <- FALSE, TestExits <- FALSE, exit <- "none",
         pc <- ArchPc, GPR <- [r \in Reg |-> ArchReg(r)],
         csr <- [csrs EXCEPT !["mip"] = seen], priv <- mode, debug <- written

RefSpec == Ref!Spec

(***************************************************************************)
(* The clock edges at which the two machines part, all of them: the        *)
(* simulation below is claimed of every other one.                         *)
(***************************************************************************)
Recorded  == {i \in IntNo : /\ mode = ModeM => MIE \in Bits(csrs["mstatus"])
                            /\ i \in Bits(csrs["mip"]) /\ i \in Bits(csrs["mie"])}

(* An interrupt taken on a bubble, one recorded whose line is down again,  *)
(* one of an instruction that has its effect all the same.                 *)
InterruptParts(lines) ==
  \/ ~es.valid /\ IsInt(lines)
  \/ es.valid /\ ~(Recorded \subseteq lines)
  \/ IsInt(lines) /\ (Stores \/ CsrWrites \/ Mret)

(* Vectored mtvec: the simulator vectors exceptions as well, and takes     *)
(* mode 2 for vectored.                                                    *)
VectorParts(lines) ==
  /\ Trap(lines)
  /\ IF IsInt(lines) THEN csrs["mtvec"] % 4 = 2
                     ELSE csrs["mtvec"] % 4 # 0 /\ TrapNo(lines) # 0

(* An instruction at a misaligned pc, which an mret can lead to, that does *)
(* more than raise that exception; a fetch from outside the memory; an     *)
(* instruction that was overwritten after it had been fetched.             *)
FetchParts ==
  es.valid /\ IF es.pc % 4 = 0
              THEN ~Mapped(es.pc) \/ es.inst # InstAt(mem, es.pc)
              ELSE Exceptions # {0} \/ JumpMisaligned \/ Mret \/ Stores \/ CsrWrites

(* A CSR write the two machines mask differently: the MPP bits of a write  *)
(* to another register than mstatus, mie and mip beyond the interrupts the *)
(* simulator has, and mcounteren; a mode of mtvec the simulator aborts at. *)
WriteParts ==
  /\ CsrWrites
  /\ \/ E.csr \in {"mip", "mcounteren"}
     \/ E.csr = "mtvec" /\ CsrWdata % 4 > 1
     \/ E.csr = "mie" /\ ~(Bits(CsrWdata) \subseteq IntNo)
     \/ E.csr \in {"mie", "mtvec", "mscratch", "mepc", "mcause", "mtval"}
        /\ Wmpp(csrs, CsrWdata) # Bits(CsrWdata) \cap {MPP0, MPP1}
     \/ E.csr \in {"misa", "tselect", "tdata1"}
        /\ ~(Wmpp(csrs, CsrWdata) \subseteq Bits(csrs[E.csr]))

(* A CSR of the simulator alone, which the core does not decode and traps  *)
(* at: a read, and a write of mcycle, the only one of them that the        *)
(* simulator writes.                                                       *)
SimOnlyParts ==
  /\ Unit("csr") /\ E.op \in CsrRwOps /\ E.csr \in CsrSimOnly
  /\ mode = ModeM /\ (CsrWen => E.csr = "mcycle")

(* An access outside the memory; mret in user mode; jalr from an odd base; *)
(* cycle read in user mode.                                                *)
ExecuteParts ==
  \/ Unit("lsu") /\ ~Misaligned(E.op, DataAddr) /\ ~Mapped(DataAddr)
  \/ Mret /\ mode # ModeM
  \/ Unit("bru") /\ E.op = "jalr" /\ es.src1 % 2 = 1
  \/ CsrRen /\ E.csr = "cycle" /\ mode # ModeM
  \/ SimOnlyParts \/ WriteParts

Parts(lines) ==
  \/ InterruptParts(lines) \/ VectorParts(lines)
  \/ ~IsInt(lines) /\ (FetchParts \/ ExecuteParts)

(* Every clock edge that is not one of those is a step of the simulator,   *)
(* called with the interrupts that mip had recorded, or changes nothing of *)
(* what a program sees: whatever traps, interrupts and CSR writes came     *)
(* before, after a parting as well.                                        *)
Simulates ==
  [][\A lines \in IrqLines : Clock(lines) /\ ~Parts(lines) =>
       IF es.valid THEN Ref!Step(Bits(csrs["mip"])) ELSE UNCHANGED Ref!vars]_allVars

(* A program on which they never part, whatever traps it takes: there the  *)
(* two machines are one (CoreSimulates!PipelineRefines).                   *)
NoParts == [][\A lines \in IrqLines : Clock(lines) => ~Parts(lines)]_allVars

(* The only way an instruction in execute is not the one in memory: one of *)
(* the last three executed instructions wrote to its word.  No stall or    *)
(* redirection makes the window larger, or fetches from elsewhere.         *)
CodeFresh ==
  es.valid /\ Mapped(es.pc) =>
    \/ es.inst = InstAt(mem, es.pc)
    \/ \E k \in 1..3 : IndexOf(es.pc) \in stored[k]
=============================================================================
