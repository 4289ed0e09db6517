-------------------------------- MODULE Core --------------------------------
(***************************************************************************)
(* The five-stage in-order pipeline of Core.scala, clocked together with   *)
(* the synchronous memories of the simulation: one step of the             *)
(* specification is one rising edge of the clock.                          *)
(*                                                                         *)
(*   fetch -> ds -> decode -> es -> execute -> ms -> memory -> ws -> regs  *)
(*                                                                         *)
(* ds, es, ms and ws are the registers of DecodeStage, ExecuteStage,       *)
(* MemoryStage and WriteBackStage.  A stage register keeps the instruction *)
(* word; the Info bundle the code carries along with it is InstTable[inst] *)
(* except for its valid and reg_wen fields, which later stages change.     *)
(***************************************************************************)
EXTENDS RvAlu, CsrFile, Memory

CONSTANTS
  Images,      \* the memory contents a run may start from
  IrqLines     \* the values of the interrupt lines at a clock edge

ASSUME CoreAssumption ==
  /\ Images \subseteq Memories
  /\ IrqLines \subseteq SUBSET IntNo

VARIABLES
  state, pc, inst_rdata,     \* FetchUnit and the instruction SRAM's output
  ds, es, ms, ws,            \* the stage registers
  data_rdata,                \* the data SRAM's output
  regs,                      \* ARegFile
  csrs, mode,                \* CSRRegFile: regs and reg_mode
  mem                        \* the memory behind the SRAMs

vars == <<state, pc, inst_rdata, ds, es, ms, ws, data_rdata, regs, csrs, mode, mem>>

D == InstTable[ds.inst]
E == InstTable[es.inst]
M == InstTable[ms.inst]
B == InstTable[ws.inst]

Init ==
  /\ state = "boot"
  /\ pc = PC_INIT - 4
  /\ inst_rdata = 0
  /\ ds = [valid |-> FALSE, pc |-> 0, inst |-> 0]
  /\ es = [valid |-> FALSE, pc |-> 0, inst |-> 0, src1 |-> 0, src2 |-> 0]
  /\ ms = [valid |-> FALSE, wen |-> FALSE, pc |-> 0, inst |-> 0,
           src1 |-> 0, wdata |-> 0]
  /\ ws = [valid |-> FALSE, wen |-> FALSE, pc |-> 0, inst |-> 0, wdata |-> 0]
  /\ data_rdata = 0
  /\ regs = [r \in Reg |-> 0]
  /\ csrs = CsrReset
  /\ mode = ModeM
  /\ mem \in Images

(***************************************************************************)
(* Execute: the functional units (Fu.scala, Lsu.scala, Bru.scala,          *)
(* Csr.scala) on the instruction in es.                                    *)
(***************************************************************************)
Unit(u)  == es.valid /\ E.fusel = u
DataAddr == Add(es.src1, E.imm)
EvenOf(a) == (a \div 2) * 2

Branch == Unit("bru") /\ BranchTaken(E.op, es.src1, es.src2)
TargetSum == IF E.op = "jalr" THEN DataAddr ELSE Add(es.pc, E.imm)  \* fault: odd jalr
Target == IF E.op = "jalr" THEN EvenOf(DataAddr) ELSE Add(es.pc, E.imm)
Link   == IF Unit("bru") /\ E.op \in {"jal", "jalr"} THEN Add(es.pc, 4) ELSE 0

CsrRen == Unit("csr") /\ \/ E.op = "csrrw" /\ E.rd # 0
                         \/ E.op \in {"csrrs", "csrrc"}
CsrWen == Unit("csr") /\ \/ E.op = "csrrw"
                         \/ E.op \in {"csrrs", "csrrc"} /\ E.rs # 0
CsrRead  == IF CsrRen /\ RLegal(mode, E.csr) THEN csrs[E.csr] ELSE 0
CsrWdata == CASE E.op = "csrrw" -> es.src1
              [] E.op = "csrrs" -> Or(CsrRead, es.src1)
              [] OTHER          -> AndNot(CsrRead, es.src1)
Mret     == Unit("csr") /\ E.op = "mret"

(* The exceptions of the instruction in es, and their trap values.  The    *)
(* first two are raised by DecodeUnit from the pc and the instruction the  *)
(* stage register still holds.                                             *)
JumpMisaligned == Branch /\ Target % 4 # 0
CsrIllegal     == \/ CsrRen /\ ~RLegal(mode, E.csr)
                  \/ CsrWen /\ ~WLegal(mode, E.csr)
Exceptions ==
  {e \in 0..15 :
     es.valid /\
       \/ e = 0 /\ (es.pc % 4 # 0 \/ JumpMisaligned)
       \/ e = 2 /\ (~Legal(E) \/ CsrIllegal)
       \/ e = 3 /\ Unit("csr") /\ E.op = "ebreak"
       \/ e = 8 + mode /\ mode # ModeH /\ Unit("csr") /\ E.op = "ecall"
       \/ e = 6 /\ Unit("lsu") /\ IsStore(E) /\ Misaligned(E.op, DataAddr)
       \/ e = 4 /\ Unit("lsu") /\ IsLoad(E) /\ Misaligned(E.op, DataAddr)}
Tval(e) == CASE e = 0        -> IF JumpMisaligned THEN Target ELSE es.pc
             [] e = 2        -> es.inst
             [] e \in {4, 6} -> DataAddr
             [] OTHER        -> 0

(* The result execute hands to memory, and to decode when it forwards.     *)
EResult == CASE Unit("alu") -> Alu(E.op, es.src1, es.src2)
             [] Unit("mdu") -> Mdu(E.op, es.src1, es.src2)
             [] Unit("bru") -> Link
             [] Unit("csr") -> CsrRead
             [] OTHER       -> 0

(* CSRRegFile: is a trap taken at this clock, and where does it lead?      *)
Ints(lines)     == TakenInts(csrs, mode, lines)
IsInt(lines)    == Ints(lines) # {}
TrapNo(lines)   == IF IsInt(lines) THEN FirstInt(Ints(lines)) ELSE FirstExc(Exceptions)
Trap(lines)     == IsInt(lines) \/ Exceptions # {}
CsrFlush(lines) == Trap(lines) \/ Mret
CsrTarget(lines) == IF Mret THEN csrs["mepc"]
                    ELSE TrapTarget(csrs["mtvec"], IsInt(lines), TrapNo(lines))

(* ExecuteUnit: a redirection of the CSR file replaces the branch's and    *)
(* takes the register write away from the instruction.                     *)
Flush(lines)    == CsrFlush(lines) \/ Branch
FlushTo(lines)  == IF CsrFlush(lines) THEN CsrTarget(lines) ELSE Target
EWenTrapping(lines) == RegWen(E)     \* fault: a trapping instruction writes rd
EWen(lines)     == RegWen(E) /\ ~CsrFlush(lines)

(***************************************************************************)
(* Memory: the result memory hands to write back.                          *)
(***************************************************************************)
MResult == IF ms.valid /\ IsLoad(M)
           THEN LoadResult(M.op, Add(ms.src1, M.imm), data_rdata)
           ELSE ms.wdata

(***************************************************************************)
(* Decode: operands, forwarded from the three stages ahead (DecodeUnit),   *)
(* and the load-use stall (DecodeCtrl).                                    *)
(***************************************************************************)
EWritesInvalid(lines, r) == EWen(lines) /\ E.rd # 0 /\ E.rd = r  \* fault: valid ignored
EWrites(lines, r) == es.valid /\ EWen(lines) /\ E.rd # 0 /\ E.rd = r
MWrites(r)        == ms.valid /\ ms.wen /\ M.rd # 0 /\ M.rd = r
BWrites(r)        == ws.valid /\ ws.wen /\ B.rd # 0 /\ B.rd = r

(* fault: no path from the memory stage *)
ForwardedNoMemory(lines, r) ==
  IF EWrites(lines, r) THEN EResult
  ELSE IF BWrites(r) THEN ws.wdata ELSE regs[r]

Forwarded(lines, r) ==
  IF EWrites(lines, r) THEN EResult
  ELSE IF MWrites(r) THEN MResult
  ELSE IF BWrites(r) THEN ws.wdata
  ELSE regs[r]

Src1(lines) == IF IsCsri(D) THEN D.rs
               ELSE IF Src1Ren(D) THEN Forwarded(lines, D.rs)
               ELSE IF Src1Pcen(D) THEN ds.pc ELSE 0
Src2(lines) == IF Src2Ren(D) THEN Forwarded(lines, D.rt) ELSE D.imm

(* fault: only the second operand waits for a load *)
StallSecond(lines) ==
  E.fusel = "lsu" /\ ~Src2Ren(E) /\ Src2Ren(D) /\ EWrites(lines, D.rt)

Stall(lines) ==
  /\ E.fusel = "lsu" /\ ~Src2Ren(E)
  /\ \/ Src1Ren(D) /\ EWrites(lines, D.rs)
     \/ Src2Ren(D) /\ EWrites(lines, D.rt)

InstAddr(lines) == IF Flush(lines) THEN FlushTo(lines)
                   ELSE IF Stall(lines) THEN pc ELSE Add(pc, 4)

(***************************************************************************)
(* One clock edge, part by part.                                           *)
(***************************************************************************)
(* fault: the SRAM is given the pc of the register *)
FetchStepLate(lines) ==
  /\ state' = CASE state = "boot" -> "send" [] OTHER -> "receive"
  /\ pc' = IF state = "boot" THEN pc ELSE InstAddr(lines)
  /\ inst_rdata' = ReadInst(mem, pc, inst_rdata)

FetchStep(lines) ==
  /\ state' = CASE state = "boot" -> "send" [] OTHER -> "receive"
  /\ pc' = IF state = "boot" THEN pc ELSE InstAddr(lines)
  /\ inst_rdata' = ReadInst(mem, InstAddr(lines), inst_rdata)

(* fault: a redirection leaves the instruction in decode *)
DecodeStepUnflushed(lines) ==
  ds' = IF Stall(lines) THEN ds
        ELSE [valid |-> state = "receive", pc |-> pc, inst |-> inst_rdata]

DecodeStep(lines) ==
  LET next == IF Stall(lines) THEN ds
              ELSE [valid |-> state = "receive", pc |-> pc, inst |-> inst_rdata]
  IN ds' = [next EXCEPT !.valid = next.valid /\ ~Flush(lines)]

(* fault: a redirection leaves the instruction entering execute *)
ExecuteStepUnflushed(lines) ==
  es' = IF Stall(lines) THEN [es EXCEPT !.valid = FALSE]
        ELSE [valid |-> ds.valid, pc |-> ds.pc, inst |-> ds.inst,
              src1 |-> Src1(lines), src2 |-> Src2(lines)]

ExecuteStep(lines) ==
  es' = IF Stall(lines) THEN [es EXCEPT !.valid = FALSE]
        ELSE [valid |-> ds.valid /\ ~Flush(lines), pc |-> ds.pc, inst |-> ds.inst,
              src1 |-> Src1(lines), src2 |-> Src2(lines)]

MemoryStep(lines) ==
  ms' = [valid |-> es.valid, wen |-> EWen(lines), pc |-> es.pc, inst |-> es.inst,
         src1 |-> es.src1, wdata |-> EResult]

WriteBackStep ==
  /\ ws' = [valid |-> ms.valid, wen |-> ms.wen, pc |-> ms.pc, inst |-> ms.inst,
            wdata |-> MResult]
  /\ regs' = IF ws.valid /\ ws.wen /\ B.rd # 0
             THEN [regs EXCEPT ![B.rd] = ws.wdata] ELSE regs

(* The data SRAM writes before it reads, and is enabled whenever the Lsu   *)
(* is selected.                                                            *)
DataStep ==
  /\ mem' = IF Unit("lsu") /\ IsStore(E) /\ ~Misaligned(E.op, DataAddr)
            THEN WriteData(mem, DataAddr, Strobes(E.op, DataAddr),
                           StoreData(E.op, es.src2))
            ELSE mem
  /\ data_rdata' = IF E.fusel = "lsu" THEN ReadData(mem', DataAddr, data_rdata)
                                      ELSE data_rdata

(* Registers assigned several times in one clock keep the last assignment: *)
(* the CSR instruction's, then mip, then the trap's, then mret's.          *)
CsrWritten ==
  IF CsrWen /\ WLegal(mode, E.csr)
  THEN [csrs EXCEPT ![E.csr] = WriteValue(csrs, E.csr, CsrWdata)] ELSE csrs
CsrTrapped(lines, c) ==
  IF Trap(lines)
  THEN [c EXCEPT !["mtval"]   = IF IsInt(lines) THEN 0 ELSE Tval(TrapNo(lines)),
                 !["mcause"]  = Cause(IsInt(lines), TrapNo(lines)),
                 !["mepc"]    = es.pc,
                 !["mstatus"] = TrapStatus(csrs["mstatus"], mode)]
  ELSE c
CsrStep(lines) ==
  LET written == [CsrWritten EXCEPT !["mip"] = MipNext(csrs, lines)]
      trapped == CsrTrapped(lines, written)
  IN /\ csrs' = IF Mret
                THEN [trapped EXCEPT !["mstatus"] = MretStatus(csrs["mstatus"])]
                ELSE trapped
     /\ mode' = IF Mret THEN MppOf(Bits(csrs["mstatus"]))
                ELSE IF Trap(lines) THEN ModeM ELSE mode

Clock(lines) ==
  /\ FetchStep(lines) /\ DecodeStep(lines) /\ ExecuteStep(lines)
  /\ MemoryStep(lines) /\ WriteBackStep
  /\ DataStep /\ CsrStep(lines)

Next == \E lines \in IrqLines : Clock(lines)

Spec     == Init /\ [][Next]_vars
FairSpec == Spec /\ WF_vars(Next)
=============================================================================
