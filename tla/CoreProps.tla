----------------------------- MODULE CoreProps -----------------------------
(***************************************************************************)
(* What the pipeline promises.  The architectural state of the machine is  *)
(* the one a program sees: the registers with the results still on their   *)
(* way to ARegFile applied, and the address of the oldest instruction that *)
(* has not been executed yet.                                              *)
(***************************************************************************)
EXTENDS Core

Address == Word

TypeOK ==
  /\ state \in {"boot", "send", "receive"}
  /\ pc \in Address
  /\ inst_rdata \in InstWord
  /\ ds \in [valid : BOOLEAN, pc : Address, inst : InstWord]
  /\ es \in [valid : BOOLEAN, pc : Address, inst : InstWord, src1 : Word, src2 : Word]
  /\ ms \in [valid : BOOLEAN, wen : BOOLEAN, pc : Address, inst : InstWord,
             src1 : Word, wdata : Word]
  /\ ws \in [valid : BOOLEAN, wen : BOOLEAN, pc : Address, inst : InstWord,
             wdata : Word]
  /\ data_rdata \in Word
  /\ regs \in [Reg -> Word]
  /\ csrs \in [CsrName -> Word]
  /\ mode \in Mode
  /\ mem \in Memories

(* The value register r has for an instruction that starts executing now:  *)
(* the results of memory and of write back are older than it.              *)
ArchReg(r) == IF MWrites(r) THEN MResult
              ELSE IF BWrites(r) THEN ws.wdata ELSE regs[r]

ArchPc == IF es.valid THEN es.pc
          ELSE IF ds.valid THEN ds.pc
          ELSE IF state = "receive" THEN pc ELSE Add(pc, 4)

(* Does the instruction in execute write the memory, or a CSR?             *)
Stores     == Unit("lsu") /\ IsStore(E) /\ ~Misaligned(E.op, DataAddr)
CsrWrites  == CsrWen /\ WLegal(mode, E.csr)
StoreTo(m) == WriteData(m, DataAddr, Strobes(E.op, DataAddr),
                        StoreData(E.op, es.src2))

(* Forwarding (DecodeUnit) and the load-use stall (DecodeCtrl) together:   *)
(* an instruction never executes with an operand older than the last       *)
(* instruction before it that wrote the register.                          *)
OperandsFresh ==
  es.valid => \A r \in Reg :
    /\ E.rs = r /\ Src1Ren(E) /\ ~IsCsri(E) => es.src1 = ArchReg(r)
    /\ E.rt = r /\ Src2Ren(E) => es.src2 = ArchReg(r)

(* The stages hold consecutive instructions of one path: whatever is       *)
(* behind a branch, a trap or an mret that has redirected the fetch has    *)
(* been squashed, and a stall neither drops nor repeats an instruction.    *)
OnePath ==
  /\ es.valid => ds.valid /\ ds.pc = Add(es.pc, 4)
  /\ ds.valid => state = "receive" /\ pc = Add(ds.pc, 4)

(* The privilege mode is one the machine implements, and so is the mode    *)
(* mret would return to, whatever was written to mstatus.                  *)
ModeLegal ==
  /\ mode \in {ModeU, ModeM}
  /\ MppOf(Bits(csrs["mstatus"])) \in {ModeU, ModeM}

(***************************************************************************)
(* Statements of the repository's notes and comments that the code does    *)
(* not keep; each is the property of a run that shows how.                 *)
(***************************************************************************)

(* note.md, lab 9, point 8: "valid and exceptions should be exclusive, so  *)
(* exceptions are only handled when valid": no trap, an interrupt's        *)
(* included, is taken at a clock whose execute stage holds no instruction  *)
(* (ExecuteUnit gates the exceptions, CSRRegFile adds the lines after it). *)
TrapsOnlyOnValid ==
  [][\A lines \in IrqLines : Clock(lines) /\ Trap(lines) => es.valid]_vars

(* note.md, lab 8: a CSR write is (wdata & wmask) | (old & ~wmask).  The   *)
(* exception lab 9 makes for mstatus.mpp is left out, as is mip, which     *)
(* collects the interrupt lines in the same clock.                         *)
CsrWriteMasked ==
  [][\A lines \in IrqLines :
       Clock(lines) /\ CsrWen /\ WLegal(mode, E.csr) /\ ~CsrFlush(lines)
         /\ E.csr \notin {"mstatus", "mip"}
       => csrs'[E.csr] = FromBits((Bits(CsrWdata) \cap WMask(E.csr))
                                  \cup (Bits(csrs[E.csr]) \ WMask(E.csr)))]_vars

(* rv_priv.hpp, mret: "if return false, raise illegal instruction": mret   *)
(* below machine mode is an illegal instruction and traps (Csr.scala does  *)
(* not look at the mode).                                                  *)
MretPrivileged ==
  [][Unit("csr") /\ E.op = "mret" /\ mode # ModeM
     => mode' = ModeM /\ csrs'["mcause"] = 2]_vars

(* The core never stops committing: the watchdog of the simulation, which  *)
(* gives up after commit_timeout ticks without a commit, cannot fire.      *)
CommitProgress == []<>ws.valid
=============================================================================
