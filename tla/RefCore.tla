------------------------------- MODULE RefCore -------------------------------
(***************************************************************************)
(* The instruction-set simulator the difference test compares the core     *)
(* with: rv_core::exec and the machine- and user-mode part of rv_priv.     *)
(* One step is one call of step(): it takes an interrupt, or it fetches    *)
(* and executes one instruction.                                           *)
(***************************************************************************)
EXTENDS RefAlu, CsrFile, Memory

CONSTANTS
  Images,      \* the memory contents a run may start from
  IrqLines,    \* the interrupt arguments step() may be called with
  RunRiscvTest, OnlyModeM, InitGprs,   \* -rvtest, -onlymodem and -initgprs
  TestExits,   \* may a test end: RunRiscvTest, or FALSE to see what would follow
  A0, A7, ExitCall,   \* GPR[10], GPR[17] and 93: the exit call of a test
  ToHost       \* 0x80001000

VARIABLES
  pc, GPR,     \* rv_core
  csr,         \* the CSRs of rv_priv, by name
  priv,        \* next_priv, which is cur_priv from the next step on
  mem,         \* the memory device behind rv_systembus
  debug,       \* debug_pc, debug_reg_num and debug_reg_wdata of the last step
  exit         \* how exec ended the process: "none", "pass", "fail", "timeout"
               \* or "abort"

vars == <<pc, GPR, csr, priv, mem, debug, exit>>

(* rv_priv::reset.  Only -rvtest sets mstatus and the extensions of misa,  *)
(* to what the core has or, with -onlymodem, to what the cores without a   *)
(* user mode have; else mstatus is 0 and the extensions are not            *)
(* initialised.                                                            *)
ResetFiles ==
  IF RunRiscvTest /\ OnlyModeM
  THEN {[CsrReset EXCEPT !["mstatus"] = FromBits({MPP0, MPP1}),
                         !["misa"] = FromBits({XLEN - 1, ExtI, MPP1})]}
  ELSE IF RunRiscvTest THEN {CsrReset}
  ELSE {[CsrReset EXCEPT !["mstatus"] = 0, !["misa"] = w] :
          w \in {v \in Word : XLEN - 1 \in Bits(v)}}

(* -initgprs: set_GPR(i, i) of every register, debug record included. *)
Reset ==
  /\ pc = PC_INIT
  /\ GPR = [r \in Reg |-> IF InitGprs THEN r ELSE 0]
  /\ csr \in ResetFiles
  /\ priv = ModeM
  /\ debug = LET last == IF InitGprs THEN NReg - 1 ELSE 0
             IN [pc |-> 0, num |-> last, wdata |-> last]
  /\ exit = "none"
Init == Reset /\ mem \in Images

I == InstTable[InstAt(mem, pc)]

(* set_GPR: the register and the debug record.  The value of a write to x0 *)
(* is left out, nobody looks at it.                                        *)
SetGPR(r, v) ==
  /\ GPR' = IF r = 0 THEN GPR ELSE [GPR EXCEPT ![r] = v]
  /\ debug' = [pc |-> pc, num |-> r, wdata |-> IF r = 0 THEN 0 ELSE v]
NoGPR == SetGPR(0, 0)

(* exit(): the test that runs has reported its result; or abort().         *)
Exit(result) == exit' = result /\ NoGPR /\ UNCHANGED <<pc, csr, priv, mem>>

(***************************************************************************)
(* rv_priv                                                                 *)
(***************************************************************************)

(* pre_exec overwrites the interrupt-pending bits with the lines. *)
PreExec(lines) == [csr EXCEPT !["mip"] = FromBits((Bits(@) \ IntNo) \cup lines)]

(* check_and_raise_int *)
PendingInts(c) ==
  LET bits == Bits(c["mip"]) \cap Bits(c["mie"]) \cap IntNo
  IN IF priv = ModeM /\ MIE \notin Bits(c["mstatus"]) THEN {} ELSE bits
Int2Index(S) == IF MEI \in S THEN MEI ELSE IF MSI \in S THEN MSI ELSE MTI

(* raise_trap, to machine mode: the vectored mode of mtvec applies to      *)
(* every cause.                                                            *)
TrapPc(c, no) ==
  Add((c["mtvec"] \div 4) * 4, IF c["mtvec"] % 4 # 0 THEN 4 * no ELSE 0)
RaiseTrap(c, isInt, no, tval) ==
  LET status == Bits(c["mstatus"]) IN
  /\ csr' = [c EXCEPT !["mtval"] = tval,
                      !["mcause"] = no + (IF isInt THEN W \div 2 ELSE 0),
                      !["mepc"] = pc,
                      !["mstatus"] =
                        FromBits((status \ {MIE, MPIE, MPP0, MPP1})
                                 \cup (IF MIE \in status THEN {MPIE} ELSE {})
                                 \cup MppBits(priv))]
  /\ pc' = TrapPc(c, no)
  /\ priv' = ModeM
  /\ NoGPR
  /\ UNCHANGED <<mem, exit>>

(* csr_op_permission_check, and the numbers csr_read and csr_write know.   *)
(* The counters mcycle, which cycle reads too, and minstret are left       *)
(* arbitrary; medeleg and mideleg stay zero, as nothing writes them.       *)
Permitted(name, write) == priv = ModeM /\ (write => EnWrite(name))
Readable == CsrName \cup CsrSimOnly
Writable == (CsrName \ {"cycle", "mhartid"}) \cup {"mcycle"}
Refused(name, write) ==
  ~Permitted(name, write) \/ name \notin Readable \/ (write /\ name \notin Writable)
ReadValues(c, name) ==
  CASE name \in {"cycle", "mcycle", "minstret"} -> Word
    [] name \in {"mconfigptr", "medeleg", "mideleg"} -> {0}
    [] OTHER -> {c[name]}

(* csr_write, of a register that is kept. *)
CsrWriteValue(c, name, v) ==
  LET old == Bits(c[name])   new == Bits(v)
      mpp == IF MppOf(new) \in {ModeU, ModeM} THEN new ELSE old
  IN CASE name = "mstatus" /\ OnlyModeM /\ RunRiscvTest ->
            FromBits((old \ {MIE, MPIE}) \cup (new \cap {MIE, MPIE}))
       [] name = "mstatus" /\ ~(OnlyModeM /\ RunRiscvTest) ->
            FromBits((old \ CsrBits) \cup (new \cap {MIE, MPIE, MPRV})
                     \cup (mpp \cap {MPP0, MPP1}))
       [] name \in {"mie", "mip"} -> FromBits(new \cap IntNo)
       [] name \in {"mtvec", "mscratch", "mepc", "mcause", "mtval"} -> v
       [] OTHER -> c[name]

(* The modes of mtvec that an assertion of csr_write refuses.              *)
BadTvec(name, v) == name = "mtvec" /\ v % 4 > 1

(***************************************************************************)
(* rv_core::exec.  c is the CSR file after pre_exec.                       *)
(***************************************************************************)
Interrupt(c) == /\ PendingInts(c) # {}
                /\ RaiseTrap(c, TRUE, Int2Index(PendingInts(c)), 0)

FetchMisaligned(c) == pc % 4 # 0 /\ RaiseTrap(c, FALSE, 0, pc)
FetchFault(c)      == pc % 4 = 0 /\ ~Mapped(pc) /\ RaiseTrap(c, FALSE, 1, pc)

Retire(c, r, v, next) ==
  /\ csr' = c /\ SetGPR(r, v) /\ pc' = next
  /\ UNCHANGED <<priv, mem, exit>>
Illegal(c) == RaiseTrap(c, FALSE, 2, InstAt(mem, pc))

Lui(c)   == I.type = InstU /\ ~I.auipc /\ Retire(c, I.rd, I.imm, Add(pc, 4))
Auipc(c) == I.type = InstU /\ I.auipc
            /\ Retire(c, I.rd, Add(I.imm, pc), Add(pc, 4))
Op(c) ==
  /\ I.fusel \in {"alu", "mdu"} /\ I.op # "nop" /\ I.type \in {InstI, InstR}
  /\ LET b == IF I.type = InstI THEN I.imm ELSE GPR[I.rt]
         v == AluExec(GPR[I.rs], b, AluOp[I.op], I.op \in Op32)
     IN Retire(c, I.rd, v, Add(pc, 4))
Nop(c) == I.op = "nop" /\ I.type # InstN /\ Retire(c, 0, 0, Add(pc, 4))
Unknown(c) == I.type = InstN /\ Illegal(c)

(* JAL and JALR: the link is written only when the target is aligned.      *)
(* JALR clears bit 0 of the immediate.                                     *)
Jump(c) ==
  /\ I.op \in {"jal", "jalr"}
  /\ LET npc == IF I.op = "jal" THEN Add(pc, I.imm)
                ELSE Add(GPR[I.rs], (I.imm \div 2) * 2)
     IN IF npc % 4 # 0 THEN RaiseTrap(c, FALSE, 0, npc)
        ELSE Retire(c, I.rd, Add(pc, 4), npc)

Compare(op, a, b) ==
  CASE op = "beq"  -> a = b
    [] op = "bne"  -> a # b
    [] op = "blt"  -> Signed(a) < Signed(b)
    [] op = "bge"  -> Signed(a) >= Signed(b)
    [] op = "bltu" -> a < b
    [] op = "bgeu" -> a >= b
BranchInst(c) ==
  /\ I.type = InstB
  /\ LET npc == IF Compare(I.op, GPR[I.rs], GPR[I.rt]) THEN Add(pc, I.imm)
                ELSE Add(pc, 4)
     IN IF npc % 4 # 0 THEN RaiseTrap(c, FALSE, 0, npc) ELSE Retire(c, 0, 0, npc)

(* OPCODE_LOAD and OPCODE_STORE, mem_read and mem_write. *)
EffAddr  == Add(GPR[I.rs], I.imm)
ByteBit  == (EffAddr % 8) * ByteBits
Load(c) ==
  /\ IsLoad(I)
  /\ IF Misaligned(I.op, EffAddr) THEN RaiseTrap(c, FALSE, 4, EffAddr)
     ELSE IF ~Mapped(EffAddr) THEN RaiseTrap(c, FALSE, 5, EffAddr)
     ELSE LET v == Extend(Shr(mem[IndexOf(EffAddr)], ByteBit),
                          AccessSize(I.op) * ByteBits, LoadSigned(I.op))
          IN Retire(c, I.rd, v, Add(pc, 4))
Store(c) ==
  /\ IsStore(I)
  /\ IF Misaligned(I.op, EffAddr) THEN RaiseTrap(c, FALSE, 6, EffAddr)
     ELSE IF TestExits /\ EffAddr = ToHost /\ GPR[I.rt] = 1 THEN Exit("pass")
     ELSE IF ~Mapped(EffAddr) THEN RaiseTrap(c, FALSE, 7, EffAddr)
     ELSE /\ mem' = [mem EXCEPT ![IndexOf(EffAddr)] =
                       Merge(@, Shl(GPR[I.rt], ByteBit), Strobes(I.op, EffAddr))]
          /\ csr' = c /\ pc' = Add(pc, 4) /\ NoGPR
          /\ UNCHANGED <<priv, exit>>

(* SYSTEM *)
CsrOp(c) ==
  /\ I.op \in CsrRwOps
  /\ LET src   == IF I.csri THEN I.rs ELSE GPR[I.rs]
         write == I.op = "csrrw" \/ I.rs # 0
     IN IF Refused(I.csr, write) THEN Illegal(c)
        ELSE \E old \in ReadValues(c, I.csr) :
               LET new == CASE I.op = "csrrw" -> src
                            [] I.op = "csrrs" -> Or(old, src)
                            [] OTHER          -> AndNot(old, src)
                   c2  == IF write /\ I.csr \in CsrName
                          THEN [c EXCEPT ![I.csr] = CsrWriteValue(c, I.csr, new)]
                          ELSE c
               IN IF write /\ BadTvec(I.csr, new) THEN Exit("abort")
                  ELSE Retire(c2, I.rd, old, Add(pc, 4))
EcallAnyResult(c) ==       \* fault: the result of the test is not looked at
  /\ I.op = "ecall"
  /\ IF TestExits /\ GPR[A7] = ExitCall THEN Exit("pass")
     ELSE RaiseTrap(c, FALSE, priv + 8, 0)
Ecall(c) ==
  /\ I.op = "ecall"
  /\ IF TestExits /\ GPR[A7] = ExitCall
     THEN Exit(IF GPR[A0] = 0 THEN "pass" ELSE "fail")
     ELSE RaiseTrap(c, FALSE, priv + 8, 0)
Ebreak(c) ==
  /\ I.op = "ebreak"
  /\ IF TestExits /\ GPR[A0] = 0 THEN Exit("pass") ELSE RaiseTrap(c, FALSE, 3, 0)
Returned(s) ==        \* the mstatus mret leaves
  (s \ CsrBits) \cup {MPIE}
    \cup (IF MPIE \in s THEN {MIE} ELSE {})
    \cup (IF MppOf(s) = ModeM THEN s \cap {MPRV} ELSE {})
MretInst(c) ==
  /\ I.op = "mret"
  /\ IF priv # ModeM THEN Illegal(c)
     ELSE LET s == Bits(c["mstatus"]) IN
       /\ csr' = [c EXCEPT !["mstatus"] = FromBits(Returned(s))]
       /\ priv' = MppOf(s)
       /\ pc' = c["mepc"]
       /\ NoGPR
       /\ UNCHANGED <<mem, exit>>

Execute(c) ==
  \/ Lui(c) \/ Auipc(c) \/ Op(c) \/ Nop(c) \/ Unknown(c)
  \/ Jump(c) \/ BranchInst(c) \/ Load(c) \/ Store(c)
  \/ CsrOp(c) \/ Ecall(c) \/ Ebreak(c) \/ MretInst(c)

(* A test is given up at the first step that finds mcycle at 2e6; mcycle   *)
(* being arbitrary, that may be any.                                       *)
Timeout == TestExits /\ Exit("timeout")

Step(lines) ==
  LET c == PreExec(lines) IN
  /\ exit = "none"
  /\ \/ Timeout
     \/ Interrupt(c)
     \/ /\ PendingInts(c) = {}
        /\ \/ FetchMisaligned(c) \/ FetchFault(c)
           \/ pc % 4 = 0 /\ Mapped(pc) /\ Execute(c)

Next == \E lines \in IrqLines : Step(lines)

Spec == Init /\ [][Next]_vars
=============================================================================
