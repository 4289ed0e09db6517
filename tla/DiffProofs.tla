---------------------------- MODULE DiffProofs -----------------------------
(***************************************************************************)
(* The difference test is sound, for every program and width, with and     *)
(* without -delay and -pc, under the options with which the two machines   *)
(* start alike (SameReset): up to a clock edge at which the core and the   *)
(* simulator part, the simulator that is stepped a clock late computes     *)
(* what the core computed, so that no comparison fails and nothing escapes *)
(* it.  Under all options, the watchdog never bites.                       *)
(***************************************************************************)
EXTENDS CoreSimulates, DiffTest

(***************************************************************************)
(* The operators of Word, Isa, CsrFile, Memory and RefAlu are the same in  *)
(* the instance of the test's simulator as well.                           *)
(***************************************************************************)
LEMMA TwinPow == Sim!Pow2 = Pow2
  BY DEF Pow2, Sim!Pow2
LEMMA TwinBase == /\ Sim!W = W /\ Sim!Word = Word /\ Sim!BitPos = BitPos
  BY DEF Sim!W, W, Sim!Word, Word, Sim!BitPos, BitPos
LEMMA TwinBits == /\ Sim!BitsOf = BitsOf
  BY TwinPow, TwinBase DEF Sim!BitsOf, BitsOf
LEMMA TwinWordOf == Sim!WordOf = WordOf
  BY TwinPow, TwinBase, TwinBits DEF Sim!WordOf, WordOf
LEMMA TwinSets == /\ \A a : Sim!Bits(a) = Bits(a)
                  /\ \A S : Sim!FromBits(S) = FromBits(S)
  BY TwinBits, TwinWordOf DEF Sim!Bits, Bits, Sim!FromBits, FromBits
LEMMA TwinNumbers ==
  /\ \A a, b : Sim!Add(a, b) = Add(a, b)
  /\ \A a : Sim!Signed(a) = Signed(a)
  /\ \A a : Sim!SignedLo(a) = SignedLo(a)
  /\ \A a : Sim!Trunc(a) = Trunc(a)
  /\ \A a : Sim!Int32(a) = Int32(a)
  /\ \A a, b : Sim!CDiv(a, b) = CDiv(a, b)
  /\ \A a, b : Sim!CMod(a, b) = CMod(a, b)
  /\ Sim!Half = Half /\ Sim!LongMin = LongMin /\ Sim!ByteBits = ByteBits
<1>1. \A a : Sim!Trunc(a) = Trunc(a)
  BY TwinBase DEF Sim!Trunc, Trunc
<1>2. \A a : Sim!SignedLo(a) = SignedLo(a)
  BY TwinBase DEF Sim!SignedLo, SignedLo
<1>3. \A a : Sim!Signed(a) = Signed(a)
  BY TwinBase DEF Sim!Signed, Signed
<1>4. \A a : Sim!Magnitude(a) = Magnitude(a)
  BY DEF Sim!Magnitude, Magnitude
<1>5. \A a, b : Sim!CDiv(a, b) = CDiv(a, b)
  BY <1>4 DEF Sim!CDiv, CDiv
<1>6. \A a, b : Sim!CMod(a, b) = CMod(a, b)
  BY <1>4 DEF Sim!CMod, CMod
<1> QED
  BY <1>1, <1>2, <1>3, <1>5, <1>6, TwinBase
  DEF Sim!Add, Add, Sim!Int32, Int32, Sim!Half, Half, Sim!LongMin, LongMin, Sim!ByteBits, ByteBits
LEMMA TwinBitwise ==
  /\ \A a, b : Sim!And(a, b) = And(a, b)
  /\ \A a, b : Sim!Or(a, b) = Or(a, b)
  /\ \A a, b : Sim!Xor(a, b) = Xor(a, b)
  /\ \A a, b : Sim!AndNot(a, b) = AndNot(a, b)
  /\ \A a, b : Sim!Shl(a, b) = Shl(a, b)
  /\ \A a, b : Sim!Shr(a, b) = Shr(a, b)
  /\ \A a, n, s : Sim!Extend(a, n, s) = Extend(a, n, s)
<1>1. \A a, b : Sim!And(a, b) = And(a, b)
  BY TwinSets DEF Sim!And, And
<1>2. \A a, b : Sim!Or(a, b) = Or(a, b)
  BY TwinSets DEF Sim!Or, Or
<1>3. \A a, b : Sim!Xor(a, b) = Xor(a, b)
  BY TwinSets DEF Sim!Xor, Xor
<1>4. \A a, b : Sim!AndNot(a, b) = AndNot(a, b)
  BY TwinSets DEF Sim!AndNot, AndNot
<1>5. \A a, b : Sim!Shl(a, b) = Shl(a, b)
  <2> SUFFICES ASSUME NEW a, NEW b PROVE Sim!Shl(a, b) = Shl(a, b)
    OBVIOUS
  <2>1. {i \in Sim!BitPos : i - b \in Sim!Bits(a)} = {i \in BitPos : i - b \in Bits(a)}
    BY TwinSets, TwinBase
  <2> QED
    BY <2>1, TwinSets DEF Sim!Shl, Shl
<1>6. \A a, b : Sim!Shr(a, b) = Shr(a, b)
  <2> SUFFICES ASSUME NEW a, NEW b PROVE Sim!Shr(a, b) = Shr(a, b)
    OBVIOUS
  <2>1. {i \in Sim!BitPos : i + b \in Sim!Bits(a)} = {i \in BitPos : i + b \in Bits(a)}
    BY TwinSets, TwinBase
  <2> QED
    BY <2>1, TwinSets DEF Sim!Shr, Shr
<1>7. \A a, n, s : Sim!Extend(a, n, s) = Extend(a, n, s)
  <2> SUFFICES ASSUME NEW a, NEW n, NEW s PROVE Sim!Extend(a, n, s) = Extend(a, n, s)
    OBVIOUS
  <2>1. {i \in Sim!BitPos : IF i < n THEN i \in Sim!Bits(a) ELSE s /\ n - 1 \in Sim!Bits(a)}
        = {i \in BitPos : IF i < n THEN i \in Bits(a) ELSE s /\ n - 1 \in Bits(a)}
    BY TwinSets, TwinBase
  <2> QED
    BY <2>1, TwinSets DEF Sim!Extend, Extend
<1> QED
  BY <1>1, <1>2, <1>3, <1>4, <1>5, <1>6, <1>7
LEMMA TwinExec ==
  ASSUME NEW a, NEW b, NEW p \in BOOLEAN,
         NEW o \in {"ADD", "SUB", "SLL", "SLT", "SLTU", "XOR", "SRL", "SRA", "OR", "AND",
                "MUL", "MULH", "MULHU", "MULHSU", "DIV", "DIVU", "REM", "REMU"}
  PROVE Sim!AluExec(a, b, o, p) = AluExec(a, b, o, p)
  BY TwinPow, TwinBase, TwinNumbers, TwinBitwise, SMTT(60) DEF Sim!AluExec, AluExec

LEMMA TwinIsa ==
  /\ Sim!InstN = "N" /\ Sim!InstI = "I" /\ Sim!InstR = "R" /\ Sim!InstB = "B"
  /\ Sim!InstU = "U" /\ Sim!Reg = Reg /\ Sim!CsrRwOps = CsrRwOps
  /\ Sim!CsrEmpty = CsrEmpty /\ Sim!CsrName = CsrName /\ Sim!CsrSimOnly = CsrSimOnly
  /\ Sim!AluOp = AluOp /\ Sim!Op32 = Op32
  /\ \A i : Sim!IsLoad(i) = IsLoad(i) /\ Sim!IsStore(i) = IsStore(i)
  /\ \A op : Sim!AccessSize(op) = AccessSize(op)
  /\ \A op : Sim!LoadSigned(op) = LoadSigned(op)
<1>1. \A i : Sim!IsStore(i) = IsStore(i)
  BY DEF Sim!IsStore, IsStore, Sim!StoreOps, StoreOps
<1>2. \A i : Sim!IsLoad(i) = IsLoad(i)
  BY <1>1 DEF Sim!IsLoad, IsLoad
<1>3. \A op : Sim!AccessSize(op) = AccessSize(op)
  BY DEF Sim!AccessSize, AccessSize
<1>4. \A op : Sim!LoadSigned(op) = LoadSigned(op)
  BY DEF Sim!LoadSigned, LoadSigned
<1>5. Sim!AluOp = AluOp /\ Sim!Op32 = Op32
  BY Zenon DEF Sim!AluOp, AluOp, Sim!Op32, Op32
<1> QED
  BY <1>1, <1>2, <1>3, <1>4, <1>5
  DEF Sim!InstN, Sim!InstI, Sim!InstR, Sim!InstB, Sim!InstU, Sim!Reg, Reg,
      Sim!CsrRwOps, CsrRwOps, Sim!CsrEmpty, CsrEmpty, Sim!CsrName, CsrName,
      Sim!CsrSimOnly, CsrSimOnly

LEMMA TwinCsr ==
  /\ Sim!CsrBits = CsrBits /\ Sim!IntNo = IntNo /\ Sim!CsrReset = CsrReset
  /\ Sim!ModeU = ModeU /\ Sim!ModeM = ModeM
  /\ \A S : Sim!MppOf(S) = MppOf(S)
  /\ \A m : Sim!MppBits(m) = MppBits(m)
  /\ \A name : Sim!EnWrite(name) = EnWrite(name)
<1>1. \A S : Sim!MppOf(S) = MppOf(S)
  BY DEF Sim!MppOf, MppOf, Sim!ModeU, ModeU, Sim!ModeS, ModeS, Sim!ModeH, ModeH,
         Sim!ModeM, ModeM
<1>2. \A m : Sim!MppBits(m) = MppBits(m)
  BY DEF Sim!MppBits, MppBits, Sim!ModeS, ModeS, Sim!ModeH, ModeH, Sim!ModeM, ModeM
<1>3. \A name : Sim!EnWrite(name) = EnWrite(name)
  BY DEF Sim!EnWrite, EnWrite
<1>4. Sim!CsrReset = CsrReset
  BY TwinSets DEF Sim!CsrReset, CsrReset, Sim!CsrName, CsrName
<1> QED
  BY <1>1, <1>2, <1>3, <1>4
  DEF Sim!CsrBits, CsrBits, Sim!IntNo, IntNo, Sim!ModeU, ModeU, Sim!ModeM, ModeM

LEMMA TwinMemory ==
  /\ Sim!Memories = Memories
  /\ \A a : Sim!Mapped(a) = Mapped(a) /\ Sim!IndexOf(a) = IndexOf(a)
  /\ \A m, a : Sim!InstAt(m, a) = InstAt(m, a)
  /\ \A old, new, strb : Sim!Merge(old, new, strb) = Merge(old, new, strb)
  /\ \A op, a : Sim!Strobes(op, a) = Strobes(op, a)
  /\ \A op, a : Sim!Misaligned(op, a) = Misaligned(op, a)
<1>1. \A a : Sim!Mapped(a) = Mapped(a) /\ Sim!IndexOf(a) = IndexOf(a)
  BY DEF Sim!Mapped, Mapped, Sim!IndexOf, IndexOf
<1>2. \A m, a : Sim!InstAt(m, a) = InstAt(m, a)
  BY <1>1 DEF Sim!InstAt, InstAt, Sim!HalfAt, HalfAt
<1>3. \A strb : Sim!StrobeBits(strb) = StrobeBits(strb)
  BY TwinBase, TwinNumbers DEF Sim!StrobeBits, StrobeBits
<1>4. \A old, new, strb : Sim!Merge(old, new, strb) = Merge(old, new, strb)
  BY TwinSets, <1>3 DEF Sim!Merge, Merge
<1>5. \A op, a : Sim!Misaligned(op, a) = Misaligned(op, a)
  BY TwinIsa DEF Sim!Misaligned, Misaligned
<1>6. \A op, a : Sim!Strobes(op, a) = Strobes(op, a)
  BY TwinIsa DEF Sim!Strobes, Strobes
<1>7. Sim!Memories = Memories
  BY TwinBase DEF Sim!Memories, Memories, Sim!MemIndex, MemIndex
<1> QED
  BY <1>1, <1>2, <1>4, <1>5, <1>6, <1>7

(* The helpers of RefCore are the same in both instances. *)
LEMMA TwinHelpers ==
  /\ \A c, no : Sim!TrapPc(c, no) = Ref!TrapPc(c, no)
  /\ \A s : Sim!Returned(s) = Ref!Returned(s)
  /\ \A op, a, b : Sim!Compare(op, a, b) = Ref!Compare(op, a, b)
<1>1. \A c, no : Sim!TrapPc(c, no) = Ref!TrapPc(c, no)
  BY SameNumbers, TwinNumbers DEF Sim!TrapPc, Ref!TrapPc
<1>3. \A s : Sim!Returned(s) = Ref!Returned(s)
  BY SameCsr, TwinCsr DEF Sim!Returned, Ref!Returned
<1>4. \A op, a, b : Sim!Compare(op, a, b) = Ref!Compare(op, a, b)
  BY SameNumbers, TwinNumbers DEF Sim!Compare, Ref!Compare
<1> QED
  BY <1>1, <1>3, <1>4

(* So is csr_write, but for -onlymodem. *)
LEMMA TwinWrite ==
  ASSUME ~OnlyModeM
  PROVE  \A c, name, v : Sim!CsrWriteValue(c, name, v) = Ref!CsrWriteValue(c, name, v)
  BY SameSets, TwinSets, SameCsr, TwinCsr DEF Sim!CsrWriteValue, Ref!CsrWriteValue

(***************************************************************************)
(* The step of the simulator as a function of its state: without           *)
(* interrupts, without a read of cycle or of a register it alone has, and  *)
(* until it exits, it has one outcome.                                     *)
(***************************************************************************)
Became(s, r, v, next, c, p, m) ==
  [pc |-> next, GPR |-> IF r = 0 THEN s.GPR ELSE [s.GPR EXCEPT ![r] = v],
   csr |-> c, priv |-> p, mem |-> m,
   debug |-> [pc |-> s.pc, num |-> r, wdata |-> IF r = 0 THEN 0 ELSE v]]
Retired(s, r, v, next) == Became(s, r, v, next, s.csr, s.priv, s.mem)
Trapped(s, no, tval) ==
  LET status == Bits(s.csr["mstatus"])
      c == [s.csr EXCEPT !["mtval"] = tval, !["mcause"] = no, !["mepc"] = s.pc,
                         !["mstatus"] =
                           FromBits((status \ {MIE, MPIE, MPP0, MPP1})
                                    \cup (IF MIE \in status THEN {MPIE} ELSE {})
                                    \cup MppBits(s.priv))]
  IN Became(s, 0, 0, Ref!TrapPc(s.csr, no), c, ModeM, s.mem)

Jumped(s, i) ==
  LET npc == CASE i.op = "jal"  -> Add(s.pc, i.imm)
               [] i.op = "jalr" -> Add(s.GPR[i.rs], (i.imm \div 2) * 2)
               [] OTHER -> IF Ref!Compare(i.op, s.GPR[i.rs], s.GPR[i.rt])
                           THEN Add(s.pc, i.imm) ELSE Add(s.pc, 4)
  IN IF npc % 4 # 0 THEN Trapped(s, 0, npc)
     ELSE IF i.type = "B" THEN Retired(s, 0, 0, npc)
     ELSE Retired(s, i.rd, Add(s.pc, 4), npc)
Accessed(s, i) ==
  LET a   == Add(s.GPR[i.rs], i.imm)
      bit == (a % 8) * ByteBits
      old == s.mem[IndexOf(a)]
  IN IF Misaligned(i.op, a) THEN Trapped(s, IF IsStore(i) THEN 6 ELSE 4, a)
     ELSE IF ~Mapped(a) THEN Trapped(s, IF IsStore(i) THEN 7 ELSE 5, a)
     ELSE IF IsStore(i)
          THEN Became(s, 0, 0, Add(s.pc, 4), s.csr, s.priv,
                      [s.mem EXCEPT ![IndexOf(a)] =
                         Merge(@, Shl(s.GPR[i.rt], bit), Strobes(i.op, a))])
          ELSE Retired(s, i.rd,
                       Extend(Shr(old, bit), AccessSize(i.op) * ByteBits, LoadSigned(i.op)),
                       Add(s.pc, 4))
CsrDone(s, i) ==
  LET src   == IF i.csri THEN i.rs ELSE s.GPR[i.rs]
      write == i.op = "csrrw" \/ i.rs # 0
      old   == s.csr[i.csr]
      new   == CASE i.op = "csrrw" -> src
                 [] i.op = "csrrs" -> Or(old, src)
                 [] OTHER          -> AndNot(old, src)
      c     == IF write
               THEN [s.csr EXCEPT ![i.csr] = Ref!CsrWriteValue(s.csr, i.csr, new)]
               ELSE s.csr
  IN IF ~(s.priv = ModeM /\ (write => EnWrite(i.csr))) \/ i.csr \notin CsrName
     THEN Trapped(s, 2, InstAt(s.mem, s.pc))
     ELSE Became(s, i.rd, old, Add(s.pc, 4), c, s.priv, s.mem)
Called(s, i) ==
  LET status == Bits(s.csr["mstatus"]) IN
  IF i.op = "ecall" THEN Trapped(s, s.priv + 8, 0)
  ELSE IF i.op = "ebreak" THEN Trapped(s, 3, 0)
  ELSE IF s.priv # ModeM THEN Trapped(s, 2, InstAt(s.mem, s.pc))
  ELSE Became(s, 0, 0, s.csr["mepc"],
              [s.csr EXCEPT !["mstatus"] = FromBits(Ref!Returned(status))],
              MppOf(status), s.mem)
Executed(s, i) ==
  IF i.type = "N" THEN Trapped(s, 2, InstAt(s.mem, s.pc))
  ELSE IF i.type = "U"
       THEN Retired(s, i.rd, IF i.auipc THEN Add(i.imm, s.pc) ELSE i.imm, Add(s.pc, 4))
  ELSE IF i.op = "nop" THEN Retired(s, 0, 0, Add(s.pc, 4))
  ELSE IF i.fusel \in {"alu", "mdu"}
       THEN Retired(s, i.rd, AluExec(s.GPR[i.rs], IF i.type = "I" THEN i.imm ELSE s.GPR[i.rt],
                                     AluOp[i.op], i.op \in Op32), Add(s.pc, 4))
  ELSE IF i.fusel = "bru" THEN Jumped(s, i)
  ELSE IF i.fusel = "lsu" THEN Accessed(s, i)
  ELSE IF i.op \in CsrRwOps THEN CsrDone(s, i)
  ELSE Called(s, i)

InstOf(s) == InstTable[InstAt(s.mem, s.pc)]
After(s) ==
  IF s.pc % 4 # 0 THEN Trapped(s, 0, s.pc)
  ELSE IF ~Mapped(s.pc) THEN Trapped(s, 1, s.pc)
  ELSE Executed(s, InstOf(s))

SimState  == [pc |-> rpc, GPR |-> rGPR, csr |-> rcsr, priv |-> rpriv, mem |-> rmem,
              debug |-> debug]
ArchState == [pc |-> ArchPc, GPR |-> GPRs, csr |-> Csrs, priv |-> mode, mem |-> mem,
              debug |-> written]

(* A state from which the outcome is determined. *)
ReadsCycle(i) == i.op \in {"csrrs", "csrrc"} /\ i.csr = "cycle"
SimAlone(s, i) ==     \* a register the core does not have
  /\ i.op \in CsrRwOps /\ i.csr \in CsrSimOnly /\ s.priv = ModeM
  /\ (i.op = "csrrw" \/ i.rs # 0) => i.csr = "mcycle"
Aborts(s, i) ==       \* the assertion in csr_write ends the simulator
  LET src == IF i.csri THEN i.rs ELSE s.GPR[i.rs]
      new == CASE i.op = "csrrw" -> src
               [] i.op = "csrrs" -> Or(s.csr["mtvec"], src)
               [] OTHER          -> AndNot(s.csr["mtvec"], src)
  IN /\ i.op \in CsrRwOps /\ i.csr = "mtvec" /\ s.priv = ModeM
     /\ i.op = "csrrw" \/ i.rs # 0
     /\ new % 4 > 1
Sound(s) ==
  /\ s.csr \in [CsrName -> Word] /\ s.csr["mip"] = 0 /\ s.priv \in Mode
  /\ s.mem \in Memories /\ s.pc \in Word
Determined(s) ==
  /\ Sound(s)
  /\ s.pc % 4 = 0 /\ Mapped(s.pc) => ~ReadsCycle(InstOf(s)) /\ ~SimAlone(s, InstOf(s))

LEMMA SimRetire ==
  ASSUME NEW r, NEW v, NEW next, Sim!Retire(rcsr, r, v, next)
  PROVE  SimState' = Retired(SimState, r, v, next)
  BY DEF Sim!Retire, Sim!SetGPR, Retired, Became, SimState

LEMMA SimTrap ==
  ASSUME NEW no, no \in Nat, NEW tval, Sim!RaiseTrap(rcsr, FALSE, no, tval)
  PROVE  SimState' = Trapped(SimState, no, tval)
<1> DEFINE bits == Bits(rcsr["mstatus"])
           c == [rcsr EXCEPT !["mtval"] = tval, !["mcause"] = no, !["mepc"] = rpc,
                           !["mstatus"] =
                             FromBits((bits \ {MIE, MPIE, MPP0, MPP1})
                                      \cup (IF MIE \in bits THEN {MPIE} ELSE {})
                                      \cup MppBits(rpriv))]
<1>1. no + (IF FALSE THEN Sim!W \div 2 ELSE 0) = no
  OBVIOUS
<1>2. rcsr' = c
  BY <1>1, TwinSets, TwinCsr DEF Sim!RaiseTrap
<1>3. Sim!NoGPR /\ rpc' = Sim!TrapPc(rcsr, no) /\ rpriv' = ModeM /\ rmem' = rmem
  BY TwinCsr DEF Sim!RaiseTrap
<1>4. Sim!TrapPc(rcsr, no) = Ref!TrapPc(rcsr, no)
  BY TwinHelpers
<1> HIDE DEF bits, c
<1>5. SimState' = Became(SimState, 0, 0, Ref!TrapPc(rcsr, no), c, ModeM, rmem)
  BY <1>2, <1>3, <1>4 DEF Sim!NoGPR, Sim!SetGPR, Became, SimState
<1> QED
  BY <1>5 DEF Trapped, SimState, c, bits

LEMMA SimJump ==
  ASSUME NEW i, i = InstOf(SimState), Row(i.type, i.fusel, i.op), Sim!I = i,
         Sim!Jump(rcsr) \/ Sim!BranchInst(rcsr)
  PROVE  SimState' = Jumped(SimState, i) /\ i.fusel = "bru"
<1>2. CASE Sim!Jump(rcsr)
  <2> DEFINE npc == IF i.op = "jal" THEN Add(rpc, i.imm)
                    ELSE Add(rGPR[i.rs], (i.imm \div 2) * 2)
  <2>1. i.op \in {"jal", "jalr"} /\ i.fusel = "bru" /\ i.type # "B"
    BY <1>2 DEF Sim!Jump, Row, AluOps, AluImmOps, ShiftOps, MduOps, LoadOps, StoreOps,
                CondOps, CsrRwOps
  <2>2. IF npc % 4 # 0 THEN Sim!RaiseTrap(rcsr, FALSE, 0, npc)
        ELSE Sim!Retire(rcsr, i.rd, Add(rpc, 4), npc)
    BY <1>2, TwinNumbers, Zenon DEF Sim!Jump
  <2> HIDE DEF npc
  <2>3. SimState' = IF npc % 4 # 0 THEN Trapped(SimState, 0, npc)
              ELSE Retired(SimState, i.rd, Add(rpc, 4), npc)
    BY <2>2, SimTrap, SimRetire
  <2> QED
    BY <2>1, <2>3 DEF Jumped, npc, SimState
<1>3. CASE Sim!BranchInst(rcsr)
  <2> DEFINE npc == IF Ref!Compare(i.op, rGPR[i.rs], rGPR[i.rt])
                    THEN Add(rpc, i.imm) ELSE Add(rpc, 4)
  <2>1. i.type = "B" /\ i.fusel = "bru" /\ i.op \notin {"jal", "jalr"}
    BY <1>3, TwinIsa DEF Sim!BranchInst, Row, CondOps
  <2>2. IF npc % 4 # 0 THEN Sim!RaiseTrap(rcsr, FALSE, 0, npc)
        ELSE Sim!Retire(rcsr, 0, 0, npc)
    BY <1>3, TwinNumbers, TwinHelpers, Zenon DEF Sim!BranchInst
  <2> HIDE DEF npc
  <2>3. SimState' = IF npc % 4 # 0 THEN Trapped(SimState, 0, npc)
              ELSE Retired(SimState, 0, 0, npc)
    BY <2>2, SimTrap, SimRetire
  <2> QED
    BY <2>1, <2>3 DEF Jumped, npc, SimState
<1> QED
  BY <1>2, <1>3

LEMMA SimAccess ==
  ASSUME NEW i, i = InstOf(SimState), Row(i.type, i.fusel, i.op), Sim!I = i,
         Sim!Load(rcsr) \/ Sim!Store(rcsr),
         exit' = "none"
  PROVE  SimState' = Accessed(SimState, i) /\ i.fusel = "lsu"
<1> DEFINE a == Add(rGPR[i.rs], i.imm)   bit == (a % 8) * ByteBits
<1>1. Sim!EffAddr = a /\ Sim!ByteBit = bit
  BY TwinNumbers DEF Sim!EffAddr, Sim!ByteBit
<1> HIDE DEF a, bit
<1>2. CASE Sim!Load(rcsr)
  <2> DEFINE v == Extend(Shr(rmem[IndexOf(a)], bit), AccessSize(i.op) * ByteBits,
                         LoadSigned(i.op))
  <2>1. ~IsStore(i) /\ i.fusel = "lsu"
    BY <1>2, TwinIsa DEF Sim!Load, IsLoad
  <2>2. IF Misaligned(i.op, a) THEN Sim!RaiseTrap(rcsr, FALSE, 4, a)
        ELSE IF ~Mapped(a) THEN Sim!RaiseTrap(rcsr, FALSE, 5, a)
        ELSE Sim!Retire(rcsr, i.rd, v, Add(rpc, 4))
    BY <1>1, <1>2, TwinIsa, TwinMemory, TwinNumbers, TwinBitwise, Zenon DEF Sim!Load
  <2> HIDE DEF v
  <2>3. SimState' = IF Misaligned(i.op, a) THEN Trapped(SimState, 4, a)
              ELSE IF ~Mapped(a) THEN Trapped(SimState, 5, a)
              ELSE Retired(SimState, i.rd, v, Add(rpc, 4))
    BY <2>2, SimTrap, SimRetire
  <2> QED
    BY <2>1, <2>3 DEF Accessed, v, a, bit, SimState
<1>3. CASE Sim!Store(rcsr)
  <2> DEFINE m == [rmem EXCEPT ![IndexOf(a)] =
                     Merge(@, Shl(rGPR[i.rt], bit), Strobes(i.op, a))]
  <2>1. IsStore(i) /\ i.fusel = "lsu"
    BY <1>3, TwinIsa DEF Sim!Store, IsStore, Row, AluOps, AluImmOps, ShiftOps, MduOps,
                       LoadOps, StoreOps, CondOps, CsrRwOps
  <2>2. IF Misaligned(i.op, a) THEN Sim!RaiseTrap(rcsr, FALSE, 6, a)
        ELSE IF ~Mapped(a) THEN Sim!RaiseTrap(rcsr, FALSE, 7, a)
        ELSE rmem' = m /\ rcsr' = rcsr /\ rpc' = Add(rpc, 4) /\ Sim!NoGPR /\ rpriv' = rpriv
    BY <1>1, <1>3, TwinMemory, TwinNumbers, TwinBitwise DEF Sim!Store, Sim!Exit
  <2> HIDE DEF m
  <2>3. SimState' = IF Misaligned(i.op, a) THEN Trapped(SimState, 6, a)
              ELSE IF ~Mapped(a) THEN Trapped(SimState, 7, a)
              ELSE Became(SimState, 0, 0, Add(rpc, 4), rcsr, rpriv, m)
    <3>1. CASE Misaligned(i.op, a) \/ ~Mapped(a)
      BY <2>2, <3>1, SimTrap
    <3>2. CASE ~(Misaligned(i.op, a) \/ ~Mapped(a))
      BY <2>2, <3>2 DEF Sim!NoGPR, Sim!SetGPR, Became, SimState
    <3> QED
      BY <3>1, <3>2
  <2> QED
    BY <2>1, <2>3 DEF Accessed, m, a, bit, SimState
<1> QED
  BY <1>2, <1>3

(* The CSR instructions it refuses. *)
LEMMA SimRefuses ==
  ASSUME NEW i, i.op \in CsrRwOps, ~SimAlone(SimState, i),
         NEW write, write = (i.op = "csrrw" \/ i.rs # 0)
  PROVE  Sim!Refused(i.csr, write)
         <=> ~(rpriv = ModeM /\ (write => EnWrite(i.csr))) \/ i.csr \notin CsrName
<1>1. Sim!Permitted(i.csr, write) <=> rpriv = ModeM /\ (write => EnWrite(i.csr))
  BY TwinCsr DEF Sim!Permitted
<1>2. Sim!Readable = CsrName \cup CsrSimOnly
      /\ Sim!Writable = (CsrName \ {"cycle", "mhartid"}) \cup {"mcycle"}
  BY TwinIsa DEF Sim!Readable, Sim!Writable
<1>3. i.csr \in CsrSimOnly /\ rpriv = ModeM => write /\ i.csr # "mcycle"
  BY DEF SimAlone, SimState
<1>4. CsrSimOnly \cap CsrName = {}
  BY DEF CsrSimOnly, CsrName
<1>5. EnWrite(i.csr) => i.csr \notin {"cycle", "mhartid"}
  BY DEF EnWrite
<1>6. i.csr \in CsrSimOnly /\ i.csr # "mcycle" => i.csr \notin Sim!Writable
  BY <1>2, <1>4
<1>7. Sim!Refused(i.csr, write)
      <=> \/ ~(rpriv = ModeM /\ (write => EnWrite(i.csr)))
          \/ i.csr \notin CsrName \cup CsrSimOnly
          \/ write /\ i.csr \notin Sim!Writable
  BY <1>1, <1>2, Zenon DEF Sim!Refused
<1>8. i.csr \in CsrName /\ i.csr \notin {"cycle", "mhartid"} => i.csr \in Sim!Writable
  BY <1>2
<1> QED
  BY <1>3, <1>4, <1>5, <1>6, <1>7, <1>8

LEMMA SimCsr ==
  ASSUME NEW i, i = InstOf(SimState), Row(i.type, i.fusel, i.op), Sim!I = i,
         ~ReadsCycle(i), ~SimAlone(SimState, i), ~OnlyModeM,
         Sim!CsrOp(rcsr), exit' = "none"
  PROVE  SimState' = CsrDone(SimState, i) /\ i.fusel = "csr" /\ i.op \in CsrRwOps
<1> DEFINE src   == IF i.csri THEN i.rs ELSE rGPR[i.rs]
           write == i.op = "csrrw" \/ i.rs # 0
           old   == rcsr[i.csr]
           new   == CASE i.op = "csrrw" -> src
                      [] i.op = "csrrs" -> Or(old, src)
                      [] OTHER          -> AndNot(old, src)
           c     == IF write
                    THEN [rcsr EXCEPT ![i.csr] = Ref!CsrWriteValue(rcsr, i.csr, new)]
                    ELSE rcsr
<1>1. i.op \in CsrRwOps /\ i.fusel = "csr"
  BY TwinIsa DEF Sim!CsrOp, Row, AluOps, AluImmOps, ShiftOps, MduOps, LoadOps, StoreOps,
               CondOps, CsrRwOps
<1>2. Sim!Refused(i.csr, write)
      <=> ~(rpriv = ModeM /\ (write => EnWrite(i.csr))) \/ i.csr \notin CsrName
  BY <1>1, SimRefuses
<1>3. CASE Sim!Refused(i.csr, write)
  <2>1. Sim!Illegal(rcsr)
    BY <1>3, TwinIsa, Zenon DEF Sim!CsrOp
  <2>2. SimState' = Trapped(SimState, 2, InstAt(rmem, rpc))
    BY <2>1, SimTrap, TwinMemory DEF Sim!Illegal
  <2> QED
    BY <1>1, <1>2, <1>3, <2>2 DEF CsrDone, SimState
<1>4. CASE ~Sim!Refused(i.csr, write)
  <2>1. Sim!ReadValues(rcsr, i.csr) = {old}
    BY <1>1, <1>2, <1>4 DEF Sim!ReadValues, ReadsCycle, EnWrite, CsrRwOps, CsrName
  <2> DEFINE value(x) == CASE i.op = "csrrw" -> src
                           [] i.op = "csrrs" -> Sim!Or(x, src)
                           [] OTHER          -> Sim!AndNot(x, src)
             file(x) == IF write /\ i.csr \in Sim!CsrName
                        THEN [rcsr EXCEPT ![i.csr] = Sim!CsrWriteValue(rcsr, i.csr, value(x))]
                        ELSE rcsr
  <2>0. \E x \in Sim!ReadValues(rcsr, i.csr) :
          IF write /\ Sim!BadTvec(i.csr, value(x)) THEN Sim!Exit("abort")
          ELSE Sim!Retire(file(x), i.rd, x, Sim!Add(rpc, 4))
    BY <1>4, TwinIsa, Zenon DEF Sim!CsrOp
  <2> HIDE DEF file, value, write
  <2>2. \E x \in Sim!ReadValues(rcsr, i.csr) : Sim!Retire(file(x), i.rd, x, Sim!Add(rpc, 4))
    BY <2>0 DEF Sim!Exit
  <2> USE DEF file, value
  <2> HIDE DEF write, src
  <2>3. value(old) = new
    BY TwinBitwise
  <2> HIDE DEF value, new
  <2>4. file(old) = c
    BY <1>2, <1>4, <2>3, TwinIsa, TwinWrite
  <2> HIDE DEF file
  <2>5. Sim!Retire(c, i.rd, old, Add(rpc, 4))
    BY <2>1, <2>2, <2>4, TwinNumbers
  <2> HIDE DEF c, old
  <2>6. SimState' = Became(SimState, i.rd, old, Add(rpc, 4), c, rpriv, rmem)
    BY <2>5 DEF Sim!Retire, Sim!SetGPR, Became, SimState
  <2> QED
    BY <1>1, <1>2, <1>4, <2>6 DEF CsrDone, c, old, new, write, src, SimState
<1> QED
  BY <1>3, <1>4

LEMMA SimCall ==
  ASSUME NEW i, i = InstOf(SimState), Row(i.type, i.fusel, i.op), Sim!I = i, rpriv \in Mode,
         Sim!Ecall(rcsr) \/ Sim!Ebreak(rcsr) \/ Sim!MretInst(rcsr),
         exit' = "none"
  PROVE  SimState' = Called(SimState, i) /\ i.fusel = "csr"
         /\ i.op \notin CsrRwOps \cup {"nop"}
<1>1. i.fusel = "csr" /\ i.op \in {"ecall", "ebreak", "mret"}
  BY DEF Sim!Ecall, Sim!Ebreak, Sim!MretInst, Row, AluOps, AluImmOps, ShiftOps, MduOps,
         LoadOps, StoreOps, CondOps, CsrRwOps
<1>2. CASE Sim!Ecall(rcsr)
  <2>1. i.op = "ecall" /\ Sim!RaiseTrap(rcsr, FALSE, rpriv + 8, 0)
    BY <1>2 DEF Sim!Ecall, Sim!Exit
  <2>2. rpriv + 8 \in Nat
    BY DEF Mode, ModeU, ModeS, ModeH, ModeM
  <2>3. SimState' = Trapped(SimState, rpriv + 8, 0)
    BY <2>1, <2>2, SimTrap
  <2> QED
    BY <1>1, <2>1, <2>3 DEF Called, CsrRwOps, SimState
<1>3. CASE Sim!Ebreak(rcsr)
  <2>1. i.op = "ebreak" /\ Sim!RaiseTrap(rcsr, FALSE, 3, 0)
    BY <1>3 DEF Sim!Ebreak, Sim!Exit
  <2> QED
    BY <1>1, <2>1, SimTrap DEF Called, CsrRwOps, SimState
<1>4. CASE Sim!MretInst(rcsr)
  <2>1. i.op = "mret"
    BY <1>4 DEF Sim!MretInst
  <2>2. CASE rpriv # ModeM
    <3>1. Sim!Illegal(rcsr)
      BY <1>4, <2>2, TwinCsr DEF Sim!MretInst
    <3>2. SimState' = Trapped(SimState, 2, InstAt(rmem, rpc))
      BY <3>1, SimTrap, TwinMemory DEF Sim!Illegal
    <3> QED
      BY <1>1, <2>1, <2>2, <3>2 DEF Called, CsrRwOps, SimState
  <2>3. CASE rpriv = ModeM
    <3> DEFINE status == Bits(rcsr["mstatus"])
               c == [rcsr EXCEPT !["mstatus"] = FromBits(Ref!Returned(status))]
    <3>1. rcsr' = c /\ rpriv' = MppOf(status) /\ rpc' = rcsr["mepc"] /\ Sim!NoGPR /\ rmem' = rmem
      BY <1>4, <2>3, TwinCsr, TwinSets, TwinHelpers DEF Sim!MretInst
    <3> HIDE DEF c
    <3>2. SimState' = Became(SimState, 0, 0, rcsr["mepc"], c, MppOf(status), rmem)
      BY <3>1 DEF Sim!NoGPR, Sim!SetGPR, Became, SimState
    <3> QED
      BY <1>1, <2>1, <2>3, <3>2 DEF Called, c, CsrRwOps, SimState
  <2> QED
    BY <2>2, <2>3
<1> QED
  BY <1>2, <1>3, <1>4

LEMMA SimOp ==
  ASSUME NEW i, i = InstOf(SimState), Row(i.type, i.fusel, i.op), Sim!I = i, Sim!Op(rcsr)
  PROVE  /\ SimState' = Retired(SimState, i.rd,
                    AluExec(rGPR[i.rs], IF i.type = "I" THEN i.imm ELSE rGPR[i.rt],
                            AluOp[i.op], i.op \in Op32), Add(rpc, 4))
         /\ i.fusel \in {"alu", "mdu"} /\ i.op # "nop" /\ i.type \notin {"N", "U"}
<1> DEFINE b == IF i.type = "I" THEN i.imm ELSE rGPR[i.rt]
<1>1. i.fusel \in {"alu", "mdu"} /\ i.op # "nop" /\ i.type \in {"I", "R"}
  BY TwinIsa DEF Sim!Op
<1>2. AluOp[i.op] \in {"ADD", "SUB", "SLL", "SLT", "SLTU", "XOR", "SRL", "SRA", "OR",
                       "AND", "MUL", "MULH", "MULHU", "MULHSU", "DIV", "DIVU", "REM",
                       "REMU"}
  BY <1>1 DEF Row, AluOp, AluOps, AluImmOps, ShiftOps, MduOps
<1> DEFINE o == AluOp[i.op]   w == i.op \in Op32
<1>3. w \in BOOLEAN
  OBVIOUS
<1> HIDE DEF o, w
<1>4. \A x, y : Sim!AluExec(x, y, o, w) = AluExec(x, y, o, w)
  BY <1>2, <1>3, TwinExec DEF o
<1>5. Sim!Retire(rcsr, i.rd, Sim!AluExec(rGPR[i.rs], b, o, w), Add(rpc, 4))
  BY TwinIsa, TwinNumbers DEF Sim!Op, o, w
<1> QED
  BY <1>1, <1>4, <1>5, SimRetire DEF o, w

LEMMA SimExecuted ==
  ASSUME Determined(SimState), rpc % 4 = 0, Mapped(rpc), Sim!Execute(rcsr),
         ~OnlyModeM, exit' = "none"
  PROVE  SimState' = Executed(SimState, InstOf(SimState))
<1> DEFINE i == InstOf(SimState)
<1>1. InstAt(rmem, rpc) \in InstWord
  BY MappedIndex, HalfInst DEF Determined, Sound, SimState, InstAt, Memories
<1>2. Row(i.type, i.fusel, i.op) /\ Sim!I = i
  BY <1>1, Rows, TwinMemory DEF InstOf, SimState, Sim!I
<1>3. ~ReadsCycle(i) /\ ~SimAlone(SimState, i) /\ rpriv \in Mode
  BY DEF Determined, Sound, SimState
<1> HIDE DEF i
<1>4. i = InstOf(SimState)
  BY DEF i
<1>5. CASE Sim!Lui(rcsr) \/ Sim!Auipc(rcsr)
  <2>1. i.type = "U"
    BY <1>2, <1>5, TwinIsa DEF Sim!Lui, Sim!Auipc
  <2>2. Sim!Retire(rcsr, i.rd, IF i.auipc THEN Add(i.imm, rpc) ELSE i.imm, Add(rpc, 4))
    BY <1>2, <1>5, TwinNumbers, Zenon DEF Sim!Lui, Sim!Auipc
  <2>3. SimState' = Retired(SimState, i.rd, IF i.auipc THEN Add(i.imm, rpc) ELSE i.imm,
                           Add(rpc, 4))
    BY <2>2, SimRetire
  <2> QED
    BY <1>4, <2>1, <2>3 DEF Executed, SimState
<1>6. CASE Sim!Op(rcsr)
  <2>1. /\ SimState' = Retired(SimState, i.rd,
                    AluExec(rGPR[i.rs], IF i.type = "I" THEN i.imm ELSE rGPR[i.rt],
                            AluOp[i.op], i.op \in Op32), Add(rpc, 4))
        /\ i.fusel \in {"alu", "mdu"} /\ i.op # "nop" /\ i.type \notin {"N", "U"}
    BY <1>2, <1>4, <1>6, SimOp, Zenon
  <2> QED
    BY <1>4, <2>1 DEF Executed, SimState
<1>7. CASE Sim!Nop(rcsr)
  <2>1. i.op = "nop" /\ i.type \notin {"N", "U"}
    BY <1>2, <1>7, TwinIsa DEF Sim!Nop, Row, AluOps, AluImmOps, ShiftOps
  <2>2. SimState' = Retired(SimState, 0, 0, Add(rpc, 4))
    BY <1>7, SimRetire, TwinNumbers DEF Sim!Nop
  <2> QED
    BY <1>4, <2>1, <2>2 DEF Executed, SimState
<1>8. CASE Sim!Unknown(rcsr)
  <2>1. i.type = "N"
    BY <1>2, <1>8, TwinIsa DEF Sim!Unknown
  <2>2. SimState' = Trapped(SimState, 2, InstAt(rmem, rpc))
    BY <1>8, SimTrap, TwinMemory DEF Sim!Unknown, Sim!Illegal
  <2> QED
    BY <1>4, <2>1, <2>2 DEF Executed, SimState
<1>9. CASE Sim!Jump(rcsr) \/ Sim!BranchInst(rcsr)
  <2>1. SimState' = Jumped(SimState, i) /\ i.fusel = "bru"
    BY <1>2, <1>4, <1>9, SimJump
  <2> QED
    BY <1>2, <1>4, <2>1 DEF Executed, Row, CondOps
<1>10. CASE Sim!Load(rcsr) \/ Sim!Store(rcsr)
  <2>1. SimState' = Accessed(SimState, i) /\ i.fusel = "lsu"
    BY <1>2, <1>4, <1>10, SimAccess
  <2> QED
    BY <1>2, <1>4, <2>1 DEF Executed, Row, LoadOps, StoreOps
<1>11. CASE Sim!CsrOp(rcsr)
  <2>1. SimState' = CsrDone(SimState, i) /\ i.fusel = "csr" /\ i.op \in CsrRwOps
    BY <1>2, <1>3, <1>4, <1>11, SimCsr
  <2> QED
    BY <1>2, <1>4, <2>1 DEF Executed, Row, CsrRwOps
<1>12. CASE Sim!Ecall(rcsr) \/ Sim!Ebreak(rcsr) \/ Sim!MretInst(rcsr)
  <2>1. SimState' = Called(SimState, i) /\ i.fusel = "csr"
         /\ i.op \notin CsrRwOps \cup {"nop"}
    BY <1>2, <1>3, <1>4, <1>12, SimCall
  <2> QED
    BY <1>2, <1>4, <2>1 DEF Executed, Row
<1> QED
  BY <1>5, <1>6, <1>7, <1>8, <1>9, <1>10, <1>11, <1>12 DEF Sim!Execute

(* All lines low: pre_exec changes nothing and no interrupt is pending. *)
LEMMA Lowered ==
  ASSUME Sound(SimState)
  PROVE  Sim!PreExec({}) = rcsr /\ Sim!PendingInts(rcsr) = {}
<1>1. rcsr \in [CsrName -> Word] /\ rcsr["mip"] = 0 /\ "mip" \in CsrName
  BY DEF Sound, SimState, CsrName
<1>2. Bits(rcsr["mip"]) = {} /\ FromBits({}) = 0
  BY <1>1, ZeroBits, FromBitsBits
<1>3. Sim!PreExec({}) = [rcsr EXCEPT !["mip"] = 0]
  BY <1>2, TwinSets, TwinCsr DEF Sim!PreExec
<1> QED
  BY <1>1, <1>2, <1>3, TwinSets DEF Sim!PendingInts

LEMMA SimAfter ==
  ASSUME Determined(SimState), Sim!Step({}), ~OnlyModeM, exit' = "none"
  PROVE  SimState' = After(SimState)
<1> DEFINE c == Sim!PreExec({})
<1>1. c = rcsr /\ Sim!PendingInts(rcsr) = {}
  BY Lowered DEF Determined
<1>2. \/ Sim!FetchMisaligned(rcsr) \/ Sim!FetchFault(rcsr)
      \/ rpc % 4 = 0 /\ Mapped(rpc) /\ Sim!Execute(rcsr)
  BY <1>1, TwinMemory DEF Sim!Step, Sim!Interrupt, Sim!Timeout, Sim!Exit
<1>3. CASE Sim!FetchMisaligned(rcsr)
  <2>1. rpc % 4 # 0 /\ SimState' = Trapped(SimState, 0, rpc)
    BY <1>3, SimTrap DEF Sim!FetchMisaligned
  <2> QED
    BY <2>1 DEF After, SimState
<1>4. CASE Sim!FetchFault(rcsr)
  <2>1. rpc % 4 = 0 /\ ~Mapped(rpc) /\ SimState' = Trapped(SimState, 1, rpc)
    BY <1>4, SimTrap, TwinMemory DEF Sim!FetchFault
  <2> QED
    BY <2>1 DEF After, SimState
<1>5. CASE rpc % 4 = 0 /\ Mapped(rpc) /\ Sim!Execute(rcsr)
  <2>1. SimState' = Executed(SimState, InstOf(SimState))
    BY <1>5, SimExecuted
  <2> QED
    BY <1>5, <2>1 DEF After, SimState
<1> QED
  BY <1>2, <1>3, <1>4, <1>5

LEMMA RefRetire ==
  ASSUME NEW r, NEW v, NEW next, Ref!Retire(Csrs, r, v, next)
  PROVE  ArchState' = Retired(ArchState, r, v, next)
  BY DEF Ref!Retire, Ref!SetGPR, Retired, Became, ArchState, GPRs, Csrs

LEMMA RefTrap ==
  ASSUME NEW no, no \in Nat, NEW tval, Ref!RaiseTrap(Csrs, FALSE, no, tval)
  PROVE  ArchState' = Trapped(ArchState, no, tval)
<1> DEFINE bits == Bits(Csrs["mstatus"])
           c == [Csrs EXCEPT !["mtval"] = tval, !["mcause"] = no, !["mepc"] = ArchPc,
                           !["mstatus"] =
                             FromBits((bits \ {MIE, MPIE, MPP0, MPP1})
                                      \cup (IF MIE \in bits THEN {MPIE} ELSE {})
                                      \cup MppBits(mode))]
<1>1. no + (IF FALSE THEN Ref!W \div 2 ELSE 0) = no
  OBVIOUS
<1>2. Csrs' = c
  BY <1>1, SameSets, SameCsr DEF Ref!RaiseTrap, GPRs, Csrs
<1>3. Ref!NoGPR /\ ArchPc' = Ref!TrapPc(Csrs, no) /\ mode' = ModeM /\ mem' = mem
  BY SameCsr DEF Ref!RaiseTrap, GPRs, Csrs
<1>4. Ref!TrapPc(Csrs, no) = Ref!TrapPc(Csrs, no)
  BY TwinHelpers
<1> HIDE DEF bits, c
<1>5. ArchState' = Became(ArchState, 0, 0, Ref!TrapPc(Csrs, no), c, ModeM, mem)
  BY <1>2, <1>3, <1>4 DEF Ref!NoGPR, Ref!SetGPR, Became, ArchState, GPRs, Csrs
<1> QED
  BY <1>5 DEF Trapped, ArchState, c, bits

LEMMA RefJump ==
  ASSUME NEW i, i = InstOf(ArchState), Row(i.type, i.fusel, i.op), Ref!I = i,
         Ref!Jump(Csrs) \/ Ref!BranchInst(Csrs)
  PROVE  ArchState' = Jumped(ArchState, i) /\ i.fusel = "bru"
<1>2. CASE Ref!Jump(Csrs)
  <2> DEFINE npc == IF i.op = "jal" THEN Add(ArchPc, i.imm)
                    ELSE Add(GPRs[i.rs], (i.imm \div 2) * 2)
  <2>1. i.op \in {"jal", "jalr"} /\ i.fusel = "bru" /\ i.type # "B"
    BY <1>2 DEF Ref!Jump, Row, AluOps, AluImmOps, ShiftOps, MduOps, LoadOps, StoreOps,
                CondOps, CsrRwOps
  <2>2. IF npc % 4 # 0 THEN Ref!RaiseTrap(Csrs, FALSE, 0, npc)
        ELSE Ref!Retire(Csrs, i.rd, Add(ArchPc, 4), npc)
    BY <1>2, SameNumbers, Zenon DEF Ref!Jump, GPRs, Csrs
  <2> HIDE DEF npc
  <2>3. ArchState' = IF npc % 4 # 0 THEN Trapped(ArchState, 0, npc)
              ELSE Retired(ArchState, i.rd, Add(ArchPc, 4), npc)
    BY <2>2, RefTrap, RefRetire
  <2> QED
    BY <2>1, <2>3 DEF Jumped, npc, ArchState
<1>3. CASE Ref!BranchInst(Csrs)
  <2> DEFINE npc == IF Ref!Compare(i.op, GPRs[i.rs], GPRs[i.rt])
                    THEN Add(ArchPc, i.imm) ELSE Add(ArchPc, 4)
  <2>1. i.type = "B" /\ i.fusel = "bru" /\ i.op \notin {"jal", "jalr"}
    BY <1>3, SameIsa DEF Ref!BranchInst, Row, CondOps
  <2>2. IF npc % 4 # 0 THEN Ref!RaiseTrap(Csrs, FALSE, 0, npc)
        ELSE Ref!Retire(Csrs, 0, 0, npc)
    BY <1>3, SameNumbers, TwinHelpers, Zenon DEF Ref!BranchInst, GPRs, Csrs
  <2> HIDE DEF npc
  <2>3. ArchState' = IF npc % 4 # 0 THEN Trapped(ArchState, 0, npc)
              ELSE Retired(ArchState, 0, 0, npc)
    BY <2>2, RefTrap, RefRetire
  <2> QED
    BY <2>1, <2>3 DEF Jumped, npc, ArchState
<1> QED
  BY <1>2, <1>3

LEMMA RefAccess ==
  ASSUME NEW i, i = InstOf(ArchState), Row(i.type, i.fusel, i.op), Ref!I = i,
         Ref!Load(Csrs) \/ Ref!Store(Csrs)
  PROVE  ArchState' = Accessed(ArchState, i) /\ i.fusel = "lsu"
<1> DEFINE a == Add(GPRs[i.rs], i.imm)   bit == (a % 8) * ByteBits
<1>1. Ref!EffAddr = a /\ Ref!ByteBit = bit
  BY SameNumbers DEF Ref!EffAddr, Ref!ByteBit, GPRs, Csrs
<1> HIDE DEF a, bit
<1>2. CASE Ref!Load(Csrs)
  <2> DEFINE v == Extend(Shr(mem[IndexOf(a)], bit), AccessSize(i.op) * ByteBits,
                         LoadSigned(i.op))
  <2>1. ~IsStore(i) /\ i.fusel = "lsu"
    BY <1>2, SameIsa DEF Ref!Load, IsLoad
  <2>2. IF Misaligned(i.op, a) THEN Ref!RaiseTrap(Csrs, FALSE, 4, a)
        ELSE IF ~Mapped(a) THEN Ref!RaiseTrap(Csrs, FALSE, 5, a)
        ELSE Ref!Retire(Csrs, i.rd, v, Add(ArchPc, 4))
    BY <1>1, <1>2, SameIsa, SameMemory, SameNumbers, SameBitwise, Zenon DEF Ref!Load
  <2> HIDE DEF v
  <2>3. ArchState' = IF Misaligned(i.op, a) THEN Trapped(ArchState, 4, a)
              ELSE IF ~Mapped(a) THEN Trapped(ArchState, 5, a)
              ELSE Retired(ArchState, i.rd, v, Add(ArchPc, 4))
    BY <2>2, RefTrap, RefRetire
  <2> QED
    BY <2>1, <2>3 DEF Accessed, v, a, bit, ArchState
<1>3. CASE Ref!Store(Csrs)
  <2> DEFINE m == [mem EXCEPT ![IndexOf(a)] =
                     Merge(@, Shl(GPRs[i.rt], bit), Strobes(i.op, a))]
  <2>1. IsStore(i) /\ i.fusel = "lsu"
    BY <1>3, SameIsa DEF Ref!Store, IsStore, Row, AluOps, AluImmOps, ShiftOps, MduOps,
                       LoadOps, StoreOps, CondOps, CsrRwOps
  <2>2. IF Misaligned(i.op, a) THEN Ref!RaiseTrap(Csrs, FALSE, 6, a)
        ELSE IF ~Mapped(a) THEN Ref!RaiseTrap(Csrs, FALSE, 7, a)
        ELSE mem' = m /\ Csrs' = Csrs /\ ArchPc' = Add(ArchPc, 4) /\ Ref!NoGPR /\ mode' = mode
    BY <1>1, <1>3, SameMemory, SameNumbers, SameBitwise DEF Ref!Store, Ref!Exit, GPRs, Csrs
  <2> HIDE DEF m
  <2>3. ArchState' = IF Misaligned(i.op, a) THEN Trapped(ArchState, 6, a)
              ELSE IF ~Mapped(a) THEN Trapped(ArchState, 7, a)
              ELSE Became(ArchState, 0, 0, Add(ArchPc, 4), Csrs, mode, m)
    <3>1. CASE Misaligned(i.op, a) \/ ~Mapped(a)
      BY <2>2, <3>1, RefTrap
    <3>2. CASE ~(Misaligned(i.op, a) \/ ~Mapped(a))
      BY <2>2, <3>2 DEF Ref!NoGPR, Ref!SetGPR, Became, ArchState, GPRs, Csrs
    <3> QED
      BY <3>1, <3>2
  <2> QED
    BY <2>1, <2>3 DEF Accessed, m, a, bit, ArchState
<1> QED
  BY <1>2, <1>3

(* The CSR instructions it refuses. *)
LEMMA RefRefuses ==
  ASSUME NEW i, i.op \in CsrRwOps, ~SimAlone(ArchState, i),
         NEW write, write = (i.op = "csrrw" \/ i.rs # 0)
  PROVE  Ref!Refused(i.csr, write)
         <=> ~(mode = ModeM /\ (write => EnWrite(i.csr))) \/ i.csr \notin CsrName
<1>1. Ref!Permitted(i.csr, write) <=> mode = ModeM /\ (write => EnWrite(i.csr))
  BY SameCsr DEF Ref!Permitted
<1>2. Ref!Readable = CsrName \cup CsrSimOnly
      /\ Ref!Writable = (CsrName \ {"cycle", "mhartid"}) \cup {"mcycle"}
  BY SameIsa DEF Ref!Readable, Ref!Writable
<1>3. i.csr \in CsrSimOnly /\ mode = ModeM => write /\ i.csr # "mcycle"
  BY DEF SimAlone, ArchState
<1>4. CsrSimOnly \cap CsrName = {}
  BY DEF CsrSimOnly, CsrName
<1>5. EnWrite(i.csr) => i.csr \notin {"cycle", "mhartid"}
  BY DEF EnWrite
<1>6. i.csr \in CsrSimOnly /\ i.csr # "mcycle" => i.csr \notin Ref!Writable
  BY <1>2, <1>4
<1>7. Ref!Refused(i.csr, write)
      <=> \/ ~(mode = ModeM /\ (write => EnWrite(i.csr)))
          \/ i.csr \notin CsrName \cup CsrSimOnly
          \/ write /\ i.csr \notin Ref!Writable
  BY <1>1, <1>2, Zenon DEF Ref!Refused
<1>8. i.csr \in CsrName /\ i.csr \notin {"cycle", "mhartid"} => i.csr \in Ref!Writable
  BY <1>2
<1> QED
  BY <1>3, <1>4, <1>5, <1>6, <1>7, <1>8

LEMMA RefCsr ==
  ASSUME NEW i, i = InstOf(ArchState), Row(i.type, i.fusel, i.op), Ref!I = i,
         ~ReadsCycle(i), ~SimAlone(ArchState, i), Ref!CsrOp(Csrs)
  PROVE  ArchState' = CsrDone(ArchState, i) /\ i.fusel = "csr" /\ i.op \in CsrRwOps
<1> DEFINE src   == IF i.csri THEN i.rs ELSE GPRs[i.rs]
           write == i.op = "csrrw" \/ i.rs # 0
           old   == Csrs[i.csr]
           new   == CASE i.op = "csrrw" -> src
                      [] i.op = "csrrs" -> Or(old, src)
                      [] OTHER          -> AndNot(old, src)
           c     == IF write
                    THEN [Csrs EXCEPT ![i.csr] = Ref!CsrWriteValue(Csrs, i.csr, new)]
                    ELSE Csrs
<1>1. i.op \in CsrRwOps /\ i.fusel = "csr"
  BY SameIsa DEF Ref!CsrOp, Row, AluOps, AluImmOps, ShiftOps, MduOps, LoadOps, StoreOps,
               CondOps, CsrRwOps
<1>2. Ref!Refused(i.csr, write)
      <=> ~(mode = ModeM /\ (write => EnWrite(i.csr))) \/ i.csr \notin CsrName
  BY <1>1, RefRefuses
<1>3. CASE Ref!Refused(i.csr, write)
  <2>1. Ref!Illegal(Csrs)
    BY <1>3, SameIsa, Zenon DEF Ref!CsrOp
  <2>2. ArchState' = Trapped(ArchState, 2, InstAt(mem, ArchPc))
    BY <2>1, RefTrap, SameMemory DEF Ref!Illegal
  <2> QED
    BY <1>1, <1>2, <1>3, <2>2 DEF CsrDone, ArchState
<1>4. CASE ~Ref!Refused(i.csr, write)
  <2>1. Ref!ReadValues(Csrs, i.csr) = {old}
    BY <1>1, <1>2, <1>4 DEF Ref!ReadValues, ReadsCycle, EnWrite, CsrRwOps, CsrName
  <2> DEFINE value(x) == CASE i.op = "csrrw" -> src
                           [] i.op = "csrrs" -> Ref!Or(x, src)
                           [] OTHER          -> Ref!AndNot(x, src)
             file(x) == IF write /\ i.csr \in Ref!CsrName
                        THEN [Csrs EXCEPT ![i.csr] = Ref!CsrWriteValue(Csrs, i.csr, value(x))]
                        ELSE Csrs
  <2>0. \E x \in Ref!ReadValues(Csrs, i.csr) :
          IF write /\ Ref!BadTvec(i.csr, value(x)) THEN Ref!Exit("abort")
          ELSE Ref!Retire(file(x), i.rd, x, Ref!Add(ArchPc, 4))
    BY <1>4, SameIsa, Zenon DEF Ref!CsrOp, GPRs, Csrs
  <2> HIDE DEF file, value, write
  <2>2. \E x \in Ref!ReadValues(Csrs, i.csr) : Ref!Retire(file(x), i.rd, x, Ref!Add(ArchPc, 4))
    BY <2>0 DEF Ref!Exit
  <2> USE DEF file, value
  <2> HIDE DEF write, src
  <2>3. value(old) = new
    BY SameBitwise
  <2> HIDE DEF value, new
  <2>4. file(old) = c
    BY <1>2, <1>4, <2>3, SameIsa
  <2> HIDE DEF file
  <2>5. Ref!Retire(c, i.rd, old, Add(ArchPc, 4))
    BY <2>1, <2>2, <2>4, SameNumbers
  <2> HIDE DEF c, old
  <2>6. ArchState' = Became(ArchState, i.rd, old, Add(ArchPc, 4), c, mode, mem)
    BY <2>5 DEF Ref!Retire, Ref!SetGPR, Became, ArchState, GPRs, Csrs
  <2> QED
    BY <1>1, <1>2, <1>4, <2>6 DEF CsrDone, c, old, new, write, src, ArchState
<1> QED
  BY <1>3, <1>4

LEMMA RefCall ==
  ASSUME NEW i, i = InstOf(ArchState), Row(i.type, i.fusel, i.op), Ref!I = i, mode \in Mode,
         Ref!Ecall(Csrs) \/ Ref!Ebreak(Csrs) \/ Ref!MretInst(Csrs)
  PROVE  ArchState' = Called(ArchState, i) /\ i.fusel = "csr"
         /\ i.op \notin CsrRwOps \cup {"nop"}
<1>1. i.fusel = "csr" /\ i.op \in {"ecall", "ebreak", "mret"}
  BY DEF Ref!Ecall, Ref!Ebreak, Ref!MretInst, Row, AluOps, AluImmOps, ShiftOps, MduOps,
         LoadOps, StoreOps, CondOps, CsrRwOps
<1>2. CASE Ref!Ecall(Csrs)
  <2>1. i.op = "ecall" /\ Ref!RaiseTrap(Csrs, FALSE, mode + 8, 0)
    BY <1>2 DEF Ref!Ecall, Ref!Exit
  <2>2. mode + 8 \in Nat
    BY DEF Mode, ModeU, ModeS, ModeH, ModeM
  <2>3. ArchState' = Trapped(ArchState, mode + 8, 0)
    BY <2>1, <2>2, RefTrap
  <2> QED
    BY <1>1, <2>1, <2>3 DEF Called, CsrRwOps, ArchState
<1>3. CASE Ref!Ebreak(Csrs)
  <2>1. i.op = "ebreak" /\ Ref!RaiseTrap(Csrs, FALSE, 3, 0)
    BY <1>3 DEF Ref!Ebreak, Ref!Exit
  <2> QED
    BY <1>1, <2>1, RefTrap DEF Called, CsrRwOps, ArchState
<1>4. CASE Ref!MretInst(Csrs)
  <2>1. i.op = "mret"
    BY <1>4 DEF Ref!MretInst
  <2>2. CASE mode # ModeM
    <3>1. Ref!Illegal(Csrs)
      BY <1>4, <2>2, SameCsr DEF Ref!MretInst
    <3>2. ArchState' = Trapped(ArchState, 2, InstAt(mem, ArchPc))
      BY <3>1, RefTrap, SameMemory DEF Ref!Illegal
    <3> QED
      BY <1>1, <2>1, <2>2, <3>2 DEF Called, CsrRwOps, ArchState
  <2>3. CASE mode = ModeM
    <3> DEFINE status == Bits(Csrs["mstatus"])
               c == [Csrs EXCEPT !["mstatus"] = FromBits(Ref!Returned(status))]
    <3>1. Csrs' = c /\ mode' = MppOf(status) /\ ArchPc' = Csrs["mepc"] /\ Ref!NoGPR /\ mem' = mem
      BY <1>4, <2>3, SameCsr, SameSets, TwinHelpers DEF Ref!MretInst, GPRs, Csrs
    <3> HIDE DEF c
    <3>2. ArchState' = Became(ArchState, 0, 0, Csrs["mepc"], c, MppOf(status), mem)
      BY <3>1 DEF Ref!NoGPR, Ref!SetGPR, Became, ArchState, GPRs, Csrs
    <3> QED
      BY <1>1, <2>1, <2>3, <3>2 DEF Called, c, CsrRwOps, ArchState
  <2> QED
    BY <2>2, <2>3
<1> QED
  BY <1>2, <1>3, <1>4

LEMMA RefOp ==
  ASSUME NEW i, i = InstOf(ArchState), Row(i.type, i.fusel, i.op), Ref!I = i, Ref!Op(Csrs)
  PROVE  /\ ArchState' = Retired(ArchState, i.rd,
                    AluExec(GPRs[i.rs], IF i.type = "I" THEN i.imm ELSE GPRs[i.rt],
                            AluOp[i.op], i.op \in Op32), Add(ArchPc, 4))
         /\ i.fusel \in {"alu", "mdu"} /\ i.op # "nop" /\ i.type \notin {"N", "U"}
<1> DEFINE b == IF i.type = "I" THEN i.imm ELSE GPRs[i.rt]
<1>1. i.fusel \in {"alu", "mdu"} /\ i.op # "nop" /\ i.type \in {"I", "R"}
  BY SameIsa DEF Ref!Op
<1>2. AluOp[i.op] \in {"ADD", "SUB", "SLL", "SLT", "SLTU", "XOR", "SRL", "SRA", "OR",
                       "AND", "MUL", "MULH", "MULHU", "MULHSU", "DIV", "DIVU", "REM",
                       "REMU"}
  BY <1>1 DEF Row, AluOp, AluOps, AluImmOps, ShiftOps, MduOps
<1> DEFINE o == AluOp[i.op]   w == i.op \in Op32
<1>3. w \in BOOLEAN
  OBVIOUS
<1> HIDE DEF o, w
<1>4. \A x, y : Ref!AluExec(x, y, o, w) = AluExec(x, y, o, w)
  BY <1>2, <1>3, SameExec DEF o
<1>5. Ref!Retire(Csrs, i.rd, Ref!AluExec(GPRs[i.rs], b, o, w), Add(ArchPc, 4))
  BY SameIsa, SameNumbers DEF Ref!Op, GPRs, Csrs, o, w
<1> QED
  BY <1>1, <1>4, <1>5, RefRetire DEF o, w

LEMMA RefExecuted ==
  ASSUME Determined(ArchState), ArchPc % 4 = 0, Mapped(ArchPc), Ref!Execute(Csrs)
  PROVE  ArchState' = Executed(ArchState, InstOf(ArchState))
<1> DEFINE i == InstOf(ArchState)
<1>1. InstAt(mem, ArchPc) \in InstWord
  BY MappedIndex, HalfInst DEF Determined, Sound, ArchState, InstAt, Memories
<1>2. Row(i.type, i.fusel, i.op) /\ Ref!I = i
  BY <1>1, Rows, SameMemory DEF InstOf, ArchState, Ref!I, GPRs, Csrs
<1>3. ~ReadsCycle(i) /\ ~SimAlone(ArchState, i) /\ mode \in Mode
  BY DEF Determined, Sound, ArchState
<1> HIDE DEF i
<1>4. i = InstOf(ArchState)
  BY DEF i
<1>5. CASE Ref!Lui(Csrs) \/ Ref!Auipc(Csrs)
  <2>1. i.type = "U"
    BY <1>2, <1>5, SameIsa DEF Ref!Lui, Ref!Auipc
  <2>2. Ref!Retire(Csrs, i.rd, IF i.auipc THEN Add(i.imm, ArchPc) ELSE i.imm, Add(ArchPc, 4))
    BY <1>2, <1>5, SameNumbers, Zenon DEF Ref!Lui, Ref!Auipc
  <2>3. ArchState' = Retired(ArchState, i.rd, IF i.auipc THEN Add(i.imm, ArchPc) ELSE i.imm,
                           Add(ArchPc, 4))
    BY <2>2, RefRetire
  <2> QED
    BY <1>4, <2>1, <2>3 DEF Executed, ArchState
<1>6. CASE Ref!Op(Csrs)
  <2>1. /\ ArchState' = Retired(ArchState, i.rd,
                    AluExec(GPRs[i.rs], IF i.type = "I" THEN i.imm ELSE GPRs[i.rt],
                            AluOp[i.op], i.op \in Op32), Add(ArchPc, 4))
        /\ i.fusel \in {"alu", "mdu"} /\ i.op # "nop" /\ i.type \notin {"N", "U"}
    BY <1>2, <1>4, <1>6, RefOp, Zenon
  <2> QED
    BY <1>4, <2>1 DEF Executed, ArchState
<1>7. CASE Ref!Nop(Csrs)
  <2>1. i.op = "nop" /\ i.type \notin {"N", "U"}
    BY <1>2, <1>7, SameIsa DEF Ref!Nop, Row, AluOps, AluImmOps, ShiftOps
  <2>2. ArchState' = Retired(ArchState, 0, 0, Add(ArchPc, 4))
    BY <1>7, RefRetire, SameNumbers DEF Ref!Nop
  <2> QED
    BY <1>4, <2>1, <2>2 DEF Executed, ArchState
<1>8. CASE Ref!Unknown(Csrs)
  <2>1. i.type = "N"
    BY <1>2, <1>8, SameIsa DEF Ref!Unknown
  <2>2. ArchState' = Trapped(ArchState, 2, InstAt(mem, ArchPc))
    BY <1>8, RefTrap, SameMemory DEF Ref!Unknown, Ref!Illegal
  <2> QED
    BY <1>4, <2>1, <2>2 DEF Executed, ArchState
<1>9. CASE Ref!Jump(Csrs) \/ Ref!BranchInst(Csrs)
  <2>1. ArchState' = Jumped(ArchState, i) /\ i.fusel = "bru"
    BY <1>2, <1>4, <1>9, RefJump
  <2> QED
    BY <1>2, <1>4, <2>1 DEF Executed, Row, CondOps
<1>10. CASE Ref!Load(Csrs) \/ Ref!Store(Csrs)
  <2>1. ArchState' = Accessed(ArchState, i) /\ i.fusel = "lsu"
    BY <1>2, <1>4, <1>10, RefAccess
  <2> QED
    BY <1>2, <1>4, <2>1 DEF Executed, Row, LoadOps, StoreOps
<1>11. CASE Ref!CsrOp(Csrs)
  <2>1. ArchState' = CsrDone(ArchState, i) /\ i.fusel = "csr" /\ i.op \in CsrRwOps
    BY <1>2, <1>3, <1>4, <1>11, RefCsr
  <2> QED
    BY <1>2, <1>4, <2>1 DEF Executed, Row, CsrRwOps
<1>12. CASE Ref!Ecall(Csrs) \/ Ref!Ebreak(Csrs) \/ Ref!MretInst(Csrs)
  <2>1. ArchState' = Called(ArchState, i) /\ i.fusel = "csr"
         /\ i.op \notin CsrRwOps \cup {"nop"}
    BY <1>2, <1>3, <1>4, <1>12, RefCall
  <2> QED
    BY <1>2, <1>4, <2>1 DEF Executed, Row
<1> QED
  BY <1>5, <1>6, <1>7, <1>8, <1>9, <1>10, <1>11, <1>12 DEF Ref!Execute

(* A core that the simulator follows writes no mode it would abort at. *)
LEMMA RefNeverAborts ==
  ASSUME Sound(ArchState), Mapped(ArchPc), Ref!Execute(Csrs)
  PROVE  ~Aborts(ArchState, InstOf(ArchState))
<1> DEFINE i == InstOf(ArchState)
           src   == IF i.csri THEN i.rs ELSE GPRs[i.rs]
           write == i.op = "csrrw" \/ i.rs # 0
           old   == Csrs[i.csr]
           new   == CASE i.op = "csrrw" -> src
                      [] i.op = "csrrs" -> Or(old, src)
                      [] OTHER          -> AndNot(old, src)
<1> SUFFICES ASSUME Aborts(ArchState, i) PROVE FALSE
  OBVIOUS
<1>1. InstAt(mem, ArchPc) \in InstWord
  BY MappedIndex, HalfInst DEF Sound, ArchState, InstAt, Memories
<1>2. Row(i.type, i.fusel, i.op) /\ Ref!I = i
  BY <1>1, Rows, SameMemory DEF InstOf, ArchState, Ref!I, GPRs, Csrs
<1> HIDE DEF i
<1>3. /\ i.op \in CsrRwOps /\ i.csr = "mtvec" /\ mode = ModeM /\ write
      /\ new % 4 > 1
  BY DEF Aborts, ArchState
<1>4. i.type \notin {"N", "U", "B"} /\ i.fusel = "csr"
      /\ i.op \notin {"nop", "jal", "jalr", "ecall", "ebreak", "mret"}
      /\ ~IsLoad(i) /\ ~IsStore(i)
  BY <1>2, <1>3 DEF Row, AluOps, AluImmOps, ShiftOps, MduOps, LoadOps, StoreOps,
                    CondOps, CsrRwOps, IsLoad, IsStore
<1>5. Ref!CsrOp(Csrs)
  <2>1. ~Ref!Lui(Csrs) /\ ~Ref!Auipc(Csrs) /\ ~Ref!Op(Csrs) /\ ~Ref!Nop(Csrs)
        /\ ~Ref!Unknown(Csrs)
    BY <1>2, <1>4, SameIsa DEF Ref!Lui, Ref!Auipc, Ref!Op, Ref!Nop, Ref!Unknown
  <2>2. ~Ref!Jump(Csrs) /\ ~Ref!BranchInst(Csrs) /\ ~Ref!Load(Csrs) /\ ~Ref!Store(Csrs)
    BY <1>2, <1>4, SameIsa DEF Ref!Jump, Ref!BranchInst, Ref!Load, Ref!Store
  <2>3. ~Ref!Ecall(Csrs) /\ ~Ref!Ebreak(Csrs) /\ ~Ref!MretInst(Csrs)
    BY <1>2, <1>4 DEF Ref!Ecall, Ref!Ebreak, Ref!MretInst
  <2> QED
    BY <2>1, <2>2, <2>3 DEF Ref!Execute
<1>6. ~Ref!Refused(i.csr, write)
  <2>1. ~SimAlone(ArchState, i) /\ i.csr \in CsrName
    BY <1>3 DEF SimAlone, CsrSimOnly, CsrName
  <2> QED
    BY <1>3, <2>1, RefRefuses DEF EnWrite
<1>7. Ref!ReadValues(Csrs, i.csr) = {old}
  BY <1>3 DEF Ref!ReadValues
<1> DEFINE value(x) == CASE i.op = "csrrw" -> src
                         [] i.op = "csrrs" -> Ref!Or(x, src)
                         [] OTHER          -> Ref!AndNot(x, src)
           file(x) == IF write /\ i.csr \in Ref!CsrName
                      THEN [Csrs EXCEPT ![i.csr] = Ref!CsrWriteValue(Csrs, i.csr, value(x))]
                      ELSE Csrs
<1>8. \E x \in Ref!ReadValues(Csrs, i.csr) :
        IF write /\ Ref!BadTvec(i.csr, value(x)) THEN Ref!Exit("abort")
        ELSE Ref!Retire(file(x), i.rd, x, Ref!Add(ArchPc, 4))
  BY <1>2, <1>5, <1>6, SameIsa, Zenon DEF Ref!CsrOp, GPRs, Csrs
<1> HIDE DEF file, write, src
<1>9. value(old) = new
  BY SameBitwise
<1> HIDE DEF value, new
<1> QED
  BY <1>3, <1>7, <1>8, <1>9 DEF Ref!BadTvec, Ref!Exit

LEMMA RefAfter ==
  ASSUME Determined(ArchState), Ref!Step({})
  PROVE  /\ ArchState' = After(ArchState)
         /\ ArchPc % 4 = 0 /\ Mapped(ArchPc) => ~Aborts(ArchState, InstOf(ArchState))
<1> DEFINE c == Ref!PreExec({})
<1>1. c = Csrs /\ Ref!PendingInts(Csrs) = {}
  <2>1. Csrs \in [CsrName -> Word] /\ Csrs["mip"] = 0 /\ "mip" \in CsrName
    BY DEF Determined, Sound, ArchState, CsrName
  <2>2. Bits(Csrs["mip"]) = {} /\ FromBits({}) = 0
    BY <2>1, ZeroBits, FromBitsBits
  <2>3. c = [Csrs EXCEPT !["mip"] = 0]
    BY <2>2, SameSets, SameCsr DEF Ref!PreExec, GPRs, Csrs
  <2> QED
    BY <2>1, <2>2, <2>3, SameSets DEF Ref!PendingInts
<1>2. \/ Ref!FetchMisaligned(Csrs) \/ Ref!FetchFault(Csrs)
      \/ ArchPc % 4 = 0 /\ Mapped(ArchPc) /\ Ref!Execute(Csrs)
  BY <1>1, SameMemory DEF Ref!Step, Ref!Interrupt, Ref!Timeout
<1>3. CASE Ref!FetchMisaligned(Csrs)
  <2>1. ArchPc % 4 # 0 /\ ArchState' = Trapped(ArchState, 0, ArchPc)
    BY <1>3, RefTrap DEF Ref!FetchMisaligned
  <2> QED
    BY <2>1 DEF After, ArchState
<1>4. CASE Ref!FetchFault(Csrs)
  <2>1. ArchPc % 4 = 0 /\ ~Mapped(ArchPc) /\ ArchState' = Trapped(ArchState, 1, ArchPc)
    BY <1>4, RefTrap, SameMemory DEF Ref!FetchFault
  <2> QED
    BY <2>1 DEF After, ArchState
<1>5. CASE ArchPc % 4 = 0 /\ Mapped(ArchPc) /\ Ref!Execute(Csrs)
  <2>1. ArchState' = Executed(ArchState, InstOf(ArchState))
    BY <1>5, RefExecuted
  <2>2. ~Aborts(ArchState, InstOf(ArchState))
    BY <1>5, RefNeverAborts DEF Determined
  <2> QED
    BY <1>5, <2>1, <2>2 DEF After, ArchState
<1> QED
  BY <1>2, <1>3, <1>4, <1>5

(* Nor does the simulator abort at an instruction that writes none. *)
LEMMA SimNeverAborts ==
  ASSUME Sound(SimState), exit = "none", exit' # "none",
         ~Aborts(SimState, InstOf(SimState)), Sim!CsrOp(Sim!PreExec({}))
  PROVE  FALSE
<1> DEFINE i == InstOf(SimState)
           src   == IF i.csri THEN i.rs ELSE rGPR[i.rs]
           write == i.op = "csrrw" \/ i.rs # 0
           old   == rcsr[i.csr]
           new   == CASE i.op = "csrrw" -> src
                      [] i.op = "csrrs" -> Or(old, src)
                      [] OTHER          -> AndNot(old, src)
           value(x) == CASE i.op = "csrrw" -> src
                         [] i.op = "csrrs" -> Sim!Or(x, src)
                         [] OTHER          -> Sim!AndNot(x, src)
           file(x) == IF write /\ i.csr \in Sim!CsrName
                      THEN [rcsr EXCEPT ![i.csr] = Sim!CsrWriteValue(rcsr, i.csr, value(x))]
                      ELSE rcsr
<1>1. Sim!PreExec({}) = rcsr
  BY Lowered
<1>2. Sim!I = i
  BY TwinMemory DEF InstOf, SimState, Sim!I
<1> HIDE DEF i
<1>3. \A no, tval, b : ~Sim!RaiseTrap(rcsr, b, no, tval)
  BY DEF Sim!RaiseTrap
<1>4. ~Sim!Illegal(rcsr)
  BY <1>3 DEF Sim!Illegal
<1>5. /\ i.op \in CsrRwOps /\ ~Sim!Refused(i.csr, write)
      /\ \E x \in Sim!ReadValues(rcsr, i.csr) :
           IF write /\ Sim!BadTvec(i.csr, value(x)) THEN Sim!Exit("abort")
           ELSE Sim!Retire(file(x), i.rd, x, Sim!Add(rpc, 4))
  BY <1>1, <1>2, <1>4, TwinIsa, Zenon DEF Sim!CsrOp
<1> HIDE DEF file, write, src
<1>6. value(old) = new
  BY TwinBitwise
<1> HIDE DEF value
<1>7. PICK x \in Sim!ReadValues(rcsr, i.csr) : write /\ Sim!BadTvec(i.csr, value(x))
  BY <1>5 DEF Sim!Retire
<1>8. i.csr = "mtvec" /\ rpriv = ModeM /\ x = old
  BY <1>5, <1>7, TwinCsr DEF Sim!BadTvec, Sim!Refused, Sim!Permitted, Sim!ReadValues
<1>9. new % 4 > 1
  BY <1>6, <1>7, <1>8 DEF Sim!BadTvec
<1>10. Aborts(SimState, i)
  BY <1>5, <1>7, <1>8, <1>9 DEF Aborts, new, src, write, old, SimState
<1> QED
  BY <1>10 DEF i

(***************************************************************************)
(* A test that exits: the simulator stops in front of the instruction.     *)
(***************************************************************************)
Reports(i, result) ==
  \/ i.op = "ecall" /\ rGPR[A7] = ExitCall /\ (result = "pass" => rGPR[A0] = 0)
  \/ i.op = "ebreak" /\ rGPR[A0] = 0
  \/ IsStore(i) /\ rGPR[i.rt] = 1

LEMMA StepExits ==
  ASSUME Sim!Step({}), exit' \notin {"none", "timeout"}, Sound(SimState),
         rpc % 4 = 0 /\ Mapped(rpc) => ~Aborts(SimState, InstOf(SimState))
  PROVE  /\ rGPR' = rGPR /\ debug'.pc = rpc /\ rpc % 4 = 0 /\ Mapped(rpc)
         /\ Reports(InstOf(SimState), exit')
<1> DEFINE c == Sim!PreExec({})
<1> HIDE DEF c
<1>1. exit = "none"
  BY DEF Sim!Step
<1>2. \A no, tval, b : ~Sim!RaiseTrap(c, b, no, tval)
  BY <1>1 DEF Sim!RaiseTrap
<1>3. \A f, r, v, next : ~Sim!Retire(f, r, v, next)
  BY <1>1 DEF Sim!Retire
<1>4. rpc % 4 = 0 /\ Mapped(rpc) /\ Sim!Execute(c)
  BY <1>2, TwinMemory
  DEF Sim!Step, Sim!Interrupt, Sim!FetchMisaligned, Sim!FetchFault, Sim!Timeout, Sim!Exit, c
<1>5. Sim!Store(c) \/ Sim!Ecall(c) \/ Sim!Ebreak(c)
  <2>1. ~Sim!Lui(c) /\ ~Sim!Auipc(c) /\ ~Sim!Op(c) /\ ~Sim!Nop(c)
    BY <1>3 DEF Sim!Lui, Sim!Auipc, Sim!Op, Sim!Nop
  <2>2. ~Sim!Unknown(c) /\ ~Sim!Jump(c) /\ ~Sim!BranchInst(c) /\ ~Sim!Load(c)
    BY <1>2, <1>3 DEF Sim!Unknown, Sim!Illegal, Sim!Jump, Sim!BranchInst, Sim!Load
  <2>3. ~Sim!CsrOp(c)
    BY <1>1, <1>4, SimNeverAborts DEF c
  <2>4. ~Sim!MretInst(c)
    BY <1>1, <1>2 DEF Sim!MretInst, Sim!Illegal
  <2> QED
    BY <1>4, <2>1, <2>2, <2>3, <2>4 DEF Sim!Execute
<1>6. PICK result \in {"pass", "fail"} : Sim!Exit(result) /\ Reports(Sim!I, result)
  <2>1. CASE Sim!Store(c)
    BY <1>1, <1>2, <2>1, TwinIsa DEF Sim!Store, Reports
  <2>2. CASE Sim!Ecall(c)
    BY <1>2, <2>2 DEF Sim!Ecall, Reports
  <2>3. CASE Sim!Ebreak(c)
    BY <1>2, <2>3 DEF Sim!Ebreak, Reports
  <2> QED
    BY <1>5, <2>1, <2>2, <2>3
<1>7. Sim!I = InstOf(SimState)
  BY TwinMemory DEF Sim!I, InstOf, SimState
<1> QED
  BY <1>4, <1>6, <1>7 DEF Sim!Exit, Sim!NoGPR, Sim!SetGPR

(* Whatever the simulator exits at would have written no register. *)
LEMMA ReportsQuietly ==
  ASSUME rpc % 4 = 0, Mapped(rpc), Sound(SimState), NEW result,
         Reports(InstOf(SimState), result)
  PROVE  After(SimState).GPR = rGPR
<1> DEFINE i == InstOf(SimState)
<1>1. InstAt(rmem, rpc) \in InstWord
  BY MappedIndex, HalfInst DEF Sound, SimState, InstAt, Memories
<1>2. Row(i.type, i.fusel, i.op)
  BY <1>1, Rows DEF InstOf, SimState
<1>3. i.op \in {"ecall", "ebreak"} \/ IsStore(i)
  BY DEF Reports
<1>4. After(SimState) = Executed(SimState, i)
  BY DEF After, SimState
<1> HIDE DEF i
<1>5. CASE i.op \in {"ecall", "ebreak"}
  <2>1. /\ i.type \notin {"N", "U"} /\ i.op # "nop"
        /\ i.fusel = "csr" /\ i.op \notin CsrRwOps
    BY <1>2, <1>5 DEF Row, AluOps, AluImmOps, ShiftOps, MduOps, LoadOps, StoreOps,
                      CondOps, CsrRwOps
  <2>2. Executed(SimState, i) = Called(SimState, i)
    BY <2>1 DEF Executed
  <2> QED
    BY <1>4, <1>5, <2>2 DEF Called, Trapped, Became, SimState
<1>6. CASE IsStore(i)
  <2>1. i.type \notin {"N", "U"} /\ i.op # "nop" /\ i.fusel = "lsu"
    BY <1>2, <1>6 DEF Row, AluOps, AluImmOps, ShiftOps, MduOps, LoadOps, StoreOps,
                      CondOps, CsrRwOps, IsStore
  <2>2. Executed(SimState, i) = Accessed(SimState, i)
    BY <2>1 DEF Executed
  <2> QED
    BY <1>4, <1>6, <2>2 DEF Accessed, Trapped, Became, SimState
<1> QED
  BY <1>3, <1>5, <1>6

(***************************************************************************)
(* The invariant.  The simulator is where the core is, or one step behind  *)
(* it while the instruction in the memory stage has not committed.         *)
(***************************************************************************)
Bubbles ==      \* clock edges without a commit that are ahead
  IF ms.valid THEN 0 ELSE IF es.valid THEN 1 ELSE IF ds.valid THEN 2
  ELSE IF state = "receive" THEN 3 ELSE IF state = "send" THEN 4 ELSE 5

Behind ==       \* the instruction the simulator is to execute next
  /\ rpc = ms.pc
  /\ IF rpc % 4 = 0
     THEN /\ Mapped(rpc) /\ InstAt(rmem, rpc) = ms.inst
          /\ ~ReadsCycle(M) /\ ~SimAlone(SimState, M) /\ ~Aborts(SimState, M)
          /\ IsStore(M) => ms.src1 = rGPR[M.rs]
     ELSE IsStore(M) => Misaligned(M.op, Add(ms.src1, M.imm))

InStep ==
  /\ Sound(SimState)
  /\ ArchState = IF ms.valid THEN After(SimState) ELSE SimState
  /\ ms.valid => Behind

NoLines == csrs["mip"] = 0 /\ seen = 0
TestIInv ==
  /\ SimIInv /\ NoLines
  /\ sinceCommit \in Nat /\ sinceCommit + 2 * Bubbles <= RstTicks + 10
  /\ ms.valid => written = DebugOfMs
  /\ NoAlarm /\ RegistersAgree /\ PassEarned
  /\ ~parted => SameReset
  /\ exit = "none" /\ ~parted => InStep

(* The core's state is one from which a step can be computed. *)
LEMMA ArchSound == SimIInv /\ NoLines => Sound(ArchState)
<1> SUFFICES ASSUME SimIInv, NoLines PROVE Sound(ArchState)
  OBVIOUS
<1>1. TypeOK
  BY DEF SimIInv
<1>2. ArchPc \in Word
  <2>1. pc \in Word /\ es.pc \in Word /\ ds.pc \in Word
    BY <1>1 DEF TypeOK, Address
  <2> QED
    BY <1>1, <2>1, AddrWord DEF ArchPc
<1>3. Csrs \in [CsrName -> Word] /\ Csrs["mip"] = 0
  <2>1. csrs \in [CsrName -> Word] /\ seen = 0 /\ 0 \in Word /\ "mip" \in CsrName
    BY <1>1, ZeroBits DEF TypeOK, NoLines, CsrName
  <2> QED
    BY <2>1 DEF Csrs
<1> QED
  BY <1>1, <1>2, <1>3 DEF Sound, ArchState, TypeOK

(***************************************************************************)
(* What a clock edge does to the parts of the invariant.                   *)
(***************************************************************************)
LEMMA NoCycle ==
  ASSUME Edge({}), es.valid, ~TestParts PROVE ~ReadsCycle(E) /\ ~SimAlone(ArchState, E)
<1>1. Row(E.type, E.fusel, E.op)
  BY Kinds DEF Edge, SimIInv
<1>2. E.op \in CsrRwOps => E.fusel = "csr"
  BY <1>1 DEF Row, AluOps, AluImmOps, ShiftOps, MduOps, LoadOps, StoreOps, CondOps, CsrRwOps
<1>3. ~IsInt({})
  BY DEF IsInt, Ints, TakenInts
<1>4. ~ReadsCycle(E)
  BY <1>2 DEF ReadsCycle, CsrRen, Unit, TestParts, CsrRwOps
<1>5. ~SimOnlyParts
  BY <1>3 DEF TestParts, Parts, ExecuteParts
<1>6. ~SimAlone(ArchState, E)
  BY <1>2, <1>5 DEF SimAlone, SimOnlyParts, CsrWen, Unit, ArchState, CsrRwOps
<1> QED
  BY <1>4, <1>6

(* The core computes of an instruction in execute what the simulator, a    *)
(* clock later, will.                                                      *)
LEMMA Moves ==
  ASSUME Edge({}), NoLines, ~TestParts
  PROVE  /\ ArchState' = IF es.valid THEN After(ArchState) ELSE ArchState
         /\ es.valid /\ es.pc % 4 = 0 => ~Aborts(ArchState, E)
<1>1. ~Parts({}) /\ ~IsInt({})
  BY DEF TestParts, IsInt, Ints, TakenInts
<1>2. IF es.valid THEN Ref!Step(Bits(csrs["mip"])) ELSE UNCHANGED Ref!vars
  BY <1>1, EdgeSimulates
<1>3. CASE es.valid
  <2>1. Ref!Step({})
    BY <1>2, <1>3, ZeroBits DEF NoLines
  <2>2. ArchPc = es.pc
    BY <1>3 DEF ArchPc
  <2>3. ArchPc % 4 = 0
        => /\ InstOf(ArchState) = E /\ Mapped(ArchPc)
           /\ ~ReadsCycle(E) /\ ~SimAlone(ArchState, E)
    <3>1. ArchPc % 4 = 0 => es.inst = InstAt(mem, ArchPc) /\ Mapped(ArchPc)
      BY <1>1, <1>3, <2>2 DEF Parts, FetchParts
    <3>2. ~ReadsCycle(E) /\ ~SimAlone(ArchState, E)
      BY <1>3, NoCycle
    <3> QED
      BY <3>1, <3>2 DEF InstOf, ArchState, E
  <2>4. Determined(ArchState)
    <3>1. Sound(ArchState)
      BY ArchSound DEF Edge
    <3>2. ArchState.pc = ArchPc
      BY DEF ArchState
    <3> QED
      BY <2>3, <3>1, <3>2 DEF Determined
  <2> QED
    BY <1>3, <2>1, <2>2, <2>3, <2>4, RefAfter
<1>4. CASE ~es.valid
  BY <1>2, <1>4 DEF Ref!vars, ArchState, GPRs, Csrs
<1> QED
  BY <1>3, <1>4

(* A register that counts as written at the commit is the architectural    *)
(* one of the clock before.                                                *)
LEMMA CommittedStep ==
  ASSUME Edge({}), NEW r \in Reg
  PROVE  CommittedReg(r)' = ArchReg(r)
<1>1. /\ ws' = [valid |-> ms.valid, wen |-> ms.wen, pc |-> ms.pc,
                inst |-> ms.inst, wdata |-> MResult]
      /\ regs' = IF ws.valid /\ ws.wen /\ B.rd # 0
                 THEN [regs EXCEPT ![B.rd] = ws.wdata] ELSE regs
  BY DEF Edge, Clock, WriteBackStep
<1>2. B' = M /\ ws'.wdata = MResult
  BY <1>1 DEF M, B
<1>3. BWrites(r)' <=> MWrites(r)
  BY <1>1, <1>2 DEF MWrites, BWrites
<1>4. regs'[r] = IF BWrites(r) THEN ws.wdata ELSE regs[r]
  BY <1>1 DEF BWrites, Edge, SimIInv, TypeOK
<1> QED
  BY <1>2, <1>3, <1>4 DEF ArchReg, CommittedReg

(* No interrupt is ever recorded. *)
LEMMA NoLinesStep ==
  ASSUME Edge({}), NoLines PROVE NoLines'
<1>1. csrs'["mip"] = MipNext(csrs, {})
  BY MipStep DEF Edge, SimIInv
<1>2. Bits(0) \cup {} = {} /\ FromBits({}) = 0
  BY ZeroBits, FromBitsBits
<1>3. MipNext(csrs, {}) = 0
  BY <1>2 DEF MipNext, NoLines
<1>4. seen' \in {seen, csrs["mip"]}
  BY DEF Edge, HistoryNext
<1> QED
  BY <1>1, <1>3, <1>4 DEF NoLines

(* Nothing holds a bubble up: without interrupts only an instruction in    *)
(* execute redirects the fetch or stalls.                                  *)
LEMMA BubblesStep ==
  ASSUME Edge({})
  PROVE  /\ Bubbles \in 0 .. 5 /\ Bubbles' \in 0 .. 5
         /\ ~ms.valid => Bubbles' + 1 <= Bubbles
<1>1. FetchStep({}) /\ DecodeStep({}) /\ ExecuteStep({}) /\ MemoryStep({}) /\ TypeOK
  BY DEF Edge, Clock, SimIInv
<1>2. Bubbles \in 0 .. 5 /\ Bubbles' \in 0 .. 5
  BY DEF Bubbles
<1>3. ms'.valid = es.valid
  BY <1>1 DEF MemoryStep
<1>4. ASSUME ~ms.valid PROVE Bubbles' + 1 <= Bubbles
  <2>1. CASE es.valid
    <3>1. Bubbles' = 0 /\ Bubbles = 1
      BY <1>3, <1>4, <2>1 DEF Bubbles
    <3> QED
      BY <3>1
  <2>2. CASE ~es.valid
    <3>1. ~IsInt({}) /\ Exceptions = {} /\ ~Mret /\ ~Branch
      BY <2>2 DEF IsInt, Ints, TakenInts, Exceptions, Mret, Branch, Unit
    <3>2. ~Flush({}) /\ ~Stall({})
      BY <2>2, <3>1 DEF Trap, Flush, CsrFlush, Stall, EWrites
    <3>3. /\ es'.valid = ds.valid /\ ds'.valid = (state = "receive")
          /\ state' = IF state = "boot" THEN "send" ELSE "receive"
      BY <1>1, <3>2 DEF FetchStep, DecodeStep, ExecuteStep, TypeOK
    <3>4. state \in {"boot", "send", "receive"} /\ ~ms'.valid
      BY <1>1, <1>3, <2>2 DEF TypeOK
    <3>5. CASE ds.valid
      <4>1. Bubbles' = 1 /\ Bubbles = 2
        BY <1>4, <2>2, <3>3, <3>4, <3>5 DEF Bubbles
      <4> QED
        BY <4>1
    <3>6. CASE ~ds.valid /\ state = "receive"
      <4>1. Bubbles' = 2 /\ Bubbles = 3
        BY <1>4, <2>2, <3>3, <3>4, <3>6 DEF Bubbles
      <4> QED
        BY <4>1
    <3>7. CASE ~ds.valid /\ state = "send"
      <4>1. Bubbles' = 3 /\ Bubbles = 4
        BY <1>4, <2>2, <3>3, <3>4, <3>7 DEF Bubbles
      <4> QED
        BY <4>1
    <3>8. CASE ~ds.valid /\ state = "boot"
      <4>1. Bubbles' = 4 /\ Bubbles = 5
        BY <1>4, <2>2, <3>3, <3>4, <3>8 DEF Bubbles
      <4> QED
        BY <4>1
    <3> QED
      BY <3>4, <3>5, <3>6, <3>7, <3>8
  <2> QED
    BY <2>1, <2>2
<1> QED
  BY <1>2, <1>4

(***************************************************************************)
(* The invariant is inductive.                                             *)
(***************************************************************************)
LEMMA TestStart == TestInit => TestIInv
<1> SUFFICES ASSUME TestInit PROVE TestIInv
  OBVIOUS
<1>1. SimIInv /\ Ref!Init /\ AllInit
  BY SimInit, InitSimulates DEF TestInit
<1>2. csrs = CsrReset /\ seen = 0 /\ NoLines
  BY <1>1 DEF AllInit, Init, HistoryInit, NoLines, CsrReset, CsrName
<1>3. ~ms.valid /\ Bubbles = 5 /\ written = [pc |-> 0, num |-> 0, wdata |-> 0]
  BY <1>1 DEF AllInit, Init, HistoryInit, Bubbles
<1>4. ASSUME SameReset
      PROVE  ArchState = SimState /\ rGPR = [r \in Reg |-> 0]
  <2>1. /\ ArchPc = PC_INIT /\ GPRs = [r \in Reg |-> 0] /\ Csrs = CsrReset
        /\ mode = ModeM
    BY <1>1, SameCsr, SameIsa DEF Ref!Init, Ref!Reset, Ref!ResetFiles, GPRs, Csrs
  <2>2. Sim!ResetFiles = {CsrReset}
    BY <1>4, TwinCsr DEF Sim!ResetFiles, SameReset
  <2>3. /\ rpc = PC_INIT /\ rGPR = [r \in Reg |-> 0] /\ rcsr = CsrReset
        /\ rpriv = ModeM /\ debug = [pc |-> 0, num |-> 0, wdata |-> 0] /\ rmem = mem
    BY <1>4, <2>2, TwinCsr, TwinIsa DEF TestInit, Sim!Reset, SameReset
  <2> QED
    BY <1>3, <2>1, <2>3 DEF ArchState, SimState
<1>5. SameReset => InStep
  BY <1>1, <1>2, <1>3, <1>4, ArchSound DEF InStep
<1>6. NoAlarm /\ PassEarned /\ (~parted => SameReset)
  BY DEF TestInit, Sim!Reset, NoAlarm, PassEarned
<1>7. RegistersAgree
  BY <1>1, <1>4, <1>6 DEF RegistersAgree, CommittedReg, BWrites, AllInit, Init
<1>8. sinceCommit \in Nat /\ sinceCommit + 2 * Bubbles <= RstTicks + 10
  BY <1>3 DEF TestInit, RstTicks
<1> QED
  BY <1>1, <1>2, <1>3, <1>5, <1>6, <1>7, <1>8 DEF TestIInv

(* The instruction that commits is the one the simulator executes next.    *)
LEMMA CommitsNext ==
  ASSUME InStep, ms.valid
  PROVE  /\ Determined(SimState) /\ rpc = ms.pc
         /\ rpc % 4 = 0 => Mapped(rpc) /\ InstOf(SimState) = M /\ ~Aborts(SimState, M)
<1>1. rpc % 4 = 0 => /\ Mapped(rpc) /\ InstOf(SimState) = M /\ ~ReadsCycle(M)
                     /\ ~SimAlone(SimState, M) /\ ~Aborts(SimState, M)
  BY DEF InStep, Behind, InstOf, SimState, M
<1>2. SimState.pc = rpc
  BY DEF SimState
<1> QED
  BY <1>1, <1>2 DEF InStep, Behind, Determined

(* A step of the loop without a commit. *)
LEMMA WaitStep ==
  ASSUME TestIInv, Loop, Wait, ~parted'
  PROVE  /\ SimState' = ArchState /\ rGPR' = GPRs /\ exit' = "none"
         /\ running' /\ delay' = Delay
<1>1. ~parted /\ exit = "none"
  BY DEF Loop
<1>2. ~ms.valid
  BY DEF Wait, Clock, WriteBackStep
<1>3. SimState' = ArchState /\ exit' = "none"
  BY <1>1, <1>2 DEF TestIInv, InStep, Wait, simVars, SimState
<1>4. rGPR' = GPRs
  BY <1>3 DEF SimState, ArchState
<1>5. delay' = Delay
  BY <1>1 DEF Wait, TestIInv, NoAlarm
<1>6. running'
  <2>1. Bubbles \in 0 .. 5 /\ Bubbles >= 1
    BY <1>2 DEF Bubbles
  <2>2. sinceCommit + 2 <= 20
    BY <2>1 DEF TestIInv, RstTicks
  <2>3. sinceCommit + 2 < CommitTimeout
    BY <2>2, DiffTestAssumption DEF TestIInv, RstTicks
  <2> QED
    BY <2>3, Zenon DEF Wait
<1> QED
  BY <1>3, <1>4, <1>5, <1>6

(* The comparison at a commit finds nothing. *)
LEMMA CommitStep ==
  ASSUME TestIInv, Loop, Commit, ~parted'
  PROVE  /\ exit' = "none" => SimState' = ArchState
         /\ exit' # "timeout" => rGPR' = GPRs
         /\ running' /\ delay' = Delay
<1>1. ~parted /\ exit = "none" /\ running /\ ~OnlyModeM
  BY DEF Loop, TestIInv, SameReset
<1>2. ms.valid
  BY DEF Commit, Clock, WriteBackStep
<1>3. InStep /\ ArchState = After(SimState) /\ written = DebugOfMs
  BY <1>1, <1>2 DEF TestIInv, InStep
<1>4. Sim!Step({})
  BY DEF Commit
<1>5. exit' = "none" => SimState' = ArchState
  BY <1>1, <1>2, <1>3, <1>4, CommitsNext, SimAfter
<1>6. ASSUME exit' # "timeout" PROVE rGPR' = GPRs
  <2>1. CASE exit' = "none"
    BY <1>5, <2>1 DEF SimState, ArchState
  <2>2. CASE exit' # "none"
    <3>1. /\ rGPR' = rGPR /\ rpc % 4 = 0 /\ Mapped(rpc)
          /\ Reports(InstOf(SimState), exit')
      BY <1>2, <1>3, <1>4, <1>6, <2>2, CommitsNext, StepExits DEF InStep
    <3>2. After(SimState).GPR = rGPR
      BY <1>3, <3>1, ReportsQuietly DEF InStep
    <3> QED
      BY <1>3, <3>1, <3>2 DEF ArchState
  <2> QED
    BY <2>1, <2>2
<1>7. ~(exit' = "none" /\ Differ)
  <2> SUFFICES ASSUME exit' = "none" PROVE ~Differ
    OBVIOUS
  <2>1. debug' = DebugOfMs
    BY <1>3, <1>5 DEF SimState, ArchState
  <2>2. ws' = [valid |-> ms.valid, wen |-> ms.wen, pc |-> ms.pc,
               inst |-> ms.inst, wdata |-> MResult]
    BY DEF Commit, Clock, WriteBackStep
  <2>3. B' = M /\ ws'.wdata = MResult /\ ws'.pc = ms.pc
    BY <2>2 DEF B, M
  <2> QED
    BY <2>1, <2>3 DEF Differ, DebugOfMs
<1>8. running' /\ delay' = Delay
  BY <1>1, <1>7 DEF Commit, TestIInv, NoAlarm
<1> QED
  BY <1>5, <1>6, <1>8

LEMMA TestStep == TestIInv /\ Loop => TestIInv'
<1> SUFFICES ASSUME TestIInv, Loop PROVE TestIInv'
  OBVIOUS
<1>1. Edge({}) /\ NoLines
  BY DiffTestAssumption DEF Loop, Commit, Wait, TestIInv, Edge
<1>2. /\ ws' = [valid |-> ms.valid, wen |-> ms.wen, pc |-> ms.pc,
                inst |-> ms.inst, wdata |-> MResult]
      /\ ms' = [valid |-> es.valid, wen |-> EWen({}), pc |-> es.pc,
                inst |-> es.inst, src1 |-> es.src1, wdata |-> EResult]
  BY <1>1 DEF Edge, Clock, WriteBackStep, MemoryStep
<1>3. B' = M /\ M' = E
  BY <1>2 DEF B, M, E
<1>4. SimIInv'
  <2>1. AllNext
    BY <1>1 DEF Edge, AllNext, Next
  <2> QED
    BY <1>1, <2>1, SimNext DEF Edge
<1>5. NoLines'
  BY <1>1, NoLinesStep
<1>6. sinceCommit' \in Nat /\ sinceCommit' + 2 * Bubbles' <= RstTicks + 10
  <2>1. CASE Commit
    BY <1>1, <2>1, BubblesStep DEF Commit, RstTicks
  <2>2. CASE Wait
    <3>1. ~ms.valid /\ sinceCommit' = sinceCommit + 2
      BY <1>2, <2>2 DEF Wait
    <3>2. Bubbles \in 0 .. 5 /\ Bubbles' \in 0 .. 5 /\ Bubbles' + 1 <= Bubbles
      BY <1>1, <3>1, BubblesStep
    <3>3. sinceCommit \in Nat /\ sinceCommit + 2 * Bubbles <= 20
      BY DEF TestIInv, RstTicks
    <3>4. \A n \in Nat, b, c \in 0 .. 5 :
            n + 2 * b <= 20 /\ c + 1 <= b => n + 2 \in Nat /\ n + 2 + 2 * c <= 10 + 10
      OBVIOUS
    <3>5. sinceCommit + 2 \in Nat /\ sinceCommit + 2 + 2 * Bubbles' <= 10 + 10
      BY <3>2, <3>3, <3>4
    <3> QED
      BY <3>1, <3>5 DEF RstTicks
  <2> QED
    BY <2>1, <2>2 DEF Loop
<1>7. ms'.valid => written' = DebugOfMs'
  BY <1>2 DEF Loop, HistoryNext
<1>8. ASSUME ~parted'
      PROVE  /\ exit' = "none" => SimState' = ArchState
             /\ exit' # "timeout" => rGPR' = GPRs
             /\ running' /\ delay' = Delay
  BY <1>8, CommitStep, WaitStep DEF Loop
<1>9. NoAlarm'
  BY <1>8 DEF NoAlarm
<1>10. RegistersAgree'
  <2>1. \A r \in Reg : CommittedReg(r)' = ArchReg(r)
    BY <1>1, CommittedStep
  <2> QED
    BY <1>8, <2>1 DEF RegistersAgree, GPRs
<1>11. PassEarned'
  <2> SUFFICES ASSUME exit' = "pass", ~parted' PROVE PassEarned'
    BY DEF PassEarned
  <2>1. Commit /\ exit = "none" /\ InStep /\ ms.valid
    <3>1. exit = "none" /\ ~parted
      BY DEF Loop
    <3>2. ~Wait
      BY <3>1 DEF Wait, simVars
    <3> QED
      BY <1>2, <3>1, <3>2 DEF Loop, Commit, TestIInv
  <2>2. /\ debug'.pc = rpc /\ rpc % 4 = 0
        /\ Reports(InstOf(SimState), "pass") /\ rGPR' = rGPR
    BY <2>1, CommitsNext, StepExits DEF Commit, InStep
  <2>3. rpc = ms.pc /\ InstOf(SimState) = M
    BY <2>1, <2>2, CommitsNext
  <2>4. M.rt \in Reg /\ A7 \in Reg /\ A0 \in Reg
    BY <1>1, DecodedInst, DiffTestAssumption DEF Edge, SimIInv, TypeOK, M, Inst
  <2>5. \A r \in Reg : rGPR[r] = CommittedReg(r)'
    BY <1>10, <2>2 DEF RegistersAgree
  <2>6. \/ M.op = "ecall" /\ rGPR[A7] = ExitCall /\ rGPR[A0] = 0
        \/ M.op = "ebreak" /\ rGPR[A0] = 0
        \/ IsStore(M) /\ rGPR[M.rt] = 1
    BY <2>2, <2>3 DEF Reports
  <2>7. ws'.valid /\ ws'.pc = debug'.pc
    BY <1>2, <2>1, <2>2, <2>3
  <2> QED
    BY <1>3, <2>4, <2>5, <2>6, <2>7 DEF PassEarned
<1>12. ~parted' => SameReset
  BY DEF TestIInv, Loop
<1>13. exit' = "none" /\ ~parted' => InStep'
  <2> SUFFICES ASSUME exit' = "none", ~parted' PROVE InStep'
    OBVIOUS
  <2>1. ~TestParts
    BY DEF Loop
  <2>2. SimState' = ArchState
    BY <1>8
  <2>3. /\ ArchState' = IF es.valid THEN After(ArchState) ELSE ArchState
        /\ es.valid /\ es.pc % 4 = 0 => ~Aborts(ArchState, E)
    BY <1>1, <2>1, Moves
  <2>4. Sound(SimState)'
    BY <1>1, <2>2, ArchSound DEF Edge
  <2>5. Behind' \/ ~ms'.valid
    <3> SUFFICES ASSUME es.valid PROVE Behind'
      BY <1>2
    <3>1. rpc' = es.pc /\ rmem' = mem /\ rGPR' = GPRs
      BY <2>2 DEF SimState, ArchState, ArchPc
    <3>2. ~IsInt({}) /\ ~FetchParts
      BY <2>1 DEF TestParts, Parts, IsInt, Ints, TakenInts
    <3>3. Row(E.type, E.fusel, E.op)
      BY <1>1, Kinds DEF Edge, SimIInv
    <3>4. CASE es.pc % 4 = 0
      <4>1. Mapped(es.pc) /\ InstAt(mem, es.pc) = es.inst
        BY <3>2, <3>4 DEF FetchParts
      <4>2. ~ReadsCycle(E) /\ ~SimAlone(ArchState, E)
        BY <1>1, <2>1, NoCycle
      <4>3. IsStore(E) => es.src1 = GPRs[E.rs]
        <5>1. IsStore(E) => Src1Ren(E) /\ ~IsCsri(E)
          BY <3>3 DEF Row, AluOps, AluImmOps, ShiftOps, MduOps, LoadOps, StoreOps,
             CondOps, CsrRwOps, IsStore, Src1Ren, IsCsri, InstU, InstJ
        <5> QED
          BY <1>1, <5>1, Operands
      <4> QED
        BY <1>2, <1>3, <2>2, <2>3, <3>1, <3>4, <4>1, <4>2, <4>3 DEF Behind
    <3>5. CASE es.pc % 4 # 0
      <4>1. ~Stores
        BY <3>2, <3>5 DEF FetchParts
      <4>2. IsStore(E) => Unit("lsu")
        BY <3>3 DEF Row, AluOps, AluImmOps, ShiftOps, MduOps, LoadOps, StoreOps,
             CondOps, CsrRwOps, IsStore, Unit
      <4>3. IsStore(E) => Misaligned(E.op, DataAddr)
        BY <4>1, <4>2 DEF Stores
      <4> QED
        BY <1>2, <1>3, <3>1, <3>5, <4>3 DEF Behind, DataAddr
    <3> QED
      BY <3>4, <3>5
  <2>6. ArchState' = IF ms'.valid THEN After(SimState') ELSE SimState'
    BY <1>2, <2>2, <2>3
  <2> QED
    BY <2>4, <2>5, <2>6 DEF InStep
<1> QED
  BY <1>4, <1>5, <1>6, <1>7, <1>9, <1>10, <1>11, <1>12, <1>13 DEF TestIInv

LEMMA TestStutter == TestIInv /\ UNCHANGED testVars => TestIInv'
<1> SUFFICES ASSUME TestIInv, UNCHANGED testVars PROVE TestIInv'
  OBVIOUS
<1>1. /\ UNCHANGED allVars /\ UNCHANGED vars /\ UNCHANGED historyVars
      /\ UNCHANGED <<rpc, rGPR, rcsr, rpriv, rmem, debug, exit>>
      /\ UNCHANGED <<running, delay, sinceCommit, parted>>
  BY DEF testVars, simVars, allVars, vars, historyVars
<1>2. SimIInv' /\ NoLines'
  BY <1>1, SimNext DEF TestIInv, NoLines, vars, historyVars
<1>3. M' = M /\ B' = B /\ MResult' = MResult
  BY <1>1 DEF M, B, MResult, vars
<1>4. sinceCommit' = sinceCommit /\ Bubbles' = Bubbles
  BY <1>1 DEF Bubbles, vars
<1>5. DebugOfMs' = DebugOfMs
  BY <1>1, <1>3 DEF DebugOfMs, vars
<1>6. NoAlarm'
  BY <1>1 DEF TestIInv, NoAlarm
<1>7. \A r : CommittedReg(r)' = CommittedReg(r)
  BY <1>1, <1>3 DEF CommittedReg, BWrites, vars
<1>8. RegistersAgree' /\ PassEarned'
  BY <1>1, <1>3, <1>7 DEF TestIInv, RegistersAgree, PassEarned, vars
<1>9. SimState' = SimState
  BY <1>1 DEF SimState
<1>10. ArchState' = ArchState
  BY <1>1, <1>3 DEF ArchState, ArchPc, GPRs, ArchReg, MWrites, BWrites, Csrs, vars, historyVars
<1>11. InStep' <=> InStep
  BY <1>1, <1>3, <1>9, <1>10 DEF InStep, Behind, vars
<1> QED
  BY <1>1, <1>2, <1>4, <1>5, <1>6, <1>8, <1>11 DEF TestIInv, vars, historyVars

LEMMA TestInvariant == TestSpec => []TestIInv
  BY TestStart, TestStep, TestStutter, PTL DEF TestSpec

(***************************************************************************)
(* What the invariant says of the test.                                    *)
(***************************************************************************)

(* An instruction that is not a store leaves the memory. *)
LEMMA OnlyStores ==
  ASSUME NEW s, NEW i, ~IsStore(i) PROVE Executed(s, i).mem = s.mem
<1>1. \A no, tval : Trapped(s, no, tval).mem = s.mem
  BY DEF Trapped, Became
<1>2. \A r, v, next : Retired(s, r, v, next).mem = s.mem
  BY DEF Retired, Became
<1>3. Jumped(s, i).mem = s.mem
  BY <1>1, <1>2 DEF Jumped
<1>4. Accessed(s, i).mem = s.mem
  BY <1>1, <1>2 DEF Accessed
<1>5. CsrDone(s, i).mem = s.mem
  BY <1>1 DEF CsrDone, Became
<1>6. Called(s, i).mem = s.mem
  BY <1>1 DEF Called, Became
<1> QED
  BY <1>1, <1>2, <1>3, <1>4, <1>5, <1>6 DEF Executed

LEMMA MemoryOfIInv == TestIInv => MemoryAgrees
<1> SUFFICES ASSUME TestIInv, exit = "none", ~parted PROVE MemoryAgrees
  BY DEF MemoryAgrees
<1> DEFINE a == Add(ms.src1, M.imm)   s == SimState
<1>1. InStep /\ ArchState.mem = mem /\ s.mem = rmem /\ s.pc = rpc /\ s.GPR = rGPR
  BY DEF TestIInv, ArchState, SimState
<1>2. CASE ~ms.valid
  BY <1>1, <1>2 DEF InStep, MemoryAgrees
<1>3. CASE ms.valid
  <2>1. mem = After(s).mem
    BY <1>1, <1>3 DEF InStep
  <2>2. rpc % 4 = 0 => Mapped(rpc) /\ InstOf(s) = M
    BY <1>1, <1>3, CommitsNext
  <2>3. Row(M.type, M.fusel, M.op)
    BY Rows DEF TestIInv, SimIInv, TypeOK, M
  <2>4. CASE rpc % 4 # 0
    <3>1. mem = rmem
      BY <1>1, <2>1, <2>4 DEF After, Trapped, Became
    <3>2. IsStore(M) => Misaligned(M.op, a)
      BY <1>1, <1>3, <2>4 DEF InStep, Behind
    <3> QED
      BY <1>3, <3>1, <3>2 DEF MemoryAgrees
  <2>5. CASE rpc % 4 = 0
    <3>1. mem = Executed(s, M).mem
      BY <1>1, <2>1, <2>2, <2>5 DEF After
    <3>2. CASE ~IsStore(M)
      BY <1>1, <3>1, <3>2, OnlyStores DEF MemoryAgrees
    <3>3. CASE IsStore(M)
      <4>1. M.type \notin {"N", "U"} /\ M.op # "nop" /\ M.fusel = "lsu"
        BY <2>3, <3>3 DEF Row, AluOps, AluImmOps, ShiftOps, MduOps, LoadOps, StoreOps,
                          CondOps, CsrRwOps, IsStore
      <4>2. mem = Accessed(s, M).mem
        BY <3>1, <4>1 DEF Executed
      <4>3. a = Add(rGPR[M.rs], M.imm)
        BY <1>1, <1>3, <2>5, <3>3 DEF InStep, Behind
      <4> HIDE DEF a, s
      <4>4. mem = IF Misaligned(M.op, a) \/ ~Mapped(a) THEN rmem
                  ELSE [rmem EXCEPT ![IndexOf(a)] =
                          Merge(@, Shl(rGPR[M.rt], (a % 8) * ByteBits), Strobes(M.op, a))]
        BY <1>1, <3>3, <4>2, <4>3 DEF Accessed, Trapped, Became
      <4>5. Strobes(M.op, a) # {}
        <5>1. a \in Word
          <6>1. ms.src1 \in Word /\ M.imm \in Word
            BY DecodedInst DEF TestIInv, SimIInv, TypeOK, M, Inst
          <6>2. ms.src1 \in Int /\ M.imm \in Int
            BY <6>1, WPositive DEF Word
          <6> QED
            BY <6>2, AddWord DEF a
        <5>2. a % 8 \in Strobes(M.op, a)
          BY <5>1 DEF Strobes, AccessSize, Word
        <5> QED
          BY <5>2
      <4>6. mem = IF Misaligned(M.op, a) THEN rmem
                  ELSE WriteData(rmem, a, Strobes(M.op, a),
                                 Shl(rGPR[M.rt], (a % 8) * ByteBits))
        BY <4>4, <4>5 DEF WriteData
      <4> QED
        BY <1>3, <3>3, <4>6 DEF MemoryAgrees, a
    <3> QED
      BY <3>2, <3>3
  <2> QED
    BY <2>4, <2>5
<1> QED
  BY <1>2, <1>3

(* The comparison never fails before the machines part, and the loop ends  *)
(* by the exit of the simulator only.                                      *)
THEOREM NoAlarmCorrect == TestSpec => []NoAlarm
<1>1. TestIInv => NoAlarm
  BY DEF TestIInv
<1> QED
  BY <1>1, TestInvariant, PTL

(* The whole register files agree at every commit, not the one register    *)
(* the comparison looks at.                                                *)
THEOREM RegistersAgreeCorrect == TestSpec => []RegistersAgree
<1>1. TestIInv => RegistersAgree
  BY DEF TestIInv
<1> QED
  BY <1>1, TestInvariant, PTL

(* The memories agree up to the store that has not committed.              *)
THEOREM MemoryAgreesCorrect == TestSpec => []MemoryAgrees
  BY MemoryOfIInv, TestInvariant, PTL

(* A test reported as passed was passed by the core.                       *)
THEOREM PassEarnedCorrect == TestSpec => []PassEarned
<1>1. TestIInv => PassEarned
  BY DEF TestIInv
<1> QED
  BY <1>1, TestInvariant, PTL

(* The pipeline commits in time on every program, where the machines have  *)
(* parted as well: the watchdog never bites.                               *)
THEOREM CommitsInTimeCorrect == TestSpec => []CommitsInTime
<1>1. TestIInv => CommitsInTime
  <2> SUFFICES ASSUME TestIInv PROVE CommitsInTime
    OBVIOUS
  <2>1. Bubbles \in 0 .. 5
    BY DEF Bubbles
  <2>2. sinceCommit <= 20 /\ sinceCommit \in Nat
    BY <2>1 DEF TestIInv, RstTicks
  <2> QED
    BY <2>2, DiffTestAssumption DEF CommitsInTime, RstTicks
<1> QED
  BY <1>1, TestInvariant, PTL
=============================================================================
