----------------------------- MODULE CoreSafety -----------------------------
(***************************************************************************)
(* The safety of the pipeline for every program, register count, width and *)
(* sequence of interrupts: type correctness, one path, fresh operands,     *)
(* legal modes; and what a trap handler relies on.                         *)
(***************************************************************************)
EXTENDS CoreTraps, WordProofs, WellFoundedInduction

(***************************************************************************)
(* TypeOK: every register of the machine holds a value of its width at     *)
(* every clock.  The lemmas give the range of each wire that feeds one.    *)
(***************************************************************************)

(* Small numbers are words, and so are instruction words. *)
LEMMA SmallWord == 0 .. 15 \subseteq Word /\ InstWord \subseteq Word /\ Reg \subseteq Word
  <1>1. H \in Nat /\ H >= 4 /\ W \in Nat /\ W >= 16 /\ H <= W
    BY WordSize, WidthFacts
  <1>. QED
    BY <1>1, IsaAssumption DEF Word, InstWord, Reg

(* The reset vector is a word, and the poison an instruction word. *)
LEMMA ConstWord == PC_INIT \in Word /\ Poison \in InstWord
  BY IsaAssumption

(* Decoder.scala: every instruction word has fields. *)
LEMMA DecodedInst == \A w \in InstWord : InstTable[w] \in Inst
  BY IsaAssumption

(* One of the two instruction words of a memory word. *)
LEMMA HalfInst == ASSUME NEW d \in Word, NEW a PROVE HalfAt(d, a) \in InstWord
  <1>1. d \in Nat /\ H \in Nat \ {0} /\ d < H * H
    BY WPositive DEF Word, W
  <1>2. d % H \in 0 .. (H - 1)
    BY <1>1
  <1>3. d \div H \in 0 .. (H - 1)
    <2>1. d \div H \in Nat /\ H * (d \div H) <= d
      BY <1>1
    <2>. DEFINE q == d \div H
    <2>2. q \in Nat /\ H * q < H * H
      BY <2>1, <1>1
    <2>. HIDE DEF q
    <2>3. q < H
      BY <2>2, <1>1
    <2>. QED
      BY <2>2, <2>3, <1>1 DEF q
  <1>. QED
    BY <1>2, <1>3 DEF HalfAt, InstWord

(* A mapped address is an address of the memory. *)
LEMMA MappedIndex == ASSUME NEW a \in Word, Mapped(a) PROVE IndexOf(a) \in MemIndex
  <1>1. a \in Nat /\ PC_INIT \in Nat /\ MemWords \in Nat
    BY ConstWord, WPositive, MemoryAssumption DEF Word
  <1>. QED
    BY <1>1 DEF Mapped, IndexOf, MemIndex

(* nscscc_sram: what the instruction memory answers. *)
LEMMA ReadInstWord ==
  ASSUME NEW m \in Memories, NEW a \in Word, NEW old \in InstWord
  PROVE  ReadInst(m, a, old) \in InstWord
  BY MappedIndex, HalfInst, ConstWord DEF ReadInst, InstAt, Memories

(* What the data memory answers; the poison goes to the low half. *)
LEMMA ReadDataWord ==
  ASSUME NEW m \in Memories, NEW a \in Word, NEW old \in Word
  PROVE  ReadData(m, a, old) \in Word
  <1>1. (old \div H) * H + Poison \in Word
    <2>1. old \div H \in 0 .. (H - 1) /\ H \in Nat /\ Poison \in 0 .. (H - 1)
      <3>1. old \div H = HalfAt(old, 4)
        BY DEF HalfAt
      <3>. QED
        BY <3>1, HalfInst, ConstWord, WPositive DEF InstWord
    <2>. DEFINE q == old \div H
    <2>2. q \in 0 .. (H - 1)
      BY <2>1
    <2>. HIDE DEF q
    <2>3. q * H \in Nat /\ q * H <= (H - 1) * H
      BY <2>1, <2>2
    <2>4. q * H + Poison \in 0 .. (H * H - 1)
      BY <2>1, <2>3
    <2>. QED
      BY <2>4 DEF q, Word, W
  <1>. QED
    BY <1>1, MappedIndex DEF ReadData, Memories

(* A store leaves a memory. *)
LEMMA WriteDataMemory ==
  ASSUME NEW m \in Memories, NEW a \in Word, NEW strb, NEW w \in Word
  PROVE  WriteData(m, a, strb, w) \in Memories
  <1>1. \A x \in Word : Merge(x, w, strb) \in Word
    BY BitsPos, FromBitsWord DEF Merge
  <1>. QED
    BY <1>1, MappedIndex DEF WriteData, Memories

(* Lsu.scala and MemoryUnit.scala: store and load data are words. *)
LEMMA LoadStoreWord ==
  /\ \A op, w : StoreData(op, w) \in Word
  /\ \A op, a, d : LoadResult(op, a, d) \in Word
  BY FromBitsWord, ExtendWord DEF StoreData, LoadResult

(* CSRRegFile: the positions of the fields are bit positions. *)
LEMMA FieldBits == /\ CsrBits \subseteq BitPos /\ IntNo \subseteq BitPos
                   /\ \A m : MppBits(m) \subseteq BitPos
                   /\ XLEN - 1 \in BitPos
  BY CsrAssumption, WidthFacts DEF MppBits, CsrBits, BitPos

LEMMA CsrResetWord == CsrReset \in [CsrName -> Word]
  <1>1. FromBits({XLEN - 1, ExtI, MPP1, ExtU}) \in Word /\ FromBits({UXL}) \in Word
    BY FromBitsWord, FieldBits, CsrAssumption DEF CsrBits
  <1>. QED
    BY <1>1, SmallWord DEF CsrReset

LEMMA ResetStatus == Bits(CsrReset["mstatus"]) = {UXL}
  BY CsrAssumption, BitsFromBits DEF CsrReset, CsrName

(* The write port, mip, and the mstatus of a trap and of mret. *)
LEMMA CsrWriteWord ==
  ASSUME NEW c \in [CsrName -> Word], NEW name \in CsrName, NEW v \in Word
  PROVE  WriteValue(c, name, v) \in Word
  <1>1. Wmpp(c, v) \subseteq BitPos
    BY FieldBits DEF Wmpp, CsrBits
  <1>2. Bits(v) \subseteq BitPos /\ Bits(c[name]) \subseteq BitPos
    BY BitsPos
  <1>. QED
    BY <1>1, <1>2, FromBitsWord DEF WriteValue

LEMMA MipWord ==
  ASSUME NEW c \in [CsrName -> Word], NEW lines \in SUBSET IntNo
  PROVE  MipNext(c, lines) \in Word
  <1>1. Bits(c["mip"]) \subseteq BitPos
    BY BitsPos DEF CsrName
  <1>. QED
    BY <1>1, FieldBits, FromBitsWord DEF MipNext

LEMMA StatusWord ==
  ASSUME NEW v \in Word
  PROVE  /\ \A m : TrapStatus(v, m) \in Word
         /\ MretStatus(v) \in Word
  <1>1. Bits(v) \subseteq BitPos
    BY BitsPos
  <1>2. MIE \in BitPos /\ MPIE \in BitPos /\ MPRV \in BitPos
    BY FieldBits DEF CsrBits
  <1>3. \A m : TrapStatus(v, m) \in Word
    BY <1>1, <1>2, FieldBits, FromBitsWord DEF TrapStatus
  <1>4. MretStatus(v) \in Word
    BY <1>1, <1>2, FromBitsWord DEF MretStatus
  <1>. QED
    BY <1>3, <1>4

(* The priority encoder picks an interrupt, and a raised exception. *)
LEMMA FirstIntNo == \A S : FirstInt(S) \in IntNo
  BY DEF FirstInt, IntNo

LEMMA FirstExcRaised ==
  ASSUME NEW S \in SUBSET (0 .. 15), S # {}
  PROVE  FirstExc(S) \in S
  <1>. DEFINE Less == {ss \in Nat \X Nat : ss[1] < ss[2]}
              T == {ExcRank[e] : e \in S}
  <1>1. IsWellFoundedOn(Less, Nat)
    BY NatLessThanWellFounded DEF OpToRel
  <1>2. \A e \in 0 .. 15 : ExcRank[e] \in Nat
    BY DEF ExcRank
  <1>3. T \subseteq Nat /\ T # {}
    BY <1>2
  <1>. HIDE DEF Less
  <1>4. PICK m \in T : \A y \in T : ~ (<<y, m>> \in Less)
    BY <1>1, <1>3, WFMin
  <1>5. PICK e \in S : m = ExcRank[e]
    BY <1>4
  <1>6. ASSUME NEW f \in S PROVE ExcRank[e] <= ExcRank[f]
    <2>1. ExcRank[f] \in T /\ ExcRank[f] \in Nat /\ ExcRank[e] \in Nat
      BY <1>2
    <2>2. <<ExcRank[f], ExcRank[e]>> \notin Less
      BY <2>1, <1>4, <1>5
    <2>3. ~(ExcRank[f] < ExcRank[e])
      BY <2>1, <2>2 DEF Less
    <2>. QED
      BY <2>1, <2>3
  <1>. QED
    BY <1>6 DEF FirstExc

(* The cause of an interrupt has the top bit set and still fits; so does   *)
(* the vector's address. *)
LEMMA CauseWord ==
  /\ \A no \in IntNo : Cause(TRUE, no) \in Word
  /\ \A no \in 0 .. 15 : Cause(FALSE, no) \in Word
  <1>1. \A no \in IntNo : no \in Nat /\ no < XLEN - 1
    BY CsrAssumption, WidthFacts DEF BitPos
  <1>2. XLEN \in Nat /\ 2 * XLEN <= W /\ W \in Nat
    BY WidthFacts, WordSize
  <1>. QED
    BY <1>1, <1>2, SmallWord DEF Cause, Word

LEMMA TrapTargetWord ==
  ASSUME NEW mtvec \in Word, NEW isInt \in BOOLEAN, NEW no \in Int
  PROVE  TrapTarget(mtvec, isInt, no) \in Word
  <1>1. mtvec \in Nat
    BY WPositive DEF Word
  <1>. DEFINE base == (mtvec \div 4) * 4
              offset == IF isInt /\ mtvec % 2 = 1 THEN 4 * no ELSE 0
  <1>2. base \in Int
    BY <1>1
  <1>3. offset \in Int
    OBVIOUS
  <1>. HIDE DEF base, offset
  <1>4. Add(base, offset) \in Word
    BY <1>2, <1>3, AddWord
  <1>. QED
    BY <1>4 DEF TrapTarget, base, offset

(***************************************************************************)
(* The wires of the stages, in a well-typed state.                         *)
(***************************************************************************)
LEMMA StageInst ==
  ASSUME TypeOK PROVE D \in Inst /\ E \in Inst /\ M \in Inst /\ B \in Inst
  BY DecodedInst DEF TypeOK, D, E, M, B

LEMMA InstFields ==
  ASSUME NEW i \in Inst
  PROVE  /\ i.imm \in Word /\ i.rs \in Reg /\ i.rt \in Reg /\ i.rd \in Reg
         /\ i.csr \in CsrName \cup CsrSimOnly \cup {CsrEmpty}
  BY DEF Inst

LEMMA AddrWord ==
  ASSUME TypeOK
  PROVE  /\ DataAddr \in Word /\ Target \in Word /\ Link \in Word
         /\ Add(pc, 4) \in Word /\ Add(es.pc, 4) \in Word
  <1>1. /\ es.src1 \in Word /\ es.pc \in Word /\ pc \in Word /\ E.imm \in Word
    BY StageInst, InstFields DEF TypeOK, Address
  <1>2. es.src1 \in Int /\ es.pc \in Int /\ pc \in Int /\ E.imm \in Int
    BY <1>1 DEF Word
  <1>3. /\ DataAddr \in Word /\ Add(es.pc, E.imm) \in Word
        /\ Add(pc, 4) \in Word /\ Add(es.pc, 4) \in Word
    BY <1>1, <1>2, AddWord DEF DataAddr
  <1>4. ASSUME NEW a \in Word PROVE EvenOf(a) \in Word
    BY WPositive DEF EvenOf, Word
  <1>. QED
    BY <1>3, <1>4, SmallWord DEF Target, Link

LEMMA CsrPortWord ==
  ASSUME TypeOK PROVE CsrRead \in Word /\ CsrWdata \in Word
  <1>1. CsrRead \in Word
    BY StageInst, InstFields, SmallWord DEF CsrRead, RLegal, TypeOK
  <1>2. es.src1 \in Word
    BY DEF TypeOK
  <1>. QED
    BY <1>1, <1>2, BitwiseWord DEF CsrWdata

LEMMA ResultWord ==
  ASSUME TypeOK PROVE EResult \in Word /\ MResult \in Word
  <1>1. es.src1 \in Word /\ es.src2 \in Word /\ ms.wdata \in Word
    BY DEF TypeOK
  <1>2. /\ Alu(E.op, es.src1, es.src2) \in Word
        /\ Mdu(E.op, es.src1, es.src2) \in Word
    BY <1>1, AluWord, MduWord
  <1>3. EResult \in Word
    BY <1>2, AddrWord, CsrPortWord, SmallWord DEF EResult
  <1>4. MResult \in Word
    BY <1>1, LoadStoreWord DEF MResult
  <1>. QED
    BY <1>3, <1>4

LEMMA OperandWord ==
  ASSUME TypeOK, NEW lines PROVE Src1(lines) \in Word /\ Src2(lines) \in Word
  <1>1. \A r \in Reg : Forwarded(lines, r) \in Word
    BY ResultWord DEF Forwarded, TypeOK
  <1>2. D.rs \in Reg /\ D.rt \in Reg /\ D.imm \in Word /\ ds.pc \in Word
    BY StageInst, InstFields DEF TypeOK, Address
  <1>. QED
    BY <1>1, <1>2, SmallWord DEF Src1, Src2

(* What a taken trap writes and where it leads. *)
LEMMA TrapWord ==
  ASSUME TypeOK, NEW lines, Trap(lines)
  PROVE  /\ IsInt(lines) \in BOOLEAN
         /\ TrapNo(lines) \in Int
         /\ Cause(IsInt(lines), TrapNo(lines)) \in Word
         /\ Tval(TrapNo(lines)) \in Word
  <1>1. IsInt(lines) => TrapNo(lines) \in IntNo
    BY FirstIntNo DEF TrapNo
  <1>2. ~IsInt(lines) => TrapNo(lines) \in 0 .. 15
    <2>1. Exceptions \in SUBSET (0 .. 15)
      BY DEF Exceptions
    <2>. QED
      BY <2>1, FirstExcRaised DEF TrapNo, Trap
  <1>3. \A e : Tval(e) \in Word
    <2>1. es.pc \in Word /\ es.inst \in Word
      BY SmallWord DEF TypeOK, Address
    <2>. QED
      BY <2>1, AddrWord, SmallWord DEF Tval
  <1>4. IsInt(lines) \in BOOLEAN
    BY DEF IsInt
  <1>5. TrapNo(lines) \in Int
    <2>1. IntNo \subseteq Int
      BY FieldBits DEF BitPos
    <2>2. 0 .. 15 \subseteq Int
      OBVIOUS
    <2>3. TrapNo(lines) \in IntNo \/ TrapNo(lines) \in 0 .. 15
      BY <1>1, <1>2
    <2>. QED
      BY <2>1, <2>2, <2>3, Zenon
  <1>6. Cause(IsInt(lines), TrapNo(lines)) \in Word
    <2>1. CASE IsInt(lines)
      <3>1. Cause(IsInt(lines), TrapNo(lines)) = Cause(TRUE, TrapNo(lines))
        BY <2>1, <1>4
      <3>. QED
        BY <2>1, <3>1, <1>1, CauseWord
    <2>2. CASE ~IsInt(lines)
      <3>1. Cause(IsInt(lines), TrapNo(lines)) = Cause(FALSE, TrapNo(lines))
        BY <2>2, <1>4
      <3>. QED
        BY <2>2, <3>1, <1>2, CauseWord
    <2>. QED
      BY <2>1, <2>2
  <1>. QED
    BY <1>3, <1>4, <1>5, <1>6

(* FetchUnit: the next instruction address. *)
LEMMA InstAddrWord == ASSUME TypeOK, NEW lines PROVE InstAddr(lines) \in Word
  <1>1. CsrFlush(lines) => CsrTarget(lines) \in Word
    <2>1. csrs["mepc"] \in Word /\ csrs["mtvec"] \in Word
      BY DEF TypeOK, CsrName
    <2>. QED
      BY <2>1, TrapWord, TrapTargetWord DEF CsrFlush, CsrTarget
  <1>2. pc \in Word
    BY DEF TypeOK, Address
  <1>. QED
    BY <1>1, <1>2, AddrWord DEF InstAddr, Flush, FlushTo

(***************************************************************************)
(* The theorem.  One lemma for each part of the clock edge.                *)
(***************************************************************************)
LEMMA InitTypes == Init => TypeOK
  <1>1. PC_INIT - 4 \in Word
    BY ConstWord, WPositive, IsaAssumption DEF Word
  <1>2. 0 \in InstWord /\ 0 \in Word
    BY SmallWord, WPositive DEF InstWord
  <1>3. ModeM \in Mode /\ Images \subseteq Memories
    BY CoreAssumption DEF Mode
  <1>. QED
    BY <1>1, <1>2, <1>3, CsrResetWord DEF Init, TypeOK, Address

LEMMA FetchTypes ==
  ASSUME TypeOK, NEW lines \in IrqLines, FetchStep(lines)
  PROVE  state' \in {"boot", "send", "receive"} /\ pc' \in Address /\ inst_rdata' \in InstWord
  BY InstAddrWord, ReadInstWord DEF FetchStep, TypeOK, Address

LEMMA DecodeTypes ==
  ASSUME TypeOK, NEW lines \in IrqLines, DecodeStep(lines)
  PROVE  ds' \in [valid : BOOLEAN, pc : Address, inst : InstWord]
  <1>. DEFINE next == IF Stall(lines) THEN ds
                      ELSE [valid |-> state = "receive", pc |-> pc, inst |-> inst_rdata]
  <1>1. next \in [valid : BOOLEAN, pc : Address, inst : InstWord]
    BY DEF TypeOK
  <1>2. ds' = [next EXCEPT !.valid = next.valid /\ ~Flush(lines)]
    BY DEF DecodeStep
  <1>. HIDE DEF next
  <1>. QED
    BY <1>1, <1>2

LEMMA ExecuteTypes ==
  ASSUME TypeOK, NEW lines \in IrqLines, ExecuteStep(lines)
  PROVE  es' \in [valid : BOOLEAN, pc : Address, inst : InstWord, src1 : Word, src2 : Word]
  BY OperandWord DEF ExecuteStep, TypeOK

LEMMA MemoryTypes ==
  ASSUME TypeOK, NEW lines \in IrqLines, MemoryStep(lines)
  PROVE  ms' \in [valid : BOOLEAN, wen : BOOLEAN, pc : Address, inst : InstWord,
                   src1 : Word, wdata : Word]
  <1>1. EWen(lines) \in BOOLEAN
    BY DEF EWen
  <1>. QED
    BY <1>1, ResultWord DEF MemoryStep, TypeOK

LEMMA WriteBackTypes ==
  ASSUME TypeOK, WriteBackStep
  PROVE  /\ ws' \in [valid : BOOLEAN, wen : BOOLEAN, pc : Address, inst : InstWord,
                      wdata : Word]
         /\ regs' \in [Reg -> Word]
  BY ResultWord DEF WriteBackStep, TypeOK

LEMMA DataTypes ==
  ASSUME TypeOK, DataStep PROVE mem' \in Memories /\ data_rdata' \in Word
  <1>1. mem' \in Memories
    BY AddrWord, LoadStoreWord, WriteDataMemory DEF DataStep, TypeOK
  <1>. QED
    BY <1>1, AddrWord, ReadDataWord DEF DataStep, TypeOK

LEMMA CsrTypes ==
  ASSUME TypeOK, NEW lines \in IrqLines, CsrStep(lines)
  PROVE  csrs' \in [CsrName -> Word] /\ mode' \in Mode
  <1>. DEFINE File == [CsrName -> Word]
              written == [CsrWritten EXCEPT !["mip"] = MipNext(csrs, lines)]
              trapped == CsrTrapped(lines, written)
  <1>1. csrs \in File /\ csrs["mstatus"] \in Word /\ es.pc \in Word
    BY DEF TypeOK, Address, CsrName
  <1>2. CsrWritten \in File
    <2>1. ASSUME WLegal(mode, E.csr) PROVE E.csr \in CsrName
      BY <2>1, StageInst, InstFields DEF WLegal, RLegal
    <2>. QED
      BY <1>1, <2>1, CsrPortWord, CsrWriteWord DEF CsrWritten
  <1>3. written \in File
    <2>1. MipNext(csrs, lines) \in Word
      BY <1>1, CoreAssumption, MipWord
    <2>. QED
      BY <1>2, <2>1
  <1>. HIDE DEF written
  <1>4. trapped \in File
    <2>1. Trap(lines) =>
            /\ (IF IsInt(lines) THEN 0 ELSE Tval(TrapNo(lines))) \in Word
            /\ Cause(IsInt(lines), TrapNo(lines)) \in Word
      BY TrapWord, SmallWord
    <2>2. TrapStatus(csrs["mstatus"], mode) \in Word
      BY <1>1, StatusWord
    <2>. QED
      BY <1>1, <1>3, <2>1, <2>2 DEF CsrTrapped
  <1>5. csrs' = IF Mret THEN [trapped EXCEPT !["mstatus"] = MretStatus(csrs["mstatus"])]
                ELSE trapped
    BY DEF CsrStep, written
  <1>. HIDE DEF trapped
  <1>6. csrs' \in File
    BY <1>1, <1>4, <1>5, StatusWord
  <1>7. mode' \in Mode
    BY DEF CsrStep, TypeOK, Mode, MppOf
  <1>. QED
    BY <1>6, <1>7

LEMMA StepTypes == TypeOK /\ [Next]_vars => TypeOK'
  <1>. SUFFICES ASSUME TypeOK, [Next]_vars PROVE TypeOK'
    OBVIOUS
  <1>1. ASSUME NEW lines \in IrqLines, Clock(lines) PROVE TypeOK'
    BY <1>1, FetchTypes, DecodeTypes, ExecuteTypes, MemoryTypes, WriteBackTypes,
       DataTypes, CsrTypes DEF Clock, TypeOK
  <1>2. CASE UNCHANGED vars
    BY <1>2 DEF vars, TypeOK
  <1>. QED
    BY <1>1, <1>2 DEF Next

(* Every register of the pipeline, the CSR file, the register file and the *)
(* memories hold values of their widths at every clock: no wire is wider   *)
(* than the register it feeds, and no address table is left.               *)
THEOREM TypeCorrect == Spec => []TypeOK
  <1>1. Init => TypeOK
    BY InitTypes
  <1>2. TypeOK /\ [Next]_vars => TypeOK'
    BY StepTypes
  <1>. QED
    BY <1>1, <1>2, PTL DEF Spec

(***************************************************************************)
(* OnePath                                                                 *)
(***************************************************************************)
LEMMA OnePathInit == Init => OnePath
  BY DEF Init, OnePath

LEMMA OnePathStep == TypeOK /\ OnePath /\ [Next]_vars => OnePath'
  <1>. SUFFICES ASSUME TypeOK, OnePath, [Next]_vars PROVE OnePath'
    OBVIOUS
  <1>1. ASSUME NEW lines \in IrqLines, Clock(lines) PROVE OnePath'
    <2>1. FetchStep(lines) /\ DecodeStep(lines) /\ ExecuteStep(lines)
      BY <1>1 DEF Clock
    <2>2. es'.valid => ds'.valid /\ ds'.pc = Add(es'.pc, 4)
      <3>. SUFFICES ASSUME es'.valid PROVE ds'.valid /\ ds'.pc = Add(es'.pc, 4)
        OBVIOUS
      <3>1. ~Stall(lines)
        BY <2>1 DEF ExecuteStep, TypeOK
      <3>2. ds.valid /\ ~Flush(lines) /\ es'.pc = ds.pc
        BY <2>1, <3>1 DEF ExecuteStep
      <3>3. state = "receive" /\ pc = Add(ds.pc, 4)
        BY <3>2 DEF OnePath
      <3>. QED
        BY <2>1, <3>1, <3>2, <3>3 DEF DecodeStep
    <2>3. ds'.valid => state' = "receive" /\ pc' = Add(ds'.pc, 4)
      <3>. SUFFICES ASSUME ds'.valid PROVE state' = "receive" /\ pc' = Add(ds'.pc, 4)
        OBVIOUS
      <3>1. ~Flush(lines)
        BY <2>1 DEF DecodeStep, TypeOK
      <3>2. CASE Stall(lines)
        <4>1. ds.valid /\ ds'.pc = ds.pc
          BY <2>1, <3>1, <3>2 DEF DecodeStep, TypeOK
        <4>2. state = "receive" /\ pc = Add(ds.pc, 4)
          BY <4>1 DEF OnePath
        <4>. QED
          BY <2>1, <3>1, <3>2, <4>1, <4>2 DEF FetchStep, InstAddr
      <3>3. CASE ~Stall(lines)
        <4>1. state = "receive" /\ ds'.pc = pc
          BY <2>1, <3>1, <3>3 DEF DecodeStep, TypeOK
        <4>. QED
          BY <2>1, <3>1, <3>3, <4>1 DEF FetchStep, InstAddr
      <3>. QED
        BY <3>2, <3>3
    <2>. QED
      BY <2>2, <2>3 DEF OnePath
  <1>2. CASE UNCHANGED vars
    BY <1>2 DEF vars, OnePath
  <1>. QED
    BY <1>1, <1>2 DEF Next

(* The stages always hold consecutive instructions of one path: no flush   *)
(* leaves an instruction of the path it left, no stall drops or repeats    *)
(* one.                                                                    *)
THEOREM OnePathCorrect == Spec => []OnePath
  <1>1. Init => OnePath
    BY OnePathInit
  <1>2. TypeOK /\ OnePath /\ [Next]_vars => OnePath'
    BY OnePathStep
  <1>. QED
    BY <1>1, <1>2, TypeCorrect, PTL DEF Spec

(***************************************************************************)
(* OperandsFresh                                                           *)
(***************************************************************************)

(* A load is an I-type instruction: DecodeCtrl recognises it as one that   *)
(* does not read a second register.                                        *)
LEMMA LoadIsI ==
  ASSUME NEW w \in InstWord, IsLoad(InstTable[w])
  PROVE  InstTable[w].fusel = "lsu" /\ ~Src2Ren(InstTable[w])
  <1>. DEFINE i == InstTable[w]
  <1>1. <<i.type, i.fusel, i.op>> \in DecodeRows \cup {DecodeDefault}
    BY IsaAssumption
  <1>2. i.fusel = "lsu" /\ i.op \notin StoreOps
    BY DEF IsLoad, IsStore
  <1>3. i.type = "I"
    BY <1>1, <1>2 DEF DecodeRows, DecodeDefault, InstN, InstI, InstR, InstS, InstB,
       InstU, InstJ
  <1>. QED
    BY <1>2, <1>3 DEF Src2Ren, InstI

(* After a clock edge without a stall, a register has the value decode     *)
(* took from the forwarding paths before the edge.                         *)
LEMMA ForwardedIsArch ==
  ASSUME TypeOK, NEW lines \in IrqLines, Clock(lines), NEW r \in Reg,
         IsLoad(E) => ~EWrites(lines, r)
  PROVE  Forwarded(lines, r) = ArchReg(r)'
  <1>1. /\ ms' = [valid |-> es.valid, wen |-> EWen(lines), pc |-> es.pc,
                  inst |-> es.inst, src1 |-> es.src1, wdata |-> EResult]
        /\ ws' = [valid |-> ms.valid, wen |-> ms.wen, pc |-> ms.pc,
                  inst |-> ms.inst, wdata |-> MResult]
        /\ regs' = IF ws.valid /\ ws.wen /\ B.rd # 0
                   THEN [regs EXCEPT ![B.rd] = ws.wdata] ELSE regs
    BY DEF Clock, MemoryStep, WriteBackStep
  <1>2. M' = E /\ B' = M
    BY <1>1 DEF M, E, B
  <1>3. MWrites(r)' <=> EWrites(lines, r)
    BY <1>1, <1>2 DEF MWrites, EWrites
  <1>4. BWrites(r)' <=> MWrites(r)
    BY <1>1, <1>2 DEF MWrites, BWrites
  <1>5. EWrites(lines, r) => MResult' = EResult
    BY <1>1, <1>2 DEF MResult
  <1>6. ws'.wdata = MResult
    BY <1>1
  <1>7. regs'[r] = IF BWrites(r) THEN ws.wdata ELSE regs[r]
    BY <1>1 DEF BWrites, TypeOK
  <1>. QED
    BY <1>3, <1>4, <1>5, <1>6, <1>7 DEF Forwarded, ArchReg

LEMMA FreshInit == Init => OperandsFresh
  BY DEF Init, OperandsFresh

LEMMA FreshStep == TypeOK /\ OperandsFresh /\ [Next]_vars => OperandsFresh'
  <1>. SUFFICES ASSUME TypeOK, OperandsFresh, [Next]_vars PROVE OperandsFresh'
    OBVIOUS
  <1>1. ASSUME NEW lines \in IrqLines, Clock(lines) PROVE OperandsFresh'
    <2>. SUFFICES ASSUME es'.valid, NEW r \in Reg
                  PROVE  /\ (E.rs = r /\ Src1Ren(E) /\ ~IsCsri(E) => es.src1 = ArchReg(r))'
                         /\ (E.rt = r /\ Src2Ren(E) => es.src2 = ArchReg(r))'
      BY DEF OperandsFresh
    <2>1. ExecuteStep(lines)
      BY <1>1 DEF Clock
    <2>2. ~Stall(lines)
      BY <2>1 DEF ExecuteStep, TypeOK
    <2>3. E' = D /\ es'.src1 = Src1(lines) /\ es'.src2 = Src2(lines)
      BY <2>1, <2>2 DEF ExecuteStep, E, D
    <2>4. IsLoad(E) => E.fusel = "lsu" /\ ~Src2Ren(E)
      BY LoadIsI DEF E, TypeOK
    <2>5. D.rs = r /\ Src1Ren(D) /\ ~IsCsri(D) => Src1(lines) = ArchReg(r)'
      <3>. SUFFICES ASSUME D.rs = r, Src1Ren(D), ~IsCsri(D) PROVE Src1(lines) = ArchReg(r)'
        OBVIOUS
      <3>1. Src1(lines) = Forwarded(lines, r)
        BY DEF Src1
      <3>2. IsLoad(E) => ~EWrites(lines, r)
        BY <2>2, <2>4 DEF Stall
      <3>. QED
        BY <1>1, <3>1, <3>2, ForwardedIsArch
    <2>6. D.rt = r /\ Src2Ren(D) => Src2(lines) = ArchReg(r)'
      <3>. SUFFICES ASSUME D.rt = r, Src2Ren(D) PROVE Src2(lines) = ArchReg(r)'
        OBVIOUS
      <3>1. Src2(lines) = Forwarded(lines, r)
        BY DEF Src2
      <3>2. IsLoad(E) => ~EWrites(lines, r)
        BY <2>2, <2>4 DEF Stall
      <3>. QED
        BY <1>1, <3>1, <3>2, ForwardedIsArch
    <2>. QED
      BY <2>3, <2>5, <2>6 DEF Src1Ren, Src2Ren, IsCsri
  <1>2. CASE UNCHANGED vars
    BY <1>2 DEF vars, OperandsFresh, ArchReg, MWrites, BWrites, MResult, M, B, E
  <1>. QED
    BY <1>1, <1>2 DEF Next

(* No instruction executes with a stale operand, whatever the program and  *)
(* whenever interrupts come: the forwarding paths and the load-use stall   *)
(* are complete.                                                           *)
THEOREM OperandsFreshCorrect == Spec => []OperandsFresh
  <1>1. Init => OperandsFresh
    BY FreshInit
  <1>2. TypeOK /\ OperandsFresh /\ [Next]_vars => OperandsFresh'
    BY FreshStep
  <1>. QED
    BY <1>1, <1>2, TypeCorrect, PTL DEF Spec

(***************************************************************************)
(* ModeLegal                                                               *)
(***************************************************************************)

LegalMpp(S) == MppOf(S) \in {ModeU, ModeM}

LEMMA MppBitsLegal == \A S : LegalMpp(S) <=> (MPP0 \in S <=> MPP1 \in S)
  BY CsrAssumption DEF LegalMpp, MppOf, ModeU, ModeS, ModeH, ModeM

(* The write port keeps the MPP field of mstatus legal. *)
LEMMA WriteLegal ==
  ASSUME NEW c \in [CsrName -> Word], NEW v \in Word, LegalMpp(Bits(c["mstatus"]))
  PROVE  LegalMpp(Bits(WriteValue(c, "mstatus", v)))
  <1>. DEFINE S == ((Bits(v) \cap WMask("mstatus")) \ {MPP0, MPP1})
                   \cup Wmpp(c, v) \cup (Bits(c["mstatus"]) \ WMask("mstatus"))
  <1>1. Wmpp(c, v) \subseteq BitPos
    BY FieldBits DEF Wmpp, CsrBits
  <1>2. Bits(v) \subseteq BitPos /\ Bits(c["mstatus"]) \subseteq BitPos
    BY BitsPos DEF CsrName
  <1>3. S \in SUBSET BitPos
    BY <1>1, <1>2
  <1>4. Bits(WriteValue(c, "mstatus", v)) = S
    BY <1>3, BitsFromBits DEF WriteValue
  <1>5. WMask("mstatus") = CsrBits
    BY DEF WMask
  <1>6. \A b \in {MPP0, MPP1} : b \in S <=> b \in Wmpp(c, v)
    BY <1>5 DEF CsrBits
  <1>7. MPP0 \in Wmpp(c, v) <=> MPP1 \in Wmpp(c, v)
    BY MppBitsLegal, CsrAssumption
       DEF Wmpp, LegalMpp, MppBits, MppOf, ModeU, ModeS, ModeH, ModeM
  <1>. HIDE DEF S
  <1>. QED
    BY <1>4, <1>6, <1>7, MppBitsLegal

(* So do a trap from a legal mode, and mret. *)
LEMMA StatusLegal ==
  ASSUME NEW v \in Word
  PROVE  /\ \A m \in {ModeU, ModeM} : LegalMpp(Bits(TrapStatus(v, m)))
         /\ LegalMpp(Bits(MretStatus(v)))
  <1>. DEFINE b == Bits(v)
              T(m) == (b \ {MIE, MPIE, MPP0, MPP1})
                      \cup (IF MIE \in b THEN {MPIE} ELSE {}) \cup MppBits(m)
              R == (b \ CsrBits) \cup (IF MPIE \in b THEN {MIE} ELSE {}) \cup {MPIE}
                   \cup (IF MppOf(b) = ModeM THEN b \cap {MPRV} ELSE {})
  <1>1. b \subseteq BitPos /\ MIE \in BitPos /\ MPIE \in BitPos /\ MPRV \in BitPos
    BY BitsPos, FieldBits DEF CsrBits
  <1>2. ASSUME NEW m \in {ModeU, ModeM} PROVE LegalMpp(Bits(TrapStatus(v, m)))
    <2>1. T(m) \in SUBSET BitPos
      BY <1>1, FieldBits
    <2>2. Bits(TrapStatus(v, m)) = T(m)
      BY <2>1, BitsFromBits DEF TrapStatus
    <2>3. MPP0 \in T(m) <=> MPP1 \in T(m)
      <3>1. MPP0 \in MppBits(m) <=> MPP1 \in MppBits(m)
        BY DEF MppBits, ModeU, ModeS, ModeH, ModeM
      <3>2. \A p \in {MPP0, MPP1} : p \in T(m) <=> p \in MppBits(m)
        BY CsrAssumption
      <3>. QED
        BY <3>1, <3>2
    <2>. HIDE DEF T
    <2>. QED
      BY <2>2, <2>3, MppBitsLegal
  <1>3. LegalMpp(Bits(MretStatus(v)))
    <2>1. R \in SUBSET BitPos
      BY <1>1
    <2>2. Bits(MretStatus(v)) = R
      BY <2>1, BitsFromBits DEF MretStatus
    <2>3. MPP0 \notin R /\ MPP1 \notin R
      BY CsrAssumption DEF CsrBits
    <2>. HIDE DEF R
    <2>. QED
      BY <2>2, <2>3, MppBitsLegal
  <1>. QED
    BY <1>2, <1>3

LEMMA ModeLegalInit == Init => ModeLegal
  <1>1. {MPP0, MPP1} \cap Bits(CsrReset["mstatus"]) = {}
    BY ResetStatus, CsrAssumption DEF CsrBits
  <1>. QED
    BY <1>1 DEF Init, ModeLegal, MppOf, ModeU, ModeS, ModeH, ModeM

LEMMA ModeLegalStep == TypeOK /\ ModeLegal /\ [Next]_vars => ModeLegal'
  <1>. SUFFICES ASSUME TypeOK, ModeLegal, [Next]_vars PROVE ModeLegal'
    OBVIOUS
  <1>1. ASSUME NEW lines \in IrqLines, Clock(lines) PROVE ModeLegal'
    <2>. DEFINE old == csrs["mstatus"]
                written == [CsrWritten EXCEPT !["mip"] = MipNext(csrs, lines)]
                trapped == CsrTrapped(lines, written)
    <2>1. CsrStep(lines)
      BY <1>1 DEF Clock
    <2>2. csrs \in [CsrName -> Word] /\ old \in Word /\ LegalMpp(Bits(old))
      BY DEF TypeOK, ModeLegal, LegalMpp, CsrName
    <2>3. mode' \in {ModeU, ModeM}
      BY <2>1 DEF CsrStep, ModeLegal
    <2>4. CsrWritten["mstatus"] \in {old, WriteValue(csrs, "mstatus", CsrWdata)}
      BY <2>2 DEF CsrWritten
    <2>5. LegalMpp(Bits(CsrWritten["mstatus"]))
      BY <2>2, <2>4, WriteLegal, CsrPortWord
    <2>6. written["mstatus"] = CsrWritten["mstatus"] /\ "mstatus" \in DOMAIN written
      BY <2>2 DEF CsrWritten, CsrName
    <2>. HIDE DEF written
    <2>7. trapped["mstatus"] \in {CsrWritten["mstatus"], TrapStatus(old, mode)}
          /\ "mstatus" \in DOMAIN trapped
      BY <2>6 DEF CsrTrapped
    <2>8. LegalMpp(Bits(TrapStatus(old, mode)))
      BY <2>2, StatusLegal DEF ModeLegal
    <2>9. csrs' = IF Mret THEN [trapped EXCEPT !["mstatus"] = MretStatus(old)]
                  ELSE trapped
      BY <2>1 DEF CsrStep, written
    <2>. HIDE DEF trapped
    <2>10. csrs'["mstatus"] \in {CsrWritten["mstatus"], TrapStatus(old, mode),
                                 MretStatus(old)}
      BY <2>7, <2>9
    <2>11. LegalMpp(Bits(csrs'["mstatus"]))
      BY <2>2, <2>5, <2>8, <2>10, StatusLegal
    <2>. QED
      BY <2>3, <2>11 DEF ModeLegal, LegalMpp
  <1>2. CASE UNCHANGED vars
    BY <1>2 DEF vars, ModeLegal
  <1>. QED
    BY <1>1, <1>2 DEF Next

(* The machine is only ever in machine or user mode, and the mode mret     *)
(* returns to is one of them, whatever a program writes to mstatus.        *)
THEOREM ModeLegalCorrect == Spec => []ModeLegal
  <1>1. Init => ModeLegal
    BY ModeLegalInit
  <1>2. TypeOK /\ ModeLegal /\ [Next]_vars => ModeLegal'
    BY ModeLegalStep
  <1>. QED
    BY <1>1, <1>2, TypeCorrect, PTL DEF Spec

(***************************************************************************)
(* What one clock edge does to the state a program sees, whatever it does  *)
(* to the pipeline.                                                        *)
(***************************************************************************)

(* A register changes only by the instruction in execute. *)
LEMMA ArchRegMoves ==
  ASSUME TypeOK, NEW lines, Clock(lines), NEW r \in Reg
  PROVE  ArchReg(r)' = IF EWrites(lines, r) THEN MResult' ELSE ArchReg(r)
  <1>1. /\ ms' = [valid |-> es.valid, wen |-> EWen(lines), pc |-> es.pc,
                  inst |-> es.inst, src1 |-> es.src1, wdata |-> EResult]
        /\ ws' = [valid |-> ms.valid, wen |-> ms.wen, pc |-> ms.pc,
                  inst |-> ms.inst, wdata |-> MResult]
        /\ regs' = IF ws.valid /\ ws.wen /\ B.rd # 0
                   THEN [regs EXCEPT ![B.rd] = ws.wdata] ELSE regs
    BY DEF Clock, MemoryStep, WriteBackStep
  <1>2. M' = E /\ B' = M
    BY <1>1 DEF M, E, B
  <1>3. MWrites(r)' <=> EWrites(lines, r)
    BY <1>1, <1>2 DEF MWrites, EWrites
  <1>4. BWrites(r)' <=> MWrites(r)
    BY <1>1, <1>2 DEF MWrites, BWrites
  <1>5. ws'.wdata = MResult
    BY <1>1
  <1>6. regs'[r] = IF BWrites(r) THEN ws.wdata ELSE regs[r]
    BY <1>1 DEF BWrites, TypeOK
  <1>. QED
    BY <1>3, <1>4, <1>5, <1>6 DEF ArchReg

(* A redirection makes its target the next instruction.                    *)
LEMMA FlushLeads ==
  ASSUME TypeOK, OnePath, NEW lines, Clock(lines), es.valid, Flush(lines)
  PROVE  ArchPc' = FlushTo(lines)
  <1>1. state = "receive"
    BY DEF OnePath
  <1>2. ~ds'.valid /\ ~es'.valid /\ state' = "receive" /\ pc' = FlushTo(lines)
    BY <1>1 DEF Clock, FetchStep, DecodeStep, ExecuteStep, InstAddr, TypeOK
  <1>. QED
    BY <1>2 DEF ArchPc

(* Of the assignments to one CSR the last one counts: mret's, the trap's,  *)
(* mip's, the instruction's.                                               *)
LEMMA CsrMoves ==
  ASSUME TypeOK, NEW lines, Clock(lines), NEW n \in CsrName
  PROVE  /\ Mret /\ n = "mstatus" => csrs'[n] = MretStatus(csrs["mstatus"])
         /\ Trap(lines) /\ ~Mret /\ n = "mstatus"
              => csrs'[n] = TrapStatus(csrs["mstatus"], mode)
         /\ Trap(lines) /\ n = "mepc" => csrs'[n] = es.pc
         /\ ~Trap(lines) /\ ~Mret /\ ~(CsrWrites /\ E.csr = n) /\ n # "mip"
              => csrs'[n] = csrs[n]
         /\ n \notin TrapCsrs \cup {"mip"} /\ ~(CsrWrites /\ E.csr = n)
              => csrs'[n] = csrs[n]
  <1>. DEFINE written == [CsrWritten EXCEPT !["mip"] = MipNext(csrs, lines)]
              trapped == CsrTrapped(lines, written)
  <1>1. csrs \in [CsrName -> Word] /\ DOMAIN CsrWritten = CsrName
    BY DEF TypeOK, CsrWritten
  <1>2. ~(CsrWrites /\ E.csr = n) => CsrWritten[n] = csrs[n]
    BY <1>1 DEF CsrWritten, CsrWrites
  <1>3. DOMAIN written = CsrName /\ (n # "mip" => written[n] = CsrWritten[n])
    BY <1>1
  <1>. HIDE DEF written
  <1>4. /\ DOMAIN trapped = CsrName
        /\ ~Trap(lines) \/ n \notin TrapCsrs => trapped[n] = written[n]
        /\ Trap(lines) /\ n = "mepc" => trapped[n] = es.pc
        /\ Trap(lines) /\ n = "mstatus" => trapped[n] = TrapStatus(csrs["mstatus"], mode)
    BY <1>3 DEF CsrTrapped, TrapCsrs
  <1>5. csrs' = IF Mret THEN [trapped EXCEPT !["mstatus"] = MretStatus(csrs["mstatus"])]
                ELSE trapped
    BY DEF Clock, CsrStep, written
  <1>. HIDE DEF trapped
  <1>. QED
    BY <1>2, <1>3, <1>4, <1>5 DEF TrapCsrs

(* The fields of mstatus after a trap and after mret.                      *)
LEMMA StatusFields ==
  ASSUME NEW v \in Word, NEW m \in Mode
  PROVE  /\ MIE \notin Bits(TrapStatus(v, m))
         /\ MPIE \in Bits(TrapStatus(v, m)) <=> MIE \in Bits(v)
         /\ MppOf(Bits(TrapStatus(v, m))) = m
         /\ MIE \in Bits(MretStatus(v)) <=> MPIE \in Bits(v)
  <1>. DEFINE b == Bits(v)
              T == (b \ {MIE, MPIE, MPP0, MPP1})
                   \cup (IF MIE \in b THEN {MPIE} ELSE {}) \cup MppBits(m)
              R == (b \ CsrBits) \cup (IF MPIE \in b THEN {MIE} ELSE {}) \cup {MPIE}
                   \cup (IF MppOf(b) = ModeM THEN b \cap {MPRV} ELSE {})
  <1>1. b \subseteq BitPos /\ MIE \in BitPos /\ MPIE \in BitPos /\ MPRV \in BitPos
    BY BitsPos, FieldBits DEF CsrBits
  <1>2. MppBits(m) \subseteq {MPP0, MPP1}
    BY DEF MppBits
  <1>3. Bits(TrapStatus(v, m)) = T
    <2>1. T \in SUBSET BitPos
      BY <1>1, FieldBits
    <2>. QED
      BY <2>1, BitsFromBits DEF TrapStatus
  <1>4. Bits(MretStatus(v)) = R
    <2>1. R \in SUBSET BitPos
      BY <1>1
    <2>. QED
      BY <2>1, BitsFromBits DEF MretStatus
  <1>5. MIE \notin T /\ (MPIE \in T <=> MIE \in b)
    BY <1>2, CsrAssumption
  <1>6. \A p \in {MPP0, MPP1} : p \in T <=> p \in MppBits(m)
    BY CsrAssumption
  <1>7. MppOf(T) = m
    <2>. HIDE DEF T
    <2>1. /\ MPP0 \in T <=> m \in {ModeS, ModeM}
          /\ MPP1 \in T <=> m \in {ModeH, ModeM}
      BY <1>6, CsrAssumption DEF MppBits, ModeU, ModeS, ModeH, ModeM
    <2>. QED
      BY <2>1 DEF MppOf, Mode, ModeU, ModeS, ModeH, ModeM
  <1>8. MIE \in R <=> MPIE \in b
    BY CsrAssumption DEF CsrBits
  <1>. QED
    BY <1>3, <1>4, <1>5, <1>7, <1>8

(***************************************************************************)
(* FrameKept and TrapReturns                                               *)
(***************************************************************************)
FrameType == frame \in [open : BOOLEAN, pc : Word, cause : Word, tval : Word,
                        mode : Mode, mie : BOOLEAN]

FrameIInv == TypeOK /\ OnePath /\ FrameType /\ FrameKept

(* Inside an open frame no interrupt is taken.                             *)
LEMMA FrameMasks ==
  ASSUME FrameKept, frame.open, NEW lines PROVE ~IsInt(lines)
  BY DEF FrameKept, IsInt, Ints, TakenInts

LEMMA FrameInit == TrapInit => FrameIInv
  <1>. SUFFICES ASSUME TrapInit PROVE FrameIInv
    OBVIOUS
  <1>1. TypeOK /\ OnePath
    BY InitTypes, OnePathInit DEF TrapInit
  <1>2. FrameType /\ ~frame.open
    BY SmallWord DEF TrapInit, FrameType, Mode
  <1>. QED
    BY <1>1, <1>2 DEF FrameIInv, FrameKept

LEMMA FrameTypeStep ==
  ASSUME TypeOK, TypeOK', FrameType, NEW lines, FrameStep(lines) PROVE FrameType'
  <1>1. /\ es.pc \in Word /\ mode \in Mode
        /\ csrs'["mcause"] \in Word /\ csrs'["mtval"] \in Word
    BY DEF TypeOK, Address, CsrName
  <1>. DEFINE enabled == MIE \in Bits(csrs["mstatus"])
              opened  == [open |-> TRUE, pc |-> es.pc, cause |-> csrs'["mcause"],
                          tval |-> csrs'["mtval"], mode |-> mode, mie |-> enabled]
              closed  == [frame EXCEPT !.open = FALSE]
              Frames  == [open : BOOLEAN, pc : Word, cause : Word, tval : Word,
                          mode : Mode, mie : BOOLEAN]
  <1>2. enabled \in BOOLEAN
    OBVIOUS
  <1>3. frame' = closed \/ frame' = opened \/ frame' = frame
    BY DEF FrameStep
  <1>. HIDE DEF enabled
  <1>4. opened \in Frames
    BY <1>1, <1>2
  <1>5. closed \in Frames
    BY DEF FrameType
  <1>. HIDE DEF opened, closed
  <1>. QED
    BY <1>3, <1>4, <1>5 DEF FrameType

(* A trap writes what its frame says; anything else that writes the four   *)
(* CSRs closes the frame.                                                  *)
LEMMA FrameEdge ==
  ASSUME FrameIInv, NEW lines, Clock(lines), FrameStep(lines)
  PROVE  FrameKept'
  <1>. SUFFICES ASSUME frame'.open
                PROVE  FrameKept'
    BY DEF FrameKept
  <1>. DEFINE new == csrs'["mstatus"]
  <1>1. TypeOK /\ FrameType /\ FrameKept /\ CsrStep(lines)
    BY DEF FrameIInv, Clock
  <1>2. ~Mret /\ ~(CsrWrites /\ E.csr \in TrapCsrs /\ ~Trap(lines))
    BY <1>1 DEF FrameStep, FrameType
  <1>3. TrapCsrs \subseteq CsrName /\ "mip" \notin TrapCsrs
    BY DEF TrapCsrs, CsrName
  <1>4. CASE Trap(lines)
    <2>1. ~(frame.open /\ IsInt(lines))
      BY <1>1, FrameMasks
    <2>2. frame' = [open |-> TRUE, pc |-> es.pc, cause |-> csrs'["mcause"],
                    tval |-> csrs'["mtval"], mode |-> mode,
                    mie |-> MIE \in Bits(csrs["mstatus"])]
      BY <1>2, <1>4, <2>1 DEF FrameStep
    <2>3. mode' = ModeM
      BY <1>1, <1>2, <1>4 DEF CsrStep
    <2>4. new = TrapStatus(csrs["mstatus"], mode) /\ csrs'["mepc"] = es.pc
      BY <1>1, <1>2, <1>3, <1>4, CsrMoves DEF TrapCsrs
    <2>5. csrs["mstatus"] \in Word /\ mode \in Mode
      BY <1>1 DEF TypeOK, CsrName
    <2>6. /\ MIE \notin Bits(new)
          /\ MPIE \in Bits(new) <=> MIE \in Bits(csrs["mstatus"])
          /\ MppOf(Bits(new)) = mode
      BY <2>4, <2>5, StatusFields
    <2>. QED
      BY <2>2, <2>3, <2>4, <2>6 DEF FrameKept
  <1>5. CASE ~Trap(lines)
    <2>1. frame' = frame /\ mode' = mode
      BY <1>1, <1>2, <1>5 DEF FrameStep, CsrStep
    <2>2. \A n \in TrapCsrs : csrs'[n] = csrs[n]
      BY <1>1, <1>2, <1>3, <1>5, CsrMoves
    <2>3. /\ csrs'["mstatus"] = csrs["mstatus"] /\ csrs'["mepc"] = csrs["mepc"]
          /\ csrs'["mcause"] = csrs["mcause"] /\ csrs'["mtval"] = csrs["mtval"]
      BY <2>2 DEF TrapCsrs
    <2>. QED
      BY <1>1, <2>1, <2>3 DEF FrameKept
  <1>. QED
    BY <1>4, <1>5

LEMMA FrameNext == FrameIInv /\ [TrapNext]_trapVars => FrameIInv'
  <1>. SUFFICES ASSUME FrameIInv, [TrapNext]_trapVars PROVE FrameIInv'
    OBVIOUS
  <1>1. ASSUME NEW lines \in IrqLines, Clock(lines), FrameStep(lines)
        PROVE  FrameIInv'
    <2>1. Next
      BY <1>1 DEF Next
    <2>2. TypeOK' /\ OnePath'
      BY <2>1, StepTypes, OnePathStep DEF FrameIInv
    <2>3. FrameType'
      BY <1>1, <2>2, FrameTypeStep DEF FrameIInv
    <2>4. FrameKept'
      BY <1>1, FrameEdge
    <2>. QED
      BY <2>2, <2>3, <2>4 DEF FrameIInv
  <1>2. CASE UNCHANGED trapVars
    BY <1>2 DEF trapVars, vars, FrameIInv, TypeOK, OnePath, FrameType, FrameKept
  <1>. QED
    BY <1>1, <1>2 DEF TrapNext

(* Until a handler has saved the trap it works on, no interrupt overwrites *)
(* it, in any program and under any sequence of interrupt lines.           *)
THEOREM FrameKeptCorrect == TrapSpec => []FrameKept
  <1>1. TrapInit => FrameIInv
    BY FrameInit
  <1>2. FrameIInv /\ [TrapNext]_trapVars => FrameIInv'
    BY FrameNext
  <1>3. FrameIInv => FrameKept
    BY DEF FrameIInv
  <1>. QED
    BY <1>1, <1>2, <1>3, PTL DEF TrapSpec

LEMMA FrameReturns ==
  ASSUME FrameIInv, [TrapNext]_trapVars, frame.open, Mret
  PROVE  \/ UNCHANGED trapVars
         \/ /\ ArchPc' = frame.pc /\ mode' = frame.mode
            /\ MIE \in Bits(csrs'["mstatus"]) <=> frame.mie
  <1>. SUFFICES ASSUME NEW lines \in IrqLines, Clock(lines)
                PROVE  /\ ArchPc' = frame.pc /\ mode' = frame.mode
                       /\ MIE \in Bits(csrs'["mstatus"]) <=> frame.mie
    BY DEF TrapNext
  <1>1. TypeOK /\ OnePath /\ FrameKept
    BY DEF FrameIInv
  <1>2. es.valid /\ Flush(lines) /\ FlushTo(lines) = csrs["mepc"]
    BY DEF Mret, Unit, Flush, CsrFlush, FlushTo, CsrTarget
  <1>3. ArchPc' = frame.pc
    BY <1>1, <1>2, FlushLeads DEF FrameKept
  <1>4. mode' = frame.mode
    BY <1>1 DEF Clock, CsrStep, FrameKept
  <1>5. csrs'["mstatus"] = MretStatus(csrs["mstatus"]) /\ csrs["mstatus"] \in Word
    BY <1>1, CsrMoves DEF CsrName, TypeOK
  <1>6. MIE \in Bits(csrs'["mstatus"]) <=> frame.mie
    BY <1>1, <1>5, StatusFields DEF FrameKept, Mode
  <1>. QED
    BY <1>3, <1>4, <1>6

(* An mret returns to the instruction, the mode and the interrupt enable   *)
(* that the trap found, as long as the handler did not write other ones.   *)
THEOREM TrapReturnsCorrect == TrapSpec => TrapReturns
  <1>. DEFINE Returns == frame.open /\ Mret =>
                           /\ ArchPc' = frame.pc /\ mode' = frame.mode
                           /\ MIE \in Bits(csrs'["mstatus"]) <=> frame.mie
  <1>1. TrapInit => FrameIInv
    BY FrameInit
  <1>2. FrameIInv /\ [TrapNext]_trapVars => FrameIInv'
    BY FrameNext
  <1>3. FrameIInv /\ [TrapNext]_trapVars => [Returns]_trapVars
    BY FrameReturns
  <1>4. TrapSpec => [][Returns]_trapVars
    <2>. HIDE DEF Returns
    <2>. QED
      BY <1>1, <1>2, <1>3, PTL DEF TrapSpec
  <1>. QED
    BY <1>4 DEF TrapReturns

(***************************************************************************)
(* ExecutesInTime                                                          *)
(***************************************************************************)
(* The inductive invariant: what has passed and what is left until execute *)
(* holds an instruction.  A flush by an interrupt can come once in this    *)
(* time, because it masks the next.                                        *)
Masked == mode = ModeM /\ MIE \notin Bits(csrs["mstatus"])
Rest   == IF es.valid THEN 0 ELSE IF ds.valid THEN 1
          ELSE CASE state = "receive" -> 2 [] state = "send" -> 3 [] OTHER -> 4
IdleIInv == idle \in Nat /\ idle + Rest <= IF Masked THEN 4 ELSE 2
IdleAll == TypeOK /\ OnePath /\ IdleIInv

LEMMA IdleInit == TrapInit => IdleAll
  <1>. SUFFICES ASSUME TrapInit PROVE IdleAll
    OBVIOUS
  <1>1. TypeOK /\ OnePath
    BY InitTypes, OnePathInit DEF TrapInit
  <1>2. MIE \notin Bits(csrs["mstatus"])
    BY ResetStatus, CsrAssumption DEF TrapInit, Init, CsrBits
  <1>3. Masked /\ Rest = 4 /\ idle = 0
    BY <1>2 DEF TrapInit, Init, Masked, Rest
  <1>. QED
    BY <1>1, <1>3 DEF IdleAll, IdleIInv

(* On a bubble only an interrupt redirects the fetch, and nothing stalls.  *)
LEMMA BubbleMoves ==
  ASSUME TypeOK, OnePath, NEW lines \in IrqLines, Clock(lines), ~es.valid
  PROVE  /\ Flush(lines) <=> IsInt(lines)
         /\ ~Mret /\ ~CsrWrites /\ (Trap(lines) <=> IsInt(lines))
         /\ es'.valid <=> ds.valid /\ ~IsInt(lines)
         /\ ds'.valid <=> state = "receive" /\ ~IsInt(lines)
         /\ state' = IF state = "boot" THEN "send" ELSE "receive"
  <1>1. ~Stall(lines)
    BY DEF Stall, EWrites
  <1>2. ~Mret /\ ~CsrWrites /\ ~Branch /\ Exceptions = {}
    BY DEF Mret, CsrWrites, CsrWen, Branch, Unit, Exceptions
  <1>3. (Trap(lines) <=> IsInt(lines)) /\ (Flush(lines) <=> IsInt(lines))
    BY <1>2 DEF Trap, Flush, CsrFlush
  <1>4. FetchStep(lines) /\ DecodeStep(lines) /\ ExecuteStep(lines)
    BY DEF Clock
  <1>5. es'.valid <=> ds.valid /\ ~IsInt(lines)
    BY <1>1, <1>3, <1>4 DEF ExecuteStep
  <1>6. ds'.valid <=> state = "receive" /\ ~IsInt(lines)
    BY <1>1, <1>3, <1>4 DEF DecodeStep
  <1>7. state' = IF state = "boot" THEN "send" ELSE "receive"
    BY <1>4 DEF FetchStep
  <1>. QED
    BY <1>2, <1>3, <1>5, <1>6, <1>7

LEMMA IdleEdge ==
  ASSUME IdleAll, NEW lines \in IrqLines, Clock(lines), IdleStep
  PROVE  IdleIInv'
  <1>1. TypeOK /\ OnePath /\ idle \in Nat /\ state \in {"boot", "send", "receive"}
    BY DEF IdleAll, IdleIInv, TypeOK
  <1>2. idle' \in Nat
    BY <1>1 DEF IdleStep
  <1>3. CASE es.valid
    <2>1. state = "receive" /\ state' = "receive"
      BY <1>1, <1>3 DEF OnePath, Clock, FetchStep
    <2>2. /\ Rest' = 0 \/ Rest' = 1 \/ Rest' = 2
          /\ idle' = 0
      BY <1>3, <2>1 DEF Rest, IdleStep
    <2>3. CASE Masked'
      BY <2>2, <2>3 DEF IdleIInv
    <2>4. CASE ~Masked'
      BY <2>2, <2>4 DEF IdleIInv
    <2>. QED
      BY <2>3, <2>4
  <1>4. CASE ~es.valid /\ IsInt(lines)
    <2>1. ~Masked
      BY <1>4 DEF Masked, IsInt, Ints, TakenInts
    <2>2. idle + Rest <= 2 /\ Rest \in Nat
      BY <2>1 DEF IdleAll, IdleIInv, Rest
    <2>3. state # "boot" \/ ds.valid
      BY <1>1, <1>4, <2>2 DEF Rest
    <2>4. state' = "receive"
      BY <1>1, <1>4, <2>3, BubbleMoves DEF OnePath
    <2>5. Rest' = 2
      BY <1>1, <1>4, <2>4, BubbleMoves DEF Rest
    <2>6. Masked'
      <3>0. Trap(lines) /\ ~Mret
        BY <1>1, <1>4, BubbleMoves
      <3>1. csrs'["mstatus"] = TrapStatus(csrs["mstatus"], mode) /\ mode' = ModeM
        BY <1>1, <3>0, CsrMoves DEF CsrName, Clock, CsrStep
      <3>2. csrs["mstatus"] \in Word /\ mode \in Mode
        BY <1>1 DEF TypeOK, CsrName
      <3>. QED
        BY <3>1, <3>2, StatusFields DEF Masked
    <2>7. Rest >= 1
      BY <1>4 DEF Rest
    <2>8. idle' = idle + 1
      BY <1>4 DEF IdleStep
    <2>. QED
      BY <1>1, <1>2, <2>2, <2>5, <2>6, <2>7, <2>8 DEF IdleIInv
  <1>5. CASE ~es.valid /\ ~IsInt(lines)
    <2>1. /\ es'.valid <=> ds.valid
          /\ ds'.valid <=> state = "receive"
          /\ state' = IF state = "boot" THEN "send" ELSE "receive"
          /\ ~Mret /\ ~CsrWrites /\ ~Trap(lines)
      BY <1>1, <1>5, BubbleMoves
    <2>2. Rest' = Rest - 1 /\ Rest \in Nat
      BY <1>1, <1>5, <2>1 DEF Rest
    <2>3. csrs'["mstatus"] = csrs["mstatus"] /\ mode' = mode
      BY <1>1, <2>1, CsrMoves DEF CsrName, Clock, CsrStep
    <2>4. Masked' <=> Masked
      BY <2>3 DEF Masked
    <2>5. idle' = idle + 1
      BY <1>5 DEF IdleStep
    <2>. QED
      BY <1>1, <1>2, <2>2, <2>4, <2>5 DEF IdleAll, IdleIInv
  <1>. QED
    BY <1>3, <1>4, <1>5

(* No program and no sequence of interrupts keeps execute without an       *)
(* instruction for more than four clocks: the watchdog stays silent.       *)
THEOREM ExecutesInTimeCorrect == TrapSpec => []ExecutesInTime
  <1>1. TrapInit => IdleAll
    BY IdleInit
  <1>2. IdleAll /\ [TrapNext]_trapVars => IdleAll'
    <2>. SUFFICES ASSUME IdleAll, [TrapNext]_trapVars PROVE IdleAll'
      OBVIOUS
    <2>1. ASSUME NEW lines \in IrqLines, Clock(lines), IdleStep PROVE IdleAll'
      <3>1. Next
        BY <2>1 DEF Next
      <3>. QED
        BY <2>1, <3>1, IdleEdge, StepTypes, OnePathStep DEF IdleAll
    <2>2. CASE UNCHANGED trapVars
      BY <2>2 DEF trapVars, vars, IdleAll, TypeOK, OnePath, IdleIInv, Rest, Masked
    <2>. QED
      BY <2>1, <2>2 DEF TrapNext
  <1>3. IdleAll => ExecutesInTime
    BY DEF IdleAll, IdleIInv, ExecutesInTime, Rest
  <1>. QED
    BY <1>1, <1>2, <1>3, PTL DEF TrapSpec

(***************************************************************************)
(* InterruptReplays                                                        *)
(***************************************************************************)

(* A store that is made twice is made once, and reaches one word.          *)
LEMMA MergeTwice ==
  ASSUME NEW o \in Word, NEW w \in Word, NEW strb
  PROVE  Merge(Merge(o, w, strb), w, strb) = Merge(o, w, strb)
  <1>. DEFINE s == StrobeBits(strb)
              S == (Bits(w) \cap s) \cup (Bits(o) \ s)
  <1>1. S \in SUBSET BitPos
    BY BitsPos
  <1>2. Bits(Merge(o, w, strb)) = S
    BY <1>1, BitsFromBits DEF Merge
  <1>3. (Bits(w) \cap s) \cup (S \ s) = S
    OBVIOUS
  <1>. HIDE DEF S, s
  <1>4. Merge(o, w, strb) = FromBits(S)
    BY DEF Merge, S, s
  <1>5. Merge(Merge(o, w, strb), w, strb) = FromBits((Bits(w) \cap s) \cup (S \ s))
    BY <1>2 DEF Merge, s
  <1>. QED
    BY <1>3, <1>4, <1>5

LEMMA StoreTwice ==
  ASSUME NEW m \in Memories, NEW a \in Word, NEW strb, NEW w \in Word
  PROVE  /\ \A k \in MemIndex : WriteData(m, a, strb, w)[k] # m[k] => k = IndexOf(a)
         /\ WriteData(WriteData(m, a, strb, w), a, strb, w) = WriteData(m, a, strb, w)
  <1>1. CASE Mapped(a) /\ strb # {}
    <2>. DEFINE i == IndexOf(a)
                n == [m EXCEPT ![i] = Merge(m[i], w, strb)]
    <2>1. i \in MemIndex /\ m[i] \in Word
      BY <1>1, MappedIndex DEF Memories
    <2>2. WriteData(m, a, strb, w) = n
      BY <1>1 DEF WriteData
    <2>3. WriteData(n, a, strb, w) = [n EXCEPT ![i] = Merge(n[i], w, strb)]
      BY <1>1 DEF WriteData
    <2>. HIDE DEF i
    <2>4. n[i] = Merge(m[i], w, strb) /\ DOMAIN n = MemIndex
      BY <2>1 DEF Memories
    <2>5. Merge(n[i], w, strb) = n[i]
      BY <2>1, <2>4, MergeTwice
    <2>6. [n EXCEPT ![i] = n[i]] = n
      BY <2>4
    <2>7. \A k \in MemIndex : k # i => n[k] = m[k]
      BY DEF Memories
    <2>. HIDE DEF n
    <2>. QED
      BY <2>2, <2>3, <2>5, <2>6, <2>7 DEF i
  <1>2. CASE ~(Mapped(a) /\ strb # {})
    BY <1>2 DEF WriteData
  <1>. QED
    BY <1>1, <1>2

(* One edge at which an instruction is interrupted.                        *)
LEMMA InterruptEdge ==
  ASSUME TypeOK, NEW lines \in IrqLines, Clock(lines), IsInt(lines), es.valid, ~Mret
  PROVE  /\ csrs'["mepc"] = ArchPc
         /\ \A r \in Reg : ArchReg(r)' = ArchReg(r)
         /\ \A k \in MemIndex :
              mem'[k] # mem[k] => Stores /\ k = IndexOf(DataAddr)
         /\ Stores => StoreTo(mem') = mem'
         /\ \A n \in CsrName \ (TrapCsrs \cup {"mip"}) :
              csrs'[n] # csrs[n] => CsrWrites /\ n = E.csr
  <1>1. Trap(lines)
    BY DEF Trap
  <1>2. csrs'["mepc"] = ArchPc
    BY <1>1, CsrMoves DEF CsrName, ArchPc
  <1>3. \A r \in Reg : ArchReg(r)' = ArchReg(r)
    <2>1. ~EWen(lines)
      BY <1>1 DEF EWen, CsrFlush
    <2>. QED
      BY <2>1, ArchRegMoves DEF EWrites
  <1>4. mem' = IF Stores THEN StoreTo(mem) ELSE mem
    BY DEF Clock, DataStep, Stores, StoreTo
  <1>5. /\ \A k \in MemIndex : StoreTo(mem)[k] # mem[k] => k = IndexOf(DataAddr)
        /\ StoreTo(StoreTo(mem)) = StoreTo(mem)
    BY AddrWord, LoadStoreWord, StoreTwice DEF StoreTo, TypeOK
  <1>6. \A n \in CsrName \ (TrapCsrs \cup {"mip"}) :
          csrs'[n] # csrs[n] => CsrWrites /\ n = E.csr
    BY CsrMoves
  <1>7. \A k \in MemIndex : mem'[k] # mem[k] => Stores /\ k = IndexOf(DataAddr)
    BY <1>4, <1>5
  <1>8. Stores => StoreTo(mem') = mem'
    BY <1>4, <1>5
  <1>. QED
    BY <1>2, <1>3, <1>6, <1>7, <1>8

(* The instruction that an interrupt is taken on can be executed again:    *)
(* for every program, width and instant.                                   *)
THEOREM InterruptReplaysCorrect == TrapSpec => InterruptReplays
  <1>. DEFINE Replays == \A lines \in IrqLines :
         Clock(lines) /\ IsInt(lines) /\ es.valid /\ ~Mret =>
           /\ csrs'["mepc"] = ArchPc
           /\ \A r \in Reg : ArchReg(r)' = ArchReg(r)
           /\ \A k \in MemIndex :
                mem'[k] # mem[k] => Stores /\ k = IndexOf(DataAddr)
           /\ Stores => StoreTo(mem') = mem'
           /\ \A n \in CsrName \ (TrapCsrs \cup {"mip"}) :
                csrs'[n] # csrs[n] => CsrWrites /\ n = E.csr
  <1>1. TrapInit => TypeOK
    BY InitTypes DEF TrapInit
  <1>2. TypeOK /\ [TrapNext]_trapVars => TypeOK'
    <2>1. [TrapNext]_trapVars => [Next]_vars
      BY DEF TrapNext, Next, trapVars
    <2>. QED
      BY <2>1, StepTypes
  <1>3. TypeOK => Replays
    BY InterruptEdge
  <1>4. TrapSpec => [][Replays]_trapVars
    <2>. HIDE DEF Replays
    <2>. QED
      BY <1>1, <1>2, <1>3, PTL DEF TrapSpec
  <1>. QED
    BY <1>4 DEF InterruptReplays
=============================================================================
