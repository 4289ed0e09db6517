---------------------------- MODULE CoreSimulates ----------------------------
(***************************************************************************)
(* The pipeline implements the simulator, for every program, width and     *)
(* sequence of interrupts: every clock edge is one step() or invisible,    *)
(* but for the edges CoreRefines lists.                                    *)
(***************************************************************************)
EXTENDS CoreRefines, CoreSafety

(***************************************************************************)
(* The operators of Word, Isa, CsrFile, Memory and RefAlu are the same in  *)
(* the instance of the simulator.                                          *)
(***************************************************************************)
LEMMA SamePow == Ref!Pow2 = Pow2
  BY DEF Pow2, Ref!Pow2
LEMMA SameBase == /\ Ref!W = W /\ Ref!Word = Word /\ Ref!BitPos = BitPos
  BY DEF Ref!W, W, Ref!Word, Word, Ref!BitPos, BitPos
LEMMA SameBits == /\ Ref!BitsOf = BitsOf
  BY SamePow, SameBase DEF Ref!BitsOf, BitsOf
LEMMA SameWordOf == Ref!WordOf = WordOf
  BY SamePow, SameBase, SameBits DEF Ref!WordOf, WordOf
LEMMA SameSets == /\ \A a : Ref!Bits(a) = Bits(a)
                  /\ \A S : Ref!FromBits(S) = FromBits(S)
  BY SameBits, SameWordOf DEF Ref!Bits, Bits, Ref!FromBits, FromBits
LEMMA SameNumbers ==
  /\ \A a, b : Ref!Add(a, b) = Add(a, b)
  /\ \A a : Ref!Signed(a) = Signed(a)
  /\ \A a : Ref!SignedLo(a) = SignedLo(a)
  /\ \A a : Ref!Trunc(a) = Trunc(a)
  /\ \A a : Ref!Int32(a) = Int32(a)
  /\ \A a, b : Ref!CDiv(a, b) = CDiv(a, b)
  /\ \A a, b : Ref!CMod(a, b) = CMod(a, b)
  /\ Ref!Half = Half /\ Ref!LongMin = LongMin /\ Ref!ByteBits = ByteBits
<1>1. \A a : Ref!Trunc(a) = Trunc(a)
  BY SameBase DEF Ref!Trunc, Trunc
<1>2. \A a : Ref!SignedLo(a) = SignedLo(a)
  BY SameBase DEF Ref!SignedLo, SignedLo
<1>3. \A a : Ref!Signed(a) = Signed(a)
  BY SameBase DEF Ref!Signed, Signed
<1>4. \A a : Ref!Magnitude(a) = Magnitude(a)
  BY DEF Ref!Magnitude, Magnitude
<1>5. \A a, b : Ref!CDiv(a, b) = CDiv(a, b)
  BY <1>4 DEF Ref!CDiv, CDiv
<1>6. \A a, b : Ref!CMod(a, b) = CMod(a, b)
  BY <1>4 DEF Ref!CMod, CMod
<1> QED
  BY <1>1, <1>2, <1>3, <1>5, <1>6, SameBase DEF Ref!Add, Add, Ref!Int32, Int32, Ref!Half, Half, Ref!LongMin, LongMin, Ref!ByteBits, ByteBits
LEMMA SameBitwise ==
  /\ \A a, b : Ref!And(a, b) = And(a, b)
  /\ \A a, b : Ref!Or(a, b) = Or(a, b)
  /\ \A a, b : Ref!Xor(a, b) = Xor(a, b)
  /\ \A a, b : Ref!AndNot(a, b) = AndNot(a, b)
  /\ \A a, b : Ref!Shl(a, b) = Shl(a, b)
  /\ \A a, b : Ref!Shr(a, b) = Shr(a, b)
  /\ \A a, n, s : Ref!Extend(a, n, s) = Extend(a, n, s)
<1>1. \A a, b : Ref!And(a, b) = And(a, b)
  BY SameSets DEF Ref!And, And
<1>2. \A a, b : Ref!Or(a, b) = Or(a, b)
  BY SameSets DEF Ref!Or, Or
<1>3. \A a, b : Ref!Xor(a, b) = Xor(a, b)
  BY SameSets DEF Ref!Xor, Xor
<1>4. \A a, b : Ref!AndNot(a, b) = AndNot(a, b)
  BY SameSets DEF Ref!AndNot, AndNot
<1>5. \A a, b : Ref!Shl(a, b) = Shl(a, b)
  <2> SUFFICES ASSUME NEW a, NEW b PROVE Ref!Shl(a, b) = Shl(a, b)
    OBVIOUS
  <2>1. {i \in Ref!BitPos : i - b \in Ref!Bits(a)} = {i \in BitPos : i - b \in Bits(a)}
    BY SameSets, SameBase
  <2> QED
    BY <2>1, SameSets DEF Ref!Shl, Shl
<1>6. \A a, b : Ref!Shr(a, b) = Shr(a, b)
  <2> SUFFICES ASSUME NEW a, NEW b PROVE Ref!Shr(a, b) = Shr(a, b)
    OBVIOUS
  <2>1. {i \in Ref!BitPos : i + b \in Ref!Bits(a)} = {i \in BitPos : i + b \in Bits(a)}
    BY SameSets, SameBase
  <2> QED
    BY <2>1, SameSets DEF Ref!Shr, Shr
<1>7. \A a, n, s : Ref!Extend(a, n, s) = Extend(a, n, s)
  <2> SUFFICES ASSUME NEW a, NEW n, NEW s PROVE Ref!Extend(a, n, s) = Extend(a, n, s)
    OBVIOUS
  <2>1. {i \in Ref!BitPos : IF i < n THEN i \in Ref!Bits(a) ELSE s /\ n - 1 \in Ref!Bits(a)}
        = {i \in BitPos : IF i < n THEN i \in Bits(a) ELSE s /\ n - 1 \in Bits(a)}
    BY SameSets, SameBase
  <2> QED
    BY <2>1, SameSets DEF Ref!Extend, Extend
<1> QED
  BY <1>1, <1>2, <1>3, <1>4, <1>5, <1>6, <1>7
LEMMA SameExec ==
  ASSUME NEW a, NEW b, NEW p \in BOOLEAN,
         NEW o \in {"ADD", "SUB", "SLL", "SLT", "SLTU", "XOR", "SRL", "SRA", "OR", "AND",
                "MUL", "MULH", "MULHU", "MULHSU", "DIV", "DIVU", "REM", "REMU"}
  PROVE Ref!AluExec(a, b, o, p) = AluExec(a, b, o, p)
  BY SamePow, SameBase, SameNumbers, SameBitwise, SMTT(60) DEF Ref!AluExec, AluExec

LEMMA SameIsa ==
  /\ Ref!InstN = "N" /\ Ref!InstI = "I" /\ Ref!InstR = "R" /\ Ref!InstB = "B"
  /\ Ref!InstU = "U" /\ Ref!Reg = Reg /\ Ref!CsrRwOps = CsrRwOps
  /\ Ref!CsrEmpty = CsrEmpty /\ Ref!CsrName = CsrName /\ Ref!CsrSimOnly = CsrSimOnly
  /\ Ref!AluOp = AluOp /\ Ref!Op32 = Op32
  /\ \A i : Ref!IsLoad(i) = IsLoad(i) /\ Ref!IsStore(i) = IsStore(i)
  /\ \A op : Ref!AccessSize(op) = AccessSize(op)
  /\ \A op : Ref!LoadSigned(op) = LoadSigned(op)
<1>1. \A i : Ref!IsStore(i) = IsStore(i)
  BY DEF Ref!IsStore, IsStore, Ref!StoreOps, StoreOps
<1>2. \A i : Ref!IsLoad(i) = IsLoad(i)
  BY <1>1 DEF Ref!IsLoad, IsLoad
<1>3. \A op : Ref!AccessSize(op) = AccessSize(op)
  BY DEF Ref!AccessSize, AccessSize
<1>4. \A op : Ref!LoadSigned(op) = LoadSigned(op)
  BY DEF Ref!LoadSigned, LoadSigned
<1>5. Ref!AluOp = AluOp /\ Ref!Op32 = Op32
  BY Zenon DEF Ref!AluOp, AluOp, Ref!Op32, Op32
<1> QED
  BY <1>1, <1>2, <1>3, <1>4, <1>5
  DEF Ref!InstN, Ref!InstI, Ref!InstR, Ref!InstB, Ref!InstU, Ref!Reg, Reg,
      Ref!CsrRwOps, CsrRwOps, Ref!CsrEmpty, CsrEmpty, Ref!CsrName, CsrName,
      Ref!CsrSimOnly, CsrSimOnly

LEMMA SameCsr ==
  /\ Ref!CsrBits = CsrBits /\ Ref!IntNo = IntNo /\ Ref!CsrReset = CsrReset
  /\ Ref!ModeU = ModeU /\ Ref!ModeM = ModeM
  /\ \A S : Ref!MppOf(S) = MppOf(S)
  /\ \A m : Ref!MppBits(m) = MppBits(m)
  /\ \A name : Ref!EnWrite(name) = EnWrite(name)
<1>1. \A S : Ref!MppOf(S) = MppOf(S)
  BY DEF Ref!MppOf, MppOf, Ref!ModeU, ModeU, Ref!ModeS, ModeS, Ref!ModeH, ModeH,
         Ref!ModeM, ModeM
<1>2. \A m : Ref!MppBits(m) = MppBits(m)
  BY DEF Ref!MppBits, MppBits, Ref!ModeS, ModeS, Ref!ModeH, ModeH, Ref!ModeM, ModeM
<1>3. \A name : Ref!EnWrite(name) = EnWrite(name)
  BY DEF Ref!EnWrite, EnWrite
<1>4. Ref!CsrReset = CsrReset
  BY SameSets DEF Ref!CsrReset, CsrReset, Ref!CsrName, CsrName
<1> QED
  BY <1>1, <1>2, <1>3, <1>4
  DEF Ref!CsrBits, CsrBits, Ref!IntNo, IntNo, Ref!ModeU, ModeU, Ref!ModeM, ModeM

LEMMA SameMemory ==
  /\ Ref!Memories = Memories
  /\ \A a : Ref!Mapped(a) = Mapped(a) /\ Ref!IndexOf(a) = IndexOf(a)
  /\ \A m, a : Ref!InstAt(m, a) = InstAt(m, a)
  /\ \A old, new, strb : Ref!Merge(old, new, strb) = Merge(old, new, strb)
  /\ \A op, a : Ref!Strobes(op, a) = Strobes(op, a)
  /\ \A op, a : Ref!Misaligned(op, a) = Misaligned(op, a)
<1>1. \A a : Ref!Mapped(a) = Mapped(a) /\ Ref!IndexOf(a) = IndexOf(a)
  BY DEF Ref!Mapped, Mapped, Ref!IndexOf, IndexOf
<1>2. \A m, a : Ref!InstAt(m, a) = InstAt(m, a)
  BY <1>1 DEF Ref!InstAt, InstAt, Ref!HalfAt, HalfAt
<1>3. \A strb : Ref!StrobeBits(strb) = StrobeBits(strb)
  BY SameBase, SameNumbers DEF Ref!StrobeBits, StrobeBits
<1>4. \A old, new, strb : Ref!Merge(old, new, strb) = Merge(old, new, strb)
  BY SameSets, <1>3 DEF Ref!Merge, Merge
<1>5. \A op, a : Ref!Misaligned(op, a) = Misaligned(op, a)
  BY SameIsa DEF Ref!Misaligned, Misaligned
<1>6. \A op, a : Ref!Strobes(op, a) = Strobes(op, a)
  BY SameIsa DEF Ref!Strobes, Strobes
<1>7. Ref!Memories = Memories
  BY SameBase DEF Ref!Memories, Memories, Ref!MemIndex, MemIndex
<1> QED
  BY <1>1, <1>2, <1>4, <1>5, <1>6, <1>7

(***************************************************************************)
(* The invariants of the simulation, besides those of CoreSafety.          *)
(***************************************************************************)

(* What decode read instead of a register is still that in execute.        *)
OperandsDecoded ==
  es.valid =>
    /\ IsCsri(E) => es.src1 = E.rs
    /\ ~IsCsri(E) /\ ~Src1Ren(E) => es.src1 = IF Src1Pcen(E) THEN es.pc ELSE 0
    /\ ~Src2Ren(E) => es.src2 = E.imm

(* Only interrupts are recorded. *)
MipRecorded == Bits(csrs["mip"]) \subseteq IntNo /\ Bits(seen) \subseteq IntNo

(* An instruction on its way to execute is the one in memory, except where *)
(* an executed instruction wrote that it had passed.                       *)
Fresh(a, inst, n) ==
  Mapped(a) /\ (\A k \in 1 .. n : IndexOf(a) \notin stored[k]) => inst = InstAt(mem, a)
FetchIInv ==
  /\ es.valid => Fresh(es.pc, es.inst, 3)
  /\ ds.valid => Fresh(ds.pc, ds.inst, IF es.valid THEN 2 ELSE 3)
  /\ state = "receive" => Fresh(pc, inst_rdata, 1)

SimIInv ==
  /\ TypeOK /\ OnePath /\ OperandsFresh /\ ModeLegal
  /\ OperandsDecoded /\ MipRecorded /\ FetchIInv

LEMMA DecodedStep ==
  ASSUME TypeOK, NEW lines, Clock(lines) PROVE OperandsDecoded'
<1> SUFFICES ASSUME es'.valid
             PROVE  /\ (IsCsri(E) => es.src1 = E.rs)'
                    /\ (~IsCsri(E) /\ ~Src1Ren(E)
                         => es.src1 = IF Src1Pcen(E) THEN es.pc ELSE 0)'
                    /\ (~Src2Ren(E) => es.src2 = E.imm)'
  BY DEF OperandsDecoded
<1>1. ExecuteStep(lines)
  BY DEF Clock
<1>2. ~Stall(lines)
  BY <1>1 DEF ExecuteStep, TypeOK
<1>3. E' = D /\ es'.src1 = Src1(lines) /\ es'.src2 = Src2(lines) /\ es'.pc = ds.pc
  BY <1>1, <1>2 DEF ExecuteStep, E, D
<1> QED
  BY <1>3 DEF Src1, Src2, Src1Ren, Src2Ren, Src1Pcen, IsCsri

LEMMA MipStep ==
  ASSUME TypeOK, MipRecorded, NEW lines \in IrqLines, Clock(lines), HistoryNext
  PROVE  MipRecorded' /\ csrs'["mip"] = MipNext(csrs, lines)
<1>1. csrs["mip"] \in Word /\ lines \subseteq IntNo
  BY CoreAssumption DEF TypeOK, CsrName
<1>2. csrs'["mip"] = MipNext(csrs, lines)
  <2>1. CsrStep(lines) /\ DOMAIN csrs = CsrName
    BY DEF Clock, TypeOK
  <2>2. DOMAIN CsrWritten = CsrName
    BY <2>1 DEF CsrWritten
  <2> DEFINE written0 == [CsrWritten EXCEPT !["mip"] = MipNext(csrs, lines)]
  <2>3. written0["mip"] = MipNext(csrs, lines) /\ DOMAIN written0 = CsrName
    BY <2>2 DEF CsrName
  <2> HIDE DEF written0
  <2>4. CsrTrapped(lines, written0)["mip"] = MipNext(csrs, lines)
        /\ DOMAIN CsrTrapped(lines, written0) = CsrName
    BY <2>3 DEF CsrTrapped, CsrName
  <2>5. csrs' = IF Mret THEN [CsrTrapped(lines, written0) EXCEPT
                                !["mstatus"] = MretStatus(csrs["mstatus"])]
                ELSE CsrTrapped(lines, written0)
    BY <2>1 DEF CsrStep, written0
  <2> QED
    BY <2>4, <2>5 DEF CsrName
<1>3. Bits(csrs["mip"]) \cup lines \in SUBSET BitPos
  BY <1>1, BitsPos, FieldBits
<1>4. Bits(csrs'["mip"]) = Bits(csrs["mip"]) \cup lines
  BY <1>2, <1>3, BitsFromBits DEF MipNext
<1>5. seen' \in {seen, csrs["mip"]}
  BY DEF HistoryNext
<1> QED
  BY <1>1, <1>2, <1>4, <1>5 DEF MipRecorded

(* What a store changes of the memory, an instruction's view of it.        *)
LEMMA StoreKeeps ==
  ASSUME TypeOK, NEW lines, Clock(lines), NEW a, Stores => IndexOf(a) # IndexOf(DataAddr)
  PROVE  InstAt(mem', a) = InstAt(mem, a)
<1>1. DataStep
  BY DEF Clock
<1>2. mem'[IndexOf(a)] = mem[IndexOf(a)]
  BY <1>1 DEF DataStep, WriteData, Stores
<1> QED
  BY <1>2 DEF InstAt

(* Fetch reads the memory before the store in execute. *)
LEMMA Fetched ==
  ASSUME TypeOK, NEW lines, Clock(lines), HistoryNext, state # "boot"
  PROVE  Fresh(pc, inst_rdata, 1)'
<1> SUFFICES ASSUME Mapped(pc'), IndexOf(pc') \notin stored'[1]
             PROVE  inst_rdata' = InstAt(mem', pc')
  BY DEF Fresh
<1>1. pc' = InstAddr(lines) /\ inst_rdata' = ReadInst(mem, pc', inst_rdata)
  BY DEF Clock, FetchStep
<1>2. Stores => IndexOf(pc') # IndexOf(DataAddr)
  BY DEF HistoryNext, Stores, Unit
<1>3. inst_rdata' = InstAt(mem, pc')
  <2>1. InstAddr(lines) \in Word /\ PC_INIT \in Word
    BY InstAddrWord, ConstWord
  <2>2. ~(pc' < PC_INIT)
    BY <1>1, <2>1 DEF Mapped, Word
  <2> QED
    BY <1>1, <2>2 DEF ReadInst
<1> QED
  BY <1>2, <1>3, StoreKeeps

(* An instruction that has been fetched, or waits in decode, over an edge. *)
LEMMA FreshKept ==
  ASSUME TypeOK, NEW lines, Clock(lines), HistoryNext, NEW a, NEW inst,
         NEW n \in 1 .. 3, NEW m \in 1 .. 3, Fresh(a, inst, n),
         IF es.valid THEN m >= n + 1 ELSE m >= n
  PROVE  Mapped(a) /\ (\A k \in 1 .. m : IndexOf(a) \notin stored'[k])
         => inst = InstAt(mem', a)
<1> SUFFICES ASSUME Mapped(a), \A k \in 1 .. m : IndexOf(a) \notin stored'[k]
             PROVE  inst = InstAt(mem', a)
  OBVIOUS
<1>1. \A k \in 1 .. n : IndexOf(a) \notin stored[k]
  <2> SUFFICES ASSUME NEW k \in 1 .. n PROVE IndexOf(a) \notin stored[k]
    OBVIOUS
  <2>1. CASE es.valid
    <3>1. stored'[k + 1] = stored[k] /\ k + 1 \in 1 .. m
      BY <2>1 DEF HistoryNext
    <3> QED
      BY <3>1
  <2>2. CASE ~es.valid
    BY <2>2 DEF HistoryNext
  <2> QED
    BY <2>1, <2>2
<1>2. Stores => IndexOf(a) # IndexOf(DataAddr)
  <2> SUFFICES ASSUME Stores PROVE IndexOf(a) # IndexOf(DataAddr)
    OBVIOUS
  <2>1. stored'[1] = {IndexOf(DataAddr)} /\ 1 \in 1 .. m
    BY DEF HistoryNext, Stores, Unit
  <2> QED
    BY <2>1
<1> QED
  BY <1>1, <1>2, StoreKeeps DEF Fresh

LEMMA FetchInvStep ==
  ASSUME TypeOK, FetchIInv, NEW lines \in IrqLines, Clock(lines), HistoryNext
  PROVE  FetchIInv'
<1>0. FetchStep(lines) /\ DecodeStep(lines) /\ ExecuteStep(lines)
  BY DEF Clock
<1>1. ASSUME es'.valid PROVE Fresh(es.pc, es.inst, 3)'
  <2>1. es'.pc = ds.pc /\ es'.inst = ds.inst /\ ds.valid
    BY <1>0, <1>1 DEF ExecuteStep, TypeOK
  <2>2. Fresh(ds.pc, ds.inst, IF es.valid THEN 2 ELSE 3)
    BY <2>1 DEF FetchIInv
  <2> QED
    BY <2>1, <2>2, FreshKept DEF Fresh, TypeOK
<1>2. ASSUME ds'.valid PROVE Fresh(ds.pc, ds.inst, IF es.valid THEN 2 ELSE 3)'
  <2>1. CASE Stall(lines)
    <3>1. es.valid /\ ~es'.valid
      BY <1>0, <2>1 DEF Stall, EWrites, ExecuteStep, TypeOK
    <3>2. ds'.pc = ds.pc /\ ds'.inst = ds.inst /\ ds.valid
      BY <1>0, <1>2, <2>1 DEF DecodeStep, TypeOK
    <3>3. Fresh(ds.pc, ds.inst, 2)
      BY <3>1, <3>2 DEF FetchIInv
    <3> QED
      BY <3>1, <3>2, <3>3, FreshKept DEF Fresh
  <2>2. CASE ~Stall(lines)
    <3>1. ds'.pc = pc /\ ds'.inst = inst_rdata /\ state = "receive"
      BY <1>0, <1>2, <2>2 DEF DecodeStep
    <3>2. Fresh(pc, inst_rdata, 1)
      BY <3>1 DEF FetchIInv
    <3>3. Mapped(ds'.pc) /\ (\A k \in 1 .. 2 : IndexOf(ds'.pc) \notin stored'[k])
          => ds'.inst = InstAt(mem', ds'.pc)
      BY <3>1, <3>2, FreshKept DEF TypeOK
    <3> QED
      BY <3>3 DEF Fresh
  <2> QED
    BY <2>1, <2>2
<1>3. state' = "receive" => Fresh(pc, inst_rdata, 1)'
  BY <1>0, Fetched DEF FetchStep
<1> QED
  BY <1>1, <1>2, <1>3 DEF FetchIInv

LEMMA SimInit == AllInit => SimIInv
<1> SUFFICES ASSUME Init, HistoryInit PROVE SimIInv
  BY DEF AllInit
<1>1. TypeOK /\ OnePath /\ OperandsFresh /\ ModeLegal
  BY InitTypes, OnePathInit, FreshInit, ModeLegalInit
<1>2. Bits(csrs["mip"]) = {} /\ Bits(seen) = {}
  BY ZeroBits DEF Init, HistoryInit, CsrReset, CsrName
<1> QED
  BY <1>1, <1>2 DEF SimIInv, Init, HistoryInit, OperandsDecoded, MipRecorded, FetchIInv

LEMMA SimNext == SimIInv /\ [AllNext]_allVars => SimIInv'
<1> SUFFICES ASSUME SimIInv, [AllNext]_allVars PROVE SimIInv'
  OBVIOUS
<1>1. [Next]_vars
  BY DEF AllNext, allVars
<1>2. TypeOK' /\ OnePath' /\ OperandsFresh' /\ ModeLegal'
  BY <1>1, StepTypes, OnePathStep, FreshStep, ModeLegalStep DEF SimIInv
<1>3. CASE AllNext
  <2>1. PICK lines \in IrqLines : Clock(lines)
    BY <1>3 DEF AllNext, Next
  <2> QED
    BY <1>2, <1>3, <2>1, DecodedStep, MipStep, FetchInvStep DEF AllNext, SimIInv
<1>4. CASE UNCHANGED allVars
  <2>1. OperandsDecoded' /\ MipRecorded' /\ FetchIInv'
    BY <1>4 DEF SimIInv, OperandsDecoded, MipRecorded, FetchIInv, Fresh, allVars, vars,
                historyVars, E
  <2> QED
    BY <1>2, <2>1 DEF SimIInv
<1> QED
  BY <1>3, <1>4

LEMMA SimInvariant == HistorySpec => []SimIInv
  BY SimInit, SimNext, PTL DEF HistorySpec

(* Instructions execute as the memory holds them, unless one of the three  *)
(* executed before wrote to their word: nothing else makes a fetched       *)
(* instruction stale, no stall and no redirection.                         *)
THEOREM CodeFreshCorrect == HistorySpec => []CodeFresh
<1>1. SimIInv => CodeFresh
  BY DEF SimIInv, FetchIInv, Fresh, CodeFresh
<1> QED
  BY <1>1, SimInvariant, PTL

(***************************************************************************)
(* What a clock edge does to the state a program sees.                     *)
(***************************************************************************)
Edge(lines) == SimIInv /\ lines \in IrqLines /\ Clock(lines) /\ HistoryNext

GPRs == [r \in Reg |-> ArchReg(r)]
Csrs == [csrs EXCEPT !["mip"] = seen]

LEMMA ArchRegStep ==
  ASSUME NEW lines, Edge(lines), NEW r \in Reg
  PROVE  ArchReg(r)' = IF EWrites(lines, r) THEN MResult' ELSE ArchReg(r)
  BY ArchRegMoves DEF Edge, SimIInv

LEMMA ArchPcStep ==
  ASSUME NEW lines, Edge(lines), es.valid
  PROVE  /\ ArchPc = es.pc
         /\ ArchPc' = IF Flush(lines) THEN FlushTo(lines) ELSE Add(es.pc, 4)
<1>1. FetchStep(lines) /\ DecodeStep(lines) /\ ExecuteStep(lines) /\ TypeOK
  BY DEF Edge, Clock, SimIInv
<1>2. ds.valid /\ ds.pc = Add(es.pc, 4) /\ state = "receive"
  BY DEF Edge, SimIInv, OnePath
<1>3. CASE Flush(lines)
  <2>1. ~ds'.valid /\ ~es'.valid /\ state' = "receive" /\ pc' = FlushTo(lines)
    BY <1>1, <1>2, <1>3 DEF FetchStep, DecodeStep, ExecuteStep, InstAddr, TypeOK
  <2> QED
    BY <1>3, <2>1 DEF ArchPc
<1>4. CASE ~Flush(lines)
  <2>1. CASE Stall(lines)
    <3>1. ~es'.valid /\ ds'.valid /\ ds'.pc = ds.pc
      BY <1>1, <1>2, <1>4, <2>1 DEF DecodeStep, ExecuteStep, TypeOK
    <3> QED
      BY <1>2, <1>4, <3>1 DEF ArchPc
  <2>2. CASE ~Stall(lines)
    <3>1. es'.valid /\ es'.pc = ds.pc
      BY <1>1, <1>2, <1>4, <2>2 DEF ExecuteStep
    <3> QED
      BY <1>2, <1>4, <3>1 DEF ArchPc
  <2> QED
    BY <2>1, <2>2
<1> QED
  BY <1>3, <1>4 DEF ArchPc

(* The register an instruction writes and its debug record. *)
LEMMA RegisterStep ==
  ASSUME NEW lines, Edge(lines), es.valid, NEW r, NEW v,
         r = (IF EWen(lines) THEN E.rd ELSE 0), r # 0 => MResult' = v
  PROVE  Ref!SetGPR(r, v)
<1>1. r \in Reg
  <2>1. E.rd \in Reg /\ 0 \in Reg
    BY StageInst, InstFields, IsaAssumption DEF Edge, SimIInv, Reg
  <2> QED
    BY <2>1
<1>2. \A q \in Reg : EWrites(lines, q) <=> r # 0 /\ q = r
  BY DEF EWrites
<1>3. GPRs' = IF r = 0 THEN GPRs ELSE [GPRs EXCEPT ![r] = v]
  <2>1. GPRs' = [q \in Reg |-> ArchReg(q)']
    BY DEF GPRs
  <2>2. \A q \in Reg : ArchReg(q)' = IF r # 0 /\ q = r THEN v ELSE ArchReg(q)
    BY <1>2, ArchRegStep
  <2> QED
    BY <1>1, <2>1, <2>2 DEF GPRs
<1>4. ms'.pc = es.pc /\ ms'.wen = EWen(lines) /\ M' = E
  BY DEF Edge, Clock, MemoryStep, M, E
<1>5. written' = [pc |-> ArchPc, num |-> r, wdata |-> IF r = 0 THEN 0 ELSE v]
  BY <1>4, ArchPcStep DEF Edge, HistoryNext, DebugOfMs
<1> QED
  BY <1>3, <1>5, SameIsa DEF Ref!SetGPR, GPRs

(* The memory and the CSR file under an instruction that leaves them.      *)
LEMMA MemoryStays ==
  ASSUME NEW lines, Edge(lines), ~Stores PROVE mem' = mem
  BY DEF Edge, Clock, DataStep, Stores

LEMMA CsrStays ==
  ASSUME NEW lines, Edge(lines), ~Trap(lines), ~Mret, ~CsrWrites
  PROVE  mode' = mode /\ Csrs' = IF es.valid THEN csrs ELSE Csrs
<1>1. CsrStep(lines) /\ csrs \in [CsrName -> Word] /\ "mip" \in CsrName
  BY DEF Edge, Clock, SimIInv, TypeOK, CsrName
<1>2. csrs' = [csrs EXCEPT !["mip"] = MipNext(csrs, lines)] /\ mode' = mode
  BY <1>1 DEF CsrStep, CsrTrapped, CsrWritten, CsrWrites
<1>3. Csrs' = [csrs' EXCEPT !["mip"] = seen']
  BY DEF Csrs
<1>4. Csrs' = [csrs EXCEPT !["mip"] = seen']
  BY <1>1, <1>2, <1>3
<1>5. CASE es.valid
  <2>1. seen' = csrs["mip"]
    BY <1>5 DEF Edge, HistoryNext
  <2>2. [csrs EXCEPT !["mip"] = csrs["mip"]] = csrs
    BY <1>1
  <2> QED
    BY <1>2, <1>4, <1>5, <2>1, <2>2
<1>6. CASE ~es.valid
  <2>1. seen' = seen
    BY <1>6 DEF Edge, HistoryNext
  <2> QED
    BY <1>2, <1>4, <1>6, <2>1 DEF Csrs
<1> QED
  BY <1>5, <1>6

(* A bubble in execute is not seen by a program, unless an interrupt is    *)
(* taken on it.                                                            *)
LEMMA BubbleStep ==
  ASSUME NEW lines, Edge(lines), ~es.valid, ~IsInt(lines)
  PROVE  UNCHANGED Ref!vars
<1>0. FetchStep(lines) /\ DecodeStep(lines) /\ ExecuteStep(lines) /\ TypeOK
  BY DEF Edge, Clock, SimIInv
<1>1. Exceptions = {} /\ ~Mret /\ ~CsrWrites /\ ~Stores /\ ~Branch
  BY DEF Exceptions, Mret, CsrWrites, CsrWen, Stores, Branch, Unit
<1>2. ~Trap(lines) /\ ~Flush(lines) /\ ~Stall(lines)
  BY <1>1 DEF Trap, Flush, CsrFlush, Stall, EWrites
<1>3. mem' = mem /\ mode' = mode /\ Csrs' = Csrs
  BY <1>1, <1>2, MemoryStays, CsrStays
<1>4. GPRs' = GPRs
  <2>1. GPRs' = [r \in Reg |-> ArchReg(r)']
    BY DEF GPRs
  <2>2. \A r \in Reg : ArchReg(r)' = ArchReg(r)
    BY ArchRegStep DEF EWrites
  <2> QED
    BY <2>1, <2>2 DEF GPRs
<1>5. ArchPc' = ArchPc
  <2>1. /\ ds' = [valid |-> state = "receive", pc |-> pc, inst |-> inst_rdata]
        /\ es'.valid = ds.valid /\ es'.pc = ds.pc
    BY <1>0, <1>2 DEF DecodeStep, ExecuteStep, TypeOK
  <2>2. /\ state' = IF state = "boot" THEN "send" ELSE "receive"
        /\ pc' = IF state = "boot" THEN pc ELSE Add(pc, 4)
    BY <1>0, <1>2 DEF FetchStep, InstAddr
  <2>3. CASE ds.valid
    BY <2>1, <2>3 DEF ArchPc
  <2>4. CASE ~ds.valid /\ state = "receive"
    BY <2>1, <2>4 DEF ArchPc
  <2>5. CASE ~ds.valid /\ state = "boot"
    BY <2>1, <2>2, <2>5 DEF ArchPc
  <2>6. CASE ~ds.valid /\ state = "send"
    BY <2>1, <2>2, <2>6 DEF ArchPc
  <2> QED
    BY <1>0, <2>3, <2>4, <2>5, <2>6 DEF TypeOK
<1>6. written' = written
  BY DEF Edge, HistoryNext
<1> QED
  BY <1>3, <1>4, <1>5, <1>6 DEF Ref!vars, GPRs, Csrs

(* An instruction that neither traps nor writes memory or a CSR. *)
LEMMA RetireStep ==
  ASSUME NEW lines, Edge(lines), es.valid, ~Trap(lines), ~Mret, ~CsrWrites, ~Stores,
         NEW v, NEW r, r = (IF RegWen(E) THEN E.rd ELSE 0), r # 0 => MResult' = v,
         NEW next, next = IF Branch THEN Target ELSE Add(es.pc, 4)
  PROVE  Ref!Retire(csrs, r, v, next)
<1>1. ~CsrFlush(lines) /\ EWen(lines) = RegWen(E)
  BY DEF CsrFlush, EWen, RegWen
<1>2. Ref!SetGPR(r, v)
  BY <1>1, RegisterStep
<1>3. ArchPc' = next
  BY <1>1, ArchPcStep DEF Flush, FlushTo
<1>4. mem' = mem /\ mode' = mode /\ Csrs' = csrs
  BY MemoryStays, CsrStays
<1> QED
  BY <1>2, <1>3, <1>4 DEF Ref!Retire, Csrs

(* Where the trap leads. *)
LEMMA TrapPcSame ==
  ASSUME NEW lines, TypeOK, Trap(lines), ~VectorParts(lines)
  PROVE  Ref!TrapPc(csrs, TrapNo(lines))
         = TrapTarget(csrs["mtvec"], IsInt(lines), TrapNo(lines))
<1>1. csrs["mtvec"] \in Int
  BY DEF TypeOK, CsrName, Word
<1>2. TrapNo(lines) \in Int
  BY TrapWord
<1> DEFINE v == csrs["mtvec"]
           no == TrapNo(lines)
<1>3. CASE IsInt(lines)
  <2>1. v % 4 # 0 <=> v % 2 = 1
    BY <1>1, <1>3 DEF VectorParts
  <2> QED
    BY <1>3, <2>1, SameNumbers DEF Ref!TrapPc, TrapTarget
<1>4. CASE ~IsInt(lines)
  <2>1. v % 4 # 0 => no = 0
    BY <1>4 DEF VectorParts
  <2>2. (IF v % 4 # 0 THEN 4 * no ELSE 0) = 0
    BY <2>1
  <2> QED
    BY <1>4, <2>2, SameNumbers DEF Ref!TrapPc, TrapTarget
<1> QED
  BY <1>3, <1>4

LEMMA TrapStep ==
  ASSUME NEW lines, Edge(lines), es.valid, Trap(lines), ~VectorParts(lines),
         ~Mret, ~CsrWrites, ~Stores,
         NEW tval, tval = IF IsInt(lines) THEN 0 ELSE Tval(TrapNo(lines))
  PROVE  Ref!RaiseTrap(csrs, IsInt(lines), TrapNo(lines), tval)
<1> DEFINE no == TrapNo(lines)
           isInt == IsInt(lines)
           status == TrapStatus(csrs["mstatus"], mode)
           trapped == [csrs EXCEPT !["mtval"] = tval, !["mcause"] = Cause(isInt, no),
                                   !["mepc"] = es.pc, !["mstatus"] = status]
<1>1. CsrStep(lines) /\ TypeOK
  BY DEF Edge, Clock, SimIInv
<1>2. DOMAIN csrs = CsrName
  BY <1>1 DEF TypeOK
<1>3. mode' = ModeM
      /\ csrs' = [[csrs EXCEPT !["mip"] = MipNext(csrs, lines)] EXCEPT
                    !["mtval"] = tval, !["mcause"] = Cause(isInt, no),
                    !["mepc"] = es.pc, !["mstatus"] = status]
  BY <1>1 DEF CsrStep, CsrTrapped, CsrWritten, CsrWrites
<1>4. seen' = csrs["mip"]
  BY DEF Edge, HistoryNext
<1>5. Csrs' = [csrs' EXCEPT !["mip"] = csrs["mip"]]
  BY <1>4 DEF Csrs
<1> HIDE DEF status, no, isInt
<1>6. Csrs' = trapped
  BY <1>2, <1>3, <1>5 DEF CsrName
<1>7. Cause(isInt, no) = no + (IF isInt THEN Ref!W \div 2 ELSE 0)
  <2>1. no \in Int /\ W \in Int /\ isInt \in BOOLEAN
    BY <1>1, TrapWord, WPositive DEF no, isInt
  <2> QED
    BY <2>1, SameBase DEF Cause
<1>8. status = Ref!FromBits((Ref!Bits(csrs["mstatus"]) \ {MIE, MPIE, MPP0, MPP1})
                 \cup (IF MIE \in Ref!Bits(csrs["mstatus"]) THEN {MPIE} ELSE {})
                 \cup Ref!MppBits(mode))
  BY SameSets, SameCsr DEF status, TrapStatus
<1>9. CsrFlush(lines) /\ Flush(lines) /\ ~EWen(lines)
  BY DEF CsrFlush, Flush, EWen
<1>10. ArchPc = es.pc /\ ArchPc' = Ref!TrapPc(csrs, no)
  BY <1>1, <1>9, ArchPcStep, TrapPcSame DEF FlushTo, CsrTarget, no
<1>11. Ref!SetGPR(0, 0)
  BY <1>9, RegisterStep
<1>12. mem' = mem
  BY MemoryStays
<1>13. Csrs' = [csrs EXCEPT !["mtval"] = tval,
                            !["mcause"] = no + (IF isInt THEN Ref!W \div 2 ELSE 0),
                            !["mepc"] = ArchPc,
                            !["mstatus"] = Ref!FromBits(
                               (Ref!Bits(csrs["mstatus"]) \ {MIE, MPIE, MPP0, MPP1})
                               \cup (IF MIE \in Ref!Bits(csrs["mstatus"]) THEN {MPIE} ELSE {})
                               \cup Ref!MppBits(mode))]
  BY <1>6, <1>7, <1>8, <1>10
<1>14. Ref!RaiseTrap(csrs, isInt, no, tval)
  BY <1>3, <1>10, <1>11, <1>12, <1>13, SameCsr DEF Ref!RaiseTrap, Ref!NoGPR, Csrs
<1> QED
  BY <1>14 DEF isInt, no

(***************************************************************************)
(* What the simulator finds when it is called: the interrupts, and the     *)
(* instruction in execute with its operands.                               *)
(***************************************************************************)
LEMMA PreExecIs ==
  ASSUME NEW lines, Edge(lines) PROVE Ref!PreExec(Bits(csrs["mip"])) = csrs
<1>1. csrs \in [CsrName -> Word] /\ "mip" \in CsrName /\ csrs["mip"] \in Word
  BY DEF Edge, SimIInv, TypeOK, CsrName
<1>2. (Bits(seen) \ IntNo) \cup Bits(csrs["mip"]) = Bits(csrs["mip"])
  BY DEF Edge, SimIInv, MipRecorded
<1>3. FromBits(Bits(csrs["mip"])) = csrs["mip"]
  BY <1>1, FromBitsBits
<1>4. Ref!PreExec(Bits(csrs["mip"])) =
        [Csrs EXCEPT !["mip"] = FromBits((Bits(Csrs["mip"]) \ IntNo) \cup Bits(csrs["mip"]))]
  BY SameSets, SameCsr DEF Ref!PreExec, Csrs
<1>5. Csrs["mip"] = seen
  BY <1>1 DEF Csrs
<1>6. Ref!PreExec(Bits(csrs["mip"])) = [Csrs EXCEPT !["mip"] = csrs["mip"]]
  BY <1>2, <1>3, <1>4, <1>5
<1> QED
  BY <1>1, <1>6 DEF Csrs

LEMMA PendingSame ==
  ASSUME NEW lines, Edge(lines), es.valid, ~InterruptParts(lines)
  PROVE  Ref!PendingInts(csrs) = Ints(lines)
<1>1. lines \subseteq IntNo
  BY CoreAssumption DEF Edge
<1>2. Ints(lines) = Recorded
  BY <1>1 DEF Ints, TakenInts, Recorded, InterruptParts
<1>3. Ref!PendingInts(csrs) = Recorded
  BY SameSets, SameCsr DEF Ref!PendingInts, Recorded
<1> QED
  BY <1>2, <1>3

LEMMA InterruptStep ==
  ASSUME NEW lines, Edge(lines), es.valid, IsInt(lines), ~Parts(lines)
  PROVE  Ref!Step(Bits(csrs["mip"]))
<1>1. ~InterruptParts(lines) /\ ~VectorParts(lines) /\ Trap(lines)
  BY DEF Parts, Trap
<1>2. Ref!PendingInts(csrs) = Ints(lines) /\ Ints(lines) # {}
  BY <1>1, PendingSame DEF IsInt
<1>3. TrapNo(lines) = Ref!Int2Index(Ref!PendingInts(csrs))
  BY <1>2 DEF TrapNo, FirstInt, Ref!Int2Index
<1>4. Ref!RaiseTrap(csrs, IsInt(lines), TrapNo(lines), 0)
  BY <1>1, TrapStep DEF InterruptParts
<1>5. Ref!Interrupt(csrs)
  BY <1>2, <1>3, <1>4 DEF Ref!Interrupt, IsInt
<1> QED
  BY <1>5, PreExecIs DEF Ref!Step

(* An edge on which an instruction executes that no interrupt takes away.  *)
Executes(lines) ==
  Edge(lines) /\ es.valid /\ ~IsInt(lines) /\ ~Parts(lines) /\ es.pc % 4 = 0

LEMMA Fetches ==
  ASSUME NEW lines, Executes(lines)
  PROVE  ArchPc = es.pc /\ Mapped(es.pc) /\ Ref!InstAt(mem, ArchPc) = es.inst /\ Ref!I = E
<1>1. ArchPc = es.pc
  BY DEF Executes, ArchPc
<1>2. Mapped(es.pc) /\ es.inst = InstAt(mem, es.pc)
  BY DEF Executes, Parts, FetchParts
<1> QED
  BY <1>1, <1>2, SameMemory DEF Ref!I, E

LEMMA Operands ==
  ASSUME NEW lines, Edge(lines), es.valid
  PROVE  /\ Src1Ren(E) /\ ~IsCsri(E) => GPRs[E.rs] = es.src1
         /\ Src2Ren(E) => GPRs[E.rt] = es.src2
         /\ es.src1 \in Word /\ es.src2 \in Word /\ es.pc \in Word
<1>1. E.rs \in Reg /\ E.rt \in Reg
  BY StageInst, InstFields DEF Edge, SimIInv
<1>2. TypeOK /\ OperandsFresh
  BY DEF Edge, SimIInv
<1> QED
  BY <1>1, <1>2 DEF OperandsFresh, GPRs, TypeOK, Address

LEMMA ResultStep ==
  ASSUME NEW lines, Edge(lines), ~IsLoad(E) PROVE MResult' = EResult
<1>1. ms'.wdata = EResult /\ M' = E
  BY DEF Edge, Clock, MemoryStep, M, E
<1> QED
  BY <1>1 DEF MResult

(* The instructions there are: the rows of the decoder's table. *)
Row(t, u, o) ==
  \/ t = "N" /\ u = "alu" /\ o = "nop"
  \/ t = "U" /\ u = "alu" /\ o = "add"
  \/ t = "R" /\ u = "alu" /\ o \in AluOps
  \/ t = "I" /\ u = "alu" /\ o \in AluImmOps
  \/ t \in {"I", "R"} /\ u = "alu" /\ o = "nop"
  \/ t = "R" /\ u = "mdu" /\ o \in MduOps
  \/ t = "I" /\ u = "lsu" /\ o \in LoadOps
  \/ t = "S" /\ u = "lsu" /\ o \in StoreOps
  \/ t = "B" /\ u = "bru" /\ o \in CondOps
  \/ t = "J" /\ u = "bru" /\ o = "jal"
  \/ t = "I" /\ u = "bru" /\ o = "jalr"
  \/ t = "I" /\ u = "csr" /\ o \in CsrRwOps
  \/ t = "I" /\ u = "csr" /\ o \in {"ecall", "ebreak"}
  \/ t = "R" /\ u = "csr" /\ o = "mret"

LEMMA Rows ==
  ASSUME NEW w \in InstWord
  PROVE  /\ Row(InstTable[w].type, InstTable[w].fusel, InstTable[w].op)
         /\ InstTable[w].auipc => InstTable[w].type = "U"
<1> DEFINE i == InstTable[w]
<1>1. <<i.type, i.fusel, i.op>> \in DecodeRows \cup {DecodeDefault} /\ (i.auipc => i.type = InstU)
  BY IsaAssumption
<1> HIDE DEF i
<1>2. Row(i.type, i.fusel, i.op) /\ (i.auipc => i.type = "U")
  BY <1>1 DEF Row, DecodeRows, DecodeDefault, InstN, InstI, InstR, InstS, InstB, InstU, InstJ
<1> QED
  BY <1>2 DEF i

LEMMA Kinds == TypeOK => Row(E.type, E.fusel, E.op)
  BY Rows DEF TypeOK, E

(***************************************************************************)
(* Each instruction of the core is that of the simulator.                  *)
(***************************************************************************)

(* The units that raise no exception and have no effect but a register.    *)
LEMMA ArithmeticQuiet ==
  ASSUME NEW lines, Executes(lines), Legal(E), E.fusel \in {"alu", "mdu"}
  PROVE  ~Trap(lines) /\ ~Mret /\ ~CsrWrites /\ ~Stores /\ ~Branch
<1>1. ~JumpMisaligned /\ ~CsrIllegal
  BY DEF JumpMisaligned, Branch, Unit, CsrIllegal, CsrRen, CsrWen
<1>2. Exceptions = {}
  BY <1>1 DEF Exceptions, Executes, Unit
<1> QED
  BY <1>2 DEF Trap, Executes, Mret, CsrWrites, CsrWen, Stores, Branch, Unit

LEMMA IllegalStep ==
  ASSUME NEW lines, Executes(lines), E.type = "N", E.fusel = "alu"
  PROVE  Ref!Unknown(csrs)
<1>1. ~JumpMisaligned /\ ~CsrIllegal /\ ~Mret /\ ~CsrWrites /\ ~Stores
  BY DEF JumpMisaligned, Branch, Unit, CsrIllegal, CsrRen, CsrWen, Mret, CsrWrites, Stores
<1>2. Exceptions = {2}
  BY <1>1 DEF Exceptions, Executes, Unit, Legal, InstN
<1>3. FirstExc(Exceptions) = 2
  BY <1>2, FirstExcRaised
<1>4. TrapNo(lines) = 2 /\ Trap(lines) /\ ~VectorParts(lines) /\ Tval(2) = es.inst
  BY <1>2, <1>3 DEF TrapNo, Trap, Executes, Parts, Tval
<1>5. Ref!RaiseTrap(csrs, IsInt(lines), TrapNo(lines), es.inst)
  BY <1>1, <1>4, TrapStep DEF Executes
<1>6. Ref!RaiseTrap(csrs, FALSE, 2, es.inst)
  BY <1>4, <1>5 DEF Executes, IsInt
<1> QED
  BY <1>6, Fetches, SameIsa DEF Ref!Unknown, Ref!Illegal

LEMMA UpperStep ==
  ASSUME NEW lines, Executes(lines), E.type = "U", E.fusel = "alu", E.op = "add"
  PROVE  Ref!Lui(csrs) \/ Ref!Auipc(csrs)
<1>1. Legal(E) /\ ~Src1Ren(E) /\ ~Src2Ren(E) /\ ~IsCsri(E) /\ RegWen(E)
      /\ (Src1Pcen(E) <=> E.auipc) /\ ~IsLoad(E)
  BY DEF Legal, Src1Ren, Src2Ren, IsCsri, RegWen, Src1Pcen, IsLoad, InstN, InstU, InstI,
         InstS, InstB, InstJ
<1>2. es.src1 = (IF E.auipc THEN es.pc ELSE 0) /\ es.src2 = E.imm
  BY <1>1 DEF Executes, Edge, SimIInv, OperandsDecoded
<1>3. ~Trap(lines) /\ ~Mret /\ ~CsrWrites /\ ~Stores /\ ~Branch
  BY <1>1, ArithmeticQuiet
<1>4. MResult' = Add(es.src1, E.imm)
  BY <1>1, <1>2, ResultStep DEF EResult, Unit, Alu, Executes
<1>5. E.imm \in Word /\ es.pc \in Word
  BY StageInst, InstFields, Operands DEF Executes, Edge, SimIInv
<1>6. CASE E.auipc
  <2>1. Add(es.src1, E.imm) = Add(E.imm, es.pc)
    BY <1>2, <1>5, <1>6 DEF Add, Word
  <2>2. Ref!Retire(csrs, E.rd, Add(E.imm, es.pc), Add(es.pc, 4))
    BY <1>1, <1>3, <1>4, <2>1, RetireStep DEF Executes
  <2> QED
    BY <1>6, <2>2, Fetches, SameIsa, SameNumbers DEF Ref!Auipc
<1>7. CASE ~E.auipc
  <2>1. Add(es.src1, E.imm) = E.imm
    BY <1>2, <1>5, <1>7, TruncOfWord DEF Add, Word
  <2>2. Ref!Retire(csrs, E.rd, E.imm, Add(es.pc, 4))
    BY <1>1, <1>3, <1>4, <2>1, RetireStep DEF Executes
  <2> QED
    BY <1>7, <2>2, Fetches, SameIsa, SameNumbers DEF Ref!Lui
<1> QED
  BY <1>6, <1>7

LEMMA NopStep ==
  ASSUME NEW lines, Executes(lines), E.type \in {"I", "R"}, E.fusel = "alu", E.op = "nop"
  PROVE  Ref!Nop(csrs)
<1>1. Legal(E) /\ ~RegWen(E)
  BY DEF Legal, RegWen, InstN
<1>2. ~Trap(lines) /\ ~Mret /\ ~CsrWrites /\ ~Stores /\ ~Branch
  BY <1>1, ArithmeticQuiet
<1>3. Ref!Retire(csrs, 0, 0, Add(es.pc, 4))
  BY <1>1, <1>2, RetireStep DEF Executes
<1> QED
  BY <1>3, Fetches, SameIsa, SameNumbers DEF Ref!Nop

LEMMA OpStep ==
  ASSUME NEW lines, Executes(lines),
         \/ E.type \in {"R", "I"} /\ E.fusel = "alu" /\ E.op \in AluOps
         \/ E.type = "R" /\ E.fusel = "mdu" /\ E.op \in MduOps
  PROVE  Ref!Op(csrs)
<1>1. Legal(E) /\ Src1Ren(E) /\ ~IsCsri(E) /\ RegWen(E) /\ ~IsLoad(E) /\ E.op # "nop"
      /\ (Src2Ren(E) <=> E.type = "R")
  BY DEF Legal, Src1Ren, Src2Ren, IsCsri, RegWen, IsLoad, InstN, InstU, InstI,
         InstS, InstB, InstJ, AluOps, AluImmOps, ShiftOps, MduOps
<1>2. ~Trap(lines) /\ ~Mret /\ ~CsrWrites /\ ~Stores /\ ~Branch
  BY <1>1, ArithmeticQuiet
<1>3. GPRs[E.rs] = es.src1
      /\ (IF E.type = "I" THEN E.imm ELSE GPRs[E.rt]) = es.src2
  BY <1>1, Operands DEF Executes, Edge, SimIInv, OperandsDecoded
<1>4. es.src1 \in Word /\ es.src2 \in Word
  BY Operands DEF Executes
<1>5. EResult = AluExec(es.src1, es.src2, AluOp[E.op], E.op \in Op32)
  <2>1. CASE E.fusel = "alu"
    <3>1. EResult = Alu(E.op, es.src1, es.src2)
      BY <2>1 DEF EResult, Unit, Executes
    <3>2. E.op \in AluNames
      BY <2>1 DEF AluOps, AluImmOps, ShiftOps, AluNames
    <3> QED
      BY <1>4, <3>1, <3>2, AluSame DEF SameResult
  <2>2. CASE E.fusel = "mdu"
    <3>1. EResult = Mdu(E.op, es.src1, es.src2)
      BY <2>2 DEF EResult, Unit, Executes
    <3>2. E.op \in MduNames
      BY <2>2 DEF MduOps, MduNames
    <3> QED
      BY <1>4, <3>1, <3>2, MduSame DEF SameResult
  <2> QED
    BY <2>1, <2>2
<1>6. AluOp[E.op] \in {"ADD", "SUB", "SLL", "SLT", "SLTU", "XOR", "SRL", "SRA", "OR",
                       "AND", "MUL", "MULH", "MULHU", "MULHSU", "DIV", "DIVU", "REM",
                       "REMU"}
  BY DEF AluOp, AluOps, AluImmOps, ShiftOps, MduOps
<1>7. Ref!AluExec(es.src1, es.src2, AluOp[E.op], E.op \in Op32) = EResult
  <2>1. (E.op \in Op32) \in BOOLEAN
    OBVIOUS
  <2> QED
    BY ONLY <1>5, <1>6, <2>1, SameExec
<1>8. MResult' = EResult
  BY <1>1, ResultStep DEF Executes
<1>9. Ref!Retire(csrs, E.rd, EResult, Add(es.pc, 4))
  BY <1>1, <1>2, <1>8, RetireStep DEF Executes
<1> QED
  BY <1>1, <1>3, <1>7, <1>9, Fetches, SameIsa, SameNumbers DEF Ref!Op, GPRs

(* Jumps and branches: the only exception of an aligned one is its target. *)
LEMMA BranchQuiet ==
  ASSUME NEW lines, Executes(lines), Legal(E), E.fusel = "bru"
  PROVE  /\ ~Mret /\ ~CsrWrites /\ ~Stores
         /\ Trap(lines) <=> JumpMisaligned
         /\ JumpMisaligned => TrapNo(lines) = 0 /\ Tval(0) = Target
                              /\ ~VectorParts(lines) /\ ~IsInt(lines)
<1>1. ~Mret /\ ~CsrWrites /\ ~Stores /\ ~CsrIllegal
  BY DEF Mret, CsrWrites, CsrWen, CsrRen, Stores, CsrIllegal, Unit
<1>2. Exceptions = IF JumpMisaligned THEN {0} ELSE {}
  BY <1>1 DEF Exceptions, Executes, Unit
<1>3. JumpMisaligned => FirstExc(Exceptions) = 0
  BY <1>2, FirstExcRaised
<1> QED
  BY <1>1, <1>2, <1>3 DEF Trap, TrapNo, Tval, Executes, Parts

LEMMA JumpTraps ==
  ASSUME NEW lines, Executes(lines), Legal(E), E.fusel = "bru", JumpMisaligned
  PROVE  Ref!RaiseTrap(csrs, FALSE, 0, Target)
<1>1. /\ TrapNo(lines) = 0 /\ Tval(0) = Target /\ Trap(lines)
      /\ ~VectorParts(lines) /\ ~IsInt(lines)
  BY BranchQuiet
<1>2. Ref!RaiseTrap(csrs, IsInt(lines), TrapNo(lines), Target)
  BY <1>1, BranchQuiet, TrapStep DEF Executes
<1>3. IsInt(lines) = FALSE
  BY <1>1 DEF IsInt
<1> QED
  BY <1>1, <1>2, <1>3

(* A sum that wraps once. *)
LEMMA OneWrap ==
  ASSUME NEW a \in Nat, NEW b \in Nat, a < W, b < W, a + b >= W
  PROVE  Add(a, b) = a + b - W
<1>1. W \in Nat \ {0} /\ a + b - W \in 0 .. (W - 1)
  BY WordRange
<1>2. a + b = W * 1 + (a + b - W)
  BY <1>1
<1>3. (W * 1 + (a + b - W)) % W = a + b - W
  BY <1>1, Digits
<1> QED
  BY <1>2, <1>3 DEF Add, Trunc

LEMMA FourTimes == \A n \in Nat : n % 4 = 0 => \E k \in Nat : n = 4 * k
  OBVIOUS

(* Clearing bit 0 of the sum or of the offset is the same for an even base.*)
LEMMA EvenSum ==
  ASSUME NEW s \in Word, NEW i \in Word, s % 2 = 0
  PROVE  EvenOf(Add(s, i)) = Add(s, (i \div 2) * 2)
<1>1. PICK w \in Nat : W = 2 * w
  BY WordRange
<1>2. s \in Nat /\ i \in Nat /\ s < W /\ i < W
  BY WPositive DEF Word
<1>3. PICK a \in Nat : s = 2 * a
  BY <1>2
<1>4. PICK b \in Nat : (i = 2 * b \/ i = 2 * b + 1) /\ (i \div 2) * 2 = 2 * b
  BY <1>2
<1>5. CASE s + i < W
  <2>1. Add(s, i) = s + i /\ Add(s, 2 * b) = s + 2 * b
    BY <1>2, <1>4, <1>5, WPositive DEF Add, Trunc
  <2>2. ((s + i) \div 2) * 2 = s + 2 * b
    BY <1>3, <1>4
  <2> QED
    BY <1>4, <2>1, <2>2 DEF EvenOf
<1>6. CASE s + i >= W
  <2>1. s + 2 * b >= W
    BY <1>1, <1>3, <1>4, <1>6
  <2>2. Add(s, i) = s + i - W /\ Add(s, 2 * b) = s + 2 * b - W
    <3>1. 2 * b \in Nat /\ 2 * b < W
      BY <1>2, <1>4, WPositive
    <3> QED
      BY <1>2, <1>6, <2>1, <3>1, OneWrap
  <2>3. ((s + i - W) \div 2) * 2 = s + 2 * b - W
    BY <1>1, <1>3, <1>4
  <2> QED
    BY <1>4, <2>2, <2>3 DEF EvenOf
<1> QED
  BY <1>2, <1>5, <1>6, WPositive

LEMMA NextAligned ==
  ASSUME NEW a \in Word, a % 4 = 0 PROVE Add(a, 4) % 4 = 0
<1>1. PICK w \in Nat : W = 4 * w
  <2>1. PICK h \in Nat : H = 4 * h
    BY WordSize, FourTimes
  <2>2. (4 * h) * (4 * h) = 4 * (h * (4 * h)) /\ h * (4 * h) \in Nat
    OBVIOUS
  <2> QED
    BY <2>1, <2>2 DEF W
<1>2. a \in Nat /\ a < W
  BY WPositive DEF Word
<1>3. CASE a + 4 < W
  BY <1>2, <1>3, WPositive DEF Add, Trunc
<1>4. CASE a + 4 >= W
  <2>1. 4 \in Nat /\ 4 < W
    BY WordRange
  <2>2. Add(a, 4) = a + 4 - W
    BY <1>2, <1>4, <2>1, OneWrap
  <2> QED
    BY <1>1, <1>2, <2>2
<1> QED
  BY <1>2, <1>3, <1>4, WPositive

LEMMA JumpStep ==
  ASSUME NEW lines, Executes(lines), E.fusel = "bru",
         \/ E.type = "J" /\ E.op = "jal"
         \/ E.type = "I" /\ E.op = "jalr"
  PROVE  Ref!Jump(csrs)
<1>1. Legal(E) /\ RegWen(E) /\ ~IsLoad(E) /\ Branch /\ Link = Add(es.pc, 4)
  BY DEF Legal, RegWen, IsLoad, Branch, BranchTaken, Link, Unit, Executes, InstN, InstS, InstB
<1> DEFINE npc == IF E.op = "jal" THEN Add(es.pc, E.imm)
                  ELSE Add(GPRs[E.rs], (E.imm \div 2) * 2)
<1>2. npc = Target
  <2>1. CASE E.op = "jal"
    BY <2>1 DEF Target
  <2>2. CASE E.op = "jalr"
    <3>1. GPRs[E.rs] = es.src1 /\ es.src1 \in Word /\ E.imm \in Word
      BY <2>2, Operands, StageInst, InstFields
      DEF Executes, Edge, SimIInv, Src1Ren, IsCsri, InstU, InstJ
    <3>2. es.src1 % 2 = 0
      BY <2>2, <3>1 DEF Executes, Parts, ExecuteParts, Unit, Word
    <3> QED
      BY <2>2, <3>1, <3>2, EvenSum DEF Target, DataAddr
  <2> QED
    BY <2>1, <2>2
<1>3. JumpMisaligned <=> npc % 4 # 0
  BY <1>1, <1>2 DEF JumpMisaligned
<1>4. CASE JumpMisaligned
  <2>1. Ref!RaiseTrap(csrs, FALSE, 0, npc)
    BY <1>1, <1>2, <1>4, JumpTraps
  <2> QED
    BY <1>3, <1>4, <2>1, Fetches, SameNumbers DEF Ref!Jump, GPRs
<1>5. CASE ~JumpMisaligned
  <2>1. MResult' = Add(es.pc, 4)
    BY <1>1, ResultStep DEF EResult, Unit, Executes
  <2>2. Ref!Retire(csrs, E.rd, Add(es.pc, 4), npc)
    BY <1>1, <1>2, <1>5, <2>1, BranchQuiet, RetireStep DEF Executes
  <2> QED
    BY <1>3, <1>5, <2>2, Fetches, SameNumbers DEF Ref!Jump, GPRs
<1> QED
  BY <1>4, <1>5

LEMMA BranchStep ==
  ASSUME NEW lines, Executes(lines), E.type = "B", E.fusel = "bru", E.op \in CondOps
  PROVE  Ref!BranchInst(csrs)
<1>1. Legal(E) /\ ~RegWen(E) /\ Src1Ren(E) /\ Src2Ren(E) /\ ~IsCsri(E)
  BY DEF Legal, RegWen, Src1Ren, Src2Ren, IsCsri, InstN, InstB, InstS, InstI, InstU, InstJ
<1>2. GPRs[E.rs] = es.src1 /\ GPRs[E.rt] = es.src2 /\ es.pc \in Word
  BY <1>1, Operands DEF Executes
<1> DEFINE taken == Ref!Compare(E.op, GPRs[E.rs], GPRs[E.rt])
           npc == IF taken THEN Add(es.pc, E.imm) ELSE Add(es.pc, 4)
<1>3. taken <=> Branch
  BY <1>2, SameNumbers DEF Ref!Compare, Branch, BranchTaken, Unit, Executes, CondOps
<1>4. Target = Add(es.pc, E.imm)
  BY DEF Target, CondOps
<1>5. JumpMisaligned <=> npc % 4 # 0
  BY <1>2, <1>3, <1>4, NextAligned DEF JumpMisaligned, Executes
<1>6. CASE JumpMisaligned
  <2>1. npc = Target
    BY <1>3, <1>4, <1>6 DEF JumpMisaligned
  <2>2. Ref!RaiseTrap(csrs, FALSE, 0, npc)
    BY <1>1, <1>6, <2>1, JumpTraps
  <2> QED
    BY <1>5, <1>6, <2>2, Fetches, SameIsa, SameNumbers DEF Ref!BranchInst, GPRs
<1>7. CASE ~JumpMisaligned
  <2>1. npc = IF Branch THEN Target ELSE Add(es.pc, 4)
    BY <1>3, <1>4
  <2>2. Ref!Retire(csrs, 0, 0, npc)
    BY <1>1, <1>7, <2>1, BranchQuiet, RetireStep DEF Executes
  <2> QED
    BY <1>5, <1>7, <2>2, Fetches, SameIsa, SameNumbers DEF Ref!BranchInst, GPRs
<1> QED
  BY <1>6, <1>7

(* Loads and stores: the only exception inside the memory is the alignment.*)
LEMMA AccessQuiet ==
  ASSUME NEW lines, Executes(lines), E.fusel = "lsu", NEW no,
         \/ E.type = "I" /\ E.op \in LoadOps /\ no = 4
         \/ E.type = "S" /\ E.op \in StoreOps /\ no = 6
  PROVE  /\ ~Mret /\ ~CsrWrites /\ ~Branch /\ Src1Ren(E)
         /\ IsLoad(E) <=> no = 4
         /\ IsStore(E) <=> no = 6
         /\ DataAddr = Add(GPRs[E.rs], E.imm) /\ DataAddr \in Word
         /\ Trap(lines) <=> Misaligned(E.op, DataAddr)
         /\ Misaligned(E.op, DataAddr) => Ref!RaiseTrap(csrs, FALSE, no, DataAddr)
         /\ ~Misaligned(E.op, DataAddr) => Mapped(DataAddr)
<1>1. ~Mret /\ ~CsrWrites /\ ~Branch /\ ~CsrIllegal /\ ~JumpMisaligned
  BY DEF Mret, CsrWrites, CsrWen, CsrRen, Branch, CsrIllegal, JumpMisaligned, Unit
<1>2. Src1Ren(E) /\ ~IsCsri(E) /\ Legal(E) /\ (IsLoad(E) <=> no = 4)
      /\ (IsStore(E) <=> no = 6)
  BY DEF Src1Ren, IsCsri, Legal, IsLoad, IsStore, LoadOps, StoreOps, InstN, InstU, InstJ
<1>3. DataAddr = Add(GPRs[E.rs], E.imm) /\ DataAddr \in Word
  BY <1>2, Operands, AddrWord DEF Executes, Edge, SimIInv, DataAddr
<1>4. Exceptions = IF Misaligned(E.op, DataAddr) THEN {no} ELSE {}
  BY <1>1, <1>2 DEF Exceptions, Executes, Unit
<1>5. Trap(lines) <=> Misaligned(E.op, DataAddr)
  BY <1>4 DEF Trap, Executes
<1>6. ASSUME Misaligned(E.op, DataAddr) PROVE Ref!RaiseTrap(csrs, FALSE, no, DataAddr)
  <2>1. FirstExc(Exceptions) = no
    BY <1>4, <1>6, FirstExcRaised
  <2>2. TrapNo(lines) = no /\ Trap(lines) /\ ~VectorParts(lines) /\ Tval(no) = DataAddr
        /\ IsInt(lines) = FALSE /\ ~Stores
    BY <1>5, <1>6, <2>1 DEF TrapNo, Executes, Parts, Tval, Stores, IsInt
  <2>3. Ref!RaiseTrap(csrs, IsInt(lines), TrapNo(lines), DataAddr)
    BY <1>1, <2>2, TrapStep DEF Executes
  <2> QED
    BY <2>2, <2>3
<1>7. ~Misaligned(E.op, DataAddr) => Mapped(DataAddr)
  BY DEF Executes, Parts, ExecuteParts, Unit
<1> QED
  BY <1>1, <1>2, <1>3, <1>5, <1>6, <1>7

LEMMA LoadStep ==
  ASSUME NEW lines, Executes(lines), E.fusel = "lsu", E.type = "I", E.op \in LoadOps
  PROVE  Ref!Load(csrs)
<1>0. /\ ~Mret /\ ~CsrWrites /\ ~Branch
      /\ IsLoad(E) <=> 4 = 4
      /\ IsStore(E) <=> 4 = 6
      /\ DataAddr = Add(GPRs[E.rs], E.imm) /\ DataAddr \in Word
      /\ Trap(lines) <=> Misaligned(E.op, DataAddr)
      /\ Misaligned(E.op, DataAddr) => Ref!RaiseTrap(csrs, FALSE, 4, DataAddr)
      /\ ~Misaligned(E.op, DataAddr) => Mapped(DataAddr)
  BY AccessQuiet, Zenon
<1>1. IsLoad(E) /\ ~IsStore(E) /\ ~Mret /\ ~CsrWrites /\ ~Branch /\ ~Stores
  BY <1>0 DEF Stores
<1>2. Ref!EffAddr = DataAddr
  BY <1>0, Fetches, SameNumbers DEF Ref!EffAddr, GPRs
<1>3. CASE Misaligned(E.op, DataAddr)
  <2>1. Ref!RaiseTrap(csrs, FALSE, 4, DataAddr)
    BY <1>0, <1>3
  <2> QED
    BY <1>1, <1>2, <1>3, <2>1, Fetches, SameIsa, SameMemory DEF Ref!Load
<1>4. CASE ~Misaligned(E.op, DataAddr)
  <2>1. ~Trap(lines) /\ Mapped(DataAddr) /\ DataAddr \in Word
    BY <1>0, <1>4
  <2>2. ms'.valid /\ M' = E /\ Add(ms'.src1, M'.imm) = DataAddr
    BY DEF Executes, Edge, Clock, MemoryStep, M, E, DataAddr
  <2>3. data_rdata' = mem[IndexOf(DataAddr)]
    <3>1. DataStep /\ mem' = mem
      BY <1>1, MemoryStays DEF Executes, Edge, Clock
    <3>2. ~(DataAddr < PC_INIT)
      BY <2>1, ConstWord DEF Mapped, Word
    <3> QED
      BY <2>1, <3>1, <3>2 DEF DataStep, ReadData
  <2> DEFINE v == Extend(Shr(mem[IndexOf(DataAddr)], (DataAddr % 8) * ByteBits),
                         AccessSize(E.op) * ByteBits, LoadSigned(E.op))
  <2>4. MResult' = v
    BY <1>1, <2>2, <2>3 DEF MResult, LoadResult
  <2>5. RegWen(E)
    BY DEF RegWen, InstS, InstB
  <2>6. Ref!Retire(csrs, E.rd, v, Add(es.pc, 4))
    BY <1>1, <2>1, <2>4, <2>5, RetireStep DEF Executes
  <2>7. v = Ref!Extend(Ref!Shr(mem[IndexOf(DataAddr)], Ref!ByteBit),
                       AccessSize(E.op) * ByteBits, LoadSigned(E.op))
    BY <1>2, SameNumbers, SameBitwise DEF Ref!ByteBit
  <2> QED
    BY <1>1, <1>2, <1>4, <2>1, <2>6, <2>7, Fetches, SameIsa, SameMemory, SameNumbers
    DEF Ref!Load
<1> QED
  BY <1>3, <1>4

(* Lsu.scala replicates the data over the lanes, the simulator shifts it   *)
(* to the lane: under the strobes both are the same.                       *)
LEMMA LaneBit ==
  ASSUME NEW a \in Nat, NEW size \in {1, 2, 4, 8}, a % size = 0, NEW i \in Nat,
         i \div ByteBits >= a % 8, i \div ByteBits < (a % 8) + size
  PROVE  i % (size * ByteBits) = i - (a % 8) * ByteBits
<1> DEFINE p == a % 8   bb == ByteBits   n == size * bb   k == p * bb   t == i \div bb
<1>1. bb \in Nat \ {0}
  BY WidthFacts DEF ByteBits
<1>2. p \in 0 .. 7 /\ t \in Nat /\ i >= bb * t /\ i < bb * t + bb
  BY <1>1
<1>3. PICK q \in Nat : p = size * q
  <2>1. CASE size = 1
    BY <1>2, <2>1
  <2>2. CASE size = 2
    <3>1. p % 2 = 0
      BY <2>2
    <3> QED
      BY <1>2, <2>2, <3>1
  <2>3. CASE size = 4
    <3>1. p % 4 = 0
      BY <2>3
    <3> QED
      BY <1>2, <2>3, <3>1
  <2>4. CASE size = 8
    BY <1>2, <2>4
  <2> QED
    BY <2>1, <2>2, <2>3, <2>4
<1> HIDE DEF p, bb, t
<1>4. k = n * q /\ n \in Nat \ {0}
  <2>1. \A s, x, y \in Nat : (s * x) * y = (s * y) * x
    OBVIOUS
  <2>2. size \in Nat \ {0}
    OBVIOUS
  <2> QED
    BY <1>1, <1>3, <2>1, <2>2
<1>5. t >= p /\ t + 1 <= p + size
  BY <1>2 DEF p, bb, t
<1>6. bb * p <= bb * t /\ bb * (t + 1) <= bb * (p + size)
  <2>1. p \in Nat /\ t \in Nat /\ t + 1 \in Nat /\ p + size \in Nat /\ bb \in Nat
    BY <1>1, <1>2
  <2> QED
    BY <1>5, <2>1, TimesMonotone
<1>7. k <= i /\ i < k + n
  <2>1. bb * (t + 1) = bb * t + bb /\ bb * (p + size) = k + n /\ bb * p = k
    BY <1>1, <1>2
  <2> QED
    BY <1>1, <1>2, <1>6, <2>1
<1> HIDE DEF k, n
<1>8. k \in Nat
  BY <1>1, <1>2 DEF k
<1>9. i = n * q + (i - k) /\ i - k \in 0 .. (n - 1)
  BY <1>4, <1>7, <1>8
<1>10. (n * q + (i - k)) % n = i - k
  <2>1. q \in Int /\ n \in Nat \ {0} /\ i - k \in 0 .. (n - 1)
    BY <1>3, <1>4, <1>9
  <2> QED
    BY ONLY <2>1, Digits
<1>11. i % n = i - k
  BY <1>9, <1>10
<1> QED
  BY <1>11 DEF n, k, p, bb

LEMMA StoreLanes ==
  ASSUME NEW op, NEW a \in Word, ~Misaligned(op, a), NEW v \in Word, NEW old
  PROVE  Merge(old, StoreData(op, v), Strobes(op, a))
         = Merge(old, Shl(v, (a % 8) * ByteBits), Strobes(op, a))
<1> DEFINE size == AccessSize(op)   k == (a % 8) * ByteBits   m == StrobeBits(Strobes(op, a))
<1>1. size \in {1, 2, 4, 8} /\ a % size = 0 /\ a \in Nat /\ ByteBits \in Nat \ {0}
  BY WidthFacts DEF AccessSize, Misaligned, Word, ByteBits
<1>2. Bits(StoreData(op, v)) = {i \in BitPos : i % (size * ByteBits) \in Bits(v)}
  BY BitsFromBits DEF StoreData
<1>3. Bits(Shl(v, k)) = {i \in BitPos : i - k \in Bits(v)}
  BY BitsFromBits DEF Shl
<1> HIDE DEF size
<1>4. \A i \in m : i \in BitPos /\ i % (size * ByteBits) = i - k
  <2> SUFFICES ASSUME NEW i \in m PROVE i \in BitPos /\ i % (size * ByteBits) = i - k
    OBVIOUS
  <2>1. i \in BitPos /\ i \in Nat /\ i \div ByteBits \in Strobes(op, a)
    BY DEF StrobeBits, BitPos
  <2>2. i \div ByteBits >= a % 8 /\ i \div ByteBits < (a % 8) + size
    BY <2>1 DEF Strobes, size
  <2> QED
    BY <1>1, <2>1, <2>2, LaneBit
<1> HIDE DEF k, m
<1>5. Bits(StoreData(op, v)) \cap m = Bits(Shl(v, k)) \cap m
  BY <1>2, <1>3, <1>4
<1> QED
  BY <1>5 DEF Merge, k, m

LEMMA StoreStep ==
  ASSUME NEW lines, Executes(lines), E.fusel = "lsu", E.type = "S", E.op \in StoreOps
  PROVE  Ref!Store(csrs)
<1>0. /\ ~Mret /\ ~CsrWrites /\ ~Branch
      /\ IsLoad(E) <=> 6 = 4
      /\ IsStore(E) <=> 6 = 6
      /\ DataAddr = Add(GPRs[E.rs], E.imm) /\ DataAddr \in Word
      /\ Trap(lines) <=> Misaligned(E.op, DataAddr)
      /\ Misaligned(E.op, DataAddr) => Ref!RaiseTrap(csrs, FALSE, 6, DataAddr)
      /\ ~Misaligned(E.op, DataAddr) => Mapped(DataAddr)
  BY AccessQuiet, Zenon
<1>1. IsStore(E) /\ ~RegWen(E) /\ Src2Ren(E)
  BY <1>0 DEF RegWen, Src2Ren, InstS, InstI, InstU, InstJ
<1>2. Ref!EffAddr = DataAddr
  BY <1>0, Fetches, SameNumbers DEF Ref!EffAddr, GPRs
<1>3. CASE Misaligned(E.op, DataAddr)
  <2>1. Ref!RaiseTrap(csrs, FALSE, 6, DataAddr)
    BY <1>0, <1>3
  <2> QED
    BY <1>1, <1>2, <1>3, <2>1, Fetches, SameIsa, SameMemory DEF Ref!Store
<1>4. CASE ~Misaligned(E.op, DataAddr)
  <2> DEFINE a == DataAddr   strb == Strobes(E.op, a)
  <2>1. Mapped(a) /\ ~Trap(lines)
    BY <1>0, <1>4
  <2>2. GPRs[E.rt] = es.src2 /\ es.src2 \in Word
    BY <1>1, Operands DEF Executes
  <2>3. strb # {}
    <3>1. a % 8 \in strb
      BY <1>0 DEF Strobes, AccessSize, Word
    <3> QED
      BY <3>1
  <2>4. mem' = [mem EXCEPT ![IndexOf(a)] = Merge(@, StoreData(E.op, es.src2), strb)]
    BY <1>1, <1>4, <2>1, <2>3 DEF Executes, Edge, Clock, DataStep, WriteData, Unit
  <2>5. mem' = [mem EXCEPT ![IndexOf(a)] =
                  Merge(@, Shl(GPRs[E.rt], (a % 8) * ByteBits), strb)]
    <3>1. \A old : Merge(old, StoreData(E.op, es.src2), strb)
                   = Merge(old, Shl(es.src2, (a % 8) * ByteBits), strb)
      BY <1>0, <1>4, <2>2, StoreLanes
    <3> QED
      BY <2>2, <2>4, <3>1
  <2>6. mem' = [mem EXCEPT ![Ref!IndexOf(a)] =
                  Ref!Merge(@, Ref!Shl(GPRs[E.rt], Ref!ByteBit), Ref!Strobes(E.op, a))]
    BY <1>2, <2>5, SameMemory, SameNumbers, SameBitwise DEF Ref!ByteBit
  <2>7. ~CsrFlush(lines)
    BY <1>0, <2>1 DEF CsrFlush
  <2>8. ArchPc' = Add(es.pc, 4) /\ mode' = mode /\ Csrs' = csrs
    BY <1>0, <2>1, <2>7, ArchPcStep, CsrStays DEF Executes, Flush
  <2>9. Ref!SetGPR(0, 0)
    BY <1>1, RegisterStep DEF Executes, EWen
  <2> QED
    BY <1>1, <1>2, <1>4, <2>1, <2>6, <2>8, <2>9, Fetches, SameIsa, SameMemory, SameNumbers
    DEF Ref!Store, Ref!NoGPR, GPRs, Csrs
<1> QED
  BY <1>3, <1>4

(* ecall and ebreak. *)
LEMMA CallStep ==
  ASSUME NEW lines, Executes(lines), E.fusel = "csr", E.type = "I",
         E.op \in {"ecall", "ebreak"}
  PROVE  Ref!Ecall(csrs) \/ Ref!Ebreak(csrs)
<1> DEFINE no == IF E.op = "ecall" THEN 8 + mode ELSE 3
<1>1. mode \in {0, 3} /\ ModeH = 2
  BY DEF Executes, Edge, SimIInv, ModeLegal, ModeU, ModeM, ModeH
<1>2. ~Mret /\ ~CsrWrites /\ ~Stores /\ ~JumpMisaligned /\ ~CsrIllegal /\ Legal(E)
  BY DEF Mret, CsrWrites, CsrWen, CsrRen, Stores, Branch, CsrIllegal, JumpMisaligned, Unit,
         Legal, InstN
<1>3. Exceptions = {no}
  BY <1>1, <1>2 DEF Exceptions, Executes, Unit
<1>4. FirstExc(Exceptions) = no /\ no \in 3 .. 11
  <2>1. no \in 3 .. 11
    BY <1>1
  <2> QED
    BY <1>3, <2>1, FirstExcRaised
<1>5. TrapNo(lines) = no /\ Trap(lines) /\ ~VectorParts(lines) /\ Tval(no) = 0
      /\ IsInt(lines) = FALSE
  BY <1>1, <1>3, <1>4 DEF TrapNo, Executes, Parts, Tval, IsInt, Trap
<1>6. Ref!RaiseTrap(csrs, IsInt(lines), TrapNo(lines), 0)
  BY <1>2, <1>5, TrapStep DEF Executes
<1>7. Ref!RaiseTrap(csrs, FALSE, no, 0)
  BY <1>5, <1>6
<1>8. 8 + mode = mode + 8
  BY <1>1
<1> QED
  BY <1>7, <1>8, Fetches DEF Ref!Ecall, Ref!Ebreak

(* mret of the machine mode, the only one the core may execute as one.     *)
LEMMA MretStep ==
  ASSUME NEW lines, Executes(lines), E.fusel = "csr", E.type = "R", E.op = "mret"
  PROVE  Ref!MretInst(csrs)
<1>1. Mret /\ ~CsrWrites /\ ~Stores /\ ~JumpMisaligned /\ ~CsrIllegal /\ Legal(E) /\ ~Branch
  BY DEF Mret, CsrWrites, CsrWen, CsrRen, Stores, Branch, CsrIllegal, JumpMisaligned, Unit,
         Legal, InstN, Executes
<1>2. mode = ModeM
  BY <1>1 DEF Executes, Parts, ExecuteParts
<1>3. Exceptions = {} /\ ~Trap(lines) /\ CsrFlush(lines)
  <2>1. Exceptions = {}
    BY <1>1 DEF Exceptions, Executes, Unit
  <2> QED
    BY <1>1, <2>1 DEF Trap, Executes, CsrFlush
<1>4. ArchPc = es.pc /\ ArchPc' = csrs["mepc"]
  BY <1>1, <1>3, ArchPcStep DEF Executes, Flush, FlushTo, CsrTarget
<1>5. Ref!SetGPR(0, 0)
  BY <1>3, RegisterStep DEF Executes, EWen
<1>6. mem' = mem
  BY <1>1, MemoryStays DEF Executes
<1> DEFINE status == csrs["mstatus"]
<1>7. mode' = MppOf(Bits(status))
      /\ csrs' = [[csrs EXCEPT !["mip"] = MipNext(csrs, lines)]
                    EXCEPT !["mstatus"] = MretStatus(status)]
  BY <1>1, <1>3 DEF Executes, Edge, Clock, CsrStep, CsrTrapped, CsrWritten, CsrWrites
<1>8. seen' = csrs["mip"] /\ csrs \in [CsrName -> Word]
  BY DEF Executes, Edge, HistoryNext, SimIInv, TypeOK
<1>9. Csrs' = [csrs' EXCEPT !["mip"] = csrs["mip"]]
  BY <1>8 DEF Csrs
<1>10. MretStatus(status) = FromBits(Ref!Returned(Bits(status)))
  BY SameCsr DEF MretStatus, Ref!Returned, ModeM
<1>11. Csrs' = [csrs EXCEPT !["mstatus"] = FromBits(Ref!Returned(Bits(status)))]
  <2> HIDE DEF status
  <2>1. Csrs' = [csrs EXCEPT !["mstatus"] = MretStatus(status)]
    BY <1>7, <1>8, <1>9 DEF CsrName
  <2> QED
    BY <2>1, <1>10
<1> QED
  BY <1>2, <1>4, <1>5, <1>6, <1>7, <1>11, Fetches, SameCsr, SameSets
  DEF Ref!MretInst, Ref!NoGPR, Csrs, GPRs

(* A misaligned pc. *)
LEMMA MisalignedStep ==
  ASSUME NEW lines, Edge(lines), es.valid, ~IsInt(lines), ~Parts(lines), es.pc % 4 # 0
  PROVE  Ref!FetchMisaligned(csrs)
<1>1. Exceptions = {0} /\ ~JumpMisaligned /\ ~Mret /\ ~Stores /\ ~CsrWrites
      /\ ~VectorParts(lines)
  BY DEF Parts, FetchParts
<1>2. FirstExc(Exceptions) = 0
  BY <1>1, FirstExcRaised
<1>3. TrapNo(lines) = 0 /\ Trap(lines) /\ IsInt(lines) = FALSE /\ Tval(0) = es.pc
  BY <1>1, <1>2 DEF TrapNo, Trap, IsInt, Tval
<1>4. Ref!RaiseTrap(csrs, IsInt(lines), TrapNo(lines), es.pc)
  BY <1>1, <1>3, TrapStep
<1>5. Ref!RaiseTrap(csrs, FALSE, 0, es.pc)
  BY <1>3, <1>4
<1> QED
  BY <1>5 DEF Ref!FetchMisaligned, ArchPc

(* A CSR write is masked the same way, but for the parting writes.         *)
LEMMA WriteSame ==
  ASSUME TypeOK, CsrWrites, ~WriteParts, mode = ModeM
  PROVE  /\ E.csr \in CsrName \ {"mip"}
         /\ WriteValue(csrs, E.csr, CsrWdata) = Ref!CsrWriteValue(csrs, E.csr, CsrWdata)
<1> DEFINE name == E.csr
           new  == Bits(CsrWdata)
           old  == Bits(csrs[name])
           mpps == {MPP0, MPP1}
           wmpp == Wmpp(csrs, CsrWdata)
           kept == IF MppOf(new) \in {ModeU, ModeM} THEN new ELSE old
<1>1. name \in CsrName \ {"mip", "mcounteren", "cycle", "mhartid"}
  BY StageInst, InstFields DEF CsrWrites, WLegal, RLegal, EnWrite, WriteParts
<1>2. CsrWdata \in Word /\ csrs[name] \in Word
  BY <1>1, CsrPortWord DEF TypeOK
<1>3. new \subseteq BitPos /\ old \subseteq BitPos
  BY <1>2, BitsPos
<1>4. FromBits(new) = CsrWdata /\ FromBits(old) = csrs[name]
  BY <1>2, FromBitsBits
<1>5. /\ WriteValue(csrs, name, CsrWdata)
           = FromBits(((new \cap WMask(name)) \ mpps) \cup wmpp \cup (old \ WMask(name)))
      /\ Ref!CsrWriteValue(csrs, name, CsrWdata)
           = CASE name = "mstatus" ->
                    FromBits((old \ CsrBits) \cup (new \cap {MIE, MPIE, MPRV})
                             \cup (kept \cap mpps))
               [] name \in {"mie", "mip"} -> FromBits(new \cap IntNo)
               [] name \in {"mtvec", "mscratch", "mepc", "mcause", "mtval"} -> CsrWdata
               [] OTHER -> csrs[name]
  BY SameSets, SameCsr DEF WriteValue, Ref!CsrWriteValue
<1>6. CASE name = "mstatus"
  <2>1. WMask(name) = CsrBits
    BY <1>6 DEF WMask
  <2>2. wmpp = kept \cap mpps
    BY <1>6, CsrAssumption
    DEF Wmpp, MppOf, MppBits, ModeU, ModeS, ModeH, ModeM
  <2>3. (new \cap CsrBits) \ mpps = new \cap {MIE, MPIE, MPRV}
    BY CsrAssumption DEF CsrBits
  <2> HIDE DEF new, old, kept, wmpp, mpps
  <2>4. ((new \cap CsrBits) \ mpps) \cup wmpp \cup (old \ CsrBits)
        = (old \ CsrBits) \cup (new \cap {MIE, MPIE, MPRV}) \cup (kept \cap mpps)
    BY <2>2, <2>3
  <2>5. WriteValue(csrs, name, CsrWdata)
        = FromBits((old \ CsrBits) \cup (new \cap {MIE, MPIE, MPRV}) \cup (kept \cap mpps))
    BY <1>5, <2>1, <2>4
  <2> QED
    BY <1>1, <1>5, <1>6, <2>5
<1>7. CASE name \in {"mie", "mtvec", "mscratch", "mepc", "mcause", "mtval"}
  <2>1. WMask(name) = BitPos
    BY <1>7 DEF WMask
  <2>2. wmpp = new \cap mpps
    BY <1>7 DEF WriteParts
  <2>3. ((new \cap BitPos) \ mpps) \cup wmpp \cup (old \ BitPos) = new
    BY <1>3, <2>2
  <2>4. WriteValue(csrs, name, CsrWdata) = CsrWdata
    BY <1>4, <1>5, <2>1, <2>3
  <2>5. name = "mie" => new \cap IntNo = new
    BY DEF WriteParts
  <2> QED
    BY <1>1, <1>4, <1>5, <1>7, <2>4, <2>5
<1>8. CASE name \in {"misa", "tselect", "tdata1"}
  <2>1. WMask(name) = {}
    BY <1>8 DEF WMask
  <2>2. wmpp \subseteq old
    BY <1>8 DEF WriteParts
  <2>3. ((new \cap {}) \ mpps) \cup wmpp \cup (old \ {}) = old
    BY <2>2
  <2>4. WriteValue(csrs, name, CsrWdata) = csrs[name]
    BY <1>4, <1>5, <2>1, <2>3
  <2> QED
    BY <1>1, <1>5, <1>8, <2>4
<1> QED
  BY <1>1, <1>6, <1>7, <1>8 DEF CsrName

(* What a CSR instruction that is let through does to the CSR file. *)
LEMMA CsrWriteStep ==
  ASSUME NEW lines, Executes(lines), CsrWrites, mode = ModeM, ~Trap(lines), ~Mret
  PROVE  /\ mode' = mode
         /\ Csrs' = [csrs EXCEPT ![E.csr] = Ref!CsrWriteValue(csrs, E.csr, CsrWdata)]
<1>1. TypeOK /\ CsrStep(lines) /\ seen' = csrs["mip"]
  BY DEF Executes, Edge, SimIInv, Clock, HistoryNext
<1>2. /\ E.csr \in CsrName \ {"mip"}
      /\ WriteValue(csrs, E.csr, CsrWdata) = Ref!CsrWriteValue(csrs, E.csr, CsrWdata)
  BY <1>1, WriteSame DEF Executes, Parts, ExecuteParts
<1>3. mode' = mode
      /\ csrs' = [[csrs EXCEPT ![E.csr] = WriteValue(csrs, E.csr, CsrWdata)]
                    EXCEPT !["mip"] = MipNext(csrs, lines)]
  BY <1>1 DEF CsrStep, CsrTrapped, CsrWritten, CsrWrites
<1>4. Csrs' = [csrs' EXCEPT !["mip"] = csrs["mip"]]
  BY <1>1 DEF Csrs
<1>5. csrs \in [CsrName -> Word]
  BY <1>1 DEF TypeOK
<1> DEFINE name == E.csr
           v == WriteValue(csrs, E.csr, CsrWdata)
<1> HIDE DEF name, v
<1>6. name \in CsrName /\ name # "mip" /\ "mip" \in CsrName
  BY <1>2 DEF name, CsrName
<1>7. csrs' = [[csrs EXCEPT ![name] = v] EXCEPT !["mip"] = MipNext(csrs, lines)]
  BY <1>3 DEF name, v
<1>8. Csrs' = [csrs EXCEPT ![name] = v]
  BY ONLY <1>4, <1>5, <1>6, <1>7
<1> QED
  BY <1>2, <1>3, <1>8 DEF name, v

LEMMA CsrOpStep ==
  ASSUME NEW lines, Executes(lines), E.fusel = "csr", E.type = "I", E.op \in CsrRwOps
  PROVE  Ref!CsrOp(csrs)
<1> DEFINE src == IF E.csri THEN E.rs ELSE GPRs[E.rs]
           write == E.op = "csrrw" \/ E.rs # 0
           refused == ~(mode = ModeM /\ (write => EnWrite(E.csr))) \/ E.csr \notin CsrName
<1>1. ~Mret /\ ~Stores /\ ~JumpMisaligned /\ Legal(E) /\ ~Branch /\ RegWen(E) /\ ~IsLoad(E)
  BY DEF Mret, Stores, Branch, JumpMisaligned, Unit, Legal, InstN, InstS, InstB, RegWen,
         IsLoad, CsrRwOps
<1>2. src = es.src1
  <2>1. Src1Ren(E) /\ (IsCsri(E) <=> E.csri)
    BY StageInst, InstFields DEF Src1Ren, IsCsri, InstU, InstJ, Executes, Edge, SimIInv
  <2> QED
    BY <2>1, Operands DEF Executes, Edge, SimIInv, OperandsDecoded
<1>3. /\ CsrWen <=> write
      /\ CsrRen <=> E.op # "csrrw" \/ E.rd # 0
  BY DEF CsrWen, CsrRen, Unit, Executes, CsrRwOps
<1>4. mode \in {0, 3}
  BY DEF Executes, Edge, SimIInv, ModeLegal, ModeU, ModeM
<1>5. CsrRen /\ E.csr = "cycle" => mode = ModeM
  BY DEF Executes, Parts, ExecuteParts
<1>6. CsrIllegal <=> refused
  BY <1>3, <1>4, <1>5
  DEF CsrIllegal, RLegal, WLegal, EnWrite, LeastMode, ModeU, ModeM
<1>10. Ref!Refused(E.csr, write) <=> refused
  <2>1. E.csr \in CsrName \cup CsrSimOnly \cup {CsrEmpty}
    BY StageInst, InstFields DEF Executes, Edge, SimIInv
  <2>2. Ref!Permitted(E.csr, write) <=> mode = ModeM /\ (write => EnWrite(E.csr))
    BY SameCsr DEF Ref!Permitted
  <2>3. Ref!Readable = CsrName \cup CsrSimOnly
        /\ Ref!Writable = (CsrName \ {"cycle", "mhartid"}) \cup {"mcycle"}
    BY SameIsa DEF Ref!Readable, Ref!Writable
  <2>4. E.csr \in CsrSimOnly => ~(mode = ModeM /\ (write => E.csr = "mcycle"))
    BY <1>3 DEF Executes, Parts, ExecuteParts, SimOnlyParts, Unit
  <2>5. CsrSimOnly \cap CsrName = {} /\ CsrEmpty \notin CsrSimOnly \cup CsrName
    BY DEF CsrSimOnly, CsrName, CsrEmpty
  <2>6. EnWrite(E.csr) => E.csr \notin {"cycle", "mhartid"}
    BY DEF EnWrite
  <2>7. E.csr \in CsrSimOnly => (E.csr \in Ref!Writable <=> E.csr = "mcycle")
    BY <2>3, <2>5
  <2> HIDE DEF write
  <2>8. Ref!Refused(E.csr, write)
        <=> \/ ~(mode = ModeM /\ (write => EnWrite(E.csr)))
            \/ E.csr \notin CsrName \cup CsrSimOnly
            \/ write /\ E.csr \notin Ref!Writable
    BY <2>2, <2>3, Zenon DEF Ref!Refused
  <2>9. E.csr \in CsrName => (E.csr \in Ref!Writable <=> E.csr \notin {"cycle", "mhartid"})
    BY <2>3
  <2> QED
    BY <2>1, <2>4, <2>5, <2>6, <2>7, <2>8, <2>9
<1>7. Exceptions = IF CsrIllegal THEN {2} ELSE {}
  BY <1>1 DEF Exceptions, Executes, Unit, CsrRwOps
<1>8. CASE refused
  <2>1. ~CsrWrites
    <3>1. CASE mode = ModeM
      BY <1>3, <1>8, <3>1 DEF CsrWrites, WLegal, RLegal
    <3>2. CASE mode # ModeM
      BY <1>4, <3>2 DEF CsrWrites, WLegal, RLegal, EnWrite, LeastMode, ModeM, ModeU
    <3> QED
      BY <3>1, <3>2
  <2>2. FirstExc(Exceptions) = 2
    BY <1>6, <1>7, <1>8, FirstExcRaised
  <2>3. TrapNo(lines) = 2 /\ Trap(lines) /\ ~VectorParts(lines) /\ Tval(2) = es.inst
        /\ IsInt(lines) = FALSE
    BY <1>6, <1>7, <1>8, <2>2 DEF TrapNo, Trap, Executes, Parts, Tval, IsInt
  <2>4. Ref!RaiseTrap(csrs, IsInt(lines), TrapNo(lines), es.inst)
    BY <1>1, <2>1, <2>3, TrapStep DEF Executes
  <2>5. Ref!RaiseTrap(csrs, FALSE, 2, es.inst)
    BY <2>3, <2>4
  <2>6. Ref!Illegal(csrs)
    BY <2>5, Fetches DEF Ref!Illegal
  <2> QED
    BY <1>8, <1>10, <2>6, Fetches, SameIsa DEF Ref!CsrOp
<1>9. CASE ~refused
  <2> DEFINE old == csrs[E.csr]
             new == CASE E.op = "csrrw" -> src
                      [] E.op = "csrrs" -> Or(old, src)
                      [] OTHER          -> AndNot(old, src)
             c2  == IF write /\ E.csr \in CsrName
                    THEN [csrs EXCEPT ![E.csr] = Ref!CsrWriteValue(csrs, E.csr, new)]
                    ELSE csrs
  <2>1. ~Trap(lines) /\ ~CsrFlush(lines) /\ mode = ModeM
    BY <1>1, <1>6, <1>7, <1>9 DEF Trap, CsrFlush, Executes
  <2>2. E.csr \in CsrName /\ old \in Ref!ReadValues(csrs, E.csr)
    <3>1. E.csr \in CsrName /\ csrs \in [CsrName -> Word]
      BY <1>9, StageInst, InstFields DEF Executes, Edge, SimIInv, TypeOK
    <3> QED
      BY <3>1, SameBase DEF Ref!ReadValues, CsrName
  <2>3. CsrRen => CsrRead = old
    BY <1>9, <2>1 DEF CsrRead, RLegal, LeastMode, ModeM, ModeU
  <2>4. CsrWen <=> CsrWrites
    BY <1>3, <1>9, <2>1 DEF CsrWrites, WLegal, RLegal, LeastMode, ModeM, ModeU
  <2>5. new = CsrWdata
    BY <1>2, <1>3, <2>3 DEF CsrWdata
  <2>6. mode' = mode /\ Csrs' = c2
    <3>1. CASE CsrWrites
      BY <1>1, <1>3, <2>1, <2>2, <2>4, <2>5, <3>1, CsrWriteStep
    <3>2. CASE ~CsrWrites
      BY <1>1, <1>3, <2>1, <2>4, <3>2, CsrStays DEF Executes
    <3> QED
      BY <3>1, <3>2
  <2>7. E.rd # 0 => MResult' = old
    <3>1. MResult' = CsrRead
      BY <1>1, ResultStep DEF EResult, Unit, Executes
    <3> QED
      BY <1>3, <2>3, <3>1
  <2>8. Ref!SetGPR(E.rd, old)
    BY <1>1, <2>1, <2>7, RegisterStep DEF Executes, EWen
  <2>9. ArchPc' = Add(es.pc, 4) /\ mem' = mem
    BY <1>1, <2>1, ArchPcStep, MemoryStays DEF Executes, Flush
  <2> HIDE DEF old, c2, new
  <2>10. Ref!Retire(c2, E.rd, old, Add(es.pc, 4))
    BY <2>6, <2>8, <2>9 DEF Ref!Retire, Csrs
  <2>11. ~(write /\ Ref!BadTvec(E.csr, new))
    BY <1>3, <2>4, <2>5 DEF Executes, Parts, ExecuteParts, WriteParts, Ref!BadTvec
  <2>12. ~Ref!Refused(E.csr, write) /\ Ref!I = E /\ ArchPc = es.pc /\ E.op \in Ref!CsrRwOps
    BY <1>9, <1>10, Fetches, SameIsa
  <2> DEFINE value(x) == CASE E.op = "csrrw" -> src
                           [] E.op = "csrrs" -> Ref!Or(x, src)
                           [] OTHER          -> Ref!AndNot(x, src)
             file(x)  == IF write /\ E.csr \in Ref!CsrName
                         THEN [csrs EXCEPT ![E.csr] =
                                 Ref!CsrWriteValue(csrs, E.csr, value(x))]
                         ELSE csrs
  <2> HIDE DEF write, src
  <2>13. value(old) = new
    BY SameBitwise DEF new
  <2> HIDE DEF value
  <2>14. file(old) = c2
    BY <2>13, SameIsa DEF c2
  <2> HIDE DEF file
  <2>15. /\ ~(write /\ Ref!BadTvec(E.csr, value(old)))
         /\ Ref!Retire(file(old), E.rd, old, Ref!Add(ArchPc, 4))
    BY <2>10, <2>11, <2>12, <2>13, <2>14, SameNumbers
  <2>16. \E x \in Ref!ReadValues(csrs, E.csr) :
           IF write /\ Ref!BadTvec(E.csr, value(x)) THEN Ref!Exit("abort")
           ELSE Ref!Retire(file(x), E.rd, x, Ref!Add(ArchPc, 4))
    BY <2>2, <2>15
  <2> QED
    BY <2>12, <2>16, Zenon DEF Ref!CsrOp, write, src, value, file, GPRs
<1> QED
  BY <1>8, <1>9

(* Whatever the instruction is, the simulator executes it alike. *)
LEMMA ExecuteSame == ASSUME NEW lines, Executes(lines) PROVE Ref!Execute(csrs)
<1>1. TypeOK
  BY DEF Executes, Edge, SimIInv
<1> DEFINE t == E.type   u == E.fusel   o == E.op
<1>0. \/ t = "N" /\ u = "alu" /\ o = "nop"
      \/ t = "U" /\ u = "alu" /\ o = "add"
      \/ t = "R" /\ u = "alu" /\ o \in AluOps
      \/ t = "I" /\ u = "alu" /\ o \in AluImmOps
      \/ t \in {"I", "R"} /\ u = "alu" /\ o = "nop"
      \/ t = "R" /\ u = "mdu" /\ o \in MduOps
      \/ t = "I" /\ u = "lsu" /\ o \in LoadOps
      \/ t = "S" /\ u = "lsu" /\ o \in StoreOps
      \/ t = "B" /\ u = "bru" /\ o \in CondOps
      \/ t = "J" /\ u = "bru" /\ o = "jal"
      \/ t = "I" /\ u = "bru" /\ o = "jalr"
      \/ t = "I" /\ u = "csr" /\ o \in CsrRwOps
      \/ t = "I" /\ u = "csr" /\ o \in {"ecall", "ebreak"}
      \/ t = "R" /\ u = "csr" /\ o = "mret"
  BY <1>1, Kinds, Zenon DEF Row
<1>2. CASE E.fusel = "alu"
  <2>1. \/ E.type = "N"
        \/ E.type = "U" /\ E.op = "add"
        \/ E.type \in {"I", "R"} /\ E.op = "nop"
        \/ E.type \in {"R", "I"} /\ E.op \in AluOps
    BY <1>0, <1>2 DEF AluOps
  <2> QED
    BY <1>2, <2>1, IllegalStep, UpperStep, NopStep, OpStep DEF Ref!Execute
<1>3. CASE E.fusel = "mdu"
  <2>1. E.type = "R" /\ E.op \in MduOps
    BY <1>0, <1>3
  <2> QED
    BY <1>3, <2>1, OpStep DEF Ref!Execute
<1>4. CASE E.fusel = "lsu"
  <2>1. \/ E.type = "I" /\ E.op \in LoadOps
        \/ E.type = "S" /\ E.op \in StoreOps
    BY <1>0, <1>4
  <2> QED
    BY <1>4, <2>1, LoadStep, StoreStep DEF Ref!Execute
<1>5. CASE E.fusel = "bru"
  <2>1. \/ E.type = "B" /\ E.op \in CondOps
        \/ E.type = "J" /\ E.op = "jal"
        \/ E.type = "I" /\ E.op = "jalr"
    BY <1>0, <1>5
  <2> QED
    BY <1>5, <2>1, BranchStep, JumpStep DEF Ref!Execute
<1>6. CASE E.fusel = "csr"
  <2>1. \/ E.type = "I" /\ E.op \in CsrRwOps
        \/ E.type = "I" /\ E.op \in {"ecall", "ebreak"}
        \/ E.type = "R" /\ E.op = "mret"
    BY <1>0, <1>6
  <2> QED
    BY <1>6, <2>1, CsrOpStep, CallStep, MretStep DEF Ref!Execute
<1> QED
  BY <1>0, <1>2, <1>3, <1>4, <1>5, <1>6

(* Every clock edge that is no parting. *)
LEMMA EdgeSimulates ==
  ASSUME NEW lines, Edge(lines), ~Parts(lines)
  PROVE  IF es.valid THEN Ref!Step(Bits(csrs["mip"])) ELSE UNCHANGED Ref!vars
<1>1. CASE ~es.valid
  BY <1>1, BubbleStep DEF Parts, InterruptParts
<1>2. CASE es.valid /\ IsInt(lines)
  BY <1>2, InterruptStep
<1>3. CASE es.valid /\ ~IsInt(lines)
  <2>1. Ref!PendingInts(csrs) = {} /\ ArchPc = es.pc
    BY <1>3, PendingSame DEF IsInt, Parts, ArchPc
  <2>2. CASE es.pc % 4 # 0
    <3>1. Ref!FetchMisaligned(csrs)
      BY <1>3, <2>2, MisalignedStep
    <3> QED
      BY <1>3, <2>1, <3>1, PreExecIs DEF Ref!Step
  <2>3. CASE es.pc % 4 = 0
    <3>1. Executes(lines)
      BY <1>3, <2>3 DEF Executes
    <3>2. Ref!Execute(csrs) /\ Ref!Mapped(ArchPc)
      BY <3>1, ExecuteSame, Fetches, SameMemory
    <3> QED
      BY <1>3, <2>1, <2>3, <3>2, PreExecIs DEF Ref!Step
  <2> QED
    BY <2>2, <2>3
<1> QED
  BY <1>1, <1>2, <1>3

(* The pipeline follows the simulator at every clock edge but those        *)
(* CoreRefines lists: an executed instruction, a trap and an interrupt are *)
(* each one step() with the same registers, CSRs, memory, privilege mode,  *)
(* next pc and debug record; every other edge is invisible.                *)
THEOREM CoreSimulatesRef == HistorySpec => Simulates
<1>1. SimIInv /\ [AllNext]_allVars
      => [\A lines \in IrqLines : Clock(lines) /\ ~Parts(lines) =>
            IF es.valid THEN Ref!Step(Bits(csrs["mip"])) ELSE UNCHANGED Ref!vars]_allVars
  BY EdgeSimulates DEF AllNext, Edge
<1> QED
  BY <1>1, SimInvariant, PTL DEF HistorySpec, Simulates

(***************************************************************************)
(* A program on which the two never part: the whole pipeline implements    *)
(* the whole simulator.                                                    *)
(***************************************************************************)
Closed == {} \in IrqLines /\ \A a, b \in IrqLines : a \cup b \in IrqLines
MipLines == Bits(csrs["mip"]) \in IrqLines

LEMMA InitSimulates == AllInit => Ref!Init
<1> SUFFICES ASSUME Init, HistoryInit PROVE Ref!Init
  BY DEF AllInit
<1>1. ArchPc = PC_INIT
  <2>1. PC_INIT \in Word /\ PC_INIT - 4 + 4 = PC_INIT
    BY ConstWord, WPositive DEF Word
  <2>2. Add(PC_INIT - 4, 4) = PC_INIT
    BY <2>1, TruncOfWord DEF Add
  <2> QED
    BY <2>2 DEF Init, ArchPc
<1>2. GPRs = [r \in Reg |-> 0]
  BY DEF Init, GPRs, ArchReg, EWrites, MWrites, BWrites
<1>3. Csrs = CsrReset
  BY DEF Init, HistoryInit, Csrs, CsrReset, CsrName
<1>4. Ref!ResetFiles = {CsrReset}
  BY SameCsr DEF Ref!ResetFiles
<1>5. mode = Ref!ModeM /\ mem \in Memories
  BY SameCsr, CoreAssumption DEF Init
<1>6. Ref!Reset
  <2>1. [r \in Reg |-> ArchReg(r)] = [r \in Ref!Reg |-> 0]
    BY <1>2, SameIsa DEF GPRs
  <2>2. [csrs EXCEPT !["mip"] = seen] \in Ref!ResetFiles
    BY <1>3, <1>4 DEF Csrs
  <2> QED
    BY <1>1, <1>5, <2>1, <2>2 DEF Ref!Reset, HistoryInit
<1> QED
  BY <1>5, <1>6 DEF Ref!Init

LEMMA LinesInit == Closed /\ Init => MipLines
<1> SUFFICES ASSUME Closed, Init PROVE MipLines
  OBVIOUS
<1>1. csrs["mip"] = 0
  BY DEF Init, CsrReset, CsrName
<1> QED
  BY <1>1, ZeroBits DEF Closed, MipLines

LEMMA LinesStep ==
  ASSUME Closed, SimIInv, MipLines, [AllNext]_allVars
  PROVE  MipLines'
<1>1. CASE AllNext
  <2>1. PICK lines \in IrqLines : Clock(lines)
    BY <1>1 DEF AllNext, Next
  <2>2. csrs'["mip"] = MipNext(csrs, lines)
    BY <1>1, <2>1, MipStep DEF AllNext, SimIInv
  <2>3. Bits(csrs["mip"]) \cup lines \in SUBSET BitPos
    BY CoreAssumption, FieldBits DEF SimIInv, MipRecorded
  <2>4. Bits(csrs'["mip"]) = Bits(csrs["mip"]) \cup lines
    BY <2>2, <2>3, BitsFromBits DEF MipNext
  <2> QED
    BY <2>4 DEF Closed, MipLines
<1>2. CASE UNCHANGED allVars
  BY <1>2 DEF MipLines, allVars, vars
<1> QED
  BY <1>1, <1>2

(* The pipeline implements RefCore, called with the interrupts that mip    *)
(* collects, on every program and for every interrupt timing that keeps    *)
(* off the partings: hazards, forwarding, flushes, traps and interrupts    *)
(* are not observable.                                                     *)
THEOREM PipelineRefines ==
  ASSUME Closed PROVE HistorySpec /\ NoParts => RefSpec
<1>1. AllInit => Ref!Init
  BY InitSimulates
<1>2. SimIInv /\ MipLines /\ [AllNext]_allVars
      /\ [\A lines \in IrqLines : Clock(lines) => ~Parts(lines)]_allVars
      => [Ref!Next]_(Ref!vars)
  <2> SUFFICES ASSUME SimIInv, MipLines, [AllNext]_allVars,
                      [\A lines \in IrqLines : Clock(lines) => ~Parts(lines)]_allVars
               PROVE  [Ref!Next]_(Ref!vars)
    OBVIOUS
  <2>1. CASE UNCHANGED allVars
    <3>1. ArchPc' = ArchPc /\ GPRs' = GPRs
      BY <2>1 DEF allVars, vars, ArchPc, GPRs, ArchReg, MWrites, BWrites, MResult, M, B
    <3> QED
      BY <2>1, <3>1 DEF Ref!vars, GPRs, allVars, vars, historyVars
  <2>2. CASE /\ AllNext
             /\ \A lines \in IrqLines : Clock(lines) => ~Parts(lines)
    <3>1. PICK lines \in IrqLines : Clock(lines)
      BY <2>2 DEF AllNext, Next
    <3>2. IF es.valid THEN Ref!Step(Bits(csrs["mip"])) ELSE UNCHANGED Ref!vars
      BY <2>2, <3>1, EdgeSimulates DEF AllNext, Edge
    <3> QED
      BY <3>2 DEF Ref!Next, MipLines
  <2> QED
    BY <2>1, <2>2
<1>3. AllInit => MipLines
  BY LinesInit DEF AllInit
<1>4. SimIInv /\ MipLines /\ [AllNext]_allVars => MipLines'
  BY LinesStep
<1> QED
  BY <1>1, <1>2, <1>3, <1>4, SimInvariant, PTL DEF HistorySpec, NoParts, RefSpec, Ref!Spec
=============================================================================
