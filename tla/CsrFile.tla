------------------------------- MODULE CsrFile -------------------------------
(***************************************************************************)
(* The control and status registers of the hardware, CSRRegFile.scala: the *)
(* read and write ports the Csr unit uses, the recording of the interrupt  *)
(* lines in mip, and the updates made by a trap and by mret.  Registers    *)
(* are words; the positions of the fields the code names with literals     *)
(* (3, 7, 11, 12, 17) are constants, so that they fit a narrow machine.    *)
(***************************************************************************)
EXTENDS Isa

CONSTANTS
  MIE, MPIE, MPP0, MPP1, MPRV,   \* bits 3, 7, 11, 12 and 17 of mstatus
  UXL, ExtI, ExtU,               \* bit 33 of mstatus, bits 8 and 20 of misa
  MSI, MTI, MEI                  \* interrupts 3, 7 and 11: cause and mip/mie bit

CsrBits == {MIE, MPIE, MPP0, MPP1, MPRV}
IntNo   == {MSI, MTI, MEI}

ASSUME CsrAssumption ==
  /\ CsrBits \subseteq BitPos /\ IntNo \subseteq BitPos
  /\ {UXL, ExtI, ExtU} \subseteq BitPos /\ UXL \notin CsrBits
  /\ MPP0 # MPP1 /\ MIE # MPIE /\ MPRV \notin {MIE, MPIE, MPP0, MPP1}
  /\ {MIE, MPIE} \cap {MPP0, MPP1} = {}
  /\ MSI # MTI /\ MSI # MEI /\ MTI # MEI
  /\ XLEN - 1 \notin IntNo

(* Privilege *)
ModeU == 0
ModeS == 1
ModeH == 2
ModeM == 3
Mode  == {ModeU, ModeS, ModeH, ModeM}

MppBits(m) == (IF m \in {ModeS, ModeM} THEN {MPP0} ELSE {})
              \cup (IF m \in {ModeH, ModeM} THEN {MPP1} ELSE {})
MppOf(S)   == CASE {MPP0, MPP1} \subseteq S  -> ModeM
                [] MPP1 \in S /\ MPP0 \notin S -> ModeH
                [] MPP0 \in S /\ MPP1 \notin S -> ModeS
                [] OTHER                     -> ModeU

(* addr_table, wmask column. *)
WMask(name) ==
  CASE name = "mstatus" -> CsrBits
    [] name = "mip"     -> IntNo
    [] name \in {"mie", "mtvec", "mcounteren", "mscratch", "mepc", "mcause",
                 "mtval"} -> BitPos
    [] OTHER            -> {}

(* Bits 9:8 and 11:10 of the CSR number. *)
LeastMode(name) == IF name = "cycle" THEN ModeU ELSE ModeM
EnWrite(name)   == name \notin {"cycle", "mhartid", "mconfigptr"}

CsrReset == [name \in CsrName |->
  CASE name = "mstatus" -> FromBits({UXL})
    [] name = "misa"    -> FromBits({XLEN - 1, ExtI, MPP1, ExtU})   \* MXL = 2, "IMU"
    [] name = "tselect" -> 1
    [] OTHER            -> 0]

RLegal(mode, name) == name \in CsrName /\ mode >= LeastMode(name)
WLegal(mode, name) == RLegal(mode, name) /\ EnWrite(name)

(* The write port: the bits under the register's mask are replaced, the    *)
(* others kept; and, whichever register is written, bits 12:11 of the      *)
(* operand are forced to a supported privilege mode (S needs sxl and H is  *)
(* never supported) by taking those of mstatus.                            *)
WmppUnchecked(csrs, wdata) == MppBits(MppOf(Bits(wdata)))   \* fault: no support check
Wmpp(csrs, wdata) ==
  LET mpp == MppOf(Bits(wdata)) IN
  IF mpp \in {ModeS, ModeH} THEN Bits(csrs["mstatus"]) \cap {MPP0, MPP1}
                            ELSE MppBits(mpp)
WriteValue(csrs, name, wdata) ==
  FromBits(((Bits(wdata) \cap WMask(name)) \ {MPP0, MPP1})
           \cup Wmpp(csrs, wdata)
           \cup (Bits(csrs[name]) \ WMask(name)))

(* mip accumulates the interrupt lines. *)
MipNext(csrs, lines) == FromBits(Bits(csrs["mip"]) \cup lines)

(* fault: machine mode does not look at MIE *)
TakenIntsUnmasked(csrs, mode, lines) ==
  {i \in lines : i \in Bits(csrs["mip"]) /\ i \in Bits(csrs["mie"])}

(* An interrupt is taken when its line is up, its mip bit was recorded by  *)
(* an earlier clock, mie enables it and the privilege mode lets it in.     *)
TakenInts(csrs, mode, lines) ==
  {i \in lines : /\ mode = ModeM => MIE \in Bits(csrs["mstatus"])
                 /\ i \in Bits(csrs["mip"]) /\ i \in Bits(csrs["mie"])}
FirstInt(S) == IF MEI \in S THEN MEI ELSE IF MSI \in S THEN MSI ELSE MTI

(* Exceptionity, from the highest priority down. *)
Exceptionity == <<3, 12, 1, 2, 0, 11, 9, 8, 6, 4, 15, 13, 7, 5>>
ExcRank == [e \in 0..15 |->
              IF \E k \in 1..14 : Exceptionity[k] = e
              THEN CHOOSE k \in 1..14 : Exceptionity[k] = e ELSE 15]
FirstExc(S) == CHOOSE e \in S : \A f \in S : ExcRank[e] <= ExcRank[f]

(* What a trap writes; mstatus always comes from the value before the clock. *)
TrapStatus(status, mode) ==
  LET b == Bits(status) IN
  FromBits((b \ {MIE, MPIE, MPP0, MPP1})
           \cup (IF MIE \in b THEN {MPIE} ELSE {}) \cup MppBits(mode))
Cause(isInt, no) == IF isInt THEN W \div 2 + no ELSE no
TrapTarget(mtvec, isInt, no) ==
  Add((mtvec \div 4) * 4, IF isInt /\ mtvec % 2 = 1 THEN 4 * no ELSE 0)

MretStatusMasked(status) ==   \* fault: the handler's MIE stays
  LET b == Bits(status) IN
  FromBits((b \ (CsrBits \ {MIE})) \cup {MPIE}
           \cup (IF MppOf(b) = ModeM THEN b \cap {MPRV} ELSE {}))
MretStatus(status) ==
  LET b == Bits(status) IN
  FromBits((b \ CsrBits) \cup (IF MPIE \in b THEN {MIE} ELSE {}) \cup {MPIE}
           \cup (IF MppOf(b) = ModeM THEN b \cap {MPRV} ELSE {}))
=============================================================================
