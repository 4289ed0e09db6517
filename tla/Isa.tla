--------------------------------- MODULE Isa ---------------------------------
(***************************************************************************)
(* The instructions of the machine and how Decoder.scala classifies them.  *)
(* An instruction word is one of the H values a half of a memory word      *)
(* holds; InstTable gives the fields each value stands for, so the binary  *)
(* encoding (the BitPats of RVI.scala) is the only thing abstracted: which *)
(* types, units and operations exist, and every signal derived from them,  *)
(* is the source's.                                                        *)
(***************************************************************************)
EXTENDS Word

CONSTANTS
  NReg,        \* general purpose registers (32 in the hardware)
  PC_INIT,     \* the reset vector
  Poison,      \* the word read where no device answers (0xdec0dee3)
  InstTable    \* instruction word -> fields

Reg      == 0 .. (NReg - 1)
InstWord == 0 .. (H - 1)

InstN == "N"
InstI == "I"
InstR == "R"
InstS == "S"
InstB == "B"
InstU == "U"
InstJ == "J"

FuType == {"alu", "mdu", "lsu", "bru", "csr"}

(* The rows of RVIInstr.table: type, functional unit, operation.           *)
ShiftOps  == {"sll", "srl", "sra", "sllw", "srlw", "sraw"}
AluImmOps == ShiftOps \cup {"add", "slt", "sltu", "xor", "or", "and", "addw"}
AluOps    == AluImmOps \cup {"sub", "subw"}
MduOps    == {"mul", "mulh", "mulhsu", "mulhu", "div", "divu", "rem", "remu",
              "mulw", "divw", "divuw", "remw", "remuw"}
LoadOps   == {"lb", "lh", "lw", "ld", "lbu", "lhu", "lwu"}
StoreOps  == {"sb", "sh", "sw", "sd"}
CondOps   == {"beq", "bne", "blt", "bge", "bltu", "bgeu"}
CsrRwOps  == {"csrrw", "csrrs", "csrrc"}

DecodeRows ==
  ({InstR} \X {"alu"} \X AluOps) \cup ({InstI} \X {"alu"} \X AluImmOps)
  \cup ({InstU} \X {"alu"} \X {"add"})
  \cup ({InstI, InstR} \X {"alu"} \X {"nop"})               \* FENCE, WFI
  \cup ({InstR} \X {"mdu"} \X MduOps)
  \cup ({InstI} \X {"lsu"} \X LoadOps) \cup ({InstS} \X {"lsu"} \X StoreOps)
  \cup ({InstB} \X {"bru"} \X CondOps)
  \cup {<<InstJ, "bru", "jal">>, <<InstI, "bru", "jalr">>}
  \cup ({InstI} \X {"csr"} \X (CsrRwOps \cup {"ecall", "ebreak"}))
  \cup {<<InstR, "csr", "mret">>}

(* Instructions.DecodeDefault: what no row matches is an illegal nop.      *)
DecodeDefault == <<InstN, "alu", "nop">>

(* mhartid stands for the four read-only zeros mvendorid, marchid, mimpid  *)
(* and mhartid.                                                            *)
CsrName == {"cycle", "mhartid", "mstatus", "misa", "mie", "mtvec",
            "mcounteren", "mscratch", "mepc", "mcause", "mtval", "mip",
            "tselect", "tdata1"}
(* The numbers addr_table does not list: those the simulator has all the   *)
(* same (csr_read of rv_priv), and every other.                            *)
CsrSimOnly == {"mconfigptr", "medeleg", "mideleg", "mcycle", "minstret"}
CsrEmpty   == "empty"

(* The fields Decoder.scala extracts; auipc tells AUIPC from LUI, csri is  *)
(* bit 14 of a CSR instruction.                                            *)
Inst == [type : {"N", "I", "R", "S", "B", "U", "J"}, fusel : FuType,
         op : AluOps \cup MduOps \cup LoadOps \cup StoreOps \cup CondOps
              \cup CsrRwOps \cup {"nop", "jal", "jalr", "ecall", "ebreak", "mret"},
         rs : Reg, rt : Reg, rd : Reg, imm : Word,
         auipc : BOOLEAN, csri : BOOLEAN,
         csr : CsrName \cup CsrSimOnly \cup {CsrEmpty}]

Legal(i)    == i.type # InstN
Src1Ren(i)  == i.type \notin {InstU, InstJ}
Src1Pcen(i) == i.auipc \/ i.type = InstJ
Src2Ren(i)  == i.type \notin {InstI, InstU, InstJ}
RegWen(i)   == i.type \notin {InstS, InstB} /\ ~(i.fusel = "alu" /\ i.op = "nop")
IsCsri(i)   == i.fusel = "csr" /\ i.csri

(* LSUOpType: the operations are coded so that the low bits give the size. *)
IsStore(i) == i.op \in StoreOps
IsLoad(i)  == i.fusel = "lsu" /\ ~IsStore(i)
AccessSize(op) ==
  CASE op \in {"lb", "lbu", "sb"} -> 1
    [] op \in {"lh", "lhu", "sh"} -> 2
    [] op \in {"lw", "lwu", "sw"} -> 4
    [] OTHER                      -> 8
LoadSigned(op) == op \notin {"lbu", "lhu", "lwu"}

ASSUME IsaAssumption ==
  /\ NReg \in Nat \ {0} /\ NReg <= W
  /\ PC_INIT \in Word /\ PC_INIT % 8 = 0 /\ PC_INIT >= 8
  /\ Poison \in InstWord
  /\ InstTable \in [InstWord -> Inst]
  /\ InstTable[0].type = InstN        \* the word the stage registers reset to
  /\ \A w \in InstWord :
       LET i == InstTable[w] IN
       /\ <<i.type, i.fusel, i.op>> \in DecodeRows \cup {DecodeDefault}
       /\ i.auipc => i.type = InstU
=============================================================================
