------------------------------ MODULE Programs ------------------------------
(***************************************************************************)
(* The programs the configurations run, on a machine of 8-bit words and    *)
(* 1-bit bytes with four registers and its memory in the upper half of the *)
(* address space.  Each run has an instruction table and a set of memory   *)
(* images: a fixed prologue, a body that takes every combination of the    *)
(* run's instructions, a halting self-loop, and a trap handler.            *)
(***************************************************************************)
EXTENDS Memory, Sequences

(* Instructions *)
Fields(type, fusel, op, rd, rs, rt, imm) ==
  [type |-> type, fusel |-> fusel, op |-> op, rs |-> rs, rt |-> rt, rd |-> rd,
   imm |-> imm, auipc |-> FALSE, csri |-> FALSE, csr |-> CsrEmpty]
IllegalInst          == Fields("N", "alu", "nop", 0, 0, 0, 0)
OpR(op, rd, rs, rt)  == Fields("R", "alu", op, rd, rs, rt, 0)
OpM(op, rd, rs, rt)  == Fields("R", "mdu", op, rd, rs, rt, 0)
OpI(op, rd, rs, imm) == Fields("I", "alu", op, rd, rs, 0, imm)
LuiOf(rd, imm)       == Fields("U", "alu", "add", rd, 0, 0, imm)
AuipcOf(rd, imm)     == [LuiOf(rd, imm) EXCEPT !.auipc = TRUE]
LoadOf(op, rd, rs, imm)  == Fields("I", "lsu", op, rd, rs, 0, imm)
StoreOf(op, rt, rs, imm) == Fields("S", "lsu", op, 0, rs, rt, imm)
BranchOf(op, rs, rt, imm) == Fields("B", "bru", op, 0, rs, rt, imm)
JalOf(rd, imm)       == Fields("J", "bru", "jal", rd, 0, 0, imm)
JalrOf(rd, rs, imm)  == Fields("I", "bru", "jalr", rd, rs, 0, imm)
CsrOf(op, rd, csr, rs)  == [Fields("I", "csr", op, rd, rs, 0, 0) EXCEPT !.csr = csr]
CsriOf(op, rd, csr, z)  == [CsrOf(op, rd, csr, z) EXCEPT !.csri = TRUE]
SystemOf(type, op)   == Fields(type, "csr", op, 0, 0, 0, 0)
Halt                 == JalOf(0, 0)

(* Memory images: instruction words two to a memory word, then data.       *)
Image(code, data) ==
  LET word(k) == IF 2 * k + 1 <= Len(code) THEN code[2 * k + 1] ELSE 0
      high(k) == IF 2 * k + 2 <= Len(code) THEN code[2 * k + 2] ELSE 0
      nCode   == MemWords - Len(data)
  IN [k \in MemIndex |-> IF k < nCode THEN word(k) + H * high(k)
                                      ELSE data[k - nCode + 1]]
Bodies(S, n) == [1..n -> S]

(***************************************************************************)
(* Data hazards: arithmetic, loads and stores.                             *)
(***************************************************************************)
HazardTable ==
  <<LuiOf(3, 168), Halt,
    OpI("add", 1, 1, 253), OpR("sub", 2, 1, 2), OpM("mulw", 1, 1, 2),
    OpI("add", 0, 1, 1), AuipcOf(2, 5),
    LoadOf("ld", 1, 3, 0), LoadOf("lhu", 2, 3, 2), LoadOf("ld", 3, 3, 8),
    StoreOf("sd", 1, 3, 0), StoreOf("sb", 2, 3, 2)>>
HazardInsts == [w \in 0..15 |-> IF w \in 1..12 THEN HazardTable[w] ELSE IllegalInst]
HazardImages ==
  {Image(<<1>> \o b \o <<2>>, <<177, 168>>) : b \in Bodies({3, 4, 6, 8, 9, 10, 11, 12}, 4)}
  \cup {Image(<<1>> \o b \o <<2>>, <<177, 168>>) : b \in Bodies({5, 7, 8, 11}, 4)}

(***************************************************************************)
(* Control hazards: branches over and back, calls, returns, loads whose    *)
(* result a branch waits for.                                              *)
(***************************************************************************)
BranchTable ==
  <<LuiOf(3, 152), Halt,
    OpI("add", 1, 1, 1), LuiOf(1, 255), LoadOf("ld", 2, 0, 160),
    BranchOf("beq", 1, 2, 8), BranchOf("bne", 1, 2, 8), BranchOf("blt", 1, 2, 12),
    BranchOf("bge", 1, 2, 8), BranchOf("bltu", 1, 2, 252), BranchOf("bgeu", 2, 1, 8),
    JalOf(3, 8), JalrOf(3, 3, 0), JalrOf(1, 3, 253)>>
BranchInsts == [w \in 0..15 |-> IF w \in 1..14 THEN BranchTable[w] ELSE IllegalInst]
BranchImages ==
  {Image(<<1>> \o b \o <<3, 2, 2>>, <<2>>) :
     b \in Bodies({3, 4, 5, 7, 8, 10, 12, 13}, 4) \cup Bodies({3, 4, 6, 9, 11, 14}, 4)}

(***************************************************************************)
(* Traps: a body between the prologue that sets mtvec and the halt; the    *)
(* handler skips the trapping instruction and returns, to machine mode or  *)
(* (when it clears mstatus first) to user mode.                            *)
(***************************************************************************)
TrapTable ==
  <<LuiOf(3, 152), CsrOf("csrrw", 0, "mtvec", 3), Halt,
    CsrOf("csrrs", 1, "mepc", 0), OpI("add", 1, 1, 4), CsrOf("csrrw", 0, "mepc", 1),
    SystemOf("R", "mret"), CsriOf("csrrw", 0, "mstatus", 0),
    SystemOf("I", "ecall"), SystemOf("I", "ebreak"),
    LoadOf("lw", 2, 0, 178), StoreOf("sd", 3, 0, 177), JalOf(2, 2),
    CsriOf("csrrs", 2, "mstatus", 2), CsrOf("csrrs", 2, "mstatus", 3)>>
TrapInsts == [w \in 0..15 |-> IF w = 0 THEN IllegalInst ELSE TrapTable[w]]
TrapImages ==
  {Image(<<1, 2>> \o b \o <<3, 4, 5, 6, v, 7>>, <<170>>) :
     b \in Bodies({0, 8, 9, 10, 11, 12, 13, 14, 15}, 3), v \in {5, 8}}

(***************************************************************************)
(* Interrupts, at every clock edge they can come: the prologue enables the *)
(* timer and the external interrupt, the handler saves its cause.          *)
(***************************************************************************)
IrqTable ==
  <<LuiOf(3, 160), CsrOf("csrrw", 0, "mtvec", 3), LuiOf(1, 44),
    CsrOf("csrrw", 0, "mie", 1), CsrOf("csrrs", 0, "mstatus", 1), Halt,
    SystemOf("R", "mret"), CsrOf("csrrs", 1, "mcause", 0),
    LoadOf("ld", 2, 0, 176), OpI("add", 2, 1, 1), StoreOf("sd", 2, 0, 176),
    BranchOf("bne", 2, 1, 8), SystemOf("I", "ecall"), CsriOf("csrrw", 0, "mstatus", 0),
    StoreOf("sb", 0, 0, 152)>>
IrqInsts == [w \in 0..15 |-> IF w \in 1..15 THEN IrqTable[w] ELSE IllegalInst]
IrqImages ==
  {Image(<<1, 2, 3, 4, 5>> \o b \o <<6, 8, v, 7, 6>>, <<5>>) :
     b \in {<<9, 10>>, <<9, 12>>, <<12, 9>>, <<12, 11>>, <<11, 13>>,
            <<15, 9>>, <<10, 15>>}, v \in {9, 14}}

(***************************************************************************)
(* Traps of both kinds at once: instructions an interrupt may find in      *)
(* execute, and handlers that return at once, save and skip the trapping   *)
(* instruction, swap mscratch, leave to user mode, or trap themselves.     *)
(***************************************************************************)
HandlerTable ==
  <<LuiOf(3, 160), CsrOf("csrrw", 0, "mtvec", 3), LuiOf(1, 44),
    CsrOf("csrrw", 0, "mie", 1), CsrOf("csrrs", 0, "mstatus", 1), Halt,
    SystemOf("R", "mret"), CsrOf("csrrs", 1, "mepc", 0),
    CsrOf("csrrw", 2, "mscratch", 1), OpI("add", 1, 1, 4), StoreOf("sd", 2, 0, 176),
    LoadOf("ld", 2, 0, 176), SystemOf("I", "ecall"), CsriOf("csrrw", 0, "mstatus", 0),
    CsrOf("csrrw", 0, "mepc", 1)>>
HandlerInsts == [w \in 0..15 |-> IF w = 0 THEN IllegalInst ELSE HandlerTable[w]]
HandlerImages ==
  {Image(<<1, 2, 3, 4, 5>> \o b \o <<6>> \o h, <<5>>) :
     b \in {<<9, 11>>, <<12, 11>>, <<13, 9>>, <<12, 0>>},
     h \in {<<7, 6, 6, 6>>, <<9, 14, 7, 6>>, <<8, 10, 15, 7>>, <<13, 7, 6, 6>>}}

(***************************************************************************)
(* The programs on which the code departs from its notes: a CSR write      *)
(* whose operand has a mode the core does not support in the MPP bits, an  *)
(* mret that user mode executes, and a jalr from an odd base.              *)
(***************************************************************************)
QuirkTable ==
  <<LuiOf(3, 144), CsrOf("csrrw", 0, "mtvec", 3), Halt,
    CsrOf("csrrw", 0, "mepc", 3), SystemOf("R", "mret"),
    LuiOf(1, 146), CsrOf("csrrw", 0, "mscratch", 1),
    LuiOf(1, 137), JalrOf(2, 1, 3)>>
QuirkInsts == [w \in 0..15 |-> IF w \in 1..9 THEN QuirkTable[w] ELSE IllegalInst]
MppImages  == {Image(<<6, 7, 3>>, <<>>)}
JalrImages == {Image(<<8, 9, 3, 3>>, <<>>)}
MretImages == {Image(<<1, 2, 4, 5, 5, 3>>, <<>>)}

(***************************************************************************)
(* Tests that report a result: a body between the prologue, which makes    *)
(* the epilogue the trap handler, and the epilogue, which makes the exit   *)
(* call.  A body may report early: by an ebreak, or by a store of 1 to     *)
(* tohost, the second data word.                                           *)
(***************************************************************************)
TestTable ==
  <<LuiOf(3, 176), LuiOf(1, 156), CsrOf("csrrw", 0, "mtvec", 1), LuiOf(2, 93),
    SystemOf("I", "ecall"), SystemOf("I", "ebreak"), LoadOf("ld", 1, 3, 0),
    OpI("add", 1, 1, 255), OpR("sub", 1, 1, 2), StoreOf("sd", 1, 3, 8),
    StoreOf("sb", 1, 3, 3), BranchOf("beq", 1, 0, 8), CsrOf("csrrs", 1, "mcycle", 0),
    LoadOf("lw", 1, 3, 2), JalrOf(2, 1, 237)>>
TestInsts == [w \in 0..15 |-> IF w \in 1..15 THEN TestTable[w] ELSE IllegalInst]
TestImages ==
  {Image(<<1, 2, 3>> \o b \o <<4, 5>>, <<2, 0>>) :
     b \in {<<7>> \o c : c \in Bodies({0, 14} \cup 6..12, 3)} \cup Bodies({8, 10, 11, 12}, 4)}

(* Programs on which the two machines part for good: a jalr from an odd    *)
(* base jumps to itself on the core, and on the simulator traps to an      *)
(* address without a device; a mode of mtvec that the simulator aborts at; *)
(* a read of mcycle, a CSR the core does not have.                         *)
PartingImages == {Image(<<2, 8, 15>> \o b, <<2, 0>>) : b \in {<<>>, <<5>>}}
                   \cup {Image(<<2, 8, x, 15, 5>>, <<2, 0>>) : x \in {1, 4}}
                   \cup {Image(<<2, 8, 3, 5>>, <<2, 0>>)}
                   \cup {Image(<<2, 13, 5>>, <<2, 0>>), Image(<<2, 3, 1, 13, 4, 5>>, <<2, 0>>)}
PartingImage(m) == InstAt(m, PC_INIT) = 2
=============================================================================
