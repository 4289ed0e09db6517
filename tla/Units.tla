------------------------------- MODULE Units --------------------------------
(***************************************************************************)
(* Every operand pair of a narrow machine through the functional units of  *)
(* the hardware and through the reference's alu_exec.  The operand b is    *)
(* stepped, as a test generator would.                                     *)
(***************************************************************************)
EXTENDS RvAlu, RefAlu

VARIABLES a, b
aluVars == <<a, b>>

AluInit == a \in Word /\ b = 0
AluNext == b' = Add(b, 1) /\ UNCHANGED a
AluSpec == AluInit /\ [][AluNext]_aluVars

OpsOf(unit) == IF unit = "mdu"
               THEN {"mul", "mulh", "mulhsu", "mulhu", "div", "divu", "rem",
                     "remu", "mulw", "divw", "divuw", "remw", "remuw"}
               ELSE DOMAIN AluOp \ {"mul", "mulh", "mulhsu", "mulhu", "div",
                     "divu", "rem", "remu", "mulw", "divw", "divuw", "remw", "remuw"}
RefResult(op) == AluExec(a, b, AluOp[op], op \in Op32)

(* Alu.scala computes what rv_core::alu_exec computes, for every operation *)
(* and operand pair: shift amounts past the width, 32-bit operations on    *)
(* operands with any upper half, signed and unsigned comparisons.          *)
AluAgrees == \A op \in OpsOf("alu") : Alu(op, a, b) = RefResult(op)

(* Mdu.scala and alu_exec agree as well: high halves of mixed-sign         *)
(* products, division by zero, and the overflow of the smallest value      *)
(* divided by -1.                                                          *)
MduAgrees == \A op \in OpsOf("mdu") : Mdu(op, a, b) = RefResult(op)

(* The 32-bit atomic operations, which rv_systembus computes with 64 bits, *)
(* store what the operation on the halves gives, as long as the register   *)
(* holds a sign-extended half (what 32-bit instructions leave there): the  *)
(* unsigned order of the halves is that of their sign extensions.          *)
AmoOnHalves(op, x, y) ==
  LET sx == SignedLo(x)   sy == SignedLo(y)   ux == x % H   uy == y % H
  IN CASE op = "swap" -> ux
       [] op = "add"  -> (ux + uy) % H
       [] op = "and"  -> And(ux, uy)
       [] op = "or"   -> Or(ux, uy)
       [] op = "xor"  -> Xor(ux, uy)
       [] op = "max"  -> IF sx > sy THEN ux ELSE uy
       [] op = "min"  -> IF sx < sy THEN ux ELSE uy
       [] op = "maxu" -> IF ux > uy THEN ux ELSE uy
       [] op = "minu" -> IF ux < uy THEN ux ELSE uy
AmoAgrees == \A op \in AmoFunct :
  AmoResult(op, Sext32(a), Sext32(b)) % H = AmoOnHalves(op, a, b)
=============================================================================
