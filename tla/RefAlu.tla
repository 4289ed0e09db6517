------------------------------- MODULE RefAlu -------------------------------
(***************************************************************************)
(* The arithmetic of the reference model: rv_core::alu_exec, on int64_t    *)
(* values.  C++ integers are here the words they are stored in; Signed     *)
(* reads one as signed, and Trunc stores a result of any size in a word.   *)
(***************************************************************************)
EXTENDS Word

(* (int32_t) conversions: the operands of a 32-bit operation on entry, and *)
(* its result on return, are the sign-extended low halves.                 *)
Int32(x) == Trunc(SignedLo(x))

LongMin == W \div 2      \* the word that LONG_MIN is stored in

(* The / and % of C++ on signed operands: the quotient rounds towards      *)
(* zero and the remainder has the sign of the dividend.                    *)
Magnitude(x) == IF x < 0 THEN -x ELSE x
CDiv(a, b) == IF (a < 0) = (b < 0) THEN Magnitude(a) \div Magnitude(b) ELSE -(Magnitude(a) \div Magnitude(b))
CMod(a, b) == IF a < 0 THEN -(Magnitude(a) % Magnitude(b)) ELSE a % Magnitude(b)

AluExec(a0, b0, op, op32) ==
  LET a  == IF op32 THEN Int32(a0) ELSE a0
      b  == IF op32 THEN Int32(b0) ELSE b0
      sh == b % (IF op32 THEN Half ELSE XLEN)
      overflow == a = LongMin /\ b = W - 1
      result ==
        CASE op = "ADD"    -> Trunc(Signed(a) + Signed(b))
          [] op = "SUB"    -> Trunc(Signed(a) - Signed(b))
          [] op = "SLL"    -> Trunc(Signed(a) * Pow2[sh])
          [] op = "SLT"    -> IF Signed(a) < Signed(b) THEN 1 ELSE 0
          [] op = "SLTU"   -> IF a < b THEN 1 ELSE 0
          [] op = "XOR"    -> Xor(a, b)
          [] op = "SRL"    -> (IF op32 THEN a % H ELSE a) \div Pow2[sh]
          [] op = "SRA"    -> Trunc(Signed(a) \div Pow2[sh])
          [] op = "OR"     -> Or(a, b)
          [] op = "AND"    -> And(a, b)
          [] op = "MUL"    -> Trunc(Signed(a) * Signed(b))
          [] op = "MULH"   -> Trunc((Signed(a) * Signed(b)) \div W)
          [] op = "MULHU"  -> (a * b) \div W
          [] op = "MULHSU" -> Trunc((Signed(a) * b) \div W)
          [] op = "DIV"    -> IF b = 0 THEN W - 1
                              ELSE IF overflow THEN LongMin
                              ELSE Trunc(CDiv(Signed(a), Signed(b)))
          [] op = "DIVU"   -> IF b = 0 THEN W - 1
                              ELSE IF op32 THEN (a % H) \div (b % H)
                              ELSE a \div b
          [] op = "REM"    -> IF b = 0 THEN a
                              ELSE IF overflow THEN 0
                              ELSE Trunc(CMod(Signed(a), Signed(b)))
          [] op = "REMU"   -> IF b = 0 THEN a
                              ELSE IF op32 THEN (a % H) % (b % H)
                              ELSE a % b
  IN IF op32 THEN Int32(result) ELSE result

(* The operation alu_exec is called with: OPIMM and OP, with op_32 for     *)
(* OPIMM32 and OP32.                                                       *)
AluOp == [add |-> "ADD", sub |-> "SUB", sll |-> "SLL", slt |-> "SLT",
          sltu |-> "SLTU", xor |-> "XOR", srl |-> "SRL", sra |-> "SRA",
          or |-> "OR", and |-> "AND", addw |-> "ADD", subw |-> "SUB",
          sllw |-> "SLL", srlw |-> "SRL", sraw |-> "SRA",
          mul |-> "MUL", mulh |-> "MULH", mulhsu |-> "MULHSU",
          mulhu |-> "MULHU", div |-> "DIV", divu |-> "DIVU", rem |-> "REM",
          remu |-> "REMU", mulw |-> "MUL", divw |-> "DIV", divuw |-> "DIVU",
          remw |-> "REM", remuw |-> "REMU"]
Op32 == {"addw", "subw", "sllw", "srlw", "sraw",
         "mulw", "divw", "divuw", "remw", "remuw"}

(* pa_amo_op: the operation is one of 64 bits whatever the size; src is    *)
(* the register, res what memory held, sign-extended.                      *)
AmoFunct == {"swap", "add", "and", "or", "xor", "max", "min", "maxu", "minu"}
AmoResultUnsigned(op, src, res) ==      \* fault: max and min compare unsigned
  CASE op = "max" -> IF src > res THEN src ELSE res
    [] op = "min" -> IF src < res THEN src ELSE res
    [] OTHER      -> src
AmoResult(op, src, res) ==
  CASE op = "swap" -> src
    [] op = "add"  -> Trunc(Signed(src) + Signed(res))
    [] op = "and"  -> And(src, res)
    [] op = "or"   -> Or(src, res)
    [] op = "xor"  -> Xor(src, res)
    [] op = "max"  -> IF Signed(src) > Signed(res) THEN src ELSE res
    [] op = "min"  -> IF Signed(src) < Signed(res) THEN src ELSE res
    [] op = "maxu" -> IF src > res THEN src ELSE res
    [] op = "minu" -> IF src < res THEN src ELSE res
=============================================================================
