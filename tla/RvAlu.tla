-------------------------------- MODULE RvAlu --------------------------------
(***************************************************************************)
(* The combinational arithmetic of the hardware: the functional units      *)
(* Alu.scala, Mdu.scala and the condition of Bru.scala.                    *)
(***************************************************************************)
EXTENDS Word

Alu(op, rs, rt) ==
  LET sh   == rt % XLEN
      sh32 == rt % Half
      hi   == rs % H
  IN CASE op = "add"  -> Add(rs, rt)
       [] op = "sub"  -> Sub(rs, rt)
       [] op = "sll"  -> Shl(rs, sh)
       [] op = "slt"  -> IF Signed(rs) < Signed(rt) THEN 1 ELSE 0
       [] op = "sltu" -> IF rs < rt THEN 1 ELSE 0
       [] op = "xor"  -> Xor(rs, rt)
       [] op = "srl"  -> Shr(rs, sh)
       [] op = "sra"  -> Extend(Shr(rs, sh), XLEN - sh, TRUE)
       [] op = "or"   -> Or(rs, rt)
       [] op = "and"  -> And(rs, rt)
       [] op = "addw" -> Sext32(Add(rs, rt))
       [] op = "subw" -> Sext32(Sub(rs, rt))
       [] op = "sllw" -> Sext32(Shl(rs, sh32))
       [] op = "srlw" -> Sext32(Shr(hi, sh32))
       [] op = "sraw" -> Sext32(Extend(Shr(hi, sh32), Half - sh32, TRUE))
       [] OTHER       -> 0                                         \* nop

(* Division of SInts rounds towards zero. *)
Quot(a, b) ==
  LET m == (IF a < 0 THEN -a ELSE a) \div (IF b < 0 THEN -b ELSE b)
  IN  IF (a < 0) = (b < 0) THEN m ELSE -m
RemPositive(a, b) == a % (IF b < 0 THEN -b ELSE b)   \* fault: Euclidean remainder
Rem(a, b) == a - b * Quot(a, b)

Mdu(op, rs, rt) ==
  LET s == Signed(rs)    t == Signed(rt)
      a == SignedLo(rs)  b == SignedLo(rt)
      u == rs % H        v == rt % H
  IN CASE op = "mul"    -> Trunc(rs * rt)
       [] op = "mulh"   -> Trunc((s * t) \div W)
       [] op = "mulhsu" -> Trunc((s * rt) \div W)
       [] op = "mulhu"  -> Trunc((rs * rt) \div W)
       [] op = "div"    -> IF rt = 0 THEN W - 1 ELSE Trunc(Quot(s, t))
       [] op = "divu"   -> IF rt = 0 THEN W - 1 ELSE rs \div rt
       [] op = "rem"    -> IF rt = 0 THEN rs ELSE Trunc(Rem(s, t))
       [] op = "remu"   -> IF rt = 0 THEN rs ELSE rs % rt
       [] op = "mulw"   -> Sext32(Trunc(rs * rt))
       [] op = "divw"   -> IF v = 0 THEN W - 1 ELSE Sext32(Trunc(Quot(a, b)))
       [] op = "divuw"  -> IF v = 0 THEN W - 1 ELSE Sext32(u \div v)
       [] op = "remw"   -> IF v = 0 THEN Sext32(u) ELSE Sext32(Trunc(Rem(a, b)))
       [] op = "remuw"  -> IF v = 0 THEN Sext32(u) ELSE Sext32(u % v)
       [] OTHER         -> 0

(* Bru.scala: is the branch taken, from the operands src1 and src2. *)
BranchTaken(op, rs, rt) ==
  CASE op = "beq"  -> rs = rt
    [] op = "bne"  -> rs # rt
    [] op = "blt"  -> Signed(rs) < Signed(rt)
    [] op = "bge"  -> Signed(rs) >= Signed(rt)
    [] op = "bltu" -> rs < rt
    [] op = "bgeu" -> rs >= rt
    [] OTHER       -> op \in {"jal", "jalr"}
=============================================================================
