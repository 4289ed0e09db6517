----------------------------- MODULE AluProofs ------------------------------
(***************************************************************************)
(* The functional units of the hardware and the reference's arithmetic, at *)
(* every width: what the run of Units checks for all operands of 8 bits.   *)
(***************************************************************************)
EXTENDS Units, WordProofs

AluTypeOK == a \in Word /\ b \in Word

LEMMA AluTypeInvariant == AluSpec => []AluTypeOK
<1>1. AluInit => AluTypeOK  BY WordRange DEF AluInit, AluTypeOK, Word
<1>2. AluTypeOK /\ [AluNext]_aluVars => AluTypeOK'
  <2> SUFFICES ASSUME AluTypeOK, [AluNext]_aluVars PROVE AluTypeOK'
    OBVIOUS
  <2>1. CASE AluNext
    <3>1. b \in Int /\ 1 \in Int  BY WordRange DEF AluTypeOK
    <3> QED  BY <2>1, <3>1, AddWord DEF AluNext, AluTypeOK
  <2>2. CASE UNCHANGED aluVars  BY <2>2 DEF aluVars, AluTypeOK
  <2> QED  BY <2>1, <2>2
<1> QED  BY <1>1, <1>2, PTL DEF AluSpec

(* Alu.scala and alu_exec compute the same for any two words of any width. *)
THEOREM AluCorrect == AluSpec => []AluAgrees
<1>1. AluTypeOK => AluAgrees
  <2> SUFFICES ASSUME AluTypeOK, NEW op \in OpsOf("alu")
               PROVE  Alu(op, a, b) = RefResult(op)
    BY DEF AluAgrees
  <2>1. op \in AluNames  BY DEF OpsOf, AluOp, AluNames
  <2> QED  BY <2>1, AluSame DEF AluTypeOK, SameResult, RefResult
<1> QED  BY <1>1, AluTypeInvariant, PTL

(* Mdu.scala and alu_exec likewise: division by zero, overflow and the     *)
(* high halves of mixed-sign products included.                            *)
THEOREM MduCorrect == AluSpec => []MduAgrees
<1>1. AluTypeOK => MduAgrees
  <2> SUFFICES ASSUME AluTypeOK, NEW op \in OpsOf("mdu")
               PROVE  Mdu(op, a, b) = RefResult(op)
    BY DEF MduAgrees
  <2>1. op \in MduNames  BY DEF OpsOf, MduNames
  <2> QED  BY <2>1, MduSame DEF AluTypeOK, SameResult, RefResult
<1> QED  BY <1>1, AluTypeInvariant, PTL

(***************************************************************************)
(* The atomic operations on halves.                                        *)
(***************************************************************************)
LEMMA LowBits ==
  ASSUME NEW w \in Word
  PROVE  w % H \in Word /\ Bits(w % H) = {i \in Bits(w) : i < Half}
<1>1. w \in Int /\ w % H \in Word /\ H = Pow2[Half] /\ Half \in Nat /\ XLEN \in Nat
  BY LowWord, WordRange, WordSize, WidthFacts
<1>2. ASSUME NEW i \in BitPos PROVE Bit(w % H, i) = IF i < Half THEN Bit(w, i) ELSE 0
  <2>1. i \in Nat  BY <1>1 DEF BitPos
  <2> QED  BY <1>1, <2>1, BitMod
<1> DEFINE h == w % H
<1>3. Bits(h) = {i \in BitPos : Bit(h, i) = 1} /\ Bits(w) = {i \in BitPos : Bit(w, i) = 1}
  BY <1>1, BitsOfWord
<1> QED  BY <1>1, <1>2, <1>3

(* The bitwise operations work on each half alone. *)
LEMMA BitwiseLow ==
  ASSUME NEW x \in Word, NEW y \in Word
  PROVE  /\ And(x, y) % H = And(x % H, y % H)
         /\ Or(x, y) % H = Or(x % H, y % H)
         /\ Xor(x, y) % H = Xor(x % H, y % H)
<1> DEFINE u == x % H   v == y % H
<1>1. /\ u \in Word /\ Bits(u) = {i \in Bits(x) : i < Half} /\ Bits(x) \subseteq BitPos
      /\ v \in Word /\ Bits(v) = {i \in Bits(y) : i < Half} /\ Bits(y) \subseteq BitPos
  BY LowBits, BitsPos
<1> HIDE DEF u, v
<1>2. ASSUME NEW S \in SUBSET BitPos, NEW T \in SUBSET BitPos, T = {i \in S : i < Half}
      PROVE  FromBits(S) % H = FromBits(T)
  <2>1. FromBits(S) \in Word /\ Bits(FromBits(S)) = S /\ FromBits(T) \in Word /\ Bits(FromBits(T)) = T
    BY FromBitsWord, BitsFromBits
  <2>2. FromBits(S) % H \in Word /\ Bits(FromBits(S) % H) = T  BY <1>2, <2>1, LowBits
  <2> QED  BY <2>1, <2>2, BitsUnique
<1>3. And(x, y) % H = And(u, v)
  <2>1. Bits(u) \cap Bits(v) = {i \in Bits(x) \cap Bits(y) : i < Half}  BY <1>1
  <2> QED  BY <1>1, <1>2, <2>1 DEF And
<1>4. Or(x, y) % H = Or(u, v)
  <2>1. Bits(u) \cup Bits(v) = {i \in Bits(x) \cup Bits(y) : i < Half}  BY <1>1
  <2> QED  BY <1>1, <1>2, <2>1 DEF Or
<1>5. Xor(x, y) % H = Xor(u, v)
  <2>1. (Bits(u) \ Bits(v)) \cup (Bits(v) \ Bits(u))
          = {i \in (Bits(x) \ Bits(y)) \cup (Bits(y) \ Bits(x)) : i < Half}
    BY <1>1
  <2> QED  BY <1>1, <1>2, <2>1 DEF Xor
<1> QED  BY <1>3, <1>4, <1>5 DEF u, v

(* The low half of a 64-bit atomic operation on sign-extended halves is    *)
(* the operation on the halves, for the minima and maxima as well.         *)
THEOREM AmoCorrect == AluSpec => []AmoAgrees
<1>1. ASSUME NEW x \in Word, NEW y \in Word, NEW op \in AmoFunct
      PROVE  AmoResult(op, Sext32(x), Sext32(y)) % H = AmoOnHalves(op, x, y)
  <2> DEFINE s == Sext32(x)   t == Sext32(y)   m == SignedLo(x)   n == SignedLo(y)
             u == x % H       v == y % H
  <2>1. /\ s \in Word /\ t \in Word /\ s % H = u /\ t % H = v
        /\ Signed(s) = m /\ Signed(t) = n /\ m \in Int /\ n \in Int
        /\ s = (IF m < 0 THEN m + W ELSE m) /\ t = (IF n < 0 THEN n + W ELSE n)
    <3>1. x \in Int /\ y \in Int /\ s = Int32(x) /\ t = Int32(y)
      BY WordRange DEF Sext32, Int32
    <3> HIDE DEF s, t, u, v, m, n
    <3>2. s = Int32(x) /\ t = Int32(y) /\ u = x % H /\ v = y % H /\ m = SignedLo(x) /\ n = SignedLo(y)
      BY <3>1 DEF u, v, m, n
    <3> QED  BY <3>1, <3>2, Int32Facts, SignedLoMod
  <2>2. u \in 0 .. (H - 1) /\ v \in 0 .. (H - 1) /\ u \in Int /\ v \in Int
    BY LowWord, WordRange
  <2>3. m = (IF u < H \div 2 THEN u ELSE u - H) /\ n = (IF v < H \div 2 THEN v ELSE v - H)
    BY DEF SignedLo
  <2>4. /\ H \in Nat \ {0} /\ W \in Nat \ {0} /\ W >= 8 * H /\ H = 2 * (H \div 2) /\ H \div 2 \in Nat
    BY WordRange
  <2> HIDE DEF s, t, m, n, u, v
  <2>5. s > t <=> u > v  BY <2>1, <2>2, <2>3, <2>4
  <2>6. s < t <=> u < v  BY <2>1, <2>2, <2>3, <2>4
  <2>7. Trunc(m + n) % H = (u + v) % H
    <3>1. Congruent(m, u, H) /\ Congruent(n, v, H)
      <4>1. x \in Int /\ y \in Int  BY WordRange
      <4>2. m % H = u /\ n % H = v  BY <4>1, SignedLoMod DEF m, n, u, v
      <4>3. u % H = u /\ v % H = v  BY <2>2, <2>4, ModSmall
      <4> QED  BY <4>2, <4>3 DEF Congruent
    <3>2. Congruent(m + n, u + v, H)  BY <2>1, <2>2, <2>4, <3>1, ModOps
    <3>3. m + n \in Int  BY <2>1
    <3>4. Trunc(m + n) % H = (m + n) % H  BY <3>3, LowOfTrunc
    <3> QED  BY <3>2, <3>4 DEF Congruent
  <2>8. And(s, t) % H = And(u, v) /\ Or(s, t) % H = Or(u, v) /\ Xor(s, t) % H = Xor(u, v)
    BY <2>1, BitwiseLow
  <2>9. AmoResult(op, s, t) % H = AmoOnHalves(op, x, y)
    <3>1. CASE op = "swap"  BY <2>1, <3>1 DEF AmoResult, AmoOnHalves, u
    <3>2. CASE op = "add"   BY <2>1, <2>7, <3>2 DEF AmoResult, AmoOnHalves, u, v
    <3>3. CASE op = "and"   BY <2>8, <3>3 DEF AmoResult, AmoOnHalves, u, v
    <3>4. CASE op = "or"    BY <2>8, <3>4 DEF AmoResult, AmoOnHalves, u, v
    <3>5. CASE op = "xor"   BY <2>8, <3>5 DEF AmoResult, AmoOnHalves, u, v
    <3>6. CASE op = "max"   BY <2>1, <3>6 DEF AmoResult, AmoOnHalves, u, v, m, n
    <3>7. CASE op = "min"   BY <2>1, <3>7 DEF AmoResult, AmoOnHalves, u, v, m, n
    <3>8. CASE op = "maxu"  BY <2>1, <2>5, <3>8 DEF AmoResult, AmoOnHalves, u, v
    <3>9. CASE op = "minu"  BY <2>1, <2>6, <3>9 DEF AmoResult, AmoOnHalves, u, v
    <3> QED  BY <3>1, <3>2, <3>3, <3>4, <3>5, <3>6, <3>7, <3>8, <3>9 DEF AmoFunct
  <2> QED  BY <2>9 DEF s, t
<1>2. AluTypeOK => AmoAgrees  BY <1>1 DEF AluTypeOK, AmoAgrees
<1> QED  BY <1>2, AluTypeInvariant, PTL
=============================================================================
