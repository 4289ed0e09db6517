-------------------------------- MODULE Word --------------------------------
(***************************************************************************)
(* Machine words: the UInt(XLEN.W) values the hardware and the reference   *)
(* model compute with, as the naturals below W, and the bit view of a word *)
(* (the set of the positions that hold a 1).  The hardware has XLEN = 64;  *)
(* every model instance keeps the same structure at a smaller width.       *)
(***************************************************************************)
EXTENDS Integers

CONSTANTS
  XLEN,   \* bits in a register
  H       \* 2^(XLEN/2), the number of values of a 32-bit instruction word

W       == H * H
Word    == 0 .. (W - 1)
BitPos  == 0 .. (XLEN - 1)

Pow2[n \in Nat] == IF n = 0 THEN 1 ELSE 2 * Pow2[n - 1]

BitsOf == [w \in Word |-> {i \in BitPos : (w \div Pow2[i]) % 2 = 1}]
WordOf == [S \in SUBSET BitPos |-> CHOOSE w \in Word : BitsOf[w] = S]

Bits(w)     == BitsOf[w]
FromBits(S) == WordOf[S]

(* The width is a power of two, and a register holds two halves of it.     *)
ASSUME WordAssumption ==
  /\ XLEN \in Nat /\ XLEN >= 8 /\ \E k \in 3 .. XLEN : XLEN = Pow2[k]
  /\ H = Pow2[XLEN \div 2]

ByteBits == XLEN \div 8
Half     == XLEN \div 2

Trunc(x)  == x % W
Add(a, b) == Trunc(a + b)
SubWide(a, b) == a - b      \* fault: the difference keeps its borrow
Sub(a, b) == Trunc(a - b)

(* The two's complement reading of a word, and of its low half. *)
Signed(w)   == IF w < W \div 2 THEN w ELSE w - W
SignedLo(w) == LET h == w % H IN IF h < H \div 2 THEN h ELSE h - H

And(a, b)    == FromBits(Bits(a) \cap Bits(b))
Or(a, b)     == FromBits(Bits(a) \cup Bits(b))
Xor(a, b)    == FromBits((Bits(a) \ Bits(b)) \cup (Bits(b) \ Bits(a)))
AndNot(a, b) == FromBits(Bits(a) \ Bits(b))

Shl(a, k) == LET b == Bits(a) IN FromBits({i \in BitPos : i - k \in b})
Shr(a, k) == LET b == Bits(a) IN FromBits({i \in BitPos : i + k \in b})

(* Keep the low n bits of a; the bits above are copies of bit n-1 when     *)
(* signed, and 0 otherwise.                                                *)
Extend(a, n, signed) ==
  LET b == Bits(a) IN
  FromBits({i \in BitPos : IF i < n THEN i \in b ELSE signed /\ n - 1 \in b})

(* Alu.scala and Mdu.scala, W(x): sign extension of the low half. *)
Sext32Zero(x) == x % H      \* fault: zero extension
Sext32(x) == Trunc(SignedLo(x))
=============================================================================
