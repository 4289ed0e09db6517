----------------------------- MODULE WordProofs -----------------------------
(***************************************************************************)
(* Powers of two, the bits of a word, and that every operator of Word.tla  *)
(* and RvAlu.tla returns a word: what the widths of the hardware's wires   *)
(* guarantee, at every width.                                              *)
(***************************************************************************)
EXTENDS RvAlu, RefAlu, NatLemmas

(***************************************************************************)
(* The powers of two.  A prefix of the sequence exists at every length,    *)
(* and two prefixes agree: so the recursive definition defines a function. *)
(***************************************************************************)
Prefix(g, n) == g = [i \in 0 .. n |-> IF i = 0 THEN 1 ELSE 2 * g[i - 1]]

LEMMA PrefixExists == \A n \in Nat : \E g : Prefix(g, n)
<1> DEFINE T == {n \in Nat : \A g : ~Prefix(g, n)}
<1> SUFFICES ASSUME T # {} PROVE FALSE
  OBVIOUS
<1>1. PICK m \in T : \A n \in T : m <= n  BY LeastNat
<1>2. CASE m = 0
  <2>1. Prefix([i \in 0 .. 0 |-> 1], 0)  BY DEF Prefix
  <2> QED  BY <1>1, <1>2, <2>1
<1>3. CASE m # 0
  <2>1. m - 1 \in Nat /\ m - 1 \notin T  BY <1>1, <1>3
  <2>2. PICK g : Prefix(g, m - 1)  BY <2>1
  <2> DEFINE h == [i \in 0 .. m |-> IF i = 0 THEN 1 ELSE 2 * g[i - 1]]
  <2>3. ASSUME NEW i \in 0 .. (m - 1) PROVE h[i] = g[i]
    BY <2>1, <2>2, <2>3 DEF Prefix
  <2>4. ASSUME NEW i \in 0 .. m, i # 0 PROVE h[i - 1] = g[i - 1]
    <3>1. i - 1 \in 0 .. (m - 1)  BY <2>1, <2>4
    <3> QED  BY <2>3, <3>1
  <2>5. h = [i \in 0 .. m |-> IF i = 0 THEN 1 ELSE 2 * h[i - 1]]
    BY <2>4
  <2>6. Prefix(h, m)  BY <2>5 DEF Prefix
  <2> QED  BY <1>1, <2>6
<1> QED  BY <1>2, <1>3

LEMMA PrefixesAgree ==
  ASSUME NEW n \in Nat, NEW m \in Nat, NEW g, NEW h, Prefix(g, n), Prefix(h, m),
         NEW i \in Nat, i <= n, i <= m
  PROVE  g[i] = h[i]
<1> DEFINE T == {j \in Nat : j <= n /\ j <= m /\ g[j] # h[j]}
<1> SUFFICES ASSUME T # {} PROVE FALSE
  OBVIOUS
<1>1. PICK j \in T : \A l \in T : j <= l  BY LeastNat
<1>2. g[j] = IF j = 0 THEN 1 ELSE 2 * g[j - 1]  BY <1>1 DEF Prefix
<1>3. h[j] = IF j = 0 THEN 1 ELSE 2 * h[j - 1]  BY <1>1 DEF Prefix
<1>4. j # 0 => g[j - 1] = h[j - 1]
  <2> SUFFICES ASSUME j # 0 PROVE g[j - 1] = h[j - 1]
    OBVIOUS
  <2>1. j - 1 \in Nat /\ j - 1 < j /\ j - 1 \notin T  BY <1>1
  <2> QED  BY <1>1, <2>1
<1> QED  BY <1>1, <1>2, <1>3, <1>4

LEMMA Pow2Rec == Pow2 = [n \in Nat |-> IF n = 0 THEN 1 ELSE 2 * Pow2[n - 1]]
<1> DEFINE pre(n) == CHOOSE g : Prefix(g, n)
           f == [n \in Nat |-> pre(n)[n]]
<1>1. ASSUME NEW n \in Nat PROVE Prefix(pre(n), n)
  BY PrefixExists
<1> HIDE DEF pre
<1>2. ASSUME NEW n \in Nat PROVE f[n] = IF n = 0 THEN 1 ELSE 2 * f[n - 1]
  <2>1. pre(n)[n] = IF n = 0 THEN 1 ELSE 2 * pre(n)[n - 1]
    BY <1>1 DEF Prefix
  <2>2. CASE n = 0  BY <2>1, <2>2
  <2>3. CASE n # 0
    <3>1. n - 1 \in Nat /\ n - 1 <= n /\ n - 1 <= n - 1  BY <2>3
    <3>2. pre(n)[n - 1] = pre(n - 1)[n - 1]  BY <1>1, <3>1, PrefixesAgree
    <3> QED  BY <2>1, <2>3, <3>1, <3>2
  <2> QED  BY <2>2, <2>3
<1>3. f = [n \in Nat |-> IF n = 0 THEN 1 ELSE 2 * f[n - 1]]
  BY <1>2
<1> HIDE DEF f
<1>4. \E p : p = [n \in Nat |-> IF n = 0 THEN 1 ELSE 2 * p[n - 1]]
  BY <1>3
<1> QED  BY <1>4 DEF Pow2

LEMMA PowZero == Pow2[0] = 1
  BY Pow2Rec
LEMMA PowNext == \A n \in Nat : Pow2[n + 1] = 2 * Pow2[n]
<1>1. TAKE n \in Nat
<1>2. n + 1 \in Nat /\ n + 1 # 0 /\ (n + 1) - 1 = n  OBVIOUS
<1> QED  BY <1>2, Pow2Rec

LEMMA PowNat == \A n \in Nat : Pow2[n] \in Nat \ {0} /\ Pow2[n] > n
<1> DEFINE T == {n \in Nat : ~(Pow2[n] \in Nat \ {0} /\ Pow2[n] > n)}
<1> SUFFICES ASSUME T # {} PROVE FALSE
  OBVIOUS
<1>1. PICK m \in T : \A n \in T : m <= n  BY LeastNat
<1>2. CASE m = 0  BY <1>1, <1>2, PowZero
<1>3. CASE m # 0
  <2>1. m - 1 \in Nat /\ m - 1 \notin T /\ (m - 1) + 1 = m  BY <1>1, <1>3
  <2>2. Pow2[m] = 2 * Pow2[m - 1]  BY <2>1, PowNext
  <2>3. Pow2[m - 1] \in Nat \ {0} /\ Pow2[m - 1] > m - 1  BY <2>1
  <2> QED  BY <1>1, <2>1, <2>2, <2>3
<1> QED  BY <1>2, <1>3

LEMMA PowAdd == \A m, n \in Nat : Pow2[m + n] = Pow2[m] * Pow2[n]
<1>1. TAKE m \in Nat
<1> DEFINE T == {n \in Nat : Pow2[m + n] # Pow2[m] * Pow2[n]}
<1> SUFFICES ASSUME T # {} PROVE FALSE
  OBVIOUS
<1>2. PICK n \in T : \A j \in T : n <= j  BY LeastNat
<1>3. CASE n = 0
  <2>1. m + n = m /\ Pow2[m] * 1 = Pow2[m]  BY <1>3, PowNat
  <2> QED  BY <1>2, <1>3, <2>1, PowZero
<1>4. CASE n # 0
  <2>1. n - 1 \in Nat /\ n - 1 \notin T /\ (n - 1) + 1 = n /\ m + n = (m + (n - 1)) + 1
        /\ m + (n - 1) \in Nat
    BY <1>2, <1>4
  <2>2. Pow2[m + n] = 2 * Pow2[m + (n - 1)] /\ Pow2[n] = 2 * Pow2[n - 1]
    BY <2>1, PowNext
  <2>3. Pow2[m + (n - 1)] = Pow2[m] * Pow2[n - 1]  BY <2>1
  <2>4. \A x, y \in Nat : 2 * (x * y) = x * (2 * y)  OBVIOUS
  <2> QED  BY <1>2, <2>1, <2>2, <2>3, <2>4, PowNat
<1> QED  BY <1>3, <1>4

(***************************************************************************)
(* The size of a word: W = 2^XLEN, and the widths divide one another.      *)
(***************************************************************************)
LEMMA WidthFacts ==
  /\ XLEN \in Nat /\ XLEN >= 8 /\ XLEN % 8 = 0
  /\ Half \in Nat /\ Half >= 4 /\ XLEN = 2 * Half
  /\ \E c \in Nat \ {0} : H = XLEN * c
<1>1. PICK k \in 3 .. XLEN : XLEN = Pow2[k]  BY WordAssumption
<1>2. XLEN \in Nat /\ XLEN >= 8  BY WordAssumption
<1> DEFINE j == k - 3
<1>3. j \in Nat /\ k = j + 3 /\ Pow2[j] \in Nat \ {0} /\ Pow2[j] > j
  BY <1>1, <1>2, PowNat
<1> HIDE DEF j
<1>4. XLEN = 8 * Pow2[j]
  <2>1. Pow2[(j + 1) + 1] = 2 * Pow2[j + 1] /\ Pow2[j + 1] = 2 * Pow2[j]
        /\ Pow2[((j + 1) + 1) + 1] = 2 * Pow2[(j + 1) + 1]
    BY <1>3, PowNext
  <2>2. ((j + 1) + 1) + 1 = k  BY <1>3
  <2> QED  BY <1>1, <1>3, <2>1, <2>2
<1>5. XLEN % 8 = 0 /\ Half = 4 * Pow2[j]
  <2>1. \A q \in Nat : (8 * q) % 8 = 0 /\ (8 * q) \div 2 = 4 * q  OBVIOUS
  <2> QED  BY <1>3, <1>4, <2>1 DEF Half
<1>6. Half \in Nat /\ Half >= 4 /\ XLEN = 2 * Half /\ Half >= k
  BY <1>3, <1>4, <1>5
<1> DEFINE c == Pow2[Half - k]
<1>7. H = XLEN * c /\ c \in Nat \ {0}
  <2>1. Half - k \in Nat /\ k + (Half - k) = Half /\ k \in Nat  BY <1>1, <1>6
  <2>2. Pow2[k + (Half - k)] = Pow2[k] * Pow2[Half - k]  BY <2>1, PowAdd
  <2>3. H = Pow2[Half]  BY WordAssumption DEF Half
  <2> QED  BY <1>1, <2>1, <2>2, <2>3, PowNat
<1> QED  BY <1>2, <1>5, <1>6, <1>7

LEMMA WordSize ==
  /\ H = Pow2[Half] /\ W = Pow2[XLEN]
  /\ H \in Nat /\ H >= 8 /\ H % 4 = 0 /\ H % 2 = 0
  /\ W \in Nat /\ W >= 2 * XLEN /\ W >= 8 * H /\ W % 2 = 0
<1>1. H = Pow2[Half]  BY WordAssumption DEF Half
<1>2. W = Pow2[XLEN]
  <2>1. Half \in Nat /\ XLEN = Half + Half  BY WidthFacts
  <2> QED  BY <1>1, <2>1, PowAdd DEF W
<1>3. PICK c \in Nat \ {0} : H = XLEN * c  BY WidthFacts
<1>4. H \in Nat /\ H >= 8
  <2>1. XLEN * c >= XLEN  BY WidthFacts, TimesAtLeast
  <2> QED  BY <1>3, <2>1, WidthFacts
<1>5. H % 4 = 0 /\ H % 2 = 0
  <2>1. H = 4 * ((Half \div 2) * c) + 0
    <3>1. Half = 2 * (Half \div 2) /\ Half \div 2 \in Nat
      <4>1. Half \in Nat /\ (2 * Half) % 8 = 0  BY WidthFacts
      <4> QED  BY <4>1
    <3>2. XLEN = 4 * (Half \div 2)  BY <3>1, WidthFacts
    <3>3. \A x \in Nat : (4 * x) * c = 4 * (x * c) + 0  OBVIOUS
    <3> QED  BY <1>3, <3>1, <3>2, <3>3
  <2>2. (Half \div 2) * c \in Nat  BY WidthFacts
  <2> DEFINE q == (Half \div 2) * c
  <2> HIDE DEF q
  <2>3. H = 4 * q + 0 /\ q \in Nat  BY <2>1, <2>2 DEF q
  <2>4. (4 * q + 0) % 4 = 0  BY <2>3, Digits
  <2>5. (2 * (2 * q) + 0) % 2 = 0 /\ 4 * q + 0 = 2 * (2 * q) + 0  BY <2>3, Digits
  <2> QED  BY <2>3, <2>4, <2>5
<1>6. W \in Nat /\ W >= 8 * H
  <2>1. H * 8 <= H * H  BY <1>4, TimesMonotone
  <2>2. H * H \in Nat  BY <1>4
  <2> QED  BY <1>4, <2>1, <2>2 DEF W
<1>7. W >= 2 * XLEN /\ W % 2 = 0
  <2>1. XLEN - 1 \in Nat /\ (XLEN - 1) + 1 = XLEN  BY WidthFacts
  <2>2. Pow2[XLEN] = 2 * Pow2[XLEN - 1] /\ Pow2[XLEN - 1] \in Nat /\ Pow2[XLEN - 1] > XLEN - 1
    BY <2>1, PowNat, PowNext
  <2>3. (2 * Pow2[XLEN - 1] + 0) % 2 = 0  BY <2>2, Digits
  <2> QED  BY <1>2, <2>1, <2>2, <2>3, WidthFacts
<1> QED  BY <1>1, <1>2, <1>4, <1>5, <1>6, <1>7

(***************************************************************************)
(* The bits of a number.                                                   *)
(***************************************************************************)
Bit(x, i) == (x \div Pow2[i]) % 2

LEMMA BitIs01 == ASSUME NEW x \in Int, NEW i \in Nat PROVE Bit(x, i) \in {0, 1}
<1>1. Pow2[i] \in Nat \ {0}  BY PowNat
<1>2. x \div Pow2[i] \in Int  BY <1>1
<1> QED  BY <1>2 DEF Bit

LEMMA PowBelow ==
  ASSUME NEW i \in Nat, NEW j \in Nat
  PROVE  /\ Pow2[i + (j + 1)] = Pow2[i] * Pow2[j + 1] /\ Pow2[j + 1] = 2 * Pow2[j]
         /\ Pow2[j] \in Nat \ {0} /\ Pow2[j + 1] \in Nat \ {0}
<1>1. j + 1 \in Nat  OBVIOUS
<1> QED  BY <1>1, PowAdd, PowNext, PowNat

(* The remainder by 2^k has the low k bits, ... *)
LEMMA BitMod ==
  ASSUME NEW x \in Int, NEW k \in Nat, NEW i \in Nat
  PROVE  Bit(x % Pow2[k], i) = IF i < k THEN Bit(x, i) ELSE 0
<1>1. Pow2[i] \in Nat \ {0} /\ Pow2[k] \in Nat \ {0}  BY PowNat
<1>2. CASE i < k
  <2> DEFINE j == k - i - 1
  <2>1. j \in Nat /\ k = i + (j + 1)  BY <1>2
  <2> HIDE DEF j
  <2>2. Pow2[k] = Pow2[i] * Pow2[j + 1] /\ Pow2[j + 1] = 2 * Pow2[j]
        /\ Pow2[j] \in Nat \ {0} /\ Pow2[j + 1] \in Nat \ {0}
    BY <2>1, PowBelow
  <2>3. (x % (Pow2[i] * Pow2[j + 1])) \div Pow2[i] = (x \div Pow2[i]) % Pow2[j + 1]
    BY <1>1, <2>2, DivTwice
  <2>4. x \div Pow2[i] \in Int /\ 2 \in Nat \ {0}  BY <1>1
  <2>5. ((x \div Pow2[i]) % (2 * Pow2[j])) % 2 = (x \div Pow2[i]) % 2
    BY ONLY <2>2, <2>4, DivTwice
  <2> QED  BY <1>2, <2>2, <2>3, <2>5 DEF Bit
<1>3. CASE ~(i < k)
  <2>1. i - k \in Nat /\ i = k + (i - k)  BY <1>3
  <2>2. Pow2[i] = Pow2[k] * Pow2[i - k] /\ Pow2[i - k] \in Nat \ {0}
    BY <2>1, PowAdd, PowNat
  <2>3. Pow2[i] >= Pow2[k]  BY <1>1, <2>2, TimesAtLeast
  <2>4. x % Pow2[k] \in 0 .. (Pow2[k] - 1)  BY <1>1
  <2>5. x % Pow2[k] \in 0 .. (Pow2[i] - 1)  BY <1>1, <2>3, <2>4
  <2>6. (x % Pow2[k]) \div Pow2[i] = 0  BY <1>1, <2>5, ModSmall
  <2> QED  BY <1>3, <2>6 DEF Bit
<1> QED  BY <1>2, <1>3

(* ... the quotient by 2^k the bits from k on, ... *)
LEMMA BitDiv ==
  ASSUME NEW x \in Int, NEW k \in Nat, NEW i \in Nat
  PROVE  Bit(x \div Pow2[k], i) = Bit(x, i + k)
<1>1. Pow2[i] \in Nat \ {0} /\ Pow2[k] \in Nat \ {0} /\ Pow2[i + k] = Pow2[k] * Pow2[i]
  <2>1. k + i = i + k  OBVIOUS
  <2> QED  BY <2>1, PowNat, PowAdd
<1>2. x \div (Pow2[k] * Pow2[i]) = (x \div Pow2[k]) \div Pow2[i]
  BY <1>1, DivTwice
<1> QED  BY <1>1, <1>2 DEF Bit

(* ... and the product with 2^k the bits, k positions up. *)
LEMMA BitMul ==
  ASSUME NEW x \in Int, NEW k \in Nat, NEW i \in Nat
  PROVE  Bit(x * Pow2[k], i) = IF i < k THEN 0 ELSE Bit(x, i - k)
<1>1. Pow2[i] \in Nat \ {0} /\ Pow2[k] \in Nat \ {0}  BY PowNat
<1>2. CASE i < k
  <2> DEFINE j == k - i - 1
  <2>1. j \in Nat /\ k = i + (j + 1)  BY <1>2
  <2> HIDE DEF j
  <2>2. Pow2[k] = Pow2[i] * Pow2[j + 1] /\ Pow2[j + 1] = 2 * Pow2[j]
        /\ Pow2[j] \in Nat \ {0} /\ Pow2[j + 1] \in Nat \ {0}
    BY <2>1, PowBelow
  <2> DEFINE q == x * Pow2[j]
  <2>3. q \in Int /\ x * Pow2[k] = Pow2[i] * (2 * q + 0) + 0
    <3>1. \A p, r \in Nat : x * (p * (2 * r)) = p * (2 * (x * r) + 0) + 0  OBVIOUS
    <3> QED  BY <1>1, <2>2, <3>1
  <2> HIDE DEF q
  <2>4. (2 * q + 0) \in Int  BY <2>3
  <2>5. (Pow2[i] * (2 * q + 0) + 0) \div Pow2[i] = 2 * q + 0
    BY <1>1, <2>4, Digits
  <2>6. (2 * q + 0) % 2 = 0  BY <2>3, Digits
  <2> QED  BY <1>2, <2>3, <2>5, <2>6 DEF Bit
<1>3. CASE ~(i < k)
  <2>1. i - k \in Nat /\ i = k + (i - k)  BY <1>3
  <2>2. Pow2[i] = Pow2[k] * Pow2[i - k] /\ Pow2[i - k] \in Nat \ {0}
    BY <2>1, PowAdd, PowNat
  <2>3. x * Pow2[k] \in Int /\ x * Pow2[k] = Pow2[k] * x + 0  BY <1>1
  <2> DEFINE y == x * Pow2[k]
  <2> HIDE DEF y
  <2>4. y \div (Pow2[k] * Pow2[i - k]) = (y \div Pow2[k]) \div Pow2[i - k]
    BY <1>1, <2>2, <2>3, DivTwice DEF y
  <2>5. (Pow2[k] * x + 0) \div Pow2[k] = x  BY <1>1, Digits
  <2> QED  BY <1>3, <2>2, <2>3, <2>4, <2>5 DEF Bit, y
<1> QED  BY <1>2, <1>3

(* One bit more of the remainder. *)
LEMMA ModNext ==
  ASSUME NEW x \in Int, NEW n \in Nat
  PROVE  x % Pow2[n + 1] = Pow2[n] * Bit(x, n) + (x % Pow2[n])
<1>1. Pow2[n] \in Nat \ {0} /\ Pow2[n + 1] = Pow2[n] * 2
  <2>1. Pow2[n + 1] = 2 * Pow2[n] /\ Pow2[n] \in Nat \ {0}  BY PowNat, PowNext
  <2> QED  BY <2>1
<1> DEFINE y == x % (Pow2[n] * 2)
<1>2. y \in Int
  <2>1. Pow2[n] * 2 \in Nat \ {0}  BY <1>1
  <2> QED  BY <2>1
<1>3. y \div Pow2[n] = (x \div Pow2[n]) % 2 /\ y % Pow2[n] = x % Pow2[n]
  <2>1. 2 \in Nat \ {0}  OBVIOUS
  <2> QED  BY ONLY <1>1, <2>1, x \in Int, DivTwice
<1> HIDE DEF y
<1>4. y = Pow2[n] * (y \div Pow2[n]) + (y % Pow2[n])  BY <1>1, <1>2
<1> QED  BY <1>1, <1>3, <1>4 DEF y, Bit

LEMMA SameBitsMod ==
  ASSUME NEW x \in Int, NEW y \in Int, NEW n \in Nat,
         \A i \in 0 .. (n - 1) : Bit(x, i) = Bit(y, i)
  PROVE  x % Pow2[n] = y % Pow2[n]
<1> DEFINE T == {k \in Nat : k <= n /\ x % Pow2[k] # y % Pow2[k]}
<1> SUFFICES ASSUME T # {} PROVE FALSE
  OBVIOUS
<1>1. PICK k \in T : \A j \in T : k <= j  BY LeastNat
<1>2. CASE k = 0
  <2>1. x % 1 = 0 /\ y % 1 = 0  OBVIOUS
  <2> QED  BY <1>1, <1>2, <2>1, PowZero
<1>3. CASE k # 0
  <2>1. k - 1 \in Nat /\ k - 1 \notin T /\ (k - 1) + 1 = k /\ k - 1 \in 0 .. (n - 1)
    BY <1>1, <1>3
  <2>2. x % Pow2[k - 1] = y % Pow2[k - 1]  BY <1>1, <2>1
  <2>3. Bit(x, k - 1) = Bit(y, k - 1)  BY <2>1
  <2> QED  BY <1>1, <2>1, <2>2, <2>3, ModNext
<1> QED  BY <1>2, <1>3

(* Every set of positions is a word's bits, and only one word's. *)
LEMMA BitsOfWord == ASSUME NEW w \in Word PROVE Bits(w) = {i \in BitPos : Bit(w, i) = 1}
  BY DEF Bits, BitsOf, Bit

LEMMA BitsUnique ==
  ASSUME NEW w \in Word, NEW x \in Word, Bits(w) = Bits(x)
  PROVE  w = x
<1>1. w \in Nat /\ x \in Nat /\ W \in Nat \ {0} /\ w < W /\ x < W  BY WordSize DEF Word
<1>2. ASSUME NEW i \in 0 .. (XLEN - 1) PROVE Bit(w, i) = Bit(x, i)
  <2>1. Bit(w, i) \in {0, 1} /\ Bit(x, i) \in {0, 1}  BY <1>1, BitIs01
  <2>2. Bit(w, i) = 1 <=> Bit(x, i) = 1  BY BitsOfWord DEF BitPos
  <2> QED  BY <2>1, <2>2
<1>3. w % W = x % W  BY <1>1, <1>2, SameBitsMod, WidthFacts, WordSize
<1>4. w % W = w /\ x % W = x  BY <1>1, ModSmall
<1> QED  BY <1>3, <1>4

LEMMA BitsExist ==
  ASSUME NEW S \in SUBSET BitPos
  PROVE  \E w \in Word : Bits(w) = S
<1> DEFINE Has(n) == \E w \in 0 .. (Pow2[n] - 1) :
             \A i \in 0 .. (n - 1) : Bit(w, i) = 1 <=> i \in S
           T == {n \in Nat : ~Has(n)}
<1>1. T = {}
  <2> SUFFICES ASSUME T # {} PROVE FALSE
    OBVIOUS
  <2>1. PICK n \in T : \A j \in T : n <= j  BY LeastNat
  <2>2. n # 0
    <3> SUFFICES ASSUME n = 0 PROVE FALSE  OBVIOUS
    <3>1. 0 \in 0 .. (Pow2[0] - 1)  BY PowZero
    <3>2. Has(0)  BY <3>1
    <3> QED  BY <2>1, <3>2
  <2> DEFINE m == n - 1
  <2>3. m \in Nat /\ n = m + 1 /\ Has(m)  BY <2>1, <2>2
  <2>4. PICK w \in 0 .. (Pow2[m] - 1) :
          \A i \in 0 .. (m - 1) : Bit(w, i) = 1 <=> i \in S
    BY <2>3
  <2> HIDE DEF m
  <2> DEFINE d == IF m \in S THEN 1 ELSE 0
             x == Pow2[m] * d + w
  <2>5. Pow2[m] \in Nat \ {0} /\ Pow2[n] = 2 * Pow2[m]  BY <2>3, PowNat, PowNext
  <2>6. x \in 0 .. (Pow2[n] - 1)
    <3>1. d = 0 \/ d = 1  OBVIOUS
    <3> QED  BY <3>1, <2>5
  <2>7. x \div Pow2[m] = d /\ x % Pow2[m] = w
    <3>1. d \in Int  OBVIOUS
    <3> HIDE DEF d
    <3> QED  BY <2>5, <3>1, Digits
  <2>8. Bit(x, m) = d
    <3>1. d % 2 = d  OBVIOUS
    <3> QED  BY <2>7, <3>1 DEF Bit
  <2>9. x \in Int  BY <2>6
  <2> HIDE DEF x
  <2>10. ASSUME NEW i \in 0 .. (m - 1) PROVE Bit(x, i) = 1 <=> i \in S
    <3>1. i \in Nat /\ i < m  BY <2>3
    <3>2. Bit(x, i) = Bit(x % Pow2[m], i)  BY <2>3, <2>9, <3>1, BitMod
    <3> QED  BY <2>4, <2>7, <3>2
  <2>11. ASSUME NEW i \in 0 .. (n - 1) PROVE Bit(x, i) = 1 <=> i \in S
    <3>1. i = m \/ i \in 0 .. (m - 1)  BY <2>3
    <3> QED  BY <2>8, <2>10, <3>1
  <2>12. Has(n)  BY <2>6, <2>11
  <2> QED  BY <2>1, <2>12
<1>2. Has(XLEN)  BY <1>1, WidthFacts
<1>3. PICK w \in 0 .. (Pow2[XLEN] - 1) :
        \A i \in 0 .. (XLEN - 1) : Bit(w, i) = 1 <=> i \in S
  BY <1>2
<1>4. w \in Word  BY WordSize DEF Word
<1> QED  BY <1>3, <1>4, BitsOfWord DEF BitPos

LEMMA BitsFromBits == ASSUME NEW S \in SUBSET BitPos PROVE Bits(FromBits(S)) = S
  BY BitsExist DEF Bits, FromBits, WordOf

LEMMA FromBitsBits == ASSUME NEW w \in Word PROVE FromBits(Bits(w)) = w
<1>1. Bits(w) \in SUBSET BitPos  BY DEF Bits, BitsOf
<1>2. FromBits(Bits(w)) \in Word
  BY <1>1, BitsExist DEF FromBits, WordOf, Bits
<1> QED  BY <1>1, <1>2, BitsFromBits, BitsUnique

LEMMA ZeroBits == 0 \in Word /\ Bits(0) = {}
<1>1. 0 \in Word  BY WordSize DEF Word
<1>2. ASSUME NEW i \in Nat PROVE Bit(0, i) = 0
  <2>1. Pow2[i] \in Nat \ {0}  BY PowNat
  <2>2. 0 \div Pow2[i] = 0  BY <2>1, ModSmall
  <2> QED  BY <2>2 DEF Bit
<1> QED  BY <1>1, <1>2, BitsOfWord DEF BitPos

(* The number of words is positive, and so is the number of half words. *)
LEMMA WPositive == W \in Nat /\ W > 0 /\ H \in Nat /\ H > 0 /\ H <= W
  BY WordSize

(* Integer division and remainder by a positive number are integers. *)
LEMMA DivInt == \A a \in Int, b \in Nat \ {0} : a \div b \in Int /\ a % b \in 0 .. (b - 1)
  OBVIOUS

(* A quotient of naturals is no larger than the dividend. *)
LEMMA DivBound == \A a \in Nat, b \in Nat \ {0} : a \div b \in 0 .. a
  OBVIOUS

(* Truncation yields a word: Trunc is the wrap-around of a wire. *)
LEMMA TruncWord == \A x \in Int : Trunc(x) \in Word
  <1>1. TAKE x \in Int
  <1>2. W \in Nat \ {0}
    BY WPositive
  <1>. QED
    BY <1>2, DivInt DEF Trunc, Word

(* Every set of bit positions is a word. *)
LEMMA FromBitsWord == \A S \in SUBSET BitPos : FromBits(S) \in Word
  BY BitsExist DEF FromBits, WordOf, Bits

(* Sums and differences wrap around to words. *)
LEMMA AddWord == \A a, b \in Int : Add(a, b) \in Word /\ Sub(a, b) \in Word
  BY TruncWord DEF Add, Sub

(* The signed readings of a word and of its low half are integers. *)
LEMMA SignedInt == \A w \in Word : Signed(w) \in Int /\ SignedLo(w) \in Int
  <1>1. TAKE w \in Word
  <1>2. w \in Int /\ W \in Int /\ w % H \in Int /\ H \in Int
    BY WPositive, DivInt DEF Word
  <1>. QED
    BY <1>2 DEF Signed, SignedLo

(* Sign extension of the low half yields a word. *)
LEMMA Sext32Word == \A w \in Word : Sext32(w) \in Word
  BY SignedInt, TruncWord DEF Sext32

(* The bits of a word are bit positions. *)
LEMMA BitsPos == \A w \in Word : Bits(w) \subseteq BitPos
  BY DEF Bits, BitsOf

(* The bitwise operators, the shifts and the extension yield words. *)
LEMMA BitwiseWord ==
  \A a, b \in Word : /\ And(a, b) \in Word /\ Xor(a, b) \in Word
                      /\ Or(a, b) \in Word /\ AndNot(a, b) \in Word
  BY BitsPos, FromBitsWord DEF And, Or, Xor, AndNot

LEMMA ShiftWord ==
  \A a, k : Shl(a, k) \in Word /\ Shr(a, k) \in Word
  BY FromBitsWord DEF Shl, Shr

LEMMA ExtendWord == \A a, n, signed : Extend(a, n, signed) \in Word
  BY FromBitsWord DEF Extend

(* Alu.scala: the result of every operation is a word. *)
LEMMA AluWord == \A op : \A rs, rt \in Word : Alu(op, rs, rt) \in Word
  <1>. SUFFICES ASSUME NEW op, NEW rs \in Word, NEW rt \in Word
                PROVE  Alu(op, rs, rt) \in Word
    OBVIOUS
  <1>1. rs \in Int /\ rt \in Int /\ 0 \in Word /\ 1 \in Word
    BY WordSize DEF Word
  <1>2. Add(rs, rt) \in Word /\ Sub(rs, rt) \in Word
    BY <1>1, AddWord
  <1>. QED
    BY <1>1, <1>2, BitwiseWord, ShiftWord, ExtendWord, Sext32Word DEF Alu

(* The low half of a word is a word. *)
LEMMA LowWord == ASSUME NEW w \in Word PROVE w % H \in Word /\ w % H \in 0 .. (H - 1)
  <1>1. w \in Nat /\ H \in Nat \ {0} /\ H <= W /\ W \in Nat
    BY WPositive DEF Word
  <1>2. w % H \in 0 .. (H - 1)
    BY <1>1
  <1>. QED
    BY <1>1, <1>2 DEF Word

(* Quotients and remainders of signed operands are integers. *)
LEMMA QuotInt ==
  ASSUME NEW a \in Int, NEW b \in Int, b # 0
  PROVE  Quot(a, b) \in Int /\ Rem(a, b) \in Int
  <1>. DEFINE x == IF a < 0 THEN -a ELSE a
              y == IF b < 0 THEN -b ELSE b
  <1>1. x \in Int /\ y \in Nat \ {0}
    OBVIOUS
  <1>. HIDE DEF x, y
  <1>2. x \div y \in Int
    BY <1>1
  <1>3. Quot(a, b) \in Int
    BY <1>2 DEF Quot, x, y
  <1>. QED
    BY <1>3 DEF Rem

(* A quotient and a remainder of words by a word other than zero are words. *)
LEMMA DivWord ==
  ASSUME NEW a \in Word, NEW b \in Word, b # 0
  PROVE  a \div b \in Word /\ a % b \in Word
  <1>1. a \in Nat /\ b \in Nat \ {0} /\ W \in Nat /\ a < W /\ b < W
    BY WPositive DEF Word
  <1>2. a \div b \in 0 .. a /\ a % b \in 0 .. (b - 1)
    BY <1>1
  <1>. QED
    BY <1>1, <1>2 DEF Word

(* Mdu.scala: the result of every operation is a word. *)
LEMMA MduWord == \A op : \A rs, rt \in Word : Mdu(op, rs, rt) \in Word
  <1>. SUFFICES ASSUME NEW op, NEW rs \in Word, NEW rt \in Word
                PROVE  Mdu(op, rs, rt) \in Word
    OBVIOUS
  <1>. DEFINE s == Signed(rs)    t == Signed(rt)
              a == SignedLo(rs)  b == SignedLo(rt)
              u == rs % H        v == rt % H
  <1>1. /\ rs \in Nat /\ rt \in Nat /\ s \in Int /\ t \in Int
        /\ a \in Int /\ b \in Int /\ u \in Nat /\ v \in Nat
        /\ u \in Word /\ v \in Word
    <2>1. rs \in Nat /\ rt \in Nat
      BY WPositive DEF Word
    <2>2. u \in Word /\ v \in Word
      BY LowWord
    <2>. QED
      BY <2>1, <2>2, WPositive, SignedInt DEF Word
  <1>2. W - 1 \in Word
    BY WPositive DEF Word
  <1>3. rt # 0 => t # 0
    BY WPositive, <1>1 DEF Signed, Word
  <1>4. v # 0 => b # 0
    BY WPositive, <1>1 DEF SignedLo
  <1>5. /\ Trunc(rs * rt) \in Word
        /\ Trunc((s * t) \div W) \in Word
        /\ Trunc((s * rt) \div W) \in Word
        /\ Trunc((rs * rt) \div W) \in Word
    <2>1. rs * rt \in Int /\ s * t \in Int /\ s * rt \in Int
      BY <1>1
    <2>. QED
      BY <2>1, WPositive, DivInt, TruncWord
  <1>6. rt # 0 => /\ Trunc(Quot(s, t)) \in Word /\ Trunc(Rem(s, t)) \in Word
                  /\ rs \div rt \in Word /\ rs % rt \in Word
    <2>. SUFFICES ASSUME rt # 0
                  PROVE  /\ Trunc(Quot(s, t)) \in Word /\ Trunc(Rem(s, t)) \in Word
                         /\ rs \div rt \in Word /\ rs % rt \in Word
      OBVIOUS
    <2>1. Quot(s, t) \in Int /\ Rem(s, t) \in Int
      BY <1>1, <1>3, QuotInt
    <2>2. rs \div rt \in Word /\ rs % rt \in Word
      BY <1>1, DivWord
    <2>. QED
      BY <2>1, <2>2, TruncWord
  <1>7. v # 0 => /\ Trunc(Quot(a, b)) \in Word /\ Trunc(Rem(a, b)) \in Word
                  /\ u \div v \in Word /\ u % v \in Word
    <2>. SUFFICES ASSUME v # 0
                  PROVE  /\ Trunc(Quot(a, b)) \in Word /\ Trunc(Rem(a, b)) \in Word
                         /\ u \div v \in Word /\ u % v \in Word
      OBVIOUS
    <2>1. Quot(a, b) \in Int /\ Rem(a, b) \in Int
      BY <1>1, <1>4, QuotInt
    <2>2. u \div v \in Word /\ u % v \in Word
      BY <1>1, DivWord
    <2>. QED
      BY <2>1, <2>2, TruncWord
  <1>8. 0 \in Word
    BY WPositive DEF Word
  <1>. HIDE DEF s, t, a, b, u, v
  <1>. QED
    BY <1>1, <1>2, <1>5, <1>6, <1>7, <1>8, Sext32Word DEF Mdu, s, t, a, b, u, v

(***************************************************************************)
(* The operations on bits as arithmetic.                                   *)
(***************************************************************************)
LEMMA ShlIsProduct ==
  ASSUME NEW a \in Word, NEW k \in Nat
  PROVE  Shl(a, k) = Trunc(a * Pow2[k])
<1> DEFINE S == {i \in BitPos : i - k \in Bits(a)}
           y == a * Pow2[k]
<1>1. a \in Int /\ XLEN \in Nat /\ W = Pow2[XLEN]  BY WidthFacts, WordSize DEF Word
<1>2. y \in Int
  <2>1. Pow2[k] \in Int  BY PowNat
  <2> QED  BY <1>1, <2>1
<1>3. Trunc(y) \in Word  BY <1>2, TruncWord
<1>4. FromBits(S) \in Word /\ Bits(FromBits(S)) = S  BY FromBitsWord, BitsFromBits
<1>5. ASSUME NEW i \in BitPos PROVE Bit(Trunc(y), i) = 1 <=> i \in S
  <2>1. i \in Nat /\ i < XLEN  BY <1>1 DEF BitPos
  <2> HIDE DEF y
  <2>2. Bit(y % Pow2[XLEN], i) = Bit(y, i)  BY <1>1, <1>2, <2>1, BitMod
  <2>3. Bit(y, i) = IF i < k THEN 0 ELSE Bit(a, i - k)  BY <1>1, <2>1, BitMul DEF y
  <2>4. i - k \in Bits(a) <=> i >= k /\ Bit(a, i - k) = 1
    BY <1>1, <2>1, BitsOfWord DEF BitPos
  <2> QED  BY <1>1, <2>1, <2>2, <2>3, <2>4 DEF Trunc
<1>6. Bits(Trunc(y)) = S  BY <1>3, <1>5, BitsOfWord
<1>7. FromBits(S) = Trunc(y)  BY <1>3, <1>4, <1>6, BitsUnique
<1> QED  BY <1>7 DEF Shl

LEMMA HighBit == ASSUME NEW a \in Word, NEW i \in Nat, i >= XLEN PROVE Bit(a, i) = 0
<1>1. a \in 0 .. (Pow2[XLEN] - 1) /\ Pow2[XLEN] \in Nat \ {0} /\ a \in Int /\ XLEN \in Nat
  BY WordSize, WidthFacts DEF Word
<1>2. a % Pow2[XLEN] = a  BY <1>1, ModSmall
<1>3. Bit(a % Pow2[XLEN], i) = 0  BY <1>1, BitMod
<1> QED  BY <1>2, <1>3

LEMMA ShrIsQuotient ==
  ASSUME NEW a \in Word, NEW k \in Nat
  PROVE  Shr(a, k) = a \div Pow2[k] /\ a \div Pow2[k] \in Word
<1> DEFINE S == {i \in BitPos : i + k \in Bits(a)}
           y == a \div Pow2[k]
<1>1. a \in Nat /\ XLEN \in Nat /\ W \in Nat /\ a < W  BY WidthFacts, WordSize DEF Word
<1>2. y \in Word
  <2>1. Pow2[k] \in Nat \ {0}  BY PowNat
  <2>2. y \in 0 .. a  BY <1>1, <2>1, DivBound
  <2> QED  BY <1>1, <2>2 DEF Word
<1>3. FromBits(S) \in Word /\ Bits(FromBits(S)) = S  BY FromBitsWord, BitsFromBits
<1>4. ASSUME NEW i \in BitPos PROVE Bit(y, i) = 1 <=> i \in S
  <2>1. i \in Nat /\ i < XLEN /\ i + k \in Nat /\ a \in Int  BY <1>1 DEF BitPos
  <2>2. Bit(y, i) = Bit(a, i + k)  BY <2>1, BitDiv
  <2>3. i + k \in Bits(a) <=> i + k < XLEN /\ Bit(a, i + k) = 1
    BY <1>1, <2>1, BitsOfWord DEF BitPos
  <2>4. i + k >= XLEN => Bit(a, i + k) = 0  BY <2>1, HighBit
  <2> HIDE DEF y
  <2> QED  BY <1>1, <2>1, <2>2, <2>3, <2>4
<1>5. Bits(y) = S  BY <1>2, <1>4, BitsOfWord
<1>6. FromBits(S) = y  BY <1>2, <1>3, <1>5, BitsUnique
<1> QED  BY <1>2, <1>6 DEF Shr

(* Extending the low n bits with their sign is reading them as signed.     *)
LEMMA ExtendIsSigned ==
  ASSUME NEW a \in Word, NEW n \in 1 .. XLEN, a < Pow2[n]
  PROVE  Extend(a, n, TRUE) = Trunc(IF a < Pow2[n - 1] THEN a ELSE a - Pow2[n])
<1> DEFINE S == {i \in BitPos : IF i < n THEN i \in Bits(a) ELSE TRUE /\ n - 1 \in Bits(a)}
           z == IF a < Pow2[n - 1] THEN a ELSE a - Pow2[n]
           m == n - 1
<1>1. a \in Nat /\ XLEN \in Nat /\ W = Pow2[XLEN] /\ n \in Nat /\ n <= XLEN
      /\ m \in Nat /\ n = m + 1 /\ a \in Int
  BY WidthFacts, WordSize DEF Word
<1>2. Pow2[m] \in Nat \ {0} /\ Pow2[n] = 2 * Pow2[m] /\ Pow2[n] \in Nat \ {0}
  BY <1>1, PowNat, PowNext
<1>3. z \in Int  BY <1>1, <1>2
<1>4. Trunc(z) \in Word  BY <1>3, TruncWord
<1>5. FromBits(S) \in Word /\ Bits(FromBits(S)) = S  BY FromBitsWord, BitsFromBits
<1>6. Bit(a, m) = IF a < Pow2[m] THEN 0 ELSE 1
  <2>1. CASE a < Pow2[m]
    <3>1. a \in 0 .. (Pow2[m] - 1)  BY <1>1, <1>2, <2>1
    <3>2. a \div Pow2[m] = 0  BY <1>2, <3>1, ModSmall
    <3> QED  BY <2>1, <3>2 DEF Bit
  <2>2. CASE ~(a < Pow2[m])
    <3> DEFINE r == a - Pow2[m]
    <3>1. r \in 0 .. (Pow2[m] - 1) /\ a = Pow2[m] * 1 + r  BY <1>1, <1>2, <2>2
    <3> HIDE DEF r
    <3>2. (Pow2[m] * 1 + r) \div Pow2[m] = 1  BY <1>2, <3>1, Digits
    <3> QED  BY <2>2, <3>1, <3>2 DEF Bit
  <2> QED  BY <2>1, <2>2
<1>7. z % Pow2[n] = a /\ z \div Pow2[n] = IF a < Pow2[m] THEN 0 ELSE -1
  <2>1. a % Pow2[n] = a /\ a \div Pow2[n] = 0
    <3>1. a \in 0 .. (Pow2[n] - 1)  BY <1>1, <1>2
    <3> QED  BY <1>2, <3>1, ModSmall
  <2>2. (a + Pow2[n] * (-1)) % Pow2[n] = a % Pow2[n]
        /\ (a + Pow2[n] * (-1)) \div Pow2[n] = (a \div Pow2[n]) + (-1)
    <3>1. -1 \in Int  OBVIOUS
    <3> QED  BY <1>1, <1>2, <3>1, ModShift
  <2>3. a + Pow2[n] * (-1) = a - Pow2[n]  BY <1>1, <1>2
  <2> QED  BY <2>1, <2>2, <2>3
<1>8. ASSUME NEW j \in Nat PROVE Bit(0, j) = 0 /\ Bit(-1, j) = 1
  <2>1. Pow2[j] \in Nat \ {0}  BY PowNat
  <2>2. 0 \div Pow2[j] = 0  BY <2>1, ModSmall
  <2>3. Pow2[j] - 1 \in 0 .. (Pow2[j] - 1) /\ Pow2[j] * (-1) + (Pow2[j] - 1) = -1  BY <2>1
  <2>4. (Pow2[j] * (-1) + (Pow2[j] - 1)) \div Pow2[j] = -1  BY <2>1, <2>3, Digits
  <2>5. (-1) % 2 = 1 /\ 0 % 2 = 0
    <3>1. \A u \in Int : u + 1 = 0 => u % 2 = 1  OBVIOUS
    <3>2. 0 % 2 = 0  OBVIOUS
    <3>3. -1 \in Int /\ -1 + 1 = 0  OBVIOUS
    <3> QED  BY ONLY <3>1, <3>2, <3>3
  <2> QED  BY <2>2, <2>3, <2>4, <2>5 DEF Bit
<1>9. ASSUME NEW i \in BitPos PROVE Bit(Trunc(z), i) = 1 <=> i \in S
  <2>1. i \in Nat /\ i < XLEN  BY <1>1 DEF BitPos
  <2>2. n - 1 \in Bits(a) <=> ~(a < Pow2[m])
    BY <1>1, <1>6, BitsOfWord DEF BitPos
  <2> HIDE DEF z
  <2>3. Bit(z % Pow2[XLEN], i) = Bit(z, i)  BY <1>1, <1>3, <2>1, BitMod
  <2>4. CASE i < n
    <3>1. Bit(z % Pow2[n], i) = Bit(z, i)  BY <1>1, <1>3, <2>1, <2>4, BitMod
    <3>2. i \in Bits(a) <=> Bit(a, i) = 1  BY BitsOfWord
    <3> QED  BY <1>1, <1>7, <2>3, <2>4, <3>1, <3>2 DEF Trunc
  <2>5. CASE ~(i < n)
    <3>1. i - n \in Nat /\ (i - n) + n = i  BY <1>1, <2>1, <2>5
    <3>2. Bit(z \div Pow2[n], i - n) = Bit(z, (i - n) + n)  BY <1>1, <1>3, <3>1, BitDiv
    <3>3. Bit(z, i) = IF a < Pow2[m] THEN 0 ELSE 1  BY <1>7, <1>8, <3>1, <3>2
    <3> QED  BY <1>1, <2>2, <2>3, <2>5, <3>3 DEF Trunc
  <2> QED  BY <2>4, <2>5
<1>10. Bits(Trunc(z)) = S  BY <1>4, <1>9, BitsOfWord
<1>11. FromBits(S) = Trunc(z)  BY <1>4, <1>5, <1>10, BitsUnique
<1> QED  BY <1>11 DEF Extend

(* An arithmetic shift right, of the low n bits: the signed quotient.      *)
LEMMA SraIsQuotient ==
  ASSUME NEW a \in Word, NEW n \in 1 .. XLEN, a < Pow2[n], NEW k \in 0 .. (n - 1)
  PROVE  Extend(Shr(a, k), n - k, TRUE)
           = Trunc((IF a < Pow2[n - 1] THEN a ELSE a - Pow2[n]) \div Pow2[k])
<1> DEFINE x == a \div Pow2[k]   j == n - k
<1>1. a \in Nat /\ n \in Nat /\ k \in Nat /\ j \in 1 .. XLEN /\ j \in Nat /\ XLEN \in Nat
      /\ n = k + j /\ j - 1 \in Nat /\ n - 1 = k + (j - 1)
  BY WidthFacts, WordSize DEF Word
<1> HIDE DEF j
<1>2. Shr(a, k) = x /\ x \in Word  BY <1>1, ShrIsQuotient
<1>3. /\ Pow2[k] \in Nat \ {0} /\ Pow2[j] \in Nat /\ Pow2[j - 1] \in Nat
      /\ Pow2[n] = Pow2[k] * Pow2[j] /\ Pow2[n - 1] = Pow2[k] * Pow2[j - 1]
  BY <1>1, PowAdd, PowNat
<1>4. (x < Pow2[j] <=> a < Pow2[n]) /\ (x < Pow2[j - 1] <=> a < Pow2[n - 1])
  BY <1>1, <1>3, DivLess
<1>5. Extend(x, j, TRUE) = Trunc(IF x < Pow2[j - 1] THEN x ELSE x - Pow2[j])
  BY <1>1, <1>2, <1>4, ExtendIsSigned
<1>6. (a - Pow2[n]) \div Pow2[k] = x - Pow2[j]
  <2>1. -Pow2[j] \in Int /\ a \in Int  BY <1>1, <1>3
  <2>2. (a + Pow2[k] * (-Pow2[j])) \div Pow2[k] = x + (-Pow2[j])
    BY <1>3, <2>1, ModShift
  <2>3. a + Pow2[k] * (-Pow2[j]) = a - Pow2[n]  BY <1>1, <1>3
  <2>4. x \in Int  BY <1>2, WordSize DEF Word
  <2>5. x + (-Pow2[j]) = x - Pow2[j]  BY <1>3, <2>4
  <2> QED  BY <2>2, <2>3, <2>5
<1> QED  BY <1>2, <1>4, <1>5, <1>6 DEF j

(***************************************************************************)
(* Signed readings.                                                        *)
(***************************************************************************)
LEMMA WordRange ==
  /\ W \in Nat \ {0} /\ H \in Nat \ {0} /\ W >= 8 * H /\ H >= 8
  /\ W = 2 * (W \div 2) /\ H = 2 * (H \div 2) /\ W \div 2 \in Nat /\ H \div 2 \in Nat
  /\ \A w \in Word : w \in Nat /\ w < W
<1>1. \A x \in Nat : x % 2 = 0 => x = 2 * (x \div 2) /\ x \div 2 \in Nat  OBVIOUS
<1> QED  BY <1>1, WordSize DEF Word

LEMMA TruncOfWord == ASSUME NEW w \in Word PROVE Trunc(w) = w
  BY WordRange, ModSmall DEF Trunc, Word

(* The low half of a number truncated to a word is that of the number. *)
LEMMA LowOfTrunc == ASSUME NEW x \in Int PROVE Trunc(x) % H = x % H
  BY WordRange, DivTwice DEF Trunc, W

(* A signed reading is the word, modulo its size, ... *)
LEMMA SignedMod ==
  ASSUME NEW w \in Word
  PROVE  Signed(w) \in Int /\ Signed(w) % W = w /\ w % W = w
<1>1. w \in Int /\ W \in Nat \ {0} /\ w % W = w  BY WordRange, TruncOfWord DEF Trunc
<1>2. (w + W * (-1)) % W = w % W
  <2>1. -1 \in Int  OBVIOUS
  <2> QED  BY ONLY <1>1, <2>1, ModShift
<1>3. w + W * (-1) = w - W  BY <1>1
<1> QED  BY <1>1, <1>2, <1>3 DEF Signed

(* ... and that of the low half is the low half modulo its size.           *)
LEMMA SignedLoMod ==
  ASSUME NEW x \in Int
  PROVE  /\ SignedLo(x) \in Int /\ SignedLo(x) % H = x % H
         /\ -(H \div 2) <= SignedLo(x) /\ SignedLo(x) < H \div 2
<1> DEFINE h == x % H
<1>1. h \in 0 .. (H - 1) /\ H \in Nat \ {0} /\ H = 2 * (H \div 2) /\ H \div 2 \in Nat
  BY WordRange
<1> HIDE DEF h
<1>2. h % H = h  BY <1>1, ModSmall
<1>3. (h + H * (-1)) % H = h % H
  <2>1. -1 \in Int /\ h \in Int  BY <1>1
  <2> QED  BY <1>1, <2>1, ModShift
<1>4. h + H * (-1) = h - H  BY <1>1
<1> QED  BY <1>1, <1>2, <1>3, <1>4 DEF SignedLo, h

(* The sign extension of the low half is the signed low half as a word.    *)
LEMMA Int32Facts ==
  ASSUME NEW x \in Int
  PROVE  /\ Int32(x) \in Word /\ Int32(x) % H = x % H
         /\ Int32(x) = IF SignedLo(x) < 0 THEN SignedLo(x) + W ELSE SignedLo(x)
         /\ Signed(Int32(x)) = SignedLo(x)
<1> DEFINE s == SignedLo(x)
<1>1. /\ s \in Int /\ s % H = x % H /\ -(H \div 2) <= s /\ s < H \div 2
      /\ W \in Nat \ {0} /\ W >= 8 * H /\ H \in Nat \ {0} /\ H \div 2 \in Nat
      /\ W = 2 * (W \div 2) /\ H = 2 * (H \div 2) /\ W \div 2 \in Nat
  BY SignedLoMod, WordRange
<1> HIDE DEF s
<1>2. Trunc(s) \in Word /\ Trunc(s) % H = s % H  BY <1>1, TruncWord, LowOfTrunc
<1>3. Trunc(s) = IF s < 0 THEN s + W ELSE s
  <2>1. CASE s < 0
    <3>1. s + W \in 0 .. (W - 1)  BY <1>1, <2>1
    <3>2. (s + W) % W = s + W  BY <1>1, <3>1, ModSmall
    <3>3. (s + W * 1) % W = s % W
      <4>1. s \in Int /\ W \in Nat \ {0} /\ 1 \in Int  BY <1>1
      <4> QED  BY ONLY <4>1, ModShift
    <3>4. s + W * 1 = s + W  BY <1>1
    <3> QED  BY <2>1, <3>2, <3>3, <3>4 DEF Trunc
  <2>2. CASE ~(s < 0)
    <3>1. s \in 0 .. (W - 1)  BY <1>1, <2>2
    <3> QED  BY <1>1, <2>2, <3>1, ModSmall DEF Trunc
  <2> QED  BY <2>1, <2>2
<1>4. Signed(Trunc(s)) = s  BY <1>1, <1>3 DEF Signed
<1> QED  BY <1>1, <1>2, <1>3, <1>4 DEF Int32, s

(* What a 32-bit operation returns depends on the low half of its result.  *)
LEMMA Sext32Low ==
  ASSUME NEW x \in Int, NEW y \in Int, x % H = y % H
  PROVE  Sext32(x) = Int32(y)
  BY DEF Sext32, Int32, SignedLo

(* A shift amount is read from the low half.                               *)
LEMMA ShiftAmount == ASSUME NEW x \in Int PROVE Int32(x) % Half = x % Half
<1>1. PICK c \in Nat \ {0} : H = XLEN * c  BY WidthFacts
<1>2. Half \in Nat \ {0} /\ XLEN = 2 * Half /\ 2 * c \in Nat \ {0} /\ H = Half * (2 * c)
  <2>1. Half \in Nat \ {0} /\ XLEN = 2 * Half /\ 2 * c \in Nat \ {0}  BY WidthFacts
  <2>2. \A m \in Nat : (2 * m) * c = m * (2 * c)  OBVIOUS
  <2> QED  BY <1>1, <2>1, <2>2
<1>3. Int32(x) \in Int /\ Int32(x) % H = x % H  BY Int32Facts, WordRange
<1>4. (x % (Half * (2 * c))) % Half = x % Half
  BY ONLY <1>2, x \in Int, DivTwice
<1> DEFINE y == Int32(x)
<1> HIDE DEF y
<1>5. (y % (Half * (2 * c))) % Half = y % Half
  BY <1>2, <1>3, DivTwice DEF y
<1> QED  BY <1>2, <1>3, <1>4, <1>5 DEF y

(***************************************************************************)
(* Alu.scala computes alu_exec.                                            *)
(***************************************************************************)
AluNames == {"add", "sub", "sll", "slt", "sltu", "xor", "srl", "sra", "or", "and",
             "addw", "subw", "sllw", "srlw", "sraw"}
MduNames == {"mul", "mulh", "mulhsu", "mulhu", "div", "divu", "rem", "remu",
             "mulw", "divw", "divuw", "remw", "remuw"}
SameResult(op, hw, rs, rt) == hw = AluExec(rs, rt, AluOp[op], op \in Op32)

LEMMA SumsSame ==
  ASSUME NEW x \in Word, NEW y \in Word
  PROVE  /\ Trunc(Signed(x) + Signed(y)) = Add(x, y)
         /\ Trunc(Signed(x) - Signed(y)) = Sub(x, y)
         /\ Trunc(Signed(x) * Signed(y)) = Trunc(x * y)
<1>1. x \in Int /\ y \in Int /\ W \in Nat \ {0}  BY WordRange
<1>2. Signed(x) \in Int /\ Signed(y) \in Int /\ Signed(x) % W = x % W /\ Signed(y) % W = y % W
  BY SignedMod
<1> DEFINE s == Signed(x)   t == Signed(y)
<1> HIDE DEF s, t
<1>3. s \in Int /\ t \in Int /\ Congruent(s, x, W) /\ Congruent(t, y, W)
  BY <1>2 DEF s, t, Congruent
<1>4. Congruent(s + t, x + y, W) /\ Congruent(s - t, x - y, W) /\ Congruent(s * t, x * y, W)
  BY <1>1, <1>3, ModOps
<1> QED  BY <1>4 DEF Trunc, Add, Sub, s, t, Congruent

LEMMA LowSumsSame ==
  ASSUME NEW x \in Word, NEW y \in Word
  PROVE  /\ Sext32(Add(x, y)) = Int32(Trunc(SignedLo(x) + SignedLo(y)))
         /\ Sext32(Sub(x, y)) = Int32(Trunc(SignedLo(x) - SignedLo(y)))
         /\ Sext32(Trunc(x * y)) = Int32(Trunc(SignedLo(x) * SignedLo(y)))
<1> DEFINE s == SignedLo(x)   t == SignedLo(y)
<1>1. x \in Int /\ y \in Int /\ H \in Nat \ {0} /\ W \in Nat \ {0}  BY WordRange
<1>2. s \in Int /\ t \in Int /\ Congruent(s, x, H) /\ Congruent(t, y, H)
  BY <1>1, SignedLoMod DEF Congruent
<1> HIDE DEF s, t
<1>3. Congruent(s + t, x + y, H) /\ Congruent(s - t, x - y, H) /\ Congruent(s * t, x * y, H)
  BY <1>1, <1>2, ModOps
<1>4. ASSUME NEW u \in Int, NEW v \in Int, Congruent(v, u, H)
      PROVE  Sext32(Trunc(u)) = Int32(Trunc(v))
  <2>1. Trunc(u) \in Int /\ Trunc(v) \in Int  BY TruncWord, WordRange
  <2> QED  BY <1>4, <2>1, LowOfTrunc, Sext32Low DEF Congruent
<1>5. x + y \in Int /\ x - y \in Int /\ x * y \in Int /\ s + t \in Int /\ s - t \in Int /\ s * t \in Int
  BY <1>1, <1>2
<1> QED  BY <1>3, <1>4, <1>5 DEF Add, Sub, s, t

LEMMA ShiftsSame ==
  ASSUME NEW x \in Word, NEW k \in 0 .. (XLEN - 1)
  PROVE  /\ Shl(x, k) = Trunc(Signed(x) * Pow2[k])
         /\ Shr(x, k) = x \div Pow2[k]
         /\ Extend(Shr(x, k), XLEN - k, TRUE) = Trunc(Signed(x) \div Pow2[k])
<1>1. /\ k \in Nat /\ x \in Int /\ W \in Nat \ {0} /\ Pow2[k] \in Int
      /\ XLEN \in 1 .. XLEN /\ x < Pow2[XLEN] /\ W = Pow2[XLEN]
  BY WidthFacts, WordRange, WordSize, PowNat
<1>2. (x * Pow2[k]) % W = (Signed(x) * Pow2[k]) % W
  <2> DEFINE s == Signed(x)
  <2>1. s \in Int /\ Congruent(s, x, W) /\ Congruent(Pow2[k], Pow2[k], W)
    BY SignedMod DEF Congruent
  <2> HIDE DEF s
  <2>2. Congruent(s * Pow2[k], x * Pow2[k], W)  BY <1>1, <2>1, ModOps
  <2> QED  BY <2>2 DEF s, Congruent
<1>3. Signed(x) = IF x < Pow2[XLEN - 1] THEN x ELSE x - Pow2[XLEN]
  <2>1. XLEN - 1 \in Nat /\ (XLEN - 1) + 1 = XLEN  BY WidthFacts
  <2>2. Pow2[XLEN] = 2 * Pow2[XLEN - 1] /\ Pow2[XLEN - 1] \in Nat  BY <2>1, PowNat, PowNext
  <2>3. W \div 2 = Pow2[XLEN - 1]  BY <1>1, <2>2
  <2> QED  BY <1>1, <2>3 DEF Signed
<1>4. Shl(x, k) = Trunc(Signed(x) * Pow2[k])  BY <1>1, <1>2, ShlIsProduct DEF Trunc
<1>5. Extend(Shr(x, k), XLEN - k, TRUE) = Trunc(Signed(x) \div Pow2[k])
  BY <1>1, <1>3, SraIsQuotient
<1> QED  BY <1>1, <1>4, <1>5, ShrIsQuotient

LEMMA LowShiftsSame ==
  ASSUME NEW x \in Word, NEW k \in 0 .. (Half - 1)
  PROVE  /\ Sext32(Shl(x, k)) = Int32(Trunc(SignedLo(x) * Pow2[k]))
         /\ Sext32(Shr(x % H, k)) = Int32((Int32(x) % H) \div Pow2[k])
         /\ Sext32(Extend(Shr(x % H, k), Half - k, TRUE))
              = Int32(Trunc(SignedLo(x) \div Pow2[k]))
<1> DEFINE h == x % H
<1>1. /\ k \in Nat /\ x \in Int /\ W \in Nat \ {0} /\ H \in Nat \ {0} /\ Pow2[k] \in Int
      /\ Half \in 1 .. XLEN /\ H = Pow2[Half] /\ Pow2[k] \in Nat \ {0}
  BY WidthFacts, WordRange, WordSize, PowNat
<1>2. h \in Word /\ h \in 0 .. (H - 1) /\ h \in Int  BY <1>1, LowWord
<1>3. SignedLo(x) \in Int /\ SignedLo(x) % H = x % H  BY <1>1, SignedLoMod
<1>4. Sext32(Shl(x, k)) = Int32(Trunc(SignedLo(x) * Pow2[k]))
  <2>1. (x * Pow2[k]) % H = (SignedLo(x) * Pow2[k]) % H
    <3>1. Congruent(x, SignedLo(x), H) /\ Congruent(Pow2[k], Pow2[k], H)
      BY <1>3 DEF Congruent
    <3>2. Congruent(x * Pow2[k], SignedLo(x) * Pow2[k], H)  BY <1>1, <1>3, <3>1, ModOps
    <3> QED  BY <3>2 DEF Congruent
  <2>2. x * Pow2[k] \in Int /\ SignedLo(x) * Pow2[k] \in Int  BY <1>1, <1>3
  <2>3. Trunc(x * Pow2[k]) \in Int /\ Trunc(SignedLo(x) * Pow2[k]) \in Int
    BY <2>2, TruncWord, WordRange
  <2>4. Trunc(x * Pow2[k]) % H = Trunc(SignedLo(x) * Pow2[k]) % H
    BY <2>1, <2>2, LowOfTrunc
  <2> QED  BY <1>1, <2>3, <2>4, Sext32Low, ShlIsProduct
<1>5. Sext32(Shr(h, k)) = Int32((Int32(x) % H) \div Pow2[k])
  <2>1. Int32(x) % H = h  BY <1>1, Int32Facts
  <2>2. Shr(h, k) = h \div Pow2[k] /\ h \div Pow2[k] \in Word  BY <1>1, <1>2, ShrIsQuotient
  <2>3. h \div Pow2[k] \in Int  BY <2>2, WordRange
  <2> QED  BY <2>1, <2>2, <2>3, Sext32Low
<1>6. Sext32(Extend(Shr(h, k), Half - k, TRUE)) = Int32(Trunc(SignedLo(x) \div Pow2[k]))
  <2>1. SignedLo(x) = IF h < Pow2[Half - 1] THEN h ELSE h - Pow2[Half]
    <3>1. Half - 1 \in Nat /\ (Half - 1) + 1 = Half  BY WidthFacts
    <3>2. Pow2[Half] = 2 * Pow2[Half - 1] /\ Pow2[Half - 1] \in Nat  BY <3>1, PowNat, PowNext
    <3>3. H \div 2 = Pow2[Half - 1]  BY <1>1, <3>2
    <3> QED  BY <1>1, <3>3 DEF SignedLo
  <2>2. h < Pow2[Half]  BY <1>1, <1>2
  <2>3. Extend(Shr(h, k), Half - k, TRUE) = Trunc(SignedLo(x) \div Pow2[k])
    BY <1>1, <1>2, <2>1, <2>2, SraIsQuotient
  <2>4. Trunc(SignedLo(x) \div Pow2[k]) \in Int
    <3>1. SignedLo(x) \div Pow2[k] \in Int  BY <1>1, <1>3
    <3> QED  BY <3>1, TruncWord, WordRange
  <2> QED  BY <2>3, <2>4, Sext32Low
<1> QED  BY <1>4, <1>5, <1>6

LEMMA AluSame ==
  ASSUME NEW rs \in Word, NEW rt \in Word, NEW op \in AluNames
  PROVE  SameResult(op, Alu(op, rs, rt), rs, rt)
<1> DEFINE sh == rt % XLEN   sh32 == rt % Half
<1>1. sh \in 0 .. (XLEN - 1) /\ sh32 \in 0 .. (Half - 1) /\ rs \in Int /\ rt \in Int
      /\ Int32(rt) % Half = sh32
      /\ Signed(Int32(rs)) = SignedLo(rs) /\ Signed(Int32(rt)) = SignedLo(rt)
  <2>1. rs \in Int /\ rt \in Int /\ XLEN \in Nat \ {0} /\ Half \in Nat \ {0}
    BY WidthFacts, WordRange
  <2> QED  BY <2>1, Int32Facts, ShiftAmount
<1> HIDE DEF sh, sh32
<1> USE DEF SameResult
<1>2. CASE op = "add"
  BY <1>2, SumsSame DEF Alu, AluExec, AluOp, Op32
<1>3. CASE op = "sub"
  BY <1>3, SumsSame DEF Alu, AluExec, AluOp, Op32
<1>4. CASE op = "sll"
  BY <1>1, <1>4, ShiftsSame DEF Alu, AluExec, AluOp, Op32, sh
<1>5. CASE op = "slt"
  BY <1>5 DEF Alu, AluExec, AluOp, Op32
<1>6. CASE op = "sltu"
  BY <1>6 DEF Alu, AluExec, AluOp, Op32
<1>7. CASE op = "xor"
  BY <1>7 DEF Alu, AluExec, AluOp, Op32
<1>8. CASE op = "srl"
  BY <1>1, <1>8, ShiftsSame DEF Alu, AluExec, AluOp, Op32, sh
<1>9. CASE op = "sra"
  BY <1>1, <1>9, ShiftsSame DEF Alu, AluExec, AluOp, Op32, sh
<1>10. CASE op = "or"
  BY <1>10 DEF Alu, AluExec, AluOp, Op32
<1>11. CASE op = "and"
  BY <1>11 DEF Alu, AluExec, AluOp, Op32
<1>12. CASE op = "addw"
  BY <1>1, <1>12, LowSumsSame DEF Alu, AluExec, AluOp, Op32
<1>13. CASE op = "subw"
  BY <1>1, <1>13, LowSumsSame DEF Alu, AluExec, AluOp, Op32
<1>14. CASE op = "sllw"
  BY <1>1, <1>14, LowShiftsSame DEF Alu, AluExec, AluOp, Op32, sh32
<1>15. CASE op = "srlw"
  BY <1>1, <1>15, LowShiftsSame DEF Alu, AluExec, AluOp, Op32, sh32
<1>16. CASE op = "sraw"
  BY <1>1, <1>16, LowShiftsSame DEF Alu, AluExec, AluOp, Op32, sh32
<1> QED
  BY <1>2, <1>3, <1>4, <1>5, <1>6, <1>7, <1>8, <1>9, <1>10, <1>11, <1>12, <1>13,
     <1>14, <1>15, <1>16 DEF AluNames

(***************************************************************************)
(* Mdu.scala computes alu_exec.                                            *)
(***************************************************************************)
LEMMA QuotIsCDiv == \A a, b : Quot(a, b) = CDiv(a, b)
  BY DEF Quot, CDiv, Magnitude

(* The remainder of the hardware is the dividend less the product.         *)
LEMMA RemIsCMod ==
  ASSUME NEW a \in Int, NEW b \in Int, b # 0
  PROVE  Rem(a, b) = CMod(a, b)
<1> DEFINE u == Magnitude(a)   v == Magnitude(b)
<1>1. u \in Nat /\ v \in Nat \ {0}
      /\ (a < 0 => a = -u) /\ (~(a < 0) => a = u) /\ (b < 0 => b = -v) /\ (~(b < 0) => b = v)
  BY DEF Magnitude
<1>2. CDiv(a, b) = IF (a < 0) = (b < 0) THEN u \div v ELSE -(u \div v)
  BY DEF CDiv
<1>3. CMod(a, b) = IF a < 0 THEN -(u % v) ELSE u % v
  BY <1>1 DEF CMod
<1> HIDE DEF u, v
<1> DEFINE q == u \div v   r == u % v
<1>4. u = v * q + r /\ q \in Int /\ r \in Int  BY <1>1
<1> HIDE DEF q, r
<1>5. v * (-q) = -(v * q) /\ (-v) * q = -(v * q) /\ (-v) * (-q) = v * q /\ v * q \in Int
  BY <1>1, <1>4
<1>6. Rem(a, b) = a - b * CDiv(a, b)  BY QuotIsCDiv DEF Rem
<1>7. CASE (a < 0) /\ (b < 0)
  <2>1. CDiv(a, b) = q /\ CMod(a, b) = -r /\ a = -u /\ b = -v  BY <1>1, <1>2, <1>3, <1>7 DEF q, r
  <2> QED  BY <1>1, <1>4, <1>5, <1>6, <2>1
<1>8. CASE (a < 0) /\ ~(b < 0)
  <2>1. CDiv(a, b) = -q /\ CMod(a, b) = -r /\ a = -u /\ b = v  BY <1>1, <1>2, <1>3, <1>8 DEF q, r
  <2> QED  BY <1>1, <1>4, <1>5, <1>6, <2>1
<1>9. CASE ~(a < 0) /\ (b < 0)
  <2>1. CDiv(a, b) = -q /\ CMod(a, b) = r /\ a = u /\ b = -v  BY <1>1, <1>2, <1>3, <1>9 DEF q, r
  <2> QED  BY <1>1, <1>4, <1>5, <1>6, <2>1
<1>10. CASE ~(a < 0) /\ ~(b < 0)
  <2>1. CDiv(a, b) = q /\ CMod(a, b) = r /\ a = u /\ b = v  BY <1>1, <1>2, <1>3, <1>10 DEF q, r
  <2> QED  BY <1>1, <1>4, <1>5, <1>6, <2>1
<1> QED  BY <1>7, <1>8, <1>9, <1>10

(* The smallest word divided by -1: both wrap around.                      *)
LEMMA Overflow ==
  /\ LongMin \in Word /\ Signed(LongMin) = -(W \div 2) /\ Signed(W - 1) = -1
  /\ Trunc(Quot(Signed(LongMin), Signed(W - 1))) = LongMin
  /\ Trunc(Rem(Signed(LongMin), Signed(W - 1))) = 0
<1> DEFINE m == W \div 2
<1>1. W \in Nat \ {0} /\ W = 2 * m /\ m \in Nat \ {0}  BY WordRange
<1>2. LongMin = m /\ m \in Word /\ Signed(m) = -m /\ Signed(W - 1) = -1
  BY <1>1 DEF LongMin, Word, Signed
<1> HIDE DEF m
<1>3. Quot(-m, -1) = m
  <2>1. m \div 1 = m  BY <1>1
  <2>2. -m < 0 /\ -(-m) = m  BY <1>1
  <2>3. \A z \in Int : z + 1 = 0 => z < 0 /\ -z = 1  OBVIOUS
  <2>4. -1 \in Int /\ -1 + 1 = 0  OBVIOUS
  <2>5. -1 < 0 /\ -(-1) = 1  BY <2>3, <2>4
  <2> QED  BY <2>1, <2>2, <2>5 DEF Quot
<1>4. Rem(-m, -1) = 0
  <2>1. -m - (-1) * m = 0  BY <1>1
  <2> QED  BY <1>3, <2>1 DEF Rem
<1>5. Trunc(0) = 0  BY <1>1, ModSmall DEF Trunc
<1> QED  BY <1>2, <1>3, <1>4, <1>5, TruncOfWord DEF m

LEMMA HighProductWord ==
  ASSUME NEW x \in Word, NEW y \in Word
  PROVE  (x * y) \div W \in Word
<1>1. x \in Nat /\ y \in Nat /\ W \in Nat \ {0} /\ x < W /\ y <= W - 1  BY WordRange
<1>2. x * y <= x * W /\ W * x <= W * (W - 1)
  <2>1. x * y <= x * W  BY <1>1, TimesMonotone
  <2>2. W * x <= W * (W - 1)  BY <1>1, TimesMonotone
  <2> QED  BY <2>1, <2>2
<1>3. x * W = W * x /\ W * (W - 1) = W * W - W /\ W * W \in Int /\ x * y \in Nat /\ W * x \in Int
  BY <1>1
<1>4. x * y \in 0 .. (W * W - 1)  BY <1>1, <1>2, <1>3
<1> QED  BY <1>1, <1>4, TwoDigits DEF Word

LEMMA MduSame ==
  ASSUME NEW rs \in Word, NEW rt \in Word, NEW op \in MduNames
  PROVE  SameResult(op, Mdu(op, rs, rt), rs, rt)
<1> DEFINE s == Signed(rs)    t == Signed(rt)
           a == SignedLo(rs)  b == SignedLo(rt)
           u == rs % H        v == rt % H
           x == Int32(rs)     y == Int32(rt)
<1>1. /\ rs \in Int /\ rt \in Int /\ s \in Int /\ t \in Int /\ a \in Int /\ b \in Int
      /\ x \in Word /\ y \in Word /\ x % H = u /\ y % H = v
      /\ Signed(x) = a /\ Signed(y) = b /\ W - 1 \in Word /\ W - 1 \in Int
      /\ x \in Int /\ y \in Int /\ u \in Int /\ v \in Int
  <2>1. rs \in Int /\ rt \in Int /\ W - 1 \in Word /\ W - 1 \in Int  BY WordRange DEF Word
  <2>2. u \in Int /\ v \in Int  BY <2>1, WordRange
  <2>3. s \in Int /\ t \in Int /\ a \in Int /\ b \in Int  BY <2>1, SignedMod, SignedLoMod
  <2>4. /\ x \in Word /\ y \in Word /\ x % H = u /\ y % H = v /\ Signed(x) = a /\ Signed(y) = b
    BY <2>1, Int32Facts
  <2>5. x \in Int /\ y \in Int  BY <2>4, WordRange
  <2> HIDE DEF s, t, a, b, u, v, x, y
  <2> QED  BY <2>1, <2>2, <2>3, <2>4, <2>5
<1>2. (t = 0 <=> rt = 0)
  BY WordRange DEF Signed
<1>3. (b = 0 <=> v = 0) /\ (y = 0 <=> v = 0)
  <2>1. v \in 0 .. (H - 1) /\ H \in Nat \ {0}  BY <1>1, WordRange
  <2>2. b = 0 <=> v = 0
    <3>1. b = IF v < H \div 2 THEN v ELSE v - H  BY DEF SignedLo
    <3>2. H \div 2 \in Nat /\ H = 2 * (H \div 2)  BY WordRange
    <3> HIDE DEF b, v
    <3> QED  BY <2>1, <3>1, <3>2
  <2>3. y = IF b < 0 THEN b + W ELSE b  BY <1>1, Int32Facts
  <2>4. -(H \div 2) <= b /\ W >= 8 * H /\ H >= 2 * (H \div 2) /\ H \div 2 \in Nat /\ W \in Nat
    BY <1>1, SignedLoMod, WordRange
  <2> QED  BY <1>1, <2>1, <2>2, <2>3, <2>4
<1>4. x # LongMin
  <2>1. x = IF a < 0 THEN a + W ELSE a  BY <1>1, Int32Facts
  <2>2. -(H \div 2) <= a /\ a < H \div 2 /\ W >= 8 * H /\ H = 2 * (H \div 2)
        /\ H \div 2 \in Nat /\ W \in Nat /\ H \in Nat \ {0} /\ W = 2 * (W \div 2) /\ W \div 2 \in Nat
    BY <1>1, SignedLoMod, WordRange
  <2> QED  BY <1>1, <2>1, <2>2 DEF LongMin
<1>5. Int32(W - 1) = W - 1
  <2>1. (W - 1) % H = H - 1
    <3>1. H \in Nat \ {0} /\ H - 1 \in Int /\ H - 1 \in 0 .. (H - 1)  BY WordRange
    <3>2. W - 1 = H * (H - 1) + (H - 1)  BY <3>1 DEF W
    <3>3. (H * (H - 1) + (H - 1)) % H = H - 1  BY ONLY <3>1, Digits
    <3> QED  BY <3>2, <3>3
  <2>2. H \in Nat \ {0} /\ H = 2 * (H \div 2) /\ H \div 2 \in Nat  BY WordRange
  <2>3. SignedLo(W - 1) = -1  BY <2>1, <2>2 DEF SignedLo
  <2>4. SignedLo(W - 1) < 0 /\ SignedLo(W - 1) + W = W - 1  BY <2>3, WordRange
  <2> QED  BY <1>1, <2>4, Int32Facts
<1>6. Int32(x) = Sext32(u)
  <2>1. u % H = x % H
    <3>1. u \in 0 .. (H - 1) /\ H \in Nat \ {0}  BY <1>1, WordRange
    <3> QED  BY <1>1, <3>1, ModSmall
  <2> QED  BY <1>1, <2>1, Sext32Low
<1>7. Sext32(Trunc(rs * rt)) = Int32(Trunc(a * b))  BY LowSumsSame
<1>8. Trunc(s * t) = Trunc(rs * rt)  BY SumsSame
<1>9. Trunc((rs * rt) \div W) = (rs * rt) \div W  BY HighProductWord, TruncOfWord
<1>10. rt # 0 => Rem(s, t) = CMod(s, t)  BY <1>1, <1>2, RemIsCMod
<1>11. v # 0 => Rem(a, b) = CMod(a, b)  BY <1>1, <1>3, RemIsCMod
<1>12. Trunc(Rem(Signed(LongMin), Signed(W - 1))) = 0
       /\ Trunc(Quot(Signed(LongMin), Signed(W - 1))) = LongMin
  BY Overflow
<1>13. \A z : Sext32(z) = Int32(z)  BY DEF Sext32, Int32
<1> USE DEF SameResult
<1>14. CASE op = "mul"
  BY <1>8, <1>14 DEF Mdu, AluExec, AluOp, Op32
<1>15. CASE op = "mulh"
  BY <1>15 DEF Mdu, AluExec, AluOp, Op32
<1>16. CASE op = "mulhsu"
  BY <1>16 DEF Mdu, AluExec, AluOp, Op32
<1>17. CASE op = "mulhu"
  BY <1>9, <1>17 DEF Mdu, AluExec, AluOp, Op32
<1>18. CASE op = "div"
  BY <1>12, <1>18, QuotIsCDiv DEF Mdu, AluExec, AluOp, Op32
<1>19. CASE op = "divu"
  BY <1>19 DEF Mdu, AluExec, AluOp, Op32
<1>20. CASE op = "rem"
  BY <1>10, <1>12, <1>20 DEF Mdu, AluExec, AluOp, Op32
<1>21. CASE op = "remu"
  BY <1>21 DEF Mdu, AluExec, AluOp, Op32
<1>22. CASE op = "mulw"
  BY <1>1, <1>7, <1>22 DEF Mdu, AluExec, AluOp, Op32
<1>23. CASE op = "divw"
  BY <1>1, <1>3, <1>4, <1>5, <1>13, <1>23, QuotIsCDiv DEF Mdu, AluExec, AluOp, Op32
<1>24. CASE op = "divuw"
  BY <1>1, <1>3, <1>5, <1>13, <1>24 DEF Mdu, AluExec, AluOp, Op32
<1>25. CASE op = "remw"
  BY <1>1, <1>3, <1>4, <1>6, <1>11, <1>13, <1>25 DEF Mdu, AluExec, AluOp, Op32
<1>26. CASE op = "remuw"
  BY <1>1, <1>3, <1>6, <1>13, <1>26 DEF Mdu, AluExec, AluOp, Op32
<1> QED
  BY <1>14, <1>15, <1>16, <1>17, <1>18, <1>19, <1>20, <1>21, <1>22, <1>23, <1>24,
     <1>25, <1>26 DEF MduNames
=============================================================================
