------------------------------ MODULE NatLemmas ------------------------------
(***************************************************************************)
(* Facts about numbers that the library does not have: a least element,    *)
(* quotients and remainders, and the numbers of two digits that a register *)
(* of two words is.                                                        *)
(***************************************************************************)
EXTENDS Integers, WellFoundedInduction, TLAPS

LEMMA LeastNat ==
  ASSUME NEW T, T \subseteq Nat, T # {}
  PROVE  \E m \in T : \A n \in T : m <= n
<1> DEFINE Less == {ss \in Nat \X Nat : ss[1] < ss[2]}
<1>1. IsWellFoundedOn(Less, Nat)  BY NatLessThanWellFounded DEF OpToRel
<1> HIDE DEF Less
<1>2. PICK m \in T : \A n \in T : ~ (<<n, m>> \in Less)
  BY <1>1, WFMin
<1>3. ASSUME NEW n \in T PROVE m <= n
  <2>1. m \in Nat /\ n \in Nat  OBVIOUS
  <2>2. <<n, m>> \notin Less  BY <1>2
  <2> QED  BY <2>1, <2>2 DEF Less
<1> QED  BY <1>3

LEMMA TimesAtLeast == \A n \in Nat, j \in Nat \ {0} : n * j >= n
  OBVIOUS

LEMMA TimesMonotone == \A n \in Nat, i \in Nat, j \in Nat : i <= j => n * i <= n * j
  OBVIOUS

(* Quotient and remainder are unique: for two digits of base n, ...        *)
LEMMA Digits ==
  ASSUME NEW n \in Nat \ {0}, NEW hi \in Int, NEW lo \in 0 .. (n - 1)
  PROVE  (n * hi + lo) \div n = hi /\ (n * hi + lo) % n = lo
<1> DEFINE t == (n * hi + lo) \div n   r == (n * hi + lo) % n
<1>1. n * hi + lo = n * t + r /\ t \in Int /\ r \in 0 .. (n - 1)  OBVIOUS
<1> HIDE DEF t, r
<1>2. ~(t > hi)
  <2> SUFFICES ASSUME t > hi PROVE FALSE  OBVIOUS
  <2>1. n * (t - hi) >= n  BY <1>1, TimesAtLeast
  <2>2. n * (t - hi) = n * t - n * hi  BY <1>1
  <2> QED  BY <1>1, <2>1, <2>2
<1>3. ~(hi > t)
  <2> SUFFICES ASSUME hi > t PROVE FALSE  OBVIOUS
  <2>1. n * (hi - t) >= n  BY <1>1, TimesAtLeast
  <2>2. n * (hi - t) = n * hi - n * t  BY <1>1
  <2> QED  BY <1>1, <2>1, <2>2
<1>4. t = hi  BY <1>1, <1>2, <1>3
<1>5. r = lo  BY <1>1, <1>4
<1> QED  BY <1>4, <1>5 DEF t, r

(* ... which are what every number below n * n has, and nothing else.      *)
LEMMA TwoDigits ==
  ASSUME NEW n \in Nat \ {0}
  PROVE  /\ \A hi, lo \in 0 .. (n - 1) : lo + n * hi \in 0 .. (n * n - 1)
         /\ \A x \in 0 .. (n * n - 1) : x \div n \in 0 .. (n - 1) /\ x % n \in 0 .. (n - 1)
<1>1. ASSUME NEW hi \in 0 .. (n - 1), NEW lo \in 0 .. (n - 1)
      PROVE  lo + n * hi \in 0 .. (n * n - 1)
  <2>1. n * hi <= n * (n - 1)  BY TimesMonotone
  <2>2. n * (n - 1) = n * n - n  OBVIOUS
  <2> QED  BY <2>1, <2>2
<1>2. ASSUME NEW x \in 0 .. (n * n - 1)
      PROVE  x \div n \in 0 .. (n - 1) /\ x % n \in 0 .. (n - 1)
  <2>1. x = n * (x \div n) + (x % n) /\ x \div n \in Int /\ x % n \in 0 .. (n - 1)
    OBVIOUS
  <2> DEFINE q == x \div n
  <2> HIDE DEF q
  <2>2. q >= 0  BY <2>1 DEF q
  <2>3. ~(q >= n)
    <3> SUFFICES ASSUME q >= n PROVE FALSE  OBVIOUS
    <3>1. n * n <= n * q  BY <2>1, <2>2, TimesMonotone DEF q
    <3> QED  BY <3>1, <2>1 DEF q
  <2> QED  BY <2>1, <2>2, <2>3 DEF q
<1> QED  BY <1>1, <1>2

(* Dividing twice is dividing by the product, and the remainder by the     *)
(* product has both remainders.                                            *)
LEMMA DivTwice ==
  ASSUME NEW x \in Int, NEW n \in Nat \ {0}, NEW m \in Nat \ {0}
  PROVE  /\ x \div (n * m) = (x \div n) \div m
         /\ (x % (n * m)) \div n = (x \div n) % m
         /\ (x % (n * m)) % n = x % n
<1> DEFINE q == x \div n   r == x % n   t == q \div m   s == q % m
<1>1. x = n * q + r /\ q \in Int /\ r \in 0 .. (n - 1)  OBVIOUS
<1> HIDE DEF q, r
<1>2. q = m * t + s /\ t \in Int /\ s \in 0 .. (m - 1)  BY <1>1
<1> HIDE DEF t, s
<1>3. n * m \in Nat \ {0}
  <2>1. n * m >= n  BY TimesAtLeast
  <2> QED  BY <2>1
<1>4. n * s + r \in 0 .. (n * m - 1)
  <2>1. n * s <= n * (m - 1)  BY <1>2, TimesMonotone
  <2>2. n * (m - 1) = n * m - n  OBVIOUS
  <2>3. n * s \in Nat  BY <1>2
  <2> QED  BY <1>1, <1>3, <2>1, <2>2, <2>3
<1>5. x = (n * m) * t + (n * s + r)
  <2>1. n * (m * t + s) = (n * m) * t + n * s  BY <1>2
  <2> QED  BY <1>1, <1>2, <2>1
<1>6. x \div (n * m) = t /\ x % (n * m) = n * s + r
  BY <1>2, <1>3, <1>4, <1>5, Digits
<1>7. (n * s + r) \div n = s /\ (n * s + r) % n = r
  BY <1>1, <1>2, Digits
<1> QED  BY <1>6, <1>7 DEF q, r, s, t

(* A multiple more moves the quotient and leaves the remainder.            *)
LEMMA ModShift ==
  ASSUME NEW x \in Int, NEW n \in Nat \ {0}, NEW k \in Int
  PROVE  (x + n * k) % n = x % n /\ (x + n * k) \div n = (x \div n) + k
<1> DEFINE q == x \div n   r == x % n
<1>1. x = n * q + r /\ q \in Int /\ r \in 0 .. (n - 1)  OBVIOUS
<1> HIDE DEF q, r
<1>2. n * (q + k) = n * q + n * k /\ q + k \in Int  BY <1>1
<1>3. x + n * k = n * (q + k) + r  BY <1>1, <1>2
<1>4. (n * (q + k) + r) \div n = q + k /\ (n * (q + k) + r) % n = r
  BY <1>1, <1>2, Digits
<1> QED  BY <1>3, <1>4 DEF q, r

(* Below the divisor a number is its own remainder.                        *)
LEMMA ModSmall ==
  ASSUME NEW n \in Nat \ {0}, NEW x \in 0 .. (n - 1)
  PROVE  x % n = x /\ x \div n = 0
<1>1. n * 0 + x = x  OBVIOUS
<1>2. (n * 0 + x) \div n = 0 /\ (n * 0 + x) % n = x  BY Digits
<1> QED  BY <1>1, <1>2

(* Congruent operands have congruent sums, differences and products.       *)
Congruent(a, c, n) == a % n = c % n
LEMMA ModOps ==
  ASSUME NEW n \in Nat \ {0}, NEW a \in Int, NEW b \in Int, NEW c \in Int, NEW d \in Int,
         Congruent(a, c, n), Congruent(b, d, n)
  PROVE  /\ Congruent(a + b, c + d, n)
         /\ Congruent(a - b, c - d, n)
         /\ Congruent(a * b, c * d, n)
<1> USE DEF Congruent
<1> DEFINE k == (a \div n) - (c \div n)   l == (b \div n) - (d \div n)
<1>1. ASSUME NEW x \in Int, NEW y \in Int, x % n = y % n
      PROVE  x = y + n * ((x \div n) - (y \div n)) /\ (x \div n) - (y \div n) \in Int
  <2> DEFINE q == x \div n   p == y \div n
  <2>1. x = n * q + (x % n) /\ y = n * p + (y % n) /\ q \in Int /\ p \in Int
        /\ x % n \in Int
    OBVIOUS
  <2> HIDE DEF q, p
  <2>2. n * (q - p) = n * q - n * p  BY <2>1
  <2>3. x = y + n * (q - p)  BY <1>1, <2>1, <2>2
  <2> QED  BY <2>1, <2>3 DEF q, p
<1>2. a = c + n * k /\ b = d + n * l /\ k \in Int /\ l \in Int
  BY <1>1
<1> HIDE DEF k, l
<1>3. a + b = (c + d) + n * (k + l)
  <2>1. n * (k + l) = n * k + n * l  BY <1>2
  <2> QED  BY <1>2, <2>1
<1>4. a - b = (c - d) + n * (k - l)
  <2>1. n * (k - l) = n * k - n * l  BY <1>2
  <2> QED  BY <1>2, <2>1
<1> DEFINE m == c * l + k * d + n * (k * l)
<1>5. (c + n * k) * (d + n * l) = c * d + n * (c * l + k * d + n * (k * l))
  BY <1>2
<1>6. m \in Int  BY <1>2
<1> HIDE DEF m
<1>7. a * b = c * d + n * m  BY <1>2, <1>5 DEF m
<1>8. ((c + d) + n * (k + l)) % n = (c + d) % n /\ ((c - d) + n * (k - l)) % n = (c - d) % n
  <2>1. c + d \in Int /\ c - d \in Int /\ k + l \in Int /\ k - l \in Int  BY <1>2
  <2> QED  BY <2>1, ModShift
<1>9. (c * d + n * m) % n = (c * d) % n
  <2>1. c * d \in Int  OBVIOUS
  <2> QED  BY <1>6, <2>1, ModShift
<1> QED  BY <1>3, <1>4, <1>7, <1>8, <1>9

(* Comparing a quotient is comparing the dividend.                         *)
LEMMA DivLess ==
  ASSUME NEW n \in Nat \ {0}, NEW x \in Nat, NEW m \in Nat
  PROVE  x \div n < m <=> x < n * m
<1> DEFINE q == x \div n
<1>1. x = n * q + (x % n) /\ q \in Nat /\ x % n \in 0 .. (n - 1)  OBVIOUS
<1> HIDE DEF q
<1>2. n * (q + 1) = n * q + n /\ n * m \in Int /\ n * q \in Int  BY <1>1
<1>3. CASE q < m
  <2>1. n * (q + 1) <= n * m  BY <1>1, <1>3, TimesMonotone
  <2> QED  BY <1>1, <1>2, <1>3, <2>1 DEF q
<1>4. CASE ~(q < m)
  <2>1. n * m <= n * q  BY <1>1, <1>4, TimesMonotone
  <2> QED  BY <1>1, <1>2, <1>4, <2>1 DEF q
<1> QED  BY <1>3, <1>4
=============================================================================
