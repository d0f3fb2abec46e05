----------------------------- MODULE ClockLemmas -----------------------------
(* Remainders, and the time since a mark on a clock that wraps.  The time  *)
(* since is what the code computes as an unsigned difference.              *)
EXTENDS Integers, TLAPS

LEMMA DivMod ==
  \A a \in Int, b \in Nat \ {0} :
    a \div b \in Int /\ a % b \in 0 .. b - 1 /\ a = b * (a \div b) + (a % b)
  OBVIOUS

(* The remainder is the only number below the divisor that leaves a        *)
(* multiple of it.                                                         *)
LEMMA ModUnique ==
  ASSUME NEW a \in Int, NEW b \in Nat \ {0}, NEW q \in Int, NEW r \in 0 .. b - 1,
         a = b * q + r
  PROVE  a % b = r
<1>1. a = b * (a \div b) + (a % b) /\ a % b \in 0 .. b - 1 /\ a \div b \in Int
  BY DivMod
<1>2. b * (q - (a \div b)) = (a % b) - r
  BY <1>1
<1>3. CASE q - (a \div b) >= 1
  BY <1>1, <1>2, <1>3
<1>4. CASE q - (a \div b) <= -1
  BY <1>1, <1>2, <1>4
<1> QED
  BY <1>1, <1>2, <1>3, <1>4

LEMMA ModShift ==
  ASSUME NEW a \in Int, NEW b \in Nat \ {0}, NEW k \in Int
  PROVE  (a + b * k) % b = a % b
<1> DEFINE q == a \div b
           r == a % b
<1>1. q \in Int /\ r \in 0 .. b - 1 /\ a = b * q + r
  BY DivMod
<1>2. a + b * k = b * (q + k) + r /\ q + k \in Int /\ a + b * k \in Int
  BY <1>1
<1> HIDE DEF q, r
<1>3. (a + b * k) % b = r
  BY <1>1, <1>2, ModUnique
<1> QED
  BY <1>3 DEF r

LEMMA ModSmall ==
  ASSUME NEW b \in Nat \ {0}, NEW r \in 0 .. b - 1
  PROVE  r % b = r
<1>1. r = b * 0 + r
  OBVIOUS
<1> QED
  BY <1>1, ModUnique

LEMMA ModAtMost ==
  ASSUME NEW a \in Nat, NEW b \in Nat \ {0}
  PROVE  a % b <= a
<1>1. CASE a < b
  BY <1>1, ModSmall
<1>2. CASE a >= b
  BY <1>2, DivMod
<1> QED
  BY <1>1, <1>2

(* When the clock moves on by d, the time since a mark is what it was and  *)
(* d more, up to the wrap.                                                 *)
LEMMA SinceStep ==
  ASSUME NEW w \in Nat \ {0}, NEW t \in Int, NEW mark \in Int, NEW d \in Nat
  PROVE  (((t + d) % w) - mark) % w = (((t - mark) % w) + d) % w
<1> DEFINE j == (t - mark) \div w
           x == (t - mark) % w
           k == (t + d) \div w
           y == (t + d) % w
<1>1. j \in Int /\ x \in 0 .. w - 1 /\ t - mark = w * j + x
  BY DivMod
<1>2. k \in Int /\ y \in 0 .. w - 1 /\ t + d = w * k + y
  BY DivMod
<1> HIDE DEF j, x, k, y
<1>3. y - mark = (x + d) + w * (j - k)
  <2>1. w * (j - k) = w * j - w * k
    BY <1>1, <1>2
  <2> QED
    BY <1>1, <1>2, <2>1
<1>4. ((x + d) + w * (j - k)) % w = (x + d) % w
  <2>1. x + d \in Int /\ j - k \in Int
    BY <1>1, <1>2
  <2> QED
    BY <2>1, ModShift
<1> QED
  BY <1>3, <1>4 DEF x, y

(* So it grows by no more than d, and by d exactly if it does not wrap.    *)
LEMMA SinceGrows ==
  ASSUME NEW w \in Nat \ {0}, NEW t \in Int, NEW mark \in Int, NEW d \in Nat
  PROVE  /\ (((t + d) % w) - mark) % w <= ((t - mark) % w) + d
         /\ ((t - mark) % w) + d < w => (((t + d) % w) - mark) % w = ((t - mark) % w) + d
         /\ (((t + d) % w) - mark) % w \in 0 .. w - 1
<1>1. (t - mark) % w \in 0 .. w - 1
  BY DivMod
<1>2. (((t - mark) % w) + d) % w <= ((t - mark) % w) + d
  BY <1>1, ModAtMost
<1>3. ((t - mark) % w) + d < w => (((t - mark) % w) + d) % w = ((t - mark) % w) + d
  BY <1>1, ModSmall
<1>4. (((t - mark) % w) + d) % w \in 0 .. w - 1
  BY <1>1, DivMod
<1> QED
  BY <1>2, <1>3, <1>4, SinceStep

LEMMA SinceNow ==
  ASSUME NEW w \in Nat \ {0}, NEW t \in Int
  PROVE  (t - t) % w = 0
<1>1. t - t = 0 /\ 0 \in 0 .. w - 1
  OBVIOUS
<1> QED
  BY <1>1, ModSmall

(* A mark moved on by m, no further than to the present, has m less behind *)
(* it.                                                                     *)
LEMMA MarkMoved ==
  ASSUME NEW w \in Nat \ {0}, NEW t \in Int, NEW mark \in Int, NEW m \in Int,
         ((t - mark) % w) - m \in 0 .. w - 1
  PROVE  (t - ((mark + m) % w)) % w = ((t - mark) % w) - m
<1> DEFINE on == mark + m
           k == on \div w
           y == on % w
           j == (t - mark) \div w
           r == ((t - mark) % w) - m
<1>1. on \in Int /\ t - mark \in Int
  OBVIOUS
<1>2. k \in Int /\ y \in 0 .. w - 1 /\ on = w * k + y
  <2> HIDE DEF on
  <2> QED
    BY <1>1, DivMod
<1>3. m = on - mark /\ j \in Int /\ r \in 0 .. w - 1 /\ t - mark = w * j + (m + r)
  BY <1>1, DivMod
<1> HIDE DEF on, k, y, j, r
<1>4. w * (j + k) = w * j + w * k /\ w * j \in Int /\ w * k \in Int
  BY <1>2, <1>3
<1>5. t - y = w * (j + k) + r
  BY <1>1, <1>2, <1>3, <1>4
<1>6. t - y \in Int /\ j + k \in Int
  BY <1>2, <1>3
<1>7. (t - y) % w = r
  BY <1>3, <1>5, <1>6, ModUnique
<1> QED
  BY <1>7 DEF on, y, r
=============================================================================
