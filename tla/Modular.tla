------------------------------- MODULE Modular ------------------------------
(***************************************************************************)
(* Lemmas on counters that wrap around: size_t in the collector and the    *)
(* arenas, the tick number in the scheduler.                               *)
(***************************************************************************)
EXTENDS Integers, TLAPS

\* What \div and % are, and that they are unique.
LEMMA DivMod ==
  ASSUME NEW m \in Nat \ {0}, NEW x \in Nat
  PROVE  x = m * (x \div m) + (x % m) /\ x % m \in 0 .. m - 1 /\ x \div m \in Int
OBVIOUS

LEMMA Multiple ==
  ASSUME NEW m \in Nat \ {0}, NEW k \in Int, k >= 1
  PROVE  m * k >= m
OBVIOUS

LEMMA ModUnique ==
  ASSUME NEW m \in Nat \ {0}, NEW p \in Int, NEW q \in Int,
         NEW r \in 0 .. m - 1, NEW s \in 0 .. m - 1, m * p + r = m * q + s
  PROVE  r = s
<1>1. m * (p - q) = s - r /\ m * (q - p) = r - s
  OBVIOUS
<1>2. p - q < 1 /\ q - p < 1
  BY <1>1, Multiple
<1>3. p = q
  BY <1>2
<1>4. QED BY <1>3

\* A counter that wraps may be added to before or after it wraps.
LEMMA ModAdd ==
  ASSUME NEW m \in Nat \ {0}, NEW x \in Nat, NEW y \in Nat
  PROVE  ((x % m) + y) % m = (x + y) % m
<1> DEFINE w == x + y
           r == x % m
           z == r + y
           p == x \div m
           q == z \div m
<1>1. x = m * p + r /\ r \in 0 .. m - 1 /\ p \in Int
  BY DivMod
<1>2. z \in Nat /\ w \in Nat
  BY <1>1
<1> HIDE DEF w, z
<1>3. z = m * q + (z % m) /\ z % m \in 0 .. m - 1 /\ q \in Int
  BY <1>2, DivMod
<1>4. w = m * (w \div m) + (w % m) /\ w % m \in 0 .. m - 1 /\ w \div m \in Int
  BY <1>2, DivMod
<1> HIDE DEF r, p, q
<1>5. m * p + z = w
  BY <1>1 DEF w, z
<1>6. m * (p + q) = m * p + m * q
  BY <1>1, <1>3
<1>7. m * (p + q) + (z % m) = w /\ p + q \in Int
  BY <1>1, <1>3, <1>5, <1>6
<1>8. z % m = w % m
  BY <1>3, <1>4, <1>7, ModUnique
<1> QED BY <1>8 DEF w, z, r


\* A counter that is below its limit and changes by one without wrapping.
LEMMA ModSmall ==
  ASSUME NEW m \in Nat \ {0}, NEW x \in 0 .. m - 1
  PROVE  x % m = x
<1>1. /\ x = m * (x \div m) + (x % m) /\ x % m \in 0 .. m - 1 /\ x \div m \in Int
      /\ m * 0 + x = x /\ x \in Nat
  BY DivMod
<1>2. m * (x \div m) + (x % m) = m * 0 + x
  BY <1>1
<1> QED BY <1>1, <1>2, ModUnique

LEMMA ModWrap ==
  ASSUME NEW m \in Nat \ {0}, NEW x \in 0 .. m - 1
  PROVE  (m + x) % m = x
<1> DEFINE z == m + x
           q == z \div m
           r == z % m
<1>1. z \in Nat /\ m * 1 + x = z
  OBVIOUS
<1> HIDE DEF z
<1>2. z = m * q + r /\ r \in 0 .. m - 1 /\ q \in Int
  BY <1>1, DivMod
<1> HIDE DEF q, r
<1>3. m * q + r = m * 1 + x /\ 1 \in Int
  BY <1>1, <1>2
<1>4. r = x
  BY <1>2, <1>3, ModUnique
<1> QED BY <1>4 DEF z, r

\* One less, as the code writes it for an unsigned counter.
LEMMA ModDec ==
  ASSUME NEW m \in Nat \ {0}, NEW x \in 1 .. m - 1
  PROVE  (x + m - 1) % m = x - 1
<1>1. x - 1 \in 0 .. m - 1 /\ x + m - 1 = m + (x - 1)
  OBVIOUS
<1>2. (m + (x - 1)) % m = x - 1
  BY <1>1, ModWrap
<1> QED BY <1>1, <1>2
=============================================================================
