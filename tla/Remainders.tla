----------------------------- MODULE Remainders ------------------------------
(***************************************************************************)
(* Remainders, for the counters and the rings of the kernel.               *)
(***************************************************************************)
EXTENDS Integers, TLAPS

\* A number is a multiple of m and its remainder.
LEMMA ModDiv ==
  ASSUME NEW m \in Nat \ {0}, NEW a \in Nat
  PROVE  a % m \in 0 .. m - 1 /\ \E d \in Nat : a = m * d + (a % m)
<1>1. (a \div m) \in Nat /\ a = m * (a \div m) + (a % m)
  OBVIOUS
<1>2. a % m \in 0 .. m - 1
  OBVIOUS
<1> QED BY <1>1, <1>2

\* Only its remainder completes a multiple of m to a number.
LEMMA ModUnique ==
  ASSUME NEW m \in Nat \ {0}, NEW d \in Nat, NEW r \in 0 .. m - 1
  PROVE  (m * d + r) % m = r
OBVIOUS

\* The remainder of a number that passes m once at most.
LEMMA ModOnce ==
  ASSUME NEW m \in Nat \ {0}, NEW a \in Nat, a < 2 * m
  PROVE  (a < m => a % m = a) /\ (a >= m => a % m = a - m)
OBVIOUS

\* Multiples of m do not count.
LEMMA ModShift ==
  ASSUME NEW m \in Nat \ {0}, NEW a \in Nat, NEW q \in Nat
  PROVE  (a + m * q) % m = a % m
<1> DEFINE r == a % m
<1>1. PICK d \in Nat : a = m * d + r
  BY ModDiv
<1>2. r \in 0 .. m - 1
  BY ModDiv
<1> HIDE DEF r
<1>3. a + m * q = m * (d + q) + r
  BY <1>1, <1>2
<1>4. d + q \in Nat
  OBVIOUS
<1>5. (m * (d + q) + r) % m = r
  BY <1>2, <1>4, ModUnique
<1> QED BY <1>3, <1>5 DEF r

\* A counter that wraps around stays right.
LEMMA ModAdd ==
  ASSUME NEW m \in Nat \ {0}, NEW a \in Nat, NEW q \in Nat
  PROVE  ((a % m) + q) % m = (a + q) % m
<1> DEFINE r == a % m
<1>1. PICK d \in Nat : a = m * d + r
  BY ModDiv
<1>2. r \in Nat
  BY ModDiv
<1> HIDE DEF r
<1>3. a + q = (r + q) + m * d
  BY <1>1, <1>2
<1>4. r + q \in Nat
  BY <1>2
<1>5. ((r + q) + m * d) % m = (r + q) % m
  BY <1>4, ModShift
<1> QED BY <1>3, <1>5 DEF r

\* A counter whose range is a multiple of m stays right modulo m.
LEMMA ModMod ==
  ASSUME NEW m \in Nat \ {0}, NEW u \in Nat \ {0}, u % m = 0, NEW a \in Nat
  PROVE  (a % u) % m = a % m
<1> DEFINE s == a % u
<1>1. PICK d \in Nat : a = u * d + s
  BY ModDiv
<1>2. PICK e \in Nat : u = m * e + 0
  BY ModDiv
<1>3. s \in Nat
  BY ModDiv
<1> HIDE DEF s
<1>4. e * d \in Nat /\ u * d = m * (e * d)
  BY <1>2
<1>5. a = s + m * (e * d)
  BY <1>1, <1>3, <1>4
<1>6. (s + m * (e * d)) % m = s % m
  BY <1>3, <1>4, ModShift
<1> QED BY <1>5, <1>6 DEF s

\* Numbers that are less than m apart have different remainders.
LEMMA ModDistinct ==
  ASSUME NEW m \in Nat \ {0}, NEW a \in Nat, NEW j \in 1 .. m - 1
  PROVE  (a + j) % m # a % m
<1> DEFINE r == a % m
           c == r + j
<1>1. r \in 0 .. m - 1
  BY ModDiv
<1>2. j \in Nat
  OBVIOUS
<1>3. (r + j) % m = (a + j) % m
  BY <1>2, ModAdd
<1> HIDE DEF r
<1>4. c \in Nat /\ c < 2 * m
  BY <1>1
<1> HIDE DEF c
<1>5. (c < m => c % m = c) /\ (c >= m => c % m = c - m)
  BY <1>4, ModOnce
<1>6. (r + j) % m # r
  BY <1>1, <1>5 DEF c
<1> QED BY <1>3, <1>6 DEF r

==============================================================================
