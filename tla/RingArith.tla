------------------------------ MODULE RingArith ------------------------------
(***************************************************************************)
(* Arithmetic of ring indices: two positions less than a round apart are   *)
(* in different slots, positions a round apart in the same one.            *)
(* And the least number that belongs to a set and counting up, for         *)
(* inductions.                                                             *)
(***************************************************************************)
EXTENDS Integers, WellFoundedInduction, TLAPS

\* Quotient and remainder, as index_of takes the latter of a write index.
LEMMA DivMod ==
  ASSUME NEW n \in Nat \ {0}
  PROVE  \A a \in Nat : /\ a % n \in Nat /\ a % n < n
                        /\ a \div n \in Nat
                        /\ a = n * (a \div n) + (a % n)
BY Z3

\* Two multiples of n are never a positive distance less than n apart.
LEMMA NoMultipleBetween ==
  ASSUME NEW n \in Nat \ {0}, NEW p \in Nat, NEW q \in Nat, NEW d \in Nat,
         0 < d, d < n
  PROVE  n * p + d # n * q
<1> SUFFICES ASSUME n * p + d = n * q PROVE FALSE
  OBVIOUS
<1>1. n * (q - p) = d
  BY SMT
<1>2. CASE q - p <= 0
  BY <1>1, <1>2, SMT
<1>3. CASE q - p >= 1
  <2>1. n * (q - p) >= n
    BY <1>3, SMT
  <2> QED BY <1>1, <2>1, SMT
<1> QED BY <1>2, <1>3

\* index_of sends write indices less than a round apart to different slots.
LEMMA OtherSlot ==
  ASSUME NEW n \in Nat \ {0}, NEW a \in Nat, NEW b \in Nat, a < b, b < a + n
  PROVE  a % n # b % n
<1> SUFFICES ASSUME a % n = b % n PROVE FALSE
  OBVIOUS
<1> DEFINE p == a \div n
           q == b \div n
           d == b - a
<1>1. a = n * p + (a % n) /\ b = n * q + (b % n)
  BY DivMod
<1>2. p \in Nat /\ q \in Nat /\ a % n \in Nat
  BY DivMod
<1>3. d \in Nat /\ 0 < d /\ d < n
  OBVIOUS
<1> HIDE DEF p, q, d
<1>4. n * p + d = n * q
  BY <1>1, <1>2, SMT DEF d
<1> QED BY <1>2, <1>3, <1>4, NoMultipleBetween

\* index_of sends a write index and the one a round later to the same slot.
LEMMA SameSlot ==
  ASSUME NEW n \in Nat \ {0}, NEW a \in Nat
  PROVE  (a + n) % n = a % n
<1> DEFINE p == (a \div n) + 1
           q == (a + n) \div n
           x == a % n
           y == (a + n) % n
<1>1. a = n * (a \div n) + x /\ a \div n \in Nat /\ x \in Nat /\ x < n
  BY DivMod
<1>2. a + n = n * q + y /\ q \in Nat /\ y \in Nat /\ y < n
  <2>1. a + n \in Nat
    OBVIOUS
  <2> QED BY <2>1, DivMod
<1>3. p \in Nat /\ n * p + x = n * q + y
  BY <1>1, <1>2, SMT
<1> HIDE DEF p, q, x, y
<1>4. CASE x < y
  <2> DEFINE d == y - x
  <2>1. n * q + d = n * p /\ d \in Nat /\ 0 < d /\ d < n
    BY <1>1, <1>2, <1>3, <1>4, SMT
  <2> HIDE DEF d
  <2> QED BY <2>1, <1>2, <1>3, NoMultipleBetween
<1>5. CASE y < x
  <2> DEFINE d == x - y
  <2>1. n * p + d = n * q /\ d \in Nat /\ 0 < d /\ d < n
    BY <1>1, <1>2, <1>3, <1>5, SMT
  <2> HIDE DEF d
  <2> QED BY <2>1, <1>2, <1>3, NoMultipleBetween
<1> QED BY <1>1, <1>2, <1>4, <1>5 DEF x, y

\* Whole rounds do not change the slot.
LEMMA RoundsApart ==
  ASSUME NEW n \in Nat \ {0}, NEW a \in Nat, NEW m \in Nat
  PROVE  (a + n * m) % n = a % n
<1> DEFINE p == (a \div n) + m
           b == a + n * m
           q == b \div n
           x == a % n
           y == b % n
<1>1. a = n * (a \div n) + x /\ a \div n \in Nat /\ x \in Nat /\ x < n
  BY DivMod
<1>2. b = n * q + y /\ q \in Nat /\ y \in Nat /\ y < n
  <2>1. b \in Nat
    BY Z3
  <2> QED BY <2>1, DivMod
<1>3. p \in Nat /\ n * p = n * (a \div n) + n * m
  BY <1>1, Z3
<1>4. n * p + x = n * q + y /\ n * p \in Nat /\ n * q \in Nat
  BY <1>1, <1>2, <1>3, Z3
<1> HIDE DEF p, q, x, y, b
<1>5. CASE x < y
  <2> DEFINE d == y - x
  <2>1. n * q + d = n * p /\ d \in Nat /\ 0 < d /\ d < n
    BY <1>1, <1>2, <1>4, <1>5, SMT
  <2> HIDE DEF d
  <2> QED BY <2>1, <1>2, <1>3, NoMultipleBetween
<1>6. CASE y < x
  <2> DEFINE d == x - y
  <2>1. n * p + d = n * q /\ d \in Nat /\ 0 < d /\ d < n
    BY <1>1, <1>2, <1>4, <1>6, SMT
  <2> HIDE DEF d
  <2> QED BY <2>1, <1>2, <1>3, NoMultipleBetween
<1>7. CASE x = y
  BY <1>7 DEF x, y, b
<1> QED BY <1>1, <1>2, <1>5, <1>6, <1>7

\* An index that has not come round is its own remainder.
LEMMA Small ==
  ASSUME NEW n \in Nat \ {0}, NEW a \in Nat, a < n
  PROVE  a % n = a
<1> DEFINE q == a \div n
<1>1. a = n * q + (a % n) /\ q \in Nat /\ a % n \in Nat
  BY DivMod
<1> HIDE DEF q
<1>2. CASE q = 0
  BY <1>1, <1>2, Z3
<1>3. CASE q >= 1
  <2>1. n * q >= n
    BY <1>1, <1>3, Z3
  <2> QED BY <1>1, <2>1, SMT
<1> QED BY <1>1, <1>2, <1>3

\* Every index below c has the slot of one of the last n indices below c.
LEMMA LatestRound ==
  ASSUME NEW n \in Nat \ {0}, NEW a \in Nat, NEW c \in Nat, a < c
  PROVE  \E j \in Nat : c - n <= j /\ j < c /\ a <= j /\ j % n = a % n
<1> DEFINE e == c - 1 - a
           m == e \div n
<1>1. e \in Nat
  BY SMT
<1>2. e = n * m + (e % n) /\ m \in Nat /\ e % n \in Nat /\ e % n < n
  BY <1>1, DivMod
<1>3. n * m \in Nat
  BY <1>2, Z3
<1>4. (a + n * m) % n = a % n
  BY <1>2, RoundsApart
<1> HIDE DEF m
<1>5. a + n * m \in Nat /\ c - n <= a + n * m /\ a + n * m < c /\ a <= a + n * m
  BY <1>2, <1>3, SMT
<1> QED BY <1>4, <1>5

\* A set of numbers that is not empty has a least one: the form in which an
\* induction is stated here, as the absence of a least counterexample.
LEMMA LeastNumber ==
  ASSUME NEW T, T \subseteq Nat, T # {}
  PROVE  \E x \in T : \A y \in T : x <= y
<1> DEFINE R == OpToRel(<, Nat)
<1>1. IsWellFoundedOn(R, Nat)
  BY NatLessThanWellFounded
<1>2. \A x, y \in Nat : <<x, y>> \in R <=> x < y
  BY DEF OpToRel
<1> HIDE DEF R
<1>3. PICK x \in T : \A y \in T : ~(<<y, x>> \in R)
  BY <1>1, WFMin
<1>4. \A y \in T : x <= y
  <2> TAKE y \in T
  <2>1. x \in Nat /\ y \in Nat
    OBVIOUS
  <2>2. ~(y < x)
    BY <1>2, <1>3, <2>1
  <2> QED BY <2>1, <2>2, SMT
<1> QED BY <1>4

\* Counting up from 0 to n stays in a set that every step stays in.
LEMMA CountUp ==
  ASSUME NEW n \in Nat, NEW T, 0 \in T, \A k \in Nat : k < n /\ k \in T => k + 1 \in T
  PROVE  \A k \in 0 .. n : k \in T
  <1> SUFFICES ASSUME NEW z \in 0 .. n, z \notin T PROVE FALSE
    OBVIOUS
  <1> DEFINE U == {k \in 0 .. n : k \notin T}
  <1>1. U \subseteq Nat /\ z \in U
    OBVIOUS
  <1>2. PICK k \in U : \A y \in U : k <= y
    <2> HIDE DEF U
    <2> QED BY <1>1, LeastNumber, Zenon
  <1>3. k \in Nat /\ k <= n /\ k \notin T /\ k # 0
    BY <1>2
  <1>4. k - 1 \in Nat /\ k - 1 < n /\ k - 1 + 1 = k /\ ~(k <= k - 1) /\ k - 1 \in 0 .. n
    BY <1>3
  <1>5. k - 1 \in T
    <2>1. k - 1 \notin U
      BY <1>2, <1>4, Zenon
    <2> QED BY <1>4, <2>1, Zenon
  <1>6. k - 1 + 1 \in T
    BY <1>4, <1>5, Zenon
  <1> QED BY <1>3, <1>4, <1>6
==============================================================================
