------------------------------ MODULE Numbers -------------------------------
(***************************************************************************)
(* Facts about numbers: induction, for sets of numbers in place of         *)
(* predicates, on which what is proved of scans, lists and folds rests,    *)
(* and division with a remainder.                                          *)
(***************************************************************************)
EXTENDS Integers, FiniteSetTheorems, WellFoundedInduction, TLAPS

(* A set of numbers that is not empty has a least one: the interval below  *)
(* it is a minimal one among the finite sets.                              *)
LEMMA Least ==
  ASSUME NEW T, T \subseteq Nat, T # {}
  PROVE  \E x \in T : \A y \in T : x <= y
<1> DEFINE F == {0 .. x : x \in T}
           R == StrictSubsetOrdering(Nat)
<1>1. F \subseteq FiniteSubsetsOf(Nat) /\ F # {}
  <2>1. \A x \in T : 0 .. x \in SUBSET Nat /\ IsFiniteSet(0 .. x)
    BY FS_Interval
  <2> QED BY <2>1 DEF FiniteSubsetsOf
<1>2. \E a \in F : \A c \in F : ~(<<c, a>> \in R)
  <2>1. IsWellFoundedOn(R, FiniteSubsetsOf(Nat))
    BY FS_StrictSubsetOrderingWellFounded
  <2> HIDE DEF F, R
  <2> QED BY <2>1, <1>1, WFMin
<1>3. PICK x \in T : \A y \in T : ~(<<0 .. y, 0 .. x>> \in R)
  BY <1>2
<1>4. ASSUME NEW y \in T, y < x PROVE FALSE
  <2>1. 0 .. y \subseteq 0 .. x /\ x \in 0 .. x /\ x \notin 0 .. y
    BY <1>4
  <2>2. 0 .. y \in SUBSET Nat /\ 0 .. x \in SUBSET Nat
    OBVIOUS
  <2>3. 0 .. y # 0 .. x
    BY <2>1
  <2>4. <<0 .. y, 0 .. x>> \in R
    BY <2>1, <2>2, <2>3, Zenon DEF StrictSubsetOrdering
  <2> QED BY <2>4, <1>3
<1> QED
  BY <1>4

(* A set with 0 and with the successor of each of its members below n      *)
(* holds every number up to n.                                             *)
LEMMA UpTo ==
  ASSUME NEW n \in Nat, NEW T, 0 \in T, \A k \in 0 .. n - 1 : k \in T => k + 1 \in T
  PROVE  0 .. n \subseteq T
<1> DEFINE Out == {k \in 0 .. n : k \notin T}
<1> SUFFICES ASSUME Out # {} PROVE FALSE
  OBVIOUS
<1>1. PICK x \in Out : \A y \in Out : x <= y
  <2>1. Out \subseteq Nat
    OBVIOUS
  <2> HIDE DEF Out
  <2> QED BY <2>1, Least
<1>2. x \in 0 .. n /\ x \notin T
  OBVIOUS
<1>3. x # 0
  BY <1>2
<1>4. x - 1 \in 0 .. n - 1 /\ x - 1 \in 0 .. n /\ ~(x <= x - 1) /\ x - 1 + 1 = x
  BY <1>2, <1>3
<1>5. x - 1 \notin Out
  BY <1>1, <1>4
<1>6. x - 1 \in T
  BY <1>4, <1>5
<1>7. x - 1 + 1 \in T
  BY <1>4, <1>6
<1> QED
  BY <1>2, <1>4, <1>7

(* Quotient and remainder by a positive number, for the solver.            *)
LEMMA DivMod ==
  ASSUME NEW p \in Int, NEW n \in Nat \ {0}
  PROVE  /\ p % n \in 0 .. n - 1
         /\ p \div n \in Int
         /\ p = n * (p \div n) + (p % n)
BY SMT

(* A remainder stays what it is under multiples of the divisor.            *)
LEMMA Remainder ==
  ASSUME NEW n \in Nat \ {0}, NEW s \in Int, NEW m \in 0 .. n - 1
  PROVE  (n * s + m) % n = m
<1> DEFINE x == n * s + m
           k == (x \div n) - s
<1>1. x \in Int /\ x % n \in 0 .. n - 1 /\ x = n * (x \div n) + (x % n) /\ x \div n \in Int
  BY DivMod, SMT
<1>2. k \in Int /\ n * k = m - (x % n)
  BY <1>1, SMT
<1>3. k = 0
  <2>1. CASE k >= 1
    <3>1. n * k >= n
      BY <1>2, <2>1, SMT
    <3> QED BY <3>1, <1>1, <1>2, SMT
  <2>2. CASE k <= -1
    <3>1. n * k <= -n
      BY <1>2, <2>2, SMT
    <3> QED BY <3>1, <1>1, <1>2, SMT
  <2> QED BY <1>2, <2>1, <2>2, SMT
<1> QED BY <1>1, <1>2, <1>3, SMT

(* And the quotient is the factor.                                         *)
LEMMA Quotient ==
  ASSUME NEW n \in Nat \ {0}, NEW s \in Int, NEW m \in 0 .. n - 1
  PROVE  (n * s + m) \div n = s
<1> DEFINE x == n * s + m
           k == (x \div n) - s
<1>1. x \in Int /\ x = n * (x \div n) + (x % n) /\ x \div n \in Int
  BY DivMod, SMT
<1>2. x % n = m
  BY Remainder
<1>3. k \in Int /\ n * k = 0
  BY <1>1, <1>2, SMT
<1> HIDE DEF k
<1>4. k = 0
  <2>1. CASE k >= 1
    <3>1. n * k >= n
      BY <1>3, <2>1, SMT
    <3> QED BY <3>1, <1>3
  <2>2. CASE k <= -1
    <3>1. n * k <= -n
      BY <1>3, <2>2, SMT
    <3> QED BY <3>1, <1>3
  <2> QED BY <1>3, <2>1, <2>2
<1> QED BY <1>1, <1>4 DEF k

(* Zero is a multiple of every number.                                     *)
LEMMA ZeroDivMod ==
  ASSUME NEW n \in Nat \ {0}
  PROVE  0 % n = 0 /\ 0 \div n = 0
<1> DEFINE q == 0 \div n
           r == 0 % n
<1>1. q \in Int /\ r \in 0 .. n - 1 /\ 0 = n * q + r
  BY DivMod
<1> HIDE DEF q, r
<1>2. ~(q >= 1)
  <2>1. q >= 1 => n * q >= n
    BY <1>1, SMT
  <2> QED BY <1>1, <2>1, SMT
<1>3. ~(q <= -1)
  <2>1. q <= -1 => n * q <= -n
    BY <1>1, SMT
  <2> QED BY <1>1, <2>1, SMT
<1>4. q = 0
  BY <1>1, <1>2, <1>3
<1>5. n * q = 0
  BY <1>4, SMT
<1>6. r = 0
  BY <1>1, <1>5, SMT
<1> QED
  BY <1>4, <1>6 DEF q, r

(* Multiples are ordered as their factors are.                             *)
LEMMA TimesMonotone ==
  ASSUME NEW n \in Nat, NEW a \in Int, NEW b \in Int, a <= b
  PROVE  n * a \in Int /\ n * b \in Int /\ n * a <= n * b
<1>1. n * (b - a) >= 0
  BY SMT
<1>2. n * (b - a) = n * b - n * a
  BY SMT
<1> QED BY <1>1, <1>2, SMT

(* In a grid of cells of height n, w to a row, a place in the columns whose *)
(* cell ends above line h lies in the rows that fit in h lines.             *)
LEMMA CellOfGrid ==
  ASSUME NEW n \in Nat \ {0}, NEW w \in Nat \ {0},
         NEW x \in Nat, NEW y \in Nat, NEW h \in Nat, x < w, y + n <= h
  PROVE  (y \div n) * w + x \in 0 .. (h \div n) * w - 1
<1> DEFINE r == y \div n
           s == h \div n
           a == y % n
           b == h % n
<1>1. /\ r \in Int /\ s \in Int /\ a \in 0 .. n - 1 /\ b \in 0 .. n - 1
      /\ y = n * r + a /\ h = n * s + b
  BY DivMod
<1> HIDE DEF r, s, a, b
<1>2. r >= 0
  <2>1. CASE r <= -1
    <3>1. n * r <= n * (-1) /\ n * r \in Int
      BY <1>1, <2>1, TimesMonotone
    <3>2. n * (-1) = -n
      BY SMT
    <3> QED BY <1>1, <3>1, <3>2
  <2> QED BY <1>1, <2>1
<1>3. r + 1 <= s
  <2>1. CASE s <= r
    <3>1. n * s <= n * r /\ n * s \in Int /\ n * r \in Int
      BY <1>1, <2>1, TimesMonotone
    <3> QED BY <1>1, <3>1
  <2> QED BY <1>1, <2>1
<1>4. w * 0 <= w * r /\ w * (r + 1) <= w * s /\ w * r \in Int /\ w * s \in Int
  BY <1>1, <1>2, <1>3, TimesMonotone
<1>5. w * 0 = 0 /\ w * (r + 1) = w * r + w /\ r * w = w * r /\ s * w = w * s
  BY <1>1, SMT
<1>6. r * w + x \in 0 .. s * w - 1
  BY <1>4, <1>5
<1> QED
  BY <1>6 DEF r, s

=============================================================================
