----------------------------- MODULE Arithmetic -----------------------------
(***************************************************************************)
(* What the proofs need to know of products, quotients and remainders, the *)
(* C code's uint64_t, and its counters of a few bits.                      *)
(***************************************************************************)
EXTENDS Integers, TLAPS

LEMMA ProductIsNat == ASSUME NEW a \in Nat, NEW b \in Nat PROVE a * b \in Nat
  OBVIOUS

LEMMA ProductGrows ==
  ASSUME NEW a \in Nat, NEW b \in Nat, NEW c \in Nat, b <= c
  PROVE  a * b <= a * c
<1>1. a * (c - b) \in Nat
  <2>1. c - b \in Nat
    OBVIOUS
  <2>2. QED
    BY <2>1, ProductIsNat
<1>2. a * (c - b) = a * c - a * b
  OBVIOUS
<1>3. a * b \in Nat /\ a * c \in Nat
  BY ProductIsNat
<1>4. QED
  BY <1>1, <1>2, <1>3

LEMMA Division ==
  ASSUME NEW a \in Nat, NEW b \in Nat \ {0}
  PROVE  /\ a \div b \in Nat /\ a % b \in 0..b - 1
         /\ a = b * (a \div b) + (a % b)
  OBVIOUS

LEMMA ModOfSmall == ASSUME NEW a \in Nat, NEW m \in Nat, a < m PROVE a % m = a
<1>1. m \in Nat \ {0}
  OBVIOUS
<1>2. QED
  BY <1>1

LEMMA ModSucc ==
  ASSUME NEW x \in Nat, NEW m \in Nat \ {0}
  PROVE  ((x % m) + 1) % m = (x + 1) % m
<1>1. /\ x \div m \in Nat /\ x % m \in 0..m - 1
      /\ x = m * (x \div m) + (x % m)
  BY Division
<1>2. DEFINE q == x \div m
             r == x % m
<1>3. CASE r + 1 < m
  <2>1. (r + 1) % m = r + 1
    BY <1>1, <1>3, ModOfSmall
  <2>2. (m * q + (r + 1)) % m = r + 1
    BY <1>1, <1>3
  <2>3. QED
    BY <1>1, <2>1, <2>2
<1>4. CASE r + 1 = m
  <2>1. x + 1 = m * (q + 1)
    BY <1>1, <1>4
  <2>2. (m * (q + 1)) % m = 0
    BY <1>1
  <2>3. m % m = 0
    OBVIOUS
  <2>4. QED
    BY <1>4, <2>1, <2>2, <2>3
<1>5. QED
  BY <1>1, <1>3, <1>4

\* What div and mod of a distance do to the lag: it grows by the part cut off.
LEMMA CutOff ==
  ASSUME NEW t \in Nat, NEW b \in Nat \ {0}, NEW d \in Nat
  PROVE  /\ (t * d) \div b \in Nat
         /\ t * d - b * ((t * d) \div b) \in 0..b - 1
<1>1. t * d \in Nat
  BY ProductIsNat
<1>2. /\ (t * d) \div b \in Nat /\ (t * d) % b \in 0..b - 1
      /\ t * d = b * ((t * d) \div b) + ((t * d) % b)
  BY <1>1, Division
<1>3. b * ((t * d) \div b) \in Nat
  BY <1>2, ProductIsNat
<1>4. QED
  BY <1>1, <1>2, <1>3
=============================================================================
