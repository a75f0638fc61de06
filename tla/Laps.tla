-------------------------------- MODULE Laps --------------------------------
(***************************************************************************)
(* Arithmetic of positions that go round an array of n slots: what the     *)
(* proofs about the two queues need to know of position & mask_.           *)
(***************************************************************************)
EXTENDS Naturals, TLAPS

\* The remainder is unique.
LEMMA LapRemainder ==
  ASSUME NEW n \in Nat \ {0}, NEW k \in Nat, NEW r \in 0 .. n - 1
  PROVE  (n * k + r) % n = r
  <1> DEFINE c == (n * k + r) \div n
             d == (n * k + r) % n
  <1>1. n * k \in Nat
    OBVIOUS
  <1>2. n * k + r = n * c + d /\ d \in 0 .. n - 1 /\ c \in Nat
    BY <1>1
  <1> HIDE DEF c, d
  <1>3. k = c
    <2>1. CASE k < c
      <3>1. n * c >= n * (k + 1)
        BY <1>2, <2>1
      <3>2. n * (k + 1) = n * k + n
        OBVIOUS
      <3> QED BY <1>1, <1>2, <3>1, <3>2
    <2>2. CASE c < k
      <3>1. n * k >= n * (c + 1)
        BY <1>2, <2>2
      <3>2. n * (c + 1) = n * c + n
        BY <1>2
      <3> QED BY <1>1, <1>2, <3>1, <3>2
    <2> QED BY <1>2, <2>1, <2>2
  <1>4. r = d
    BY <1>1, <1>2, <1>3
  <1> QED BY <1>4 DEF d

\* A position and the one a lap later use the same slot.
LEMMA LapShift ==
  ASSUME NEW n \in Nat \ {0}, NEW p \in Nat
  PROVE  (p + n) % n = p % n
  <1> DEFINE a == p \div n
             r == p % n
  <1>1. p = n * a + r /\ a \in Nat /\ r \in 0 .. n - 1
    OBVIOUS
  <1> HIDE DEF a, r
  <1>2. p + n = n * (a + 1) + r
    BY <1>1
  <1>3. (n * (a + 1) + r) % n = r
    BY <1>1, LapRemainder
  <1> QED BY <1>2, <1>3 DEF r

\* Two positions of one slot are at least a lap apart.
LEMMA LapApart ==
  ASSUME NEW n \in Nat \ {0}, NEW p \in Nat, NEW q \in Nat, p < q, p % n = q % n
  PROVE  p + n <= q
  <1> DEFINE a == p \div n
             b == q \div n
             r == p % n
  <1>1. p = n * a + r /\ a \in Nat /\ r \in 0 .. n - 1
    OBVIOUS
  <1>2. q = n * b + r /\ b \in Nat
    OBVIOUS
  <1> HIDE DEF a, b, r
  <1>3. n * a \in Nat /\ n * b \in Nat
    BY <1>1, <1>2
  <1>4. n * a < n * b
    BY <1>1, <1>2, <1>3
  <1>5. b >= a + 1
    BY <1>1, <1>2, <1>4
  <1>6. n * b >= n * (a + 1)
    BY <1>1, <1>2, <1>5
  <1>7. n * (a + 1) = n * a + n
    BY <1>1
  <1> QED BY <1>1, <1>2, <1>3, <1>6, <1>7

\* Adding one to the slot and going round gives the slot of the next position.
LEMMA LapNext ==
  ASSUME NEW n \in Nat \ {0}, NEW p \in Nat
  PROVE  ((p % n) + 1) % n = (p + 1) % n
  <1> DEFINE a == p \div n
             r == p % n
  <1>1. p = n * a + r /\ a \in Nat /\ r \in 0 .. n - 1
    OBVIOUS
  <1> HIDE DEF a, r
  <1>2. CASE r + 1 < n
    <2>1. (n * a + (r + 1)) % n = r + 1 /\ p + 1 = n * a + (r + 1)
      BY <1>1, <1>2, LapRemainder
    <2>2. (r + 1) % n = r + 1
      BY <1>1, <1>2
    <2> QED BY <2>1, <2>2 DEF r
  <1>3. CASE r + 1 = n
    <2>1. (n * (a + 1) + 0) % n = 0
      BY <1>1, LapRemainder
    <2>2. p + 1 = n * (a + 1) + 0
      BY <1>1, <1>3
    <2>3. (r + 1) % n = 0
      BY <1>3
    <2> QED BY <2>1, <2>2, <2>3 DEF r
  <1> QED BY <1>1, <1>2, <1>3
=============================================================================
