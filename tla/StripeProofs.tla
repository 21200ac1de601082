---------------------------- MODULE StripeProofs ----------------------------
(***************************************************************************)
(* Proofs about the striped link (Stripe), for any ring, any numbers and   *)
(* any number of restarts: the state is well typed, the receiver moves     *)
(* past nothing it could have waited for, and the sender forgets a piece   *)
(* only when the receiver is done with it.                                 *)
(***************************************************************************)
EXTENDS Stripe, SequenceLemmas

----------------------------------------------------------------------------
(* Numbers that wrap.                                                      *)

LEMMA Sizes ==
  Ring \in Nat /\ Ring >= 1 /\ Modulus \in Nat /\ Modulus >= 8 * Ring /\ Linger \in Nat
  BY StripeAssumption

LEMMA InSeqs == \A s : s \in Seqs <=> s \in Nat /\ s < Modulus
  BY Sizes DEF Seqs

LEMMA InSlots == \A i : i \in Slots <=> i \in Nat /\ i < Ring
  BY Sizes DEF Slots

LEMMA Remainder ==
  ASSUME NEW n \in Nat, n >= 1, NEW x \in Int, x >= -n, x < n + n
  PROVE  x % n = IF x < 0 THEN x + n ELSE IF x < n THEN x ELSE x - n
<1> DEFINE q == x \div n
           r == x % n
<1>1. q \in Int /\ r \in 0..(n - 1) /\ x = n * q + r
  OBVIOUS
<1> HIDE DEF q, r
<1>2. q \in {-1, 0, 1}
  <2>1. ASSUME q >= 2 PROVE FALSE
    <3>1. n * q >= n * 2
      BY <1>1, <2>1
    <3>2. QED
      BY <1>1, <3>1
  <2>2. ASSUME q <= -2 PROVE FALSE
    <3>1. n * q <= n * (-2)
      BY <1>1, <2>2
    <3>2. QED
      BY <1>1, <3>1
  <2>3. QED
    BY <1>1, <2>1, <2>2
<1>3. CASE q = -1
  BY <1>1, <1>3 DEF r
<1>4. CASE q = 0
  BY <1>1, <1>4 DEF r
<1>5. CASE q = 1
  BY <1>1, <1>5 DEF r
<1>6. QED
  BY <1>2, <1>3, <1>4, <1>5

LEMMA AheadIs ==
  ASSUME NEW a \in Seqs, NEW b \in Seqs
  PROVE  /\ Ahead(a, b) \in Nat /\ Ahead(a, b) < Modulus
         /\ Ahead(a, b) = IF a >= b THEN a - b ELSE a - b + Modulus
<1>1. a \in Nat /\ a < Modulus /\ b \in Nat /\ b < Modulus /\ Modulus \in Nat
  BY InSeqs, Sizes
<1> DEFINE x == a - b
<1>2. x \in Int /\ x >= -Modulus /\ x < Modulus + Modulus /\ Modulus >= 1
  BY <1>1, Sizes
<1> HIDE DEF x
<1>3. x % Modulus = IF x < 0 THEN x + Modulus ELSE IF x < Modulus THEN x ELSE x - Modulus
  BY <1>2, Sizes, Remainder
<1>4. Ahead(a, b) = x % Modulus
  BY DEF Ahead, x
<1>5. QED
  BY <1>1, <1>3, <1>4 DEF x

LEMMA PlusIs ==
  ASSUME NEW s \in Seqs, NEW k \in Int, k >= -Modulus, k <= Modulus
  PROVE  /\ Plus(s, k) \in Seqs
         /\ Plus(s, k) = IF s + k < 0 THEN s + k + Modulus ELSE IF s + k < Modulus THEN s + k ELSE s + k - Modulus
<1>1. s \in Nat /\ s < Modulus /\ Modulus \in Nat
  BY InSeqs, Sizes
<1> DEFINE x == s + k
<1>2. x \in Int /\ x >= -Modulus /\ x < Modulus + Modulus /\ Modulus >= 1
  BY <1>1, Sizes
<1> HIDE DEF x
<1>3. x % Modulus = IF x < 0 THEN x + Modulus ELSE IF x < Modulus THEN x ELSE x - Modulus
  BY <1>2, Sizes, Remainder
<1>4. Plus(s, k) = x % Modulus
  BY DEF Plus, x
<1>5. Plus(s, k) \in Nat /\ Plus(s, k) < Modulus
  BY <1>2, <1>3, <1>4, Sizes
<1>6. Plus(s, k) \in Seqs
  BY <1>5, InSeqs
<1>7. Plus(s, k) = IF x < 0 THEN x + Modulus ELSE IF x < Modulus THEN x ELSE x - Modulus
  BY <1>3, <1>4
<1>8. QED
  BY <1>1, <1>6, <1>7 DEF x

LEMMA NextIs ==
  ASSUME NEW s \in Seqs
  PROVE  Plus(s, 1) \in Seqs /\ Plus(s, 1) = IF s + 1 < Modulus THEN s + 1 ELSE 0
<1>1. s \in Nat /\ s < Modulus /\ Modulus \in Nat /\ 1 <= Modulus /\ 1 >= -Modulus
  BY InSeqs, Sizes
<1>2. /\ Plus(s, 1) \in Seqs
      /\ Plus(s, 1) = IF s + 1 < 0 THEN s + 1 + Modulus ELSE IF s + 1 < Modulus THEN s + 1 ELSE s + 1 - Modulus
  BY <1>1, PlusIs
<1>3. QED
  BY <1>1, <1>2

\* How far number s lies behind the one that follows last.
BehindOf(last, s) == Ahead(Plus(last, 1), s)

LEMMA BehindIs ==
  ASSUME NEW last \in Seqs, NEW s \in Seqs
  PROVE  /\ BehindOf(last, s) \in Nat /\ BehindOf(last, s) < Modulus
         /\ BehindOf(last, s) = IF last + 1 = s THEN 0 ELSE IF last >= s
                                THEN IF last - s + 1 = Modulus THEN 0 ELSE last - s + 1
                                ELSE last - s + 1 + Modulus
<1>1. last \in Nat /\ last < Modulus /\ s \in Nat /\ s < Modulus /\ Modulus \in Nat
  BY InSeqs, Sizes
<1> DEFINE n == Plus(last, 1)
<1>2. n \in Seqs /\ n = IF last + 1 < Modulus THEN last + 1 ELSE 0
  BY NextIs
<1>3. BehindOf(last, s) = Ahead(n, s)
  BY DEF BehindOf
<1> HIDE DEF n
<1>4. /\ Ahead(n, s) \in Nat /\ Ahead(n, s) < Modulus
      /\ Ahead(n, s) = IF n >= s THEN n - s ELSE n - s + Modulus
  BY <1>2, AheadIs
<1>5. QED
  BY <1>1, <1>2, <1>3, <1>4

\* The same distance, the same number.
LEMMA OneBehind ==
  ASSUME NEW last \in Seqs, NEW s \in Seqs, NEW t \in Seqs, BehindOf(last, s) = BehindOf(last, t)
  PROVE  s = t
<1>1. last \in Nat /\ last < Modulus /\ s \in Nat /\ s < Modulus /\ t \in Nat /\ t < Modulus /\ Modulus \in Nat
  BY InSeqs, Sizes
<1> DEFINE x == BehindOf(last, s)
<1>2. x = IF last + 1 = s THEN 0 ELSE IF last >= s
          THEN IF last - s + 1 = Modulus THEN 0 ELSE last - s + 1 ELSE last - s + 1 + Modulus
  BY BehindIs
<1>3. x = IF last + 1 = t THEN 0 ELSE IF last >= t
          THEN IF last - t + 1 = Modulus THEN 0 ELSE last - t + 1 ELSE last - t + 1 + Modulus
  BY BehindIs
<1> HIDE DEF x
<1>4. QED
  BY <1>1, <1>2, <1>3

LEMMA BehindGrows ==
  ASSUME NEW last \in Seqs, NEW s \in Seqs
  PROVE  BehindOf(Plus(last, 1), s) = IF BehindOf(last, s) = Modulus - 1 THEN 0 ELSE BehindOf(last, s) + 1
<1>1. last \in Nat /\ last < Modulus /\ s \in Nat /\ s < Modulus /\ Modulus \in Nat /\ Modulus >= 8
  BY InSeqs, Sizes
<1> DEFINE x == BehindOf(last, s)
           n == Plus(last, 1)
           y == BehindOf(n, s)
<1>2. x = IF last + 1 = s THEN 0 ELSE IF last >= s
          THEN IF last - s + 1 = Modulus THEN 0 ELSE last - s + 1 ELSE last - s + 1 + Modulus
  BY BehindIs
<1>3. n \in Seqs /\ n = IF last + 1 < Modulus THEN last + 1 ELSE 0
  BY NextIs
<1> HIDE DEF x, n
<1>4. y = IF n + 1 = s THEN 0 ELSE IF n >= s
          THEN IF n - s + 1 = Modulus THEN 0 ELSE n - s + 1 ELSE n - s + 1 + Modulus
  BY <1>3, BehindIs
<1> HIDE DEF y
<1>5. y = IF x = Modulus - 1 THEN 0 ELSE x + 1
  BY <1>1, <1>2, <1>3, <1>4
<1>6. QED
  BY <1>5 DEF x, y, n

LEMMA NewestBehind ==
  ASSUME NEW last \in Seqs
  PROVE  BehindOf(last, last) = 1 /\ BehindOf(last, Plus(last, 1)) = 0 /\ BehindOf(Plus(last, 1), Plus(last, 1)) = 1
<1>1. last \in Nat /\ last < Modulus /\ Modulus \in Nat /\ Modulus >= 8
  BY InSeqs, Sizes
<1> DEFINE n == Plus(last, 1)
<1>2. n \in Seqs /\ n = IF last + 1 < Modulus THEN last + 1 ELSE 0
  BY NextIs
<1> HIDE DEF n
<1>3. BehindOf(last, last) = 1
  BY <1>1, BehindIs
<1>4. BehindOf(last, n) = 0
  BY <1>1, <1>2, BehindIs
<1>5. n \in Nat /\ n < Modulus /\ BehindOf(n, n) = IF n - n + 1 = Modulus THEN 0 ELSE n - n + 1
  BY <1>1, <1>2, BehindIs
<1>6. BehindOf(n, n) = 1
  BY <1>1, <1>5
<1>7. QED
  BY <1>3, <1>4, <1>6 DEF n

LEMMA AheadBehind ==
  ASSUME NEW last \in Seqs, NEW s \in Seqs, NEW t \in Seqs
  PROVE  Ahead(s, t) = IF BehindOf(last, t) >= BehindOf(last, s) THEN BehindOf(last, t) - BehindOf(last, s)
                       ELSE BehindOf(last, t) - BehindOf(last, s) + Modulus
<1>1. last \in Nat /\ last < Modulus /\ s \in Nat /\ s < Modulus /\ t \in Nat /\ t < Modulus /\ Modulus \in Nat
  BY InSeqs, Sizes
<1> DEFINE x == BehindOf(last, s)
           y == BehindOf(last, t)
<1>2. x = IF last + 1 = s THEN 0 ELSE IF last >= s
          THEN IF last - s + 1 = Modulus THEN 0 ELSE last - s + 1 ELSE last - s + 1 + Modulus
  BY BehindIs
<1>3. y = IF last + 1 = t THEN 0 ELSE IF last >= t
          THEN IF last - t + 1 = Modulus THEN 0 ELSE last - t + 1 ELSE last - t + 1 + Modulus
  BY BehindIs
<1>4. Ahead(s, t) = IF s >= t THEN s - t ELSE s - t + Modulus
  BY AheadIs
<1> HIDE DEF x, y
<1>5. Ahead(s, t) = IF y >= x THEN y - x ELSE y - x + Modulus
  BY <1>1, <1>2, <1>3, <1>4
<1>6. QED
  BY <1>5 DEF x, y

LEMMA BehindPlus ==
  ASSUME NEW last \in Seqs, NEW s \in Seqs, NEW k \in Int, k <= BehindOf(last, s), k > BehindOf(last, s) - Modulus
  PROVE  Plus(s, k) \in Seqs /\ BehindOf(last, Plus(s, k)) = BehindOf(last, s) - k
<1>1. last \in Nat /\ last < Modulus /\ s \in Nat /\ s < Modulus /\ Modulus \in Nat /\ Modulus >= 8
  BY InSeqs, Sizes
<1> DEFINE x == BehindOf(last, s)
           n == Plus(s, k)
           y == BehindOf(last, n)
<1>2. x \in Nat /\ x < Modulus
      /\ x = IF last + 1 = s THEN 0 ELSE IF last >= s
             THEN IF last - s + 1 = Modulus THEN 0 ELSE last - s + 1 ELSE last - s + 1 + Modulus
  BY BehindIs
<1>3. k <= x /\ k > x - Modulus
  OBVIOUS
<1> HIDE DEF x
<1>4. k >= -Modulus /\ k <= Modulus
  BY <1>1, <1>2, <1>3
<1>5. n \in Seqs /\ n = IF s + k < 0 THEN s + k + Modulus ELSE IF s + k < Modulus THEN s + k ELSE s + k - Modulus
  BY <1>4, PlusIs
<1> HIDE DEF n
<1>6. y = IF last + 1 = n THEN 0 ELSE IF last >= n
          THEN IF last - n + 1 = Modulus THEN 0 ELSE last - n + 1 ELSE last - n + 1 + Modulus
  BY <1>5, BehindIs
<1> HIDE DEF y
<1>7. y = x - k
  BY <1>1, <1>2, <1>3, <1>5, <1>6
<1>8. QED
  BY <1>5, <1>7 DEF x, y, n

LEMMA AheadPlus ==
  ASSUME NEW s \in Seqs, NEW k \in Nat, k < Modulus
  PROVE  Plus(s, k) \in Seqs /\ Ahead(Plus(s, k), s) = k
<1>1. s \in Nat /\ s < Modulus /\ Modulus \in Nat
  BY InSeqs, Sizes
<1> DEFINE n == Plus(s, k)
<1>2. k \in Int /\ k >= -Modulus /\ k <= Modulus
  BY <1>1
<1>3. n \in Seqs /\ n = IF s + k < 0 THEN s + k + Modulus ELSE IF s + k < Modulus THEN s + k ELSE s + k - Modulus
  BY <1>2, PlusIs
<1> HIDE DEF n
<1>4. Ahead(n, s) = IF n >= s THEN n - s ELSE n - s + Modulus
  BY <1>3, AheadIs
<1>5. Ahead(n, s) = k
  BY <1>1, <1>3, <1>4
<1>6. QED
  BY <1>3, <1>5 DEF n

LEMMA PlusAhead ==
  ASSUME NEW s \in Seqs, NEW t \in Seqs
  PROVE  Plus(s, Ahead(t, s)) = t
<1>1. s \in Nat /\ s < Modulus /\ t \in Nat /\ t < Modulus /\ Modulus \in Nat
  BY InSeqs, Sizes
<1> DEFINE k == Ahead(t, s)
<1>2. k \in Nat /\ k < Modulus /\ k = IF t >= s THEN t - s ELSE t - s + Modulus
  BY AheadIs
<1> HIDE DEF k
<1>3. k \in Int /\ k >= -Modulus /\ k <= Modulus
  BY <1>1, <1>2
<1>4. Plus(s, k) = IF s + k < 0 THEN s + k + Modulus ELSE IF s + k < Modulus THEN s + k ELSE s + k - Modulus
  BY <1>3, PlusIs
<1>5. Plus(s, k) = t
  BY <1>1, <1>2, <1>4
<1>6. QED
  BY <1>5 DEF k

\* Two numbers less than a ring apart have different slots.
LEMMA SlotOf ==
  ASSUME NEW s \in Seqs
  PROVE  s % Ring \in Slots
BY Sizes, InSeqs DEF Slots

LEMMA RemainderOf ==
  ASSUME NEW n \in Nat, n >= 1, NEW q \in Int, NEW r \in 0..(n - 1), NEW x \in Int, x = n * q + r
  PROVE  x % n = r
<1> DEFINE p == x \div n
           t == x % n
<1>1. p \in Int /\ t \in 0..(n - 1) /\ x = n * p + t
  OBVIOUS
<1> HIDE DEF p, t
<1>2. n * (q - p) = n * q - n * p /\ n * q \in Int /\ n * p \in Int
  BY <1>1
<1>3. n * (q - p) = t - r
  <2> DEFINE a == n * q
             b == n * p
  <2>1. x = a + r /\ x = b + t /\ a \in Int /\ b \in Int
    BY <1>1, <1>2
  <2>2. n * (q - p) = a - b
    BY <1>2
  <2> HIDE DEF a, b
  <2>3. QED
    BY <1>1, <2>1, <2>2
<1>4. q - p < 1
  <2>1. ASSUME q - p >= 1 PROVE FALSE
    <3>1. n * (q - p) >= n
      BY <1>1, <2>1
    <3>2. QED
      BY <1>1, <1>3, <3>1
  <2>2. QED
    BY <1>1, <2>1
<1>5. q - p > -1
  <2>1. ASSUME q - p <= -1 PROVE FALSE
    <3>1. n * (q - p) <= -n
      BY <1>1, <2>1
    <3>2. QED
      BY <1>1, <1>3, <3>1
  <2>2. QED
    BY <1>1, <2>1
<1>6. q = p
  BY <1>1, <1>4, <1>5
<1>7. t = r
  BY <1>1, <1>3, <1>6
<1>8. QED
  BY <1>7 DEF t

\* A ring farther on the slot comes again.
LEMMA SlotComesAgain ==
  ASSUME NEW s \in Seqs
  PROVE  s % Ring = Plus(s, Ring) % Ring
<1>1. s \in Nat /\ s < Modulus /\ Modulus \in Nat /\ Ring \in Nat /\ Ring >= 1 /\ Modulus >= 8 * Ring
  BY InSeqs, Sizes
<1> DEFINE p == s \div Ring
           r == s % Ring
           m == Modulus \div Ring
           t == Plus(s, Ring)
<1>2. p \in Int /\ r \in 0..(Ring - 1) /\ s = Ring * p + r
  BY <1>1
<1>3. m \in Int /\ Modulus = Ring * m
  BY <1>1, StripeAssumption
<1>4. t \in Seqs /\ t = IF s + Ring < Modulus THEN s + Ring ELSE s + Ring - Modulus
  <2>1. Ring \in Int /\ Ring >= -Modulus /\ Ring <= Modulus /\ ~(s + Ring < 0)
    BY <1>1
  <2>2. QED
    BY <2>1, PlusIs
<1> HIDE DEF p, r, m, t
<1>5. Ring * (p + 1) = Ring * p + Ring /\ Ring * (p + 1 - m) = Ring * p + Ring - Ring * m
  BY <1>1, <1>2, <1>3
<1>6. Ring * p \in Int /\ Ring * m \in Int
  BY <1>1, <1>2, <1>3
<1> DEFINE a == Ring * p
           b == Ring * m
           c == Ring * (p + 1)
           d == Ring * (p + 1 - m)
<1>7. t = c + r \/ t = d + r
  <2>1. a \in Int /\ b \in Int /\ c = a + Ring /\ d = a + Ring - b /\ s = a + r /\ Modulus = b
    BY <1>2, <1>3, <1>5, <1>6
  <2> HIDE DEF a, b, c, d
  <2>2. r \in Int
    BY <1>2
  <2>3. CASE s + Ring < Modulus
    BY <1>1, <1>4, <2>1, <2>2, <2>3
  <2>4. CASE ~(s + Ring < Modulus)
    BY <1>1, <1>4, <2>1, <2>2, <2>4
  <2>5. QED
    BY <2>3, <2>4
<1>8. t \in Int /\ p + 1 \in Int /\ p + 1 - m \in Int
  BY <1>2, <1>3, <1>4, InSeqs
<1>9. t % Ring = r
  <2>1. CASE t = c + r
    BY <1>1, <1>2, <1>8, <2>1, RemainderOf
  <2>2. CASE t = d + r
    <3> DEFINE q == p + 1 - m
    <3>1. q \in Int /\ t = Ring * q + r
      BY <1>8, <2>2
    <3> HIDE DEF q
    <3>2. QED
      BY <1>1, <1>2, <1>8, <3>1, RemainderOf
  <2>3. QED
    BY <1>7, <2>1, <2>2
<1>10. QED
  BY <1>9 DEF r, t

LEMMA SlotsApart ==
  ASSUME NEW s \in Seqs, NEW t \in Seqs, s % Ring = t % Ring, Ahead(s, t) < Ring
  PROVE  s = t
<1> DEFINE p == s \div Ring
           q == t \div Ring
           m == Modulus \div Ring
           r == s % Ring
<1>1. p \in Int /\ q \in Int /\ m \in Int /\ r \in Int /\ s = Ring * p + r /\ t = Ring * q + r
  <2>1. s \in Nat /\ t \in Nat /\ Modulus \in Nat /\ Ring \in Nat /\ Ring >= 1
    BY Sizes, InSeqs
  <2>2. p \in Int /\ q \in Int /\ m \in Int /\ r \in Int
    BY <2>1
  <2>3. s = Ring * p + (s % Ring)
    BY <2>1
  <2>4. t = Ring * q + (t % Ring)
    BY <2>1
  <2>5. QED
    BY <2>2, <2>3, <2>4
<1>2. Modulus = Ring * m
  BY Sizes, StripeAssumption
<1> DEFINE e == IF s >= t THEN p - q ELSE p - q + m
<1>3. e \in Int /\ Ahead(s, t) = Ring * e
  <2> HIDE DEF p, q, m, r
  <2>1. Ring * (p - q) = Ring * p - Ring * q /\ Ring * (p - q + m) = Ring * p - Ring * q + Ring * m
    BY <1>1, Sizes
  <2>2. Ring * p \in Int /\ Ring * q \in Int /\ Ring * m \in Int
    BY <1>1, Sizes
  <2>3. Ahead(s, t) = IF s >= t THEN Ring * p - Ring * q ELSE Ring * p - Ring * q + Ring * m
    <3>1. Ahead(s, t) = IF s >= t THEN s - t ELSE s - t + Modulus
      BY AheadIs
    <3>2. QED
      BY <1>1, <1>2, <2>2, <3>1
  <2>4. QED
    BY <1>1, <2>1, <2>3 DEF e
<1> HIDE DEF e
<1>4. e < 1
  <2>1. ASSUME e >= 1 PROVE FALSE
    <3>1. Ring * e >= Ring
      BY <1>3, <2>1, Sizes
    <3>2. QED
      BY <1>3, <3>1, Sizes
  <2>2. QED
    BY <1>3, <2>1
<1>5. e > -1
  <2>1. ASSUME e <= -1 PROVE FALSE
    <3>1. Ring * e <= -Ring
      BY <1>3, <2>1, Sizes
    <3>2. Ahead(s, t) \in Nat
      BY AheadIs
    <3>3. QED
      BY <1>3, <3>1, <3>2, Sizes
  <2>2. QED
    BY <1>3, <2>1
<1>6. e = 0
  BY <1>3, <1>4, <1>5
<1>7. Ahead(s, t) = 0
  BY <1>3, <1>6, Sizes
<1>8. s \in Nat /\ s < Modulus /\ t \in Nat /\ t < Modulus /\ Modulus \in Nat
  BY InSeqs, Sizes
<1>9. Ahead(s, t) = IF s >= t THEN s - t ELSE s - t + Modulus
  BY AheadIs
<1>10. QED
  BY <1>7, <1>8, <1>9

\* The signed comparison, for numbers less than half of them apart.
LEMMA SignedIs ==
  ASSUME NEW d \in Nat, d < Modulus
  PROVE  /\ Signed(d) \in {d, d - Modulus}
         /\ d <= 4 * Ring - 1 => Signed(d) = d
         /\ d >= Modulus - 4 * Ring => Signed(d) = d - Modulus
<1> DEFINE h == Modulus \div 2
<1>1. h \in Nat /\ 2 * h <= Modulus /\ Modulus <= 2 * h + 1
  BY Sizes
<1>2. Signed(d) = IF d < h THEN d ELSE d - Modulus
  BY DEF Signed
<1> HIDE DEF h
<1>3. QED
  BY <1>1, <1>2, Sizes

LEMMA BeforeIs ==
  ASSUME NEW a \in Seqs, NEW b \in Seqs
  PROVE  /\ Ahead(a, b) <= 4 * Ring - 1 => ~Before(a, b)
         /\ Ahead(b, a) >= 1 /\ Ahead(b, a) <= 4 * Ring => Before(a, b)
<1> DEFINE x == Ahead(a, b)
           y == Ahead(b, a)
<1>1. x \in Nat /\ x < Modulus /\ y \in Nat /\ y < Modulus
  BY AheadIs
<1>2. y # 0 => x = Modulus - y
  <2>1. a \in Nat /\ a < Modulus /\ b \in Nat /\ b < Modulus /\ Modulus \in Nat
    BY InSeqs, Sizes
  <2>2. x = IF a >= b THEN a - b ELSE a - b + Modulus
    BY AheadIs
  <2>3. y = IF b >= a THEN b - a ELSE b - a + Modulus
    BY AheadIs
  <2> HIDE DEF x, y
  <2>4. QED
    BY <2>1, <2>2, <2>3
<1>3. Before(a, b) <=> Signed(x) < 0
  BY DEF Before
<1> HIDE DEF x, y
<1>4. x <= 4 * Ring - 1 => ~(Signed(x) < 0)
  BY <1>1, SignedIs
<1>5. y >= 1 /\ y <= 4 * Ring => Signed(x) < 0
  <2> SUFFICES ASSUME y >= 1, y <= 4 * Ring PROVE Signed(x) < 0
    OBVIOUS
  <2>1. x = Modulus - y /\ x >= Modulus - 4 * Ring
    BY <1>1, <1>2, Sizes
  <2>2. Signed(x) = x - Modulus
    BY <1>1, <2>1, SignedIs
  <2>3. QED
    BY <1>1, <2>2, Sizes
<1>6. QED
  BY <1>3, <1>4, <1>5 DEF x, y

----------------------------------------------------------------------------
(* The window of the receiver.                                             *)

Outs == [packet : Packet, gap : BOOLEAN]
Rings == [Slots -> Packet \cup {NoPacket}]
Window == [started : BOOLEAN, next : Seqs, hi : Seqs, ring : Rings, gap : BOOLEAN, out : Seq(Outs)]

PiecesOut(r) == {r.out[i].packet.piece : i \in DOMAIN r.out}

\* What is buffered is in its slot, and less than top from next.
Near(ring, next, top) ==
    \A i \in Slots : ring[i] # NoPacket => ring[i].seq % Ring = i /\ Ahead(ring[i].seq, next) < top

\* The slots of what is less than far from next, and the ring without it.
Within(ring, next, far) == {i \in Slots : ring[i] # NoPacket /\ Ahead(ring[i].seq, next) < far}
Without(ring, next, far) ==
    [i \in Slots |-> IF ring[i] # NoPacket /\ Ahead(ring[i].seq, next) < far THEN NoPacket ELSE ring[i]]

LEMMA NoPacketIs ==
  /\ NoPacket \notin Packet /\ NoPacket.seq = Modulus /\ Modulus \notin Seqs
  /\ \A m \in Packet : m.seq \in Seqs /\ m.low \in Seqs /\ m.piece \in Pieces
<1>1. NoPacket.seq = Modulus /\ Modulus \notin Seqs
  BY InSeqs, Sizes DEF NoPacket
<1>2. \A m \in Packet : m.seq \in Seqs /\ m.low \in Seqs /\ m.piece \in Pieces
  BY DEF Packet
<1>3. QED
  BY <1>1, <1>2

LEMMA HeldIs ==
  ASSUME NEW ring \in Rings, NEW s \in Seqs, Held(ring, s)
  PROVE  s % Ring \in Slots /\ ring[s % Ring] \in Packet /\ ring[s % Ring] # NoPacket /\ ring[s % Ring].seq = s
<1>1. s % Ring \in Slots
  BY SlotOf
<1>2. ring[s % Ring] \in Packet \cup {NoPacket} /\ ring[s % Ring].seq = s
  BY <1>1 DEF Rings, Held
<1>3. QED
  BY <1>1, <1>2, NoPacketIs

LEMMA EntryIs ==
  ASSUME NEW ring \in Rings, NEW i \in Slots, ring[i] # NoPacket
  PROVE  /\ ring[i] \in Packet /\ ring[i].seq \in Seqs /\ ring[i].low \in Seqs /\ ring[i].piece \in Pieces
         /\ ring[i].seq % Ring = i => Held(ring, ring[i].seq)
<1>1. ring[i] \in Packet
  BY DEF Rings
<1>2. QED
  BY <1>1, NoPacketIs DEF Held

\* What is held less than a ring from next is there under its distance from next.
LEMMA HeldByDistance ==
  ASSUME NEW ring \in Rings, NEW next \in Seqs, Near(ring, next, Ring), NEW far \in Nat
  PROVE  /\ \A k \in Nat : k < Ring /\ k < far /\ Held(ring, Plus(next, k)) =>
              /\ Plus(next, k) % Ring \in Within(ring, next, far)
              /\ Plus(next, k) \in Seqs /\ ring[Plus(next, k) % Ring].seq = Plus(next, k)
         /\ \A i \in Within(ring, next, far) :
              \E k \in Nat : /\ k < Ring /\ k < far /\ Held(ring, Plus(next, k))
                             /\ ring[i].seq = Plus(next, k) /\ Plus(next, k) % Ring = i
<1>1. ASSUME NEW k \in Nat, k < Ring, k < far, Held(ring, Plus(next, k))
      PROVE  Plus(next, k) % Ring \in Within(ring, next, far)
             /\ Plus(next, k) \in Seqs /\ ring[Plus(next, k) % Ring].seq = Plus(next, k)
  <2> DEFINE s == Plus(next, k)
  <2>1. k < Modulus
    BY <1>1, Sizes
  <2>2. s \in Seqs /\ Ahead(s, next) = k
    BY <1>1, <2>1, AheadPlus
  <2>3. Held(ring, s)
    BY <1>1
  <2> HIDE DEF s
  <2>4. s % Ring \in Slots /\ ring[s % Ring] # NoPacket /\ ring[s % Ring].seq = s
    BY <2>2, <2>3, HeldIs
  <2>5. s % Ring \in Within(ring, next, far)
    BY <1>1, <2>2, <2>4 DEF Within
  <2>6. QED
    BY <2>2, <2>4, <2>5 DEF s
<1>2. ASSUME NEW i \in Within(ring, next, far)
      PROVE  \E k \in Nat : /\ k < Ring /\ k < far /\ Held(ring, Plus(next, k))
                            /\ ring[i].seq = Plus(next, k) /\ Plus(next, k) % Ring = i
  <2> DEFINE s == ring[i].seq
             k == Ahead(s, next)
  <2>1. i \in Slots /\ ring[i] # NoPacket /\ k < far
    BY DEF Within
  <2>2. s \in Seqs /\ s % Ring = i /\ Held(ring, s) /\ k < Ring
    BY <2>1, EntryIs DEF Near
  <2>3. k \in Nat
    BY <2>2, AheadIs
  <2>4. Plus(next, k) = s
    BY <2>2, PlusAhead
  <2>5. k < Ring /\ k < far /\ Held(ring, Plus(next, k)) /\ ring[i].seq = Plus(next, k) /\ Plus(next, k) % Ring = i
    BY <2>1, <2>2, <2>4
  <2>6. QED
    BY <2>3, <2>5
<1>3. QED
  BY <1>1, <1>2

LEMMA RingWithout ==
  ASSUME NEW ring \in Rings, NEW next, NEW far
  PROVE  Without(ring, next, far) \in Rings
BY DEF Rings, Without

LEMMA MoveToIs ==
  ASSUME NEW r \in Window, NEW s \in Seqs, Near(r.ring, r.next, Ring)
  PROVE  /\ MoveTo(r, s) \in Window
         /\ MoveTo(r, s).started = r.started /\ MoveTo(r, s).next = s /\ MoveTo(r, s).hi = r.hi
         /\ MoveTo(r, s).ring = Without(r.ring, r.next, Ahead(s, r.next))
         /\ PiecesOut(MoveTo(r, s)) =
              PiecesOut(r) \cup {r.ring[i].piece : i \in Within(r.ring, r.next, Ahead(s, r.next))}
<1> DEFINE far == Ahead(s, r.next)
           have == {k \in 0..(Ring - 1) : k < far /\ Held(r.ring, Plus(r.next, k))}
           O(k) == [packet |-> r.ring[Plus(r.next, k) % Ring], gap |-> IF k = 0 THEN r.gap ELSE k - 1 \notin have]
           new == [n \in 1..Cardinality(have) |-> O(Nth(have, n))]
           gap == IF far = 0 THEN r.gap ELSE far - 1 \notin have
           left == [i \in Slots |-> IF r.ring[i].seq \in {Plus(r.next, k) : k \in have} THEN NoPacket ELSE r.ring[i]]
<1>1. MoveTo(r, s) = [r EXCEPT !.next = s, !.ring = left, !.gap = gap, !.out = r.out \o new]
  BY DEF MoveTo
<1>2. /\ r.started \in BOOLEAN /\ r.next \in Seqs /\ r.hi \in Seqs /\ r.ring \in Rings /\ r.gap \in BOOLEAN
      /\ r.out \in Seq(Outs)
  BY DEF Window
<1>3. far \in Nat
  BY <1>2, AheadIs
<1>4. have \in SUBSET Nat /\ IsFiniteSet(have)
  <2>1. IsFiniteSet(0..(Ring - 1))
    BY Sizes, FS_Interval
  <2>2. have \in SUBSET (0..(Ring - 1))
    OBVIOUS
  <2>3. 0..(Ring - 1) \subseteq Nat
    BY Sizes
  <2> HIDE DEF have
  <2>4. IsFiniteSet(have)
    BY <2>1, <2>2, FS_Subset
  <2>5. QED
    BY <2>2, <2>3, <2>4
<1>5. \A k \in have : Plus(r.next, k) % Ring \in Within(r.ring, r.next, far)
      /\ Plus(r.next, k) \in Seqs /\ r.ring[Plus(r.next, k) % Ring].seq = Plus(r.next, k)
  <2> TAKE k \in have
  <2>1. k \in Nat /\ k < Ring /\ k < far /\ Held(r.ring, Plus(r.next, k))
    BY Sizes
  <2> HIDE DEF have, far
  <2>2. QED
    BY <1>2, <1>3, <2>1, HeldByDistance
<1>6. \A i \in Within(r.ring, r.next, far) :
        \E k \in have : r.ring[i].seq = Plus(r.next, k) /\ Plus(r.next, k) % Ring = i
  <2> TAKE i \in Within(r.ring, r.next, far)
  <2>1. PICK k \in Nat : /\ k < Ring /\ k < far /\ Held(r.ring, Plus(r.next, k))
                         /\ r.ring[i].seq = Plus(r.next, k) /\ Plus(r.next, k) % Ring = i
    BY <1>2, <1>3, HeldByDistance
  <2>2. k \in have
    BY <2>1, Sizes
  <2>3. QED
    BY <2>1, <2>2
<1>7. left = Without(r.ring, r.next, far)
  <2> SUFFICES ASSUME NEW i \in Slots
               PROVE  r.ring[i].seq \in {Plus(r.next, k) : k \in have} <=> i \in Within(r.ring, r.next, far)
    BY DEF Without, Within
  <2>1. ASSUME i \in Within(r.ring, r.next, far) PROVE r.ring[i].seq \in {Plus(r.next, k) : k \in have}
    <3> HIDE DEF have, far
    <3>1. QED
      BY <1>6, <2>1
  <2>2. ASSUME NEW k \in have, r.ring[i].seq = Plus(r.next, k) PROVE i \in Within(r.ring, r.next, far)
    <3> HIDE DEF have, far
    <3>1. Plus(r.next, k) \in Seqs
      BY <1>5
    <3>2. r.ring[i] # NoPacket
      BY <2>2, <3>1, NoPacketIs
    <3>3. r.ring[i].seq % Ring = i
      BY <3>2 DEF Near
    <3>4. QED
      BY <1>5, <2>2, <3>3
  <2>3. QED
    BY <2>1, <2>2
<1>8. gap \in BOOLEAN
  BY <1>2
<1>9. Cardinality(have) \in Nat /\ \A n \in 1..Cardinality(have) : Nth(have, n) \in have
  <2> HIDE DEF have
  <2>1. Cardinality(have) \in Nat
    BY <1>4, FS_CardinalityType
  <2>2. ASSUME NEW n \in 1..Cardinality(have) PROVE Nth(have, n) \in have
    <3>1. \E k \in have : Cardinality({j \in have : j <= k}) = n
      BY <1>4, Ranks
    <3>2. QED
      BY <3>1 DEF Nth
  <2>3. QED
    BY <2>1, <2>2
<1>10. \A k \in have : \E n \in 1..Cardinality(have) : Nth(have, n) = k
  <2> HIDE DEF have
  <2> TAKE k \in have
  <2> DEFINE n == Cardinality({j \in have : j <= k})
  <2>1. n \in 1..Cardinality(have)
    BY <1>4, Ranks
  <2>2. Nth(have, n) \in have /\ Cardinality({j \in have : j <= Nth(have, n)}) = n
    <3>1. \E j \in have : Cardinality({l \in have : l <= j}) = n
      OBVIOUS
    <3> HIDE DEF n
    <3>2. QED
      BY <3>1 DEF Nth
  <2>3. Nth(have, n) = k
    <3> DEFINE x == Nth(have, n)
    <3>1. x \in have /\ Cardinality({j \in have : j <= x}) = Cardinality({j \in have : j <= k})
      BY <2>2
    <3> HIDE DEF x
    <3>2. \A a, b \in have : Cardinality({j \in have : j <= a}) = Cardinality({j \in have : j <= b}) => a = b
      BY <1>4, Ranks
    <3>3. x = k
      BY <3>1, <3>2
    <3>4. QED
      BY <3>3 DEF x
  <2>4. QED
    BY <2>1, <2>3
<1>11. \A k \in have : O(k) \in Outs /\ O(k).packet = r.ring[Plus(r.next, k) % Ring]
  <2> TAKE k \in have
  <2>1. Plus(r.next, k) % Ring \in Within(r.ring, r.next, far)
    BY <1>5
  <2>2. r.ring[Plus(r.next, k) % Ring] \in Packet
    BY <1>2, <2>1, EntryIs DEF Within
  <2>3. (IF k = 0 THEN r.gap ELSE k - 1 \notin have) \in BOOLEAN
    BY <1>2
  <2>4. QED
    BY <2>2, <2>3 DEF Outs
<1> HIDE DEF have, O, gap, left, far
<1>12. new \in Seq(Outs) /\ Len(new) = Cardinality(have) /\ DOMAIN new = 1..Cardinality(have)
  <2>1. new \in [1..Cardinality(have) -> Outs]
    BY <1>9, <1>11
  <2>2. QED
    BY <1>9, <2>1, FunctionIsSeq
<1>13. {new[i].packet.piece : i \in DOMAIN new} = {r.ring[i].piece : i \in Within(r.ring, r.next, far)}
  <2>1. ASSUME NEW n \in DOMAIN new
        PROVE  \E i \in Within(r.ring, r.next, far) : new[n].packet.piece = r.ring[i].piece
    <3>1. n \in 1..Cardinality(have) /\ new[n] = O(Nth(have, n)) /\ Nth(have, n) \in have
      BY <1>9, <1>12, <2>1
    <3>2. QED
      BY <1>5, <1>11, <3>1
  <2>2. ASSUME NEW i \in Within(r.ring, r.next, far)
        PROVE  \E n \in DOMAIN new : new[n].packet.piece = r.ring[i].piece
    <3>1. PICK k \in have : Plus(r.next, k) % Ring = i
      BY <1>6
    <3>2. PICK n \in 1..Cardinality(have) : Nth(have, n) = k
      BY <1>10
    <3>3. n \in DOMAIN new /\ new[n] = O(k)
      BY <1>12, <3>2
    <3>4. QED
      BY <1>11, <3>1, <3>3
  <2>3. QED
    BY <2>1, <2>2
<1> HIDE DEF new
<1>14. /\ r.out \o new \in Seq(Outs)
       /\ {(r.out \o new)[i].packet.piece : i \in DOMAIN (r.out \o new)} =
            PiecesOut(r) \cup {new[i].packet.piece : i \in DOMAIN new}
  <2>1. r.out \o new \in Seq(Outs) /\ ToSet(r.out \o new) = ToSet(r.out) \cup ToSet(new)
    BY <1>2, <1>12, Together
  <2>2. {(r.out \o new)[i].packet.piece : i \in DOMAIN (r.out \o new)} = {o.packet.piece : o \in ToSet(r.out \o new)}
    BY DEF ToSet
  <2>3. PiecesOut(r) = {o.packet.piece : o \in ToSet(r.out)}
    BY DEF ToSet, PiecesOut
  <2>4. {new[i].packet.piece : i \in DOMAIN new} = {o.packet.piece : o \in ToSet(new)}
    BY DEF ToSet
  <2>5. QED
    BY <2>1, <2>2, <2>3, <2>4
<1>15. left \in Rings
  BY <1>2, <1>7, RingWithout
<1>16. MoveTo(r, s) = [started |-> r.started, next |-> s, hi |-> r.hi, ring |-> left, gap |-> gap, out |-> r.out \o new]
  BY <1>1 DEF Window
<1>17. MoveTo(r, s) \in Window
  BY <1>2, <1>8, <1>14, <1>15, <1>16 DEF Window
<1>18. MoveTo(r, s).out = r.out \o new
  BY <1>16
<1>19. PiecesOut(MoveTo(r, s)) = PiecesOut(r) \cup {r.ring[i].piece : i \in Within(r.ring, r.next, far)}
  BY <1>13, <1>14, <1>18 DEF PiecesOut
<1>20. MoveTo(r, s).started = r.started /\ MoveTo(r, s).next = s /\ MoveTo(r, s).hi = r.hi /\ MoveTo(r, s).ring = left
  BY <1>16
<1>21. QED
  BY <1>7, <1>17, <1>19, <1>20 DEF far

\* Distances from one number and from one farther on.
LEMMA AheadMoves ==
  ASSUME NEW a \in Seqs, NEW b \in Seqs, NEW c \in Seqs
  PROVE  /\ Ahead(a, b) >= Ahead(c, b) => Ahead(a, c) = Ahead(a, b) - Ahead(c, b)
         /\ Ahead(a, b) < Ahead(c, b) => Ahead(c, a) = Ahead(c, b) - Ahead(a, b)
<1>1. a \in Nat /\ a < Modulus /\ b \in Nat /\ b < Modulus /\ c \in Nat /\ c < Modulus /\ Modulus \in Nat
  BY InSeqs, Sizes
<1> DEFINE x == Ahead(a, b)
           y == Ahead(c, b)
           z == Ahead(a, c)
           w == Ahead(c, a)
<1>2. x = IF a >= b THEN a - b ELSE a - b + Modulus
  BY AheadIs
<1>3. y = IF c >= b THEN c - b ELSE c - b + Modulus
  BY AheadIs
<1>4. z = IF a >= c THEN a - c ELSE a - c + Modulus
  BY AheadIs
<1>5. w = IF c >= a THEN c - a ELSE c - a + Modulus
  BY AheadIs
<1> HIDE DEF x, y, z, w
<1>6. (x >= y => z = x - y) /\ (x < y => w = y - x)
  BY <1>1, <1>2, <1>3, <1>4, <1>5
<1>7. QED
  BY <1>6 DEF x, y, z, w

\* hi and the number after it, seen from next.
LEMMA HiIs ==
  ASSUME NEW hi \in Seqs, NEW next \in Seqs
  PROVE  /\ Plus(hi, 1) \in Seqs /\ Ahead(Plus(hi, 1), hi) = 1
         /\ Ahead(Plus(hi, 1), next) = IF Ahead(hi, next) = Modulus - 1 THEN 0 ELSE Ahead(hi, next) + 1
<1>1. hi \in Nat /\ hi < Modulus /\ next \in Nat /\ next < Modulus /\ Modulus \in Nat /\ Modulus >= 8
  BY InSeqs, Sizes
<1> DEFINE n == Plus(hi, 1)
           x == Ahead(hi, next)
           y == Ahead(n, next)
           z == Ahead(n, hi)
<1>2. n \in Seqs /\ n = IF hi + 1 < Modulus THEN hi + 1 ELSE 0
  BY NextIs
<1> HIDE DEF n
<1>3. x = IF hi >= next THEN hi - next ELSE hi - next + Modulus
  BY AheadIs
<1>4. y = IF n >= next THEN n - next ELSE n - next + Modulus
  BY <1>2, AheadIs
<1>5. z = IF n >= hi THEN n - hi ELSE n - hi + Modulus
  BY <1>2, AheadIs
<1> HIDE DEF x, y, z
<1>6. z = 1 /\ y = IF x = Modulus - 1 THEN 0 ELSE x + 1
  BY <1>1, <1>2, <1>3, <1>4, <1>5
<1>7. QED
  BY <1>2, <1>6 DEF n, x, y, z

\* What stays when the window moves on is nearer.
LEMMA NearMoves ==
  ASSUME NEW ring \in Rings, NEW next \in Seqs, NEW s \in Seqs, NEW top \in Nat, Near(ring, next, top)
  PROVE  /\ Ahead(s, next) <= top => Near(Without(ring, next, Ahead(s, next)), s, top - Ahead(s, next))
         /\ Ahead(s, next) >= top => Near(Without(ring, next, Ahead(s, next)), s, 0)
<1> DEFINE far == Ahead(s, next)
           left == Without(ring, next, far)
<1>1. far \in Nat
  BY AheadIs
<1>2. ASSUME NEW i \in Slots, left[i] # NoPacket
      PROVE  /\ left[i].seq % Ring = i
             /\ far < top /\ Ahead(left[i].seq, s) < top - far
  <2>1. left[i] = ring[i] /\ ring[i] # NoPacket /\ ~(Ahead(ring[i].seq, next) < far)
    BY <1>2 DEF Without
  <2>2. ring[i].seq \in Seqs /\ ring[i].seq % Ring = i /\ Ahead(ring[i].seq, next) < top
    BY <2>1, EntryIs DEF Near
  <2>3. Ahead(ring[i].seq, next) \in Nat
    BY <2>2, AheadIs
  <2>4. Ahead(ring[i].seq, next) >= far
    BY <1>1, <2>1, <2>3
  <2>5. Ahead(ring[i].seq, s) = Ahead(ring[i].seq, next) - far
    BY <2>2, <2>4, AheadMoves
  <2> HIDE DEF far, left
  <2>6. far < top /\ Ahead(ring[i].seq, s) < top - far
    BY <1>1, <2>2, <2>3, <2>4, <2>5
  <2>7. QED
    BY <2>1, <2>2, <2>6
<1> HIDE DEF left
<1>3. far <= top => Near(left, s, top - far)
  BY <1>2 DEF Near
<1>4. far >= top => \A i \in Slots : left[i] = NoPacket
  BY <1>1, <1>2
<1>5. far >= top => Near(left, s, 0)
  BY <1>4 DEF Near
<1>6. QED
  BY <1>3, <1>5 DEF left

LEMMA NearWider ==
  ASSUME NEW ring \in Rings, NEW next \in Seqs, NEW top1 \in Nat, NEW top \in Nat, top1 <= top, Near(ring, next, top1)
  PROVE  Near(ring, next, top)
<1> SUFFICES ASSUME NEW i \in Slots, ring[i] # NoPacket
             PROVE  ring[i].seq % Ring = i /\ Ahead(ring[i].seq, next) < top
  BY DEF Near
<1>1. ring[i].seq \in Seqs /\ ring[i].seq % Ring = i /\ Ahead(ring[i].seq, next) < top1
  BY EntryIs DEF Near
<1>2. Ahead(ring[i].seq, next) \in Nat
  BY <1>1, AheadIs
<1>3. QED
  BY <1>1, <1>2

LEMMA LeastIs ==
  ASSUME NEW S \in SUBSET Nat, S # {}
  PROVE  Min(S) \in S /\ \A k \in S : Min(S) <= k
<1>1. \E c \in S : \A d \in S : c <= d
  BY LeastOf
<1>2. QED
  BY <1>1 DEF Min

\* The end of a run of what is held.
LEMMA RunEndIs ==
  ASSUME NEW r, r.ring \in Rings, NEW s \in Seqs
  PROVE  /\ RunEnd(r, s) \in Seqs /\ Ahead(RunEnd(r, s), s) <= Ring
         /\ \A k \in Nat : k < Ahead(RunEnd(r, s), s) => Held(r.ring, Plus(s, k))
         /\ Held(r.ring, s) => Ahead(RunEnd(r, s), s) # 0
<1> DEFINE free == {k \in 0..Ring : ~Held(r.ring, Plus(s, k))}
           n == Min(free)
<1>1. Ring \in Nat /\ 0 \in 0..Ring /\ Ring \in 0..Ring /\ 0 < Modulus /\ Ring < Modulus
  BY Sizes
<1>2. Plus(s, 0) = s
  <2>1. Ahead(s, s) = 0
    BY AheadIs, InSeqs
  <2>2. QED
    BY <2>1, PlusAhead
<1>3. free # {}
  <2> SUFFICES ASSUME Held(r.ring, Plus(s, 0)), Held(r.ring, Plus(s, Ring)) PROVE FALSE
    BY <1>1
  <2> DEFINE t == Plus(s, Ring)
  <2>1. t \in Seqs /\ Ahead(t, s) = Ring
    BY <1>1, AheadPlus
  <2> HIDE DEF t
  <2>2. s % Ring = t % Ring
    BY SlotComesAgain DEF t
  <2>3. r.ring[s % Ring].seq = s /\ r.ring[t % Ring].seq = t
    BY <1>2 DEF Held, t
  <2>4. s = t
    BY <2>2, <2>3
  <2>5. Ahead(s, s) = 0
    BY AheadIs, InSeqs
  <2>6. QED
    BY <2>1, <2>4, <2>5, Sizes
<1>4. free \in SUBSET Nat /\ \A k \in free : k <= Ring
  BY <1>1
<1>5. n \in free /\ \A k \in free : n <= k
  <2> HIDE DEF free
  <2>1. QED
    BY <1>3, <1>4, LeastIs
<1>6. n \in Nat /\ n <= Ring /\ n < Modulus
  <2>0. Modulus >= 8 * Ring /\ Modulus \in Nat /\ Ring >= 1
    BY Sizes
  <2> HIDE DEF n, free
  <2>1. n \in Nat /\ n <= Ring
    BY <1>4, <1>5
  <2>2. QED
    BY <1>1, <2>0, <2>1
<1>7. RunEnd(r, s) = Plus(s, n)
  BY DEF RunEnd
<1>8. \A k \in Nat : k < n => Held(r.ring, Plus(s, k))
  <2> SUFFICES ASSUME NEW k \in Nat, k < n, ~Held(r.ring, Plus(s, k)) PROVE FALSE
    OBVIOUS
  <2>1. k \in 0..Ring
    BY <1>1, <1>6
  <2>2. k \in free
    BY <2>1
  <2>3. n <= k
    BY <1>5, <2>2
  <2>4. QED
    BY <1>6, <2>3
<1>9. ~Held(r.ring, Plus(s, n))
  BY <1>5
<1> HIDE DEF n
<1>10. Plus(s, n) \in Seqs /\ Ahead(Plus(s, n), s) = n
  BY <1>6, AheadPlus
<1>11. Held(r.ring, s) => n # 0
  BY <1>2, <1>9
<1>12. QED
  BY <1>6, <1>7, <1>8, <1>10, <1>11

\* How many numbers the window spans, from next to hi; a window in order; and one that moved past hi.
Span(r) == Ahead(Plus(r.hi, 1), r.next)
Fits(r) == Span(r) <= Ring /\ Near(r.ring, r.next, Span(r))
PastHi(r) == Ahead(r.next, r.hi) \in 2..(2 * Ring) /\ Near(r.ring, r.next, 0)

LEMMA WindowIs ==
  ASSUME NEW r \in Window
  PROVE  /\ r.started \in BOOLEAN /\ r.next \in Seqs /\ r.hi \in Seqs /\ r.ring \in Rings /\ r.gap \in BOOLEAN
         /\ r.out \in Seq(Outs) /\ Span(r) \in Nat /\ Plus(r.hi, 1) \in Seqs
         /\ Fits(r) => Near(r.ring, r.next, Ring)
         /\ PiecesOut(r) \subseteq Pieces
<1>1. /\ r.started \in BOOLEAN /\ r.next \in Seqs /\ r.hi \in Seqs /\ r.ring \in Rings /\ r.gap \in BOOLEAN
      /\ r.out \in Seq(Outs)
  BY DEF Window
<1>2. Span(r) \in Nat /\ Plus(r.hi, 1) \in Seqs
  BY <1>1, NextIs, AheadIs DEF Span
<1>3. Fits(r) => Near(r.ring, r.next, Ring)
  <2> SUFFICES ASSUME Fits(r) PROVE Near(r.ring, r.next, Ring)
    OBVIOUS
  <2> DEFINE top == Span(r)
  <2>1. Ring \in Nat /\ top \in Nat /\ top <= Ring /\ Near(r.ring, r.next, top)
    BY <1>2, Sizes DEF Fits
  <2> HIDE DEF top
  <2>2. QED
    BY <1>1, <2>1, NearWider
<1>4. PiecesOut(r) \subseteq Pieces
  <2> SUFFICES ASSUME NEW i \in DOMAIN r.out PROVE r.out[i].packet.piece \in Pieces
    BY DEF PiecesOut
  <2>1. r.out[i] \in Outs
    BY <1>1, Element
  <2>2. r.out[i].packet \in Packet
    BY <2>1 DEF Outs
  <2>3. QED
    BY <2>2, NoPacketIs
<1>5. QED
  BY <1>1, <1>2, <1>3, <1>4

LEMMA NothingMoves ==
  ASSUME NEW ring \in Rings, NEW next \in Seqs
  PROVE  Without(ring, next, 0) = ring /\ Within(ring, next, 0) = {} /\ Ahead(next, next) = 0
<1>1. \A i \in Slots : ring[i] # NoPacket => ~(Ahead(ring[i].seq, next) < 0)
  <2> TAKE i \in Slots
  <2>1. HAVE ring[i] # NoPacket
  <2>2. Ahead(ring[i].seq, next) \in Nat
    BY <2>1, EntryIs, AheadIs
  <2>3. QED
    BY <2>2
<1>2. Without(ring, next, 0) = [i \in Slots |-> ring[i]]
  BY <1>1 DEF Without
<1>3. ring = [i \in Slots |-> ring[i]]
  BY DEF Rings
<1>4. Within(ring, next, 0) = {}
  BY <1>1 DEF Within
<1>5. Ahead(next, next) = 0
  <2>1. Ahead(next, next) = next - next /\ next \in Nat
    BY AheadIs, InSeqs
  <2>2. QED
    BY <2>1
<1>6. QED
  BY <1>2, <1>3, <1>4, <1>5

LEMMA MakeRoomIs ==
  ASSUME NEW r \in Window, NEW s \in Seqs, Fits(r), Ahead(s, r.next) < 2 * Ring
  PROVE  LET room == MakeRoom(r, s)
             j == Ahead(room.next, r.next)
         IN /\ room \in Window /\ room.started = r.started /\ room.hi = r.hi
            /\ j <= Ahead(s, r.next) /\ Ahead(s, room.next) = Ahead(s, r.next) - j /\ Ahead(s, room.next) < Ring
            /\ room.ring = Without(r.ring, r.next, j)
            /\ Ahead(s, r.next) < Ring => room = r
            /\ (Fits(room) /\ Span(room) = Span(r) - j) \/ PastHi(room)
<1> DEFINE far == Ahead(s, r.next)
           ends == {k \in 1..Ring : /\ Held(r.ring, Plus(r.next, k - 1))
                                    /\ ~Held(r.ring, Plus(r.next, k))} \cup {far}
           good == {k \in ends : far - k < Ring}
           j == Min(good)
           t == Plus(r.next, j)
           room == MakeRoom(r, s)
           top == Span(r)
<1>1. /\ r.next \in Seqs /\ r.ring \in Rings /\ r.hi \in Seqs /\ top \in Nat /\ top <= Ring
      /\ Near(r.ring, r.next, top) /\ Near(r.ring, r.next, Ring) /\ Plus(r.hi, 1) \in Seqs
  BY WindowIs DEF Fits
<1>2. far \in Nat /\ far < Modulus /\ Ring \in Nat /\ Ring >= 1 /\ Modulus \in Nat /\ Modulus >= 8 * Ring
  BY <1>1, AheadIs, Sizes
<1>3. room = IF far < Ring THEN r ELSE MoveTo(r, t)
  BY DEF MakeRoom
<1>4. CASE far < Ring
  <2>1. room = r
    BY <1>3, <1>4
  <2> HIDE DEF room
  <2>2. Ahead(room.next, r.next) = 0 /\ room.ring = Without(r.ring, r.next, 0)
    BY <1>1, <2>1, NothingMoves
  <2>3. Fits(room) /\ Span(room) = Span(r) - 0
    BY <1>1, <2>1
  <2>4. Ahead(s, room.next) = far - 0
    BY <1>2, <2>1
  <2> HIDE DEF far, top
  <2>5. QED
    BY <1>2, <1>4, <2>1, <2>2, <2>3, <2>4 DEF room, far
<1>5. CASE ~(far < Ring)
  <2>1. far \in good /\ good \in SUBSET Nat /\ \A k \in good : k <= far
    BY <1>2, <1>5
  <2>2. j \in good
    <3> HIDE DEF good
    <3>1. QED
      BY <2>1, LeastIs
  <2>3. j \in Nat /\ j <= far /\ far - j < Ring
    BY <2>1, <2>2
  <2> HIDE DEF good, j
  <2>4. t \in Seqs /\ Ahead(t, r.next) = j
    BY <1>1, <1>2, <2>3, AheadPlus
  <2> HIDE DEF t
  <2>5. /\ room \in Window /\ room.started = r.started /\ room.next = t /\ room.hi = r.hi
        /\ room.ring = Without(r.ring, r.next, j)
    BY <1>1, <1>3, <1>5, <2>4, MoveToIs
  <2> HIDE DEF room
  <2>6. Ahead(s, t) = far - j
    BY <1>1, <1>2, <2>3, <2>4, AheadMoves
  <2>7. CASE j <= top
    <3>1. Near(room.ring, t, top - j)
      BY <1>1, <2>4, <2>5, <2>7, NearMoves
    <3>2. Span(room) = top - j
      BY <1>1, <2>4, <2>5, <2>7, AheadMoves DEF Span
    <3>3. top - j <= Ring
      BY <1>1, <1>2, <2>3
    <3>4. Fits(room)
      BY <2>5, <3>1, <3>2, <3>3 DEF Fits
    <3>5. QED
      BY <1>2, <2>3, <2>4, <2>5, <2>6, <3>2, <3>4, <1>5 DEF room
  <2>8. CASE ~(j <= top)
    <3>1. Near(room.ring, t, 0)
      BY <1>1, <2>3, <2>4, <2>5, <2>8, NearMoves
    <3>2. Ahead(t, Plus(r.hi, 1)) = j - top
      BY <1>1, <2>3, <2>4, <2>8, AheadMoves DEF Span
    <3>3. Ahead(t, r.hi) = j - top + 1
      <4> DEFINE n == Plus(r.hi, 1)
      <4>1. n \in Seqs /\ Ahead(n, r.hi) = 1 /\ Ahead(t, n) = j - top
        BY <1>1, <3>2, HiIs
      <4>2. n \in Nat /\ n < Modulus /\ t \in Nat /\ t < Modulus /\ r.hi \in Nat /\ r.hi < Modulus
        BY <1>1, <2>4, <4>1, InSeqs
      <4>3. /\ Ahead(t, n) = IF t >= n THEN t - n ELSE t - n + Modulus
            /\ Ahead(n, r.hi) = IF n >= r.hi THEN n - r.hi ELSE n - r.hi + Modulus
            /\ Ahead(t, r.hi) = IF t >= r.hi THEN t - r.hi ELSE t - r.hi + Modulus
        BY <1>1, <2>4, <4>1, AheadIs
      <4> HIDE DEF n
      <4>4. j - top < 2 * Ring /\ j - top >= 1
        BY <1>1, <1>2, <2>3, <2>8
      <4> DEFINE h == r.hi
                 d == j - top
      <4> HIDE DEF h, d
      <4>5. Ahead(t, h) = d + 1
        <5>1. d < 2 * Ring /\ d >= 1 /\ d \in Int
          BY <1>1, <2>3, <4>4 DEF d
        <5>2. Ahead(t, n) = d /\ Ahead(n, h) = 1 /\ h \in Nat /\ h < Modulus
          BY <4>1, <4>2 DEF d, h
        <5>3. /\ Ahead(n, h) = IF n >= h THEN n - h ELSE n - h + Modulus
              /\ Ahead(t, h) = IF t >= h THEN t - h ELSE t - h + Modulus
          BY <4>3 DEF h
        <5>4. QED
          BY <1>2, <4>2, <4>3, <5>1, <5>2, <5>3
      <4>6. QED
        BY <4>5 DEF h, d
    <3>4. j - top + 1 \in 2..(2 * Ring)
      BY <1>1, <1>2, <2>3, <2>8
    <3>5. PastHi(room)
      BY <2>5, <3>1, <3>3, <3>4 DEF PastHi
    <3>6. QED
      BY <1>2, <2>3, <2>4, <2>5, <2>6, <3>5, <1>5 DEF room
  <2>9. QED
    BY <2>7, <2>8
<1>6. QED
  BY <1>4, <1>5

LEMMA StoredIs ==
  ASSUME NEW r \in Window, NEW m \in Packet, Fits(r) \/ PastHi(r), Ahead(m.seq, r.next) < Ring
  PROVE  LET full == Stored(r, m) IN
         /\ full \in Window /\ full.started = r.started /\ full.next = r.next /\ full.out = r.out
         /\ full.ring = [r.ring EXCEPT ![m.seq % Ring] = m]
         /\ Fits(full)
         /\ (Fits(r) /\ Span(full) = Span(r)) \/ Span(full) = Ahead(m.seq, r.next) + 1
         /\ \A i \in Slots : r.ring[i] # NoPacket => Held(full.ring, r.ring[i].seq)
         /\ Held(full.ring, m.seq) /\ full.ring[m.seq % Ring] = m
<1> DEFINE full == Stored(r, m)
           s == m.seq
           d == Ahead(s, r.next)
           top == Span(r)
           hi2 == IF Before(r.hi, s) THEN s ELSE r.hi
           ring2 == [r.ring EXCEPT ![s % Ring] = m]
<1>1. /\ r.started \in BOOLEAN /\ r.next \in Seqs /\ r.ring \in Rings /\ r.hi \in Seqs /\ top \in Nat
      /\ r.gap \in BOOLEAN /\ r.out \in Seq(Outs) /\ Plus(r.hi, 1) \in Seqs
  BY WindowIs
<1>2. s \in Seqs /\ s % Ring \in Slots /\ m # NoPacket
  BY NoPacketIs, SlotOf
<1>3. d \in Nat /\ d < Ring /\ d < Modulus /\ Ring \in Nat /\ Ring >= 1 /\ Modulus \in Nat /\ Modulus >= 8 * Ring
  <2>1. d \in Nat /\ d < Modulus
    BY <1>1, <1>2, AheadIs
  <2>2. QED
    BY <2>1, Sizes
<1>4. full = [started |-> r.started, next |-> r.next, hi |-> hi2, ring |-> ring2, gap |-> r.gap, out |-> r.out]
  <2> HIDE DEF hi2, ring2
  <2>1. full = [r EXCEPT !.ring = ring2, !.hi = hi2]
    BY DEF Stored, ring2, hi2
  <2> HIDE DEF full
  <2>2. QED
    BY <2>1 DEF Window
<1>5. ring2 \in Rings
  BY <1>1, <1>2 DEF Rings
<1>6. full \in Window
  BY <1>1, <1>2, <1>4, <1>5 DEF Window
<1>7. Near(r.ring, r.next, Ring)
  <2>1. CASE Fits(r)
    BY <2>1, WindowIs
  <2>2. CASE PastHi(r)
    BY <1>1, <1>3, <2>2, NearWider DEF PastHi
  <2>3. QED
    BY <2>1, <2>2
<1>8. ring2[s % Ring] = m /\ \A i \in Slots : i # s % Ring => ring2[i] = r.ring[i]
  BY <1>1, <1>2 DEF Rings
<1> HIDE DEF ring2, hi2, full
<1>9. ASSUME NEW i \in Slots, r.ring[i] # NoPacket PROVE Held(ring2, r.ring[i].seq)
  <2> DEFINE q == r.ring[i].seq
  <2>1. q \in Seqs /\ q % Ring = i /\ Ahead(q, r.next) < Ring
    BY <1>1, <1>7, <1>9, EntryIs DEF Near
  <2>2. CASE i # s % Ring
    BY <1>8, <2>1, <2>2 DEF Held
  <2>3. CASE i = s % Ring
    <3>1. q = s
      <4>1. Ahead(q, r.next) \in Nat /\ Ahead(q, s) \in Nat /\ Ahead(s, q) \in Nat
        BY <1>1, <1>2, <2>1, AheadIs
      <4>2. Ahead(q, s) < Ring \/ Ahead(s, q) < Ring
        <5>1. CASE Ahead(q, r.next) >= d
          <6>1. Ahead(q, s) = Ahead(q, r.next) - d
            BY <1>1, <1>2, <2>1, <5>1, AheadMoves
          <6>2. QED
            BY <1>3, <2>1, <4>1, <6>1
        <5>2. CASE Ahead(q, r.next) < d
          <6>1. Ahead(s, q) = d - Ahead(q, r.next)
            BY <1>1, <1>2, <2>1, <5>2, AheadMoves
          <6>2. QED
            BY <1>3, <2>1, <4>1, <6>1
        <5>3. QED
          BY <1>3, <4>1, <5>1, <5>2
      <4>3. QED
        BY <1>2, <2>1, <2>3, <4>2, SlotsApart
    <3>2. QED
      BY <1>8, <2>3, <3>1 DEF Held
  <2>4. QED
    BY <2>2, <2>3
<1>10. hi2 \in Seqs /\ ((Fits(r) /\ hi2 = r.hi /\ d < top) \/ hi2 = s)
  <2>1. CASE PastHi(r)
    <3> DEFINE e == Ahead(r.next, r.hi)
    <3>1. e \in 2..(2 * Ring) /\ e \in Nat
      BY <2>1 DEF PastHi
    <3>2. Ahead(s, r.hi) = d + e
      <4>1. r.hi \in Nat /\ r.hi < Modulus /\ r.next \in Nat /\ r.next < Modulus /\ s \in Nat /\ s < Modulus
        BY <1>1, <1>2, InSeqs
      <4>2. /\ d = IF s >= r.next THEN s - r.next ELSE s - r.next + Modulus
            /\ e = IF r.next >= r.hi THEN r.next - r.hi ELSE r.next - r.hi + Modulus
            /\ Ahead(s, r.hi) = IF s >= r.hi THEN s - r.hi ELSE s - r.hi + Modulus
        BY <1>1, <1>2, AheadIs
      <4> DEFINE h == r.hi
                 n == r.next
      <4>3. h \in Nat /\ h < Modulus /\ n \in Nat /\ n < Modulus /\ s \in Nat /\ s < Modulus
        BY <4>1
      <4>4. /\ d = IF s >= n THEN s - n ELSE s - n + Modulus
            /\ e = IF n >= h THEN n - h ELSE n - h + Modulus
            /\ Ahead(s, h) = IF s >= h THEN s - h ELSE s - h + Modulus
        BY <4>2
      <4> HIDE DEF h, n, d, e, s
      <4>5. Ahead(s, h) = d + e
        BY <1>3, <3>1, <4>3, <4>4
      <4>6. QED
        BY <4>5 DEF h
    <3> HIDE DEF d, e
    <3>3. Ahead(s, r.hi) >= 1 /\ Ahead(s, r.hi) <= 4 * Ring
      BY <1>3, <3>1, <3>2
    <3>4. Before(r.hi, s)
      BY <1>1, <1>2, <3>3, BeforeIs
    <3>5. QED
      BY <1>2, <3>4 DEF hi2
  <2>2. CASE Fits(r)
    <3> DEFINE x == Ahead(r.hi, r.next)
    <3>1. top <= Ring /\ top = IF x = Modulus - 1 THEN 0 ELSE x + 1
      BY <1>1, <2>2, HiIs DEF Fits, Span
    <3>2. x \in Nat /\ x < Modulus
      BY <1>1, AheadIs
    <3>3. CASE d < top
      <4>1. x >= d /\ x - d <= 4 * Ring - 1
        BY <1>1, <1>3, <3>1, <3>2, <3>3
      <4>2. Ahead(r.hi, s) = x - d
        BY <1>1, <1>2, <4>1, AheadMoves
      <4>3. ~Before(r.hi, s)
        BY <1>1, <1>2, <4>1, <4>2, BeforeIs
      <4>4. QED
        BY <1>1, <2>2, <3>3, <4>3 DEF hi2
    <3>4. CASE ~(d < top)
      <4>1. Ahead(s, r.hi) = d - top + 1
        <5>1. CASE top = 0
          <6>1. x = Modulus - 1
            BY <3>1, <3>2, <5>1
          <6>2. r.hi \in Nat /\ r.hi < Modulus /\ r.next \in Nat /\ r.next < Modulus /\ s \in Nat /\ s < Modulus
            BY <1>1, <1>2, InSeqs
          <6> DEFINE h == r.hi
                     n == r.next
                     w == Ahead(s, h)
          <6>3. /\ d = IF s >= n THEN s - n ELSE s - n + Modulus
                /\ x = IF h >= n THEN h - n ELSE h - n + Modulus
                /\ w = IF s >= h THEN s - h ELSE s - h + Modulus
            BY <1>1, <1>2, AheadIs
          <6>4. h \in Nat /\ h < Modulus /\ n \in Nat /\ n < Modulus /\ s \in Nat /\ s < Modulus
            BY <6>2
          <6> HIDE DEF h, n, w, d, x, s, top
          <6>5. w = d - top + 1
            BY <1>3, <5>1, <6>1, <6>3, <6>4
          <6>6. QED
            BY <6>5 DEF w, h
        <5>2. CASE top # 0
          <6>1. x = top - 1 /\ x < d
            BY <1>1, <1>3, <3>1, <3>2, <3>4, <5>2
          <6>2. Ahead(s, r.hi) = d - x
            BY <1>1, <1>2, <6>1, AheadMoves
          <6> HIDE DEF d, x, top
          <6>3. QED
            BY <1>1, <1>3, <6>1, <6>2
        <5>3. QED
          BY <5>1, <5>2
      <4> HIDE DEF d, top
      <4>2. Ahead(s, r.hi) >= 1 /\ Ahead(s, r.hi) <= 4 * Ring
        BY <1>1, <1>3, <3>4, <4>1
      <4>3. Before(r.hi, s)
        BY <1>1, <1>2, <4>2, BeforeIs
      <4>4. QED
        BY <1>2, <4>3 DEF hi2
    <3>5. QED
      BY <3>3, <3>4
  <2>3. QED
    BY <2>1, <2>2
<1> DEFINE span == Ahead(Plus(hi2, 1), r.next)
<1>11. (Fits(r) /\ span = top /\ d < top /\ top <= Ring) \/ span = d + 1
  <2>1. CASE Fits(r) /\ hi2 = r.hi /\ d < top
    BY <2>1 DEF Span, Fits
  <2>2. CASE hi2 = s
    <3>1. span = IF d = Modulus - 1 THEN 0 ELSE d + 1
      BY <1>1, <1>2, <2>2, HiIs
    <3> HIDE DEF span, d
    <3>2. QED
      BY <1>3, <3>1
  <2>3. QED
    BY <1>10, <2>1, <2>2
<1>12. span \in Nat /\ span <= Ring /\ d < span
  BY <1>1, <1>3, <1>11
<1>13. Near(ring2, r.next, span)
  <2> SUFFICES ASSUME NEW i \in Slots, ring2[i] # NoPacket
               PROVE  ring2[i].seq % Ring = i /\ Ahead(ring2[i].seq, r.next) < span
    BY DEF Near
  <2>1. CASE i = s % Ring
    BY <1>8, <1>12, <2>1
  <2>2. CASE i # s % Ring
    <3>1. ring2[i] = r.ring[i] /\ r.ring[i] # NoPacket
      BY <1>8, <2>2
    <3>2. CASE PastHi(r)
      <4>1. Ahead(r.ring[i].seq, r.next) \in Nat /\ Ahead(r.ring[i].seq, r.next) < 0
        BY <1>1, <3>1, <3>2, EntryIs, AheadIs DEF PastHi, Near
      <4>2. QED
        BY <4>1
    <3>3. CASE Fits(r)
      <4>1. r.ring[i].seq \in Seqs /\ r.ring[i].seq % Ring = i /\ Ahead(r.ring[i].seq, r.next) < top
        BY <1>1, <3>1, <3>3, EntryIs DEF Fits, Near
      <4>2. Ahead(r.ring[i].seq, r.next) \in Nat
        BY <1>1, <4>1, AheadIs
      <4>3. top <= span
        <5>1. CASE span = top
          BY <1>1, <5>1
        <5>2. CASE hi2 = s /\ ~(span = top)
          <6>1. span = d + 1
            BY <1>11, <5>2
          <6>2. ~(d < top)
            <7> SUFFICES ASSUME d < top PROVE FALSE
              OBVIOUS
            <7>1. top <= Ring
              BY <3>3 DEF Fits
            <7>2. ~Before(r.hi, s) \/ r.hi = s
              <8> DEFINE x == Ahead(r.hi, r.next)
              <8>1. top = IF x = Modulus - 1 THEN 0 ELSE x + 1
                BY <1>1, HiIs DEF Span
              <8>2. x \in Nat /\ x < Modulus
                BY <1>1, AheadIs
              <8>3. x >= d /\ x - d <= 4 * Ring - 1
                BY <1>1, <1>3, <7>1, <8>1, <8>2
              <8>4. Ahead(r.hi, s) = x - d
                BY <1>1, <1>2, <8>3, AheadMoves
              <8>5. QED
                BY <1>1, <1>2, <8>3, <8>4, BeforeIs
            <7>3. hi2 = r.hi
              BY <5>2, <7>2 DEF hi2
            <7>4. span = top
              BY <7>3 DEF Span
            <7>5. QED
              BY <5>2, <7>4
          <6> HIDE DEF span, d, top
          <6>3. QED
            BY <1>1, <1>3, <6>1, <6>2
        <5>3. QED
          BY <1>10, <5>1, <5>2 DEF Span
      <4> HIDE DEF span, top
      <4>4. QED
        BY <1>1, <1>12, <3>1, <4>1, <4>2, <4>3
    <3>4. QED
      BY <3>2, <3>3
  <2>3. QED
    BY <2>1, <2>2
<1>14. /\ full.started = r.started /\ full.next = r.next /\ full.out = r.out /\ full.ring = ring2 /\ full.hi = hi2
  BY <1>4
<1>15. Span(full) = span
  BY <1>14 DEF Span
<1>16. Fits(full)
  BY <1>12, <1>13, <1>14, <1>15 DEF Fits
<1>17. Held(ring2, s)
  BY <1>8 DEF Held
<1>18. (Fits(r) /\ Span(full) = Span(r)) \/ Span(full) = Ahead(m.seq, r.next) + 1
  BY <1>11, <1>15
<1>19. full.ring = [r.ring EXCEPT ![m.seq % Ring] = m]
  BY <1>14 DEF ring2
<1>20. \A i \in Slots : r.ring[i] # NoPacket => Held(full.ring, r.ring[i].seq)
  BY <1>9, <1>14
<1>21. Held(full.ring, m.seq) /\ full.ring[m.seq % Ring] = m
  BY <1>8, <1>14, <1>17
<1>22. QED
  BY <1>6, <1>14, <1>16, <1>18, <1>19, <1>20, <1>21 DEF full

----------------------------------------------------------------------------
(* How the window advances.                                                *)

LEMMA AheadSum ==
  ASSUME NEW a \in Seqs, NEW b \in Seqs, NEW c \in Seqs, Ahead(a, b) + Ahead(b, c) < Modulus
  PROVE  Ahead(a, c) = Ahead(a, b) + Ahead(b, c)
<1>1. a \in Nat /\ a < Modulus /\ b \in Nat /\ b < Modulus /\ c \in Nat /\ c < Modulus /\ Modulus \in Nat
  BY InSeqs, Sizes
<1> DEFINE x == Ahead(a, b)
           y == Ahead(b, c)
           z == Ahead(a, c)
<1>2. x = IF a >= b THEN a - b ELSE a - b + Modulus
  BY AheadIs
<1>3. y = IF b >= c THEN b - c ELSE b - c + Modulus
  BY AheadIs
<1>4. z = IF a >= c THEN a - c ELSE a - c + Modulus
  BY AheadIs
<1>5. x + y < Modulus
  OBVIOUS
<1> HIDE DEF x, y, z
<1>6. z = x + y
  BY <1>1, <1>2, <1>3, <1>4, <1>5
<1>7. QED
  BY <1>6 DEF x, y, z

\* The window moves on, no farther than it spans.
LEMMA MovesBy ==
  ASSUME NEW r \in Window, Fits(r), NEW s \in Seqs, Ahead(s, r.next) <= Span(r)
  PROVE  /\ MoveTo(r, s) \in Window /\ MoveTo(r, s).started = r.started /\ MoveTo(r, s).next = s
         /\ MoveTo(r, s).ring = Without(r.ring, r.next, Ahead(s, r.next))
         /\ Fits(MoveTo(r, s)) /\ Span(MoveTo(r, s)) = Span(r) - Ahead(s, r.next)
         /\ PiecesOut(MoveTo(r, s)) =
              PiecesOut(r) \cup {r.ring[i].piece : i \in Within(r.ring, r.next, Ahead(s, r.next))}
<1> DEFINE final == MoveTo(r, s)
           far == Ahead(s, r.next)
           top == Span(r)
<1>1. /\ r.next \in Seqs /\ r.hi \in Seqs /\ r.ring \in Rings /\ top \in Nat /\ Plus(r.hi, 1) \in Seqs
      /\ Near(r.ring, r.next, Ring) /\ far \in Nat
  BY WindowIs, AheadIs
<1>2. /\ final \in Window /\ final.started = r.started /\ final.next = s /\ final.hi = r.hi
      /\ final.ring = Without(r.ring, r.next, far)
      /\ PiecesOut(final) = PiecesOut(r) \cup {r.ring[i].piece : i \in Within(r.ring, r.next, far)}
  BY <1>1, MoveToIs
<1>3. Near(r.ring, r.next, top) /\ top <= Ring
  BY DEF Fits
<1>4. Near(Without(r.ring, r.next, far), s, top - far)
  BY <1>1, <1>3, NearMoves
<1> HIDE DEF final
<1>5. Span(final) = top - far
  <2>1. Ahead(Plus(r.hi, 1), r.next) = top
    BY DEF Span
  <2>2. Ahead(Plus(r.hi, 1), s) = top - far
    BY <1>1, <2>1, AheadMoves
  <2>3. QED
    BY <1>2, <2>2 DEF Span
<1>6. top - far <= Ring
  <2> HIDE DEF top, far
  <2>1. QED
    BY <1>1, <1>3, Sizes
<1>7. Fits(final)
  BY <1>2, <1>4, <1>5, <1>6 DEF Fits
<1>8. QED
  BY <1>2, <1>5, <1>7 DEF final

\* What is held from s on ends within what the window spans.
LEMMA RunWithin ==
  ASSUME NEW r \in Window, Fits(r), NEW s \in Seqs, Ahead(s, r.next) <= Span(r)
  PROVE  /\ RunEnd(r, s) \in Seqs /\ Ahead(RunEnd(r, s), r.next) <= Span(r)
         /\ Ahead(RunEnd(r, s), r.next) = Ahead(s, r.next) + Ahead(RunEnd(r, s), s)
<1> DEFINE e == RunEnd(r, s)
           n == Ahead(e, s)
           j == Ahead(s, r.next)
           top == Span(r)
<1>1. r.next \in Seqs /\ r.ring \in Rings /\ top \in Nat /\ top <= Ring /\ Near(r.ring, r.next, top)
  BY WindowIs DEF Fits
<1>2. e \in Seqs /\ n <= Ring /\ \A k \in Nat : k < n => Held(r.ring, Plus(s, k))
  BY <1>1, RunEndIs
<1>3. n \in Nat /\ j \in Nat /\ j <= top
  BY <1>1, <1>2, AheadIs
<1>4. Ring \in Nat /\ Modulus \in Nat /\ Modulus >= 8 * Ring /\ Ring >= 1
  BY Sizes
<1> HIDE DEF e
<1>5. Ahead(e, r.next) = j + n
  <2>1. n + j < Modulus /\ n + j = j + n
    <3> HIDE DEF n, j, top
    <3>1. QED
      BY <1>1, <1>2, <1>3, <1>4
  <2>2. QED
    BY <1>1, <1>2, <2>1, AheadSum
<1>6. j + n <= top
  <2> SUFFICES ASSUME ~(j + n <= top) PROVE FALSE
    OBVIOUS
  <2> DEFINE k == top - j
             t == Plus(s, k)
  <2>1. k \in Nat /\ k < n /\ k < Modulus /\ k + j < Modulus /\ k + j = top
    <3> HIDE DEF n, j, top
    <3>1. QED
      BY <1>1, <1>2, <1>3, <1>4
  <2>2. Held(r.ring, t)
    BY <1>2, <2>1
  <2> HIDE DEF k
  <2>3. t \in Seqs /\ Ahead(t, s) = k
    BY <2>1, AheadPlus
  <2> HIDE DEF t
  <2>4. Ahead(t, r.next) = top
    BY <1>1, <2>1, <2>3, AheadSum
  <2>5. t % Ring \in Slots /\ r.ring[t % Ring] # NoPacket /\ r.ring[t % Ring].seq = t
    BY <1>1, <2>2, <2>3, HeldIs
  <2>6. Ahead(t, r.next) < top
    BY <1>1, <2>5 DEF Near
  <2>7. QED
    BY <1>1, <2>4, <2>6
<1>7. QED
  BY <1>2, <1>5, <1>6 DEF e

\* The window came from base to final, with new put in; and all it moved over was handed up.
Advances(base, final, new) ==
    /\ final \in Window /\ final.started = base.started /\ Fits(final)
    /\ \/ Ahead(final.next, base.next) + Span(final) = Span(base)
       \/ \E m \in new : Ahead(final.next, base.next) + Span(final) = Ahead(m.seq, base.next) + 1
    /\ \A i \in Slots : base.ring[i] # NoPacket /\ Ahead(base.ring[i].seq, base.next) >= Ahead(final.next, base.next)
         => Held(final.ring, base.ring[i].seq)
    /\ \A i \in Slots : final.ring[i] # NoPacket => final.ring[i] \in new \/ final.ring[i] = base.ring[i]
HandsUp(base, final, new) ==
    \A k \in Nat : k < Ahead(final.next, base.next) =>
      \E e \in new \cup {base.ring[i] : i \in Slots} :
        e # NoPacket /\ e.seq = Plus(base.next, k) /\ e.piece \in PiecesOut(final)

LEMMA StandsStill ==
  ASSUME NEW r \in Window, Fits(r)
  PROVE  Advances(r, r, {}) /\ HandsUp(r, r, {})
<1>1. r.next \in Seqs /\ r.ring \in Rings /\ Span(r) \in Nat
  BY WindowIs
<1>2. Ahead(r.next, r.next) = 0
  BY <1>1, NothingMoves
<1>3. Near(r.ring, r.next, Span(r))
  BY DEF Fits
<1>4. ASSUME NEW i \in Slots, r.ring[i] # NoPacket PROVE Held(r.ring, r.ring[i].seq)
  BY <1>1, <1>3, <1>4, EntryIs DEF Near
<1>5. Ahead(r.next, r.next) + Span(r) = Span(r)
  BY <1>1, <1>2
<1>6. Advances(r, r, {})
  BY <1>4, <1>5 DEF Advances
<1>7. HandsUp(r, r, {})
  BY <1>2 DEF HandsUp
<1>8. QED
  BY <1>6, <1>7

\* What is left when the window moves on.
LEMMA LeftHeld ==
  ASSUME NEW ring \in Rings, NEW next \in Seqs, NEW far \in Nat, NEW i \in Slots, ring[i] # NoPacket,
         ring[i].seq % Ring = i, Ahead(ring[i].seq, next) >= far
  PROVE  Held(Without(ring, next, far), ring[i].seq)
<1>1. ring[i].seq \in Seqs
  BY EntryIs
<1>2. Ahead(ring[i].seq, next) \in Nat
  BY <1>1, AheadIs
<1>3. ~(Ahead(ring[i].seq, next) < far)
  BY <1>2
<1>4. Without(ring, next, far)[i] = ring[i]
  BY <1>3 DEF Without
<1>5. QED
  BY <1>4 DEF Held

\* Moving over holes.
LEMMA MovesOn ==
  ASSUME NEW r \in Window, Fits(r), NEW s \in Seqs, Ahead(s, r.next) <= Span(r)
  PROVE  Advances(r, MoveTo(r, s), {})
<1> DEFINE final == MoveTo(r, s)
           far == Ahead(s, r.next)
<1>1. /\ final \in Window /\ final.started = r.started /\ final.next = s /\ Fits(final)
      /\ Span(final) = Span(r) - far /\ final.ring = Without(r.ring, r.next, far)
  BY MovesBy
<1> HIDE DEF final
<1>2. r.ring \in Rings /\ r.next \in Seqs /\ Span(r) \in Nat /\ far \in Nat
  BY WindowIs, AheadIs
<1>3. Near(r.ring, r.next, Span(r))
  BY DEF Fits
<1>4. Ahead(final.next, r.next) + Span(final) = Span(r)
  BY <1>1, <1>2
<1>5. ASSUME NEW i \in Slots, r.ring[i] # NoPacket, Ahead(r.ring[i].seq, r.next) >= Ahead(final.next, r.next)
      PROVE  Held(final.ring, r.ring[i].seq)
  <2>1. r.ring[i].seq % Ring = i /\ Ahead(r.ring[i].seq, r.next) >= far
    BY <1>1, <1>3, <1>5 DEF Near
  <2> HIDE DEF far
  <2>2. QED
    BY <1>1, <1>2, <1>5, <2>1, LeftHeld
<1>6. \A i \in Slots : final.ring[i] # NoPacket => final.ring[i] = r.ring[i]
  BY <1>1 DEF Without
<1>7. Advances(r, final, {})
  BY <1>1, <1>4, <1>5, <1>6 DEF Advances
<1>8. QED
  BY <1>7 DEF final

LEMMA PastOrFits ==
  ASSUME NEW r \in Window, PastHi(r)
  PROVE  ~Fits(r)
<1> DEFINE n == Plus(r.hi, 1)
           h == r.hi
           x == r.next
           e == Ahead(x, h)
           s == Ahead(n, x)
           one == Ahead(n, h)
<1>1. h \in Seqs /\ x \in Seqs /\ n \in Seqs /\ one = 1 /\ e \in 2..(2 * Ring)
  BY WindowIs, HiIs DEF PastHi
<1>2. Span(r) = s
  BY DEF Span
<1>3. /\ e = IF x >= h THEN x - h ELSE x - h + Modulus
      /\ s = IF n >= x THEN n - x ELSE n - x + Modulus
      /\ one = IF n >= h THEN n - h ELSE n - h + Modulus
  BY <1>1, AheadIs
<1>4. h \in Nat /\ h < Modulus /\ x \in Nat /\ x < Modulus /\ n \in Nat /\ n < Modulus
  BY <1>1, InSeqs
<1> HIDE DEF n, h, x, e, s, one
<1>5. s > Ring /\ s \in Nat
  BY <1>1, <1>3, <1>4, Sizes
<1>6. ~(s <= Ring)
  BY <1>5, Sizes
<1>7. QED
  BY <1>2, <1>6 DEF Fits

\* A packet comes into the window, or less than a ring after it.
LEMMA PushMoves ==
  ASSUME NEW base \in Window, Fits(base), NEW m \in Packet, Ahead(m.seq, base.next) < 2 * Ring
  PROVE  LET full == Stored(MakeRoom(base, m.seq), m)
             final == MoveTo(full, RunEnd(full, full.next))
         IN /\ Advances(base, final, {m})
            /\ Ahead(m.seq, base.next) < Ring => HandsUp(base, final, {m})
<1> DEFINE s == m.seq
           room == MakeRoom(base, s)
           full == Stored(room, m)
           end == RunEnd(full, full.next)
           final == MoveTo(full, end)
           d == Ahead(s, base.next)
           j == Ahead(room.next, base.next)
           n == Ahead(end, full.next)
           g == Ahead(end, base.next)
<1>1. s \in Seqs /\ m # NoPacket /\ m.piece \in Pieces
  BY NoPacketIs
<1>2. base.next \in Seqs /\ base.ring \in Rings /\ Span(base) \in Nat /\ Span(base) <= Ring
      /\ Near(base.ring, base.next, Span(base)) /\ Near(base.ring, base.next, Ring)
  BY WindowIs DEF Fits
<1>3. /\ room \in Window /\ room.started = base.started /\ j <= d /\ Ahead(s, room.next) = d - j
      /\ Ahead(s, room.next) < Ring /\ room.ring = Without(base.ring, base.next, j)
      /\ d < Ring => room = base
      /\ (Fits(room) /\ Span(room) = Span(base) - j) \/ PastHi(room)
  BY <1>1, MakeRoomIs
<1> HIDE DEF room
<1>4. Fits(room) \/ PastHi(room)
  BY <1>3
<1>5. /\ full \in Window /\ full.started = room.started /\ full.next = room.next /\ full.out = room.out
      /\ full.ring = [room.ring EXCEPT ![s % Ring] = m]
      /\ Fits(full)
      /\ (Fits(room) /\ Span(full) = Span(room)) \/ Span(full) = d - j + 1
      /\ \A i \in Slots : room.ring[i] # NoPacket => Held(full.ring, room.ring[i].seq)
      /\ Held(full.ring, s) /\ full.ring[s % Ring] = m
  BY <1>3, <1>4, StoredIs
<1> HIDE DEF full
<1>6. /\ full.next \in Seqs /\ full.ring \in Rings /\ Span(full) \in Nat /\ Span(full) <= Ring
      /\ Near(full.ring, full.next, Span(full)) /\ Near(full.ring, full.next, Ring)
  BY <1>5, WindowIs DEF Fits
<1>7. Ahead(full.next, full.next) = 0
  BY <1>6, NothingMoves
<1>8. end \in Seqs /\ n <= Span(full)
  <2>1. Ahead(full.next, full.next) <= Span(full)
    BY <1>6, <1>7
  <2>2. QED
    BY <1>5, <1>6, <2>1, RunWithin
<1>9. \A k \in Nat : k < n => Held(full.ring, Plus(full.next, k))
  BY <1>6, RunEndIs
<1> HIDE DEF end
<1>10. /\ final \in Window /\ final.started = full.started /\ final.next = end
       /\ final.ring = Without(full.ring, full.next, n)
       /\ Fits(final) /\ Span(final) = Span(full) - n
       /\ PiecesOut(final) = PiecesOut(full) \cup {full.ring[i].piece : i \in Within(full.ring, full.next, n)}
  BY <1>5, <1>8, MovesBy
<1> HIDE DEF final
<1>11. room.next \in Seqs /\ room.ring \in Rings /\ Ring \in Nat /\ Modulus \in Nat /\ Modulus >= 8 * Ring /\ Ring >= 1
  BY <1>3, WindowIs, Sizes
<1>12. d \in Nat /\ j \in Nat /\ n \in Nat /\ g \in Nat /\ d < 2 * Ring
  BY <1>1, <1>2, <1>6, <1>8, <1>11, AheadIs
<1>13. g = n + j
  <2>1. n + Ahead(full.next, base.next) < Modulus
    <3>1. Ahead(full.next, base.next) = j
      BY <1>5
    <3> HIDE DEF n, j, d
    <3>2. QED
      BY <1>3, <1>6, <1>8, <1>11, <1>12, <3>1
  <2>2. g = n + Ahead(full.next, base.next)
    BY <1>2, <1>6, <1>8, <2>1, AheadSum
  <2>3. QED
    BY <1>5, <2>2
<1>14. g + Span(final) = Span(base) \/ g + Span(final) = d + 1
  <2>1. Span(full) = d - j + 1 \/ Span(full) = Span(base) - j
    <3>1. CASE PastHi(room)
      BY <1>3, <1>5, <3>1, PastOrFits
    <3>2. CASE ~PastHi(room)
      BY <1>3, <1>5, <3>2
    <3>3. QED
      BY <3>1, <3>2
  <2>2. Span(final) = Span(full) - n
    BY <1>10
  <2> DEFINE a == Span(final)
             b == Span(full)
             c == Span(base)
  <2> HIDE DEF a, b, c, g, n, j, d
  <2>3. (b = d - j + 1 \/ b = c - j) /\ a = b - n /\ b \in Nat /\ c \in Nat
    BY <1>2, <1>6, <2>1, <2>2 DEF a, b, c
  <2>4. g + a = c \/ g + a = d + 1
    BY <1>12, <1>13, <2>3
  <2>5. QED
    BY <2>4 DEF a, c
<1>15. ASSUME NEW i \in Slots, base.ring[i] # NoPacket, Ahead(base.ring[i].seq, base.next) >= g
       PROVE  Held(final.ring, base.ring[i].seq)
  <2> DEFINE t == base.ring[i].seq
             x == Ahead(t, base.next)
  <2>1. t \in Seqs /\ t % Ring = i /\ x < Ring
    BY <1>2, <1>15, EntryIs DEF Near
  <2>2. x \in Nat /\ x >= j /\ ~(x < j) /\ x >= g
    <3>1. x \in Nat /\ x >= g
      BY <1>2, <1>15, <2>1, AheadIs
    <3> HIDE DEF x, j, g, n
    <3>2. QED
      BY <1>12, <1>13, <3>1
  <2>3. room.ring[i] = base.ring[i]
    BY <1>3, <2>2 DEF Without
  <2>4. Held(full.ring, t)
    BY <1>5, <1>15, <2>3
  <2>5. t % Ring \in Slots /\ full.ring[t % Ring] # NoPacket /\ full.ring[t % Ring].seq = t
    BY <1>6, <2>1, <2>4, HeldIs
  <2>6. Ahead(t, room.next) = x - j
    BY <1>2, <1>11, <2>1, <2>2, AheadMoves
  <2>7. Ahead(t, full.next) >= n
    <3>1. Ahead(t, full.next) = x - j
      BY <1>5, <2>6
    <3> HIDE DEF x, j, g, n
    <3>2. QED
      BY <1>12, <1>13, <2>2, <3>1
  <2> DEFINE p == t % Ring
  <2>8. p \in Slots /\ full.ring[p] # NoPacket /\ full.ring[p].seq = t /\ full.ring[p].seq % Ring = p
    BY <2>5
  <2> HIDE DEF p, n, t
  <2>9. Held(Without(full.ring, full.next, n), full.ring[p].seq)
    BY <1>6, <1>12, <2>7, <2>8, LeftHeld
  <2>10. QED
    BY <1>10, <2>8, <2>9 DEF t, n
<1>16. ASSUME NEW i \in Slots, full.ring[i] # NoPacket
       PROVE  full.ring[i] = m \/ (full.ring[i] = base.ring[i] /\ base.ring[i] = room.ring[i])
  <2>1. full.ring[i] = m \/ full.ring[i] = room.ring[i]
    BY <1>5, <1>11 DEF Rings
  <2>2. full.ring[i] = room.ring[i] => room.ring[i] = base.ring[i]
    BY <1>3, <1>16 DEF Without
  <2>3. QED
    BY <2>1, <2>2
<1>17. ASSUME NEW i \in Slots, final.ring[i] # NoPacket PROVE final.ring[i] \in {m} \/ final.ring[i] = base.ring[i]
  <2>1. final.ring[i] = full.ring[i]
    BY <1>10, <1>17 DEF Without
  <2>2. QED
    BY <1>16, <1>17, <2>1
<1>18. Advances(base, final, {m})
  <2>1. Ahead(final.next, base.next) = g
    BY <1>10
  <2>2. final.started = base.started /\ final \in Window /\ Fits(final)
    BY <1>3, <1>5, <1>10
  <2>3. \/ Ahead(final.next, base.next) + Span(final) = Span(base)
        \/ \E o \in {m} : Ahead(final.next, base.next) + Span(final) = Ahead(o.seq, base.next) + 1
    BY <1>14, <2>1
  <2>4. QED
    BY <1>15, <1>17, <2>1, <2>2, <2>3 DEF Advances
<1>19. ASSUME d < Ring, NEW k \in Nat, k < g
       PROVE  \E e \in {m} \cup {base.ring[i] : i \in Slots} :
                e # NoPacket /\ e.seq = Plus(base.next, k) /\ e.piece \in PiecesOut(final)
  <2>1. room = base /\ j = 0
    BY <1>2, <1>3, <1>19, NothingMoves
  <2>2. k < n /\ full.next = base.next
    <3>1. full.next = base.next
      BY <1>5, <2>1
    <3> HIDE DEF j, g, n
    <3>2. k < n
      BY <1>12, <1>13, <1>19, <2>1
    <3>3. QED
      BY <3>1, <3>2
  <2> DEFINE t == Plus(full.next, k)
             i == t % Ring
  <2>3. k < Ring
    <3> HIDE DEF n
    <3>1. QED
      BY <1>6, <1>8, <1>11, <1>12, <2>2
  <2>4. i \in Within(full.ring, full.next, n) /\ full.ring[i].seq = t
    <3>1. Held(full.ring, Plus(full.next, k))
      BY <1>9, <2>2
    <3> HIDE DEF n
    <3>2. QED
      BY <1>6, <1>12, <2>2, <2>3, <3>1, HeldByDistance
  <2>5. i \in Slots /\ full.ring[i] # NoPacket
    BY <2>4 DEF Within
  <2>6. full.ring[i].piece \in PiecesOut(final)
    BY <1>10, <2>4
  <2>7. full.ring[i] \in {m} \cup {base.ring[p] : p \in Slots}
    BY <1>16, <2>5
  <2>8. full.ring[i].seq = Plus(base.next, k)
    BY <2>2, <2>4
  <2> HIDE DEF i
  <2>9. QED
    BY <2>5, <2>6, <2>7, <2>8
<1>20. d < Ring => HandsUp(base, final, {m})
  <2>1. Ahead(final.next, base.next) = g
    BY <1>10
  <2>2. QED
    BY <1>19, <2>1 DEF HandsUp
<1>21. QED
  BY <1>18, <1>20 DEF final, end, full, room

----------------------------------------------------------------------------
(* The invariant.                                                          *)

\* How far sequence number s lies behind the next one to be handed out, and its place in cut.
Behind(s) == BehindOf(seq, s)
At(s) == Len(cut) + 1 - Behind(s)

\* A packet of this run of the sender carries the piece that was cut for its number, and a low
\* mark within the ring, which the sender may have left behind.
PacketOK(m) ==
    /\ Behind(m.seq) \in 1..Len(cut) /\ m.piece = cut[At(m.seq)]
    /\ Ahead(m.seq, m.low) < Ring
    /\ InFlight <= Behind(m.low) /\ Behind(m.low) <= Len(cut)

TxOK ==
    /\ InFlight <= Ring /\ InFlight <= Len(cut)
    /\ \A i \in Slots : tx[i] # NoPacket =>
         tx[i].seq % Ring = i /\ Behind(tx[i].seq) \in 1..InFlight /\ PacketOK(tx[i])

WireOK == \A m \in wire : PacketOK(m) /\ Behind(m.seq) <= Ring

\* The receiver is done with the k-th piece, or has the piece with number s.
Gone(k) == cut[k] \in handed \cup died \cup Passed
Kept(s) == Gone(At(s)) \/ Held(rx.ring, s)

\* What an ack says that can still count: before cum everything is done with, and up to hi the
\* receiver has what is not missing.
Counts(a) == Behind(a.cum) <= 2 * Ring
AckSound(a) ==
    /\ Behind(a.cum) <= Len(cut) /\ Behind(a.hi) \in 1..(Behind(a.cum) + 1)
    /\ \A k \in 1..(Len(cut) - Behind(a.cum)) : Gone(k)
    /\ \A s \in Seqs : Behind(a.hi) <= Behind(s) /\ Behind(s) <= Behind(a.cum) /\ s \notin a.missing => Kept(s)
AcksOK == \A a \in acks : Counts(a) => AckSound(a)

\* The receiver has told this run of the sender nothing.
Untouched ==
    /\ InFlight = Len(cut)
    /\ \A a \in acks : ~Counts(a)
    /\ \A s \in Seqs : Behind(s) \in 1..InFlight => Held(tx, s)

\* A window that follows this run of the sender, when ex says why pieces were moved past, and one
\* that is far from it.
Follows(r, ex) ==
    /\ Behind(r.next) <= Len(cut) /\ Behind(r.next) <= InFlight + 2 * Ring
    /\ Span(r) <= Behind(r.next)
    /\ \A i \in Slots : r.ring[i] # NoPacket => r.ring[i].piece = cut[At(r.ring[i].seq)]
    /\ \A a \in acks : Counts(a) => Behind(r.next) <= Behind(a.cum) + 2 * Ring
    /\ ex = {} => /\ Behind(r.next) <= InFlight
                  /\ \A a \in acks : Counts(a) => Behind(r.next) <= Behind(a.cum)
Elsewhere ==
    /\ Len(cut) + 2 * Ring + 1 + Span(rx) <= Behind(rx.next)
    /\ Behind(rx.next) <= Len(cut) + Modulus - 3 * Ring + 1
    /\ Untouched

ReceiverOK ==
    IF rx.started THEN Fits(rx) /\ (Follows(rx, excuse) \/ Elsewhere)
    ELSE rx.ring = NoRing /\ ("restarted" \in excuse \/ Untouched)

ForgottenOK ==
    /\ \A k \in 1..(Len(cut) - InFlight) : Gone(k)
    /\ \A s \in Seqs : Behind(s) \in 1..InFlight => Held(tx, s) \/ Kept(s)

Typed == TypeOK /\ cut \in Seq(Pieces) /\ restarts \in [{"send", "receive"} -> Nat]

StripeInv == Typed /\ TxOK /\ WireOK /\ AcksOK /\ ReceiverOK /\ ForgottenOK /\ WindowHolds

\* Numbers of the run.
LEMMA RunIs ==
  ASSUME Typed
  PROVE  /\ seq \in Seqs /\ low \in Seqs /\ cut \in Seq(Pieces) /\ Len(cut) \in Nat
         /\ InFlight = Behind(low) /\ InFlight \in Nat
         /\ \A s \in Seqs : Behind(s) \in Nat /\ Behind(s) < Modulus
<1>1. seq \in Seqs /\ low \in Seqs /\ cut \in Seq(Pieces)
  BY DEF Typed, TypeOK
<1>2. Len(cut) \in Nat
  BY <1>1, InSequence
<1>3. InFlight = Behind(low)
  BY DEF InFlight, Behind, BehindOf
<1>4. \A s \in Seqs : Behind(s) \in Nat /\ Behind(s) < Modulus
  BY <1>1, BehindIs DEF Behind
<1>5. QED
  BY <1>1, <1>2, <1>3, <1>4

LEMMA SameRun ==
  ASSUME UNCHANGED <<seq, low, cut>>
  PROVE  /\ InFlight' = InFlight /\ Len(cut)' = Len(cut)
         /\ \A s : Behind(s)' = Behind(s) /\ At(s)' = At(s)
         /\ \A m : PacketOK(m)' <=> PacketOK(m)
         /\ \A a : Counts(a)' <=> Counts(a)
<1>1. InFlight' = InFlight /\ Len(cut)' = Len(cut)
  BY DEF InFlight
<1>2. \A s : Behind(s)' = Behind(s)
  BY DEF Behind
<1>3. \A s : At(s)' = At(s)
  BY <1>2 DEF At
<1>4. \A m : PacketOK(m)' <=> PacketOK(m)
  BY <1>1, <1>2, <1>3 DEF PacketOK
<1>5. \A a : Counts(a)' <=> Counts(a)
  BY <1>2 DEF Counts
<1>6. QED
  BY <1>1, <1>2, <1>3, <1>4, <1>5

\* A window that follows the run still does when it has advanced, and has what it had or is past it.
LEMMA FollowsOn ==
  ASSUME Typed, NEW base \in Window, NEW final, NEW new \in SUBSET Packet, NEW ex,
         Fits(base), Follows(base, ex), Advances(base, final, new),
         \A m \in new : PacketOK(m) /\ Ahead(m.seq, base.next) = Behind(base.next) - Behind(m.seq)
  PROVE  /\ Follows(final, ex) /\ Behind(final.next) <= Behind(base.next)
         /\ \A s \in Seqs : Held(base.ring, s) => Held(final.ring, s) \/ Behind(s) > Behind(final.next)
         /\ HandsUp(base, final, new) =>
              \A k \in Nat : Len(cut) - Behind(base.next) < k /\ k <= Len(cut) - Behind(final.next)
                => cut[k] \in PiecesOut(final)
<1> DEFINE B == Behind(base.next)
           g == Ahead(final.next, base.next)
           n == Len(cut)
           z == Span(final)
<1>1. base.next \in Seqs /\ base.ring \in Rings /\ Span(base) \in Nat
  BY WindowIs
<1>2. final \in Window /\ final.next \in Seqs /\ final.ring \in Rings /\ z \in Nat
  BY WindowIs DEF Advances
<1>3. seq \in Seqs /\ B \in Nat /\ B < Modulus /\ g \in Nat /\ g < Modulus /\ n \in Nat /\ InFlight \in Nat
  BY <1>1, <1>2, RunIs, AheadIs
<1>4. g + z <= B
  <2>1. CASE g + z = Span(base)
    BY <2>1 DEF Follows
  <2>2. CASE \E m \in new : g + z = Ahead(m.seq, base.next) + 1
    <3>1. PICK m \in new : g + z = Ahead(m.seq, base.next) + 1
      BY <2>2
    <3> DEFINE y == Behind(m.seq)
    <3>2. y \in Nat /\ y >= 1 /\ Ahead(m.seq, base.next) = B - y
      <4>1. y \in 1..Len(cut) /\ m.seq \in Seqs
        BY NoPacketIs DEF PacketOK
      <4>2. QED
        BY <4>1, <1>3
    <3> HIDE DEF y, B, g, z
    <3>3. QED
      BY <1>2, <1>3, <3>1, <3>2
  <2>3. QED
    BY <2>1, <2>2 DEF Advances
<1> HIDE DEF z
<1>5. g <= B
  BY <1>2, <1>3, <1>4
<1>6. \A k \in Nat : k <= g => Plus(base.next, k) \in Seqs /\ Behind(Plus(base.next, k)) = B - k
  <2> TAKE k \in Nat
  <2>1. HAVE k <= g
  <2>2. k \in Int /\ k <= B /\ k > B - Modulus
    <3> HIDE DEF B, g
    <3>1. QED
      BY <1>3, <1>5, <2>1, Sizes
  <2>3. QED
    BY <1>1, <1>3, <2>2, BehindPlus DEF Behind
<1>7. Behind(final.next) = B - g
  <2>1. Plus(base.next, g) = final.next
    BY <1>1, <1>2, PlusAhead
  <2>2. Behind(Plus(base.next, g)) = B - g
    BY <1>3, <1>6
  <2>3. QED
    BY <2>1, <2>2
<1> HIDE DEF g
<1>8. \A i \in Slots : final.ring[i] # NoPacket => final.ring[i].piece = cut[At(final.ring[i].seq)]
  <2> TAKE i \in Slots
  <2>1. HAVE final.ring[i] # NoPacket
  <2>2. CASE final.ring[i] \in new
    BY <2>2 DEF PacketOK
  <2>3. CASE final.ring[i] = base.ring[i]
    BY <2>1, <2>3 DEF Follows
  <2>4. QED
    BY <2>1, <2>2, <2>3 DEF Advances
<1>9. Follows(final, ex)
  <2> DEFINE b == Behind(final.next)
  <2>1. b \in Nat /\ b <= B /\ z <= b
    <3> HIDE DEF B
    <3>1. b = B - g
      BY <1>7 DEF B
    <3> HIDE DEF b
    <3>2. QED
      BY <1>2, <1>3, <1>4, <1>5, <3>1
  <2>2. B <= n /\ B <= InFlight + 2 * Ring
    BY DEF Follows
  <2>3. \A a \in acks : Counts(a) => b <= Behind(a.cum) + 2 * Ring
    <3> TAKE a \in acks
    <3>1. HAVE Counts(a)
    <3>2. B <= Behind(a.cum) + 2 * Ring
      BY <3>1 DEF Follows
    <3>3. Behind(a.cum) \in Nat
      BY RunIs DEF Typed, TypeOK, Ack
    <3> HIDE DEF b, B
    <3>4. QED
      BY <1>3, <2>1, <3>2, <3>3, Sizes
  <2>4. ASSUME ex = {} PROVE b <= InFlight /\ \A a \in acks : Counts(a) => b <= Behind(a.cum)
    <3>1. B <= InFlight /\ \A a \in acks : Counts(a) => B <= Behind(a.cum)
      BY <2>4 DEF Follows
    <3>2. \A a \in acks : Behind(a.cum) \in Nat
      BY RunIs DEF Typed, TypeOK, Ack
    <3> HIDE DEF b, B
    <3>3. b <= InFlight
      BY <1>3, <2>1, <3>1
    <3>4. ASSUME NEW a \in acks, Counts(a) PROVE b <= Behind(a.cum)
      <4>1. B <= Behind(a.cum) /\ Behind(a.cum) \in Nat
        BY <3>1, <3>2, <3>4
      <4>2. QED
        BY <1>3, <2>1, <4>1
    <3>5. QED
      BY <3>3, <3>4
  <2>5. b <= n /\ b <= InFlight + 2 * Ring
    <3> HIDE DEF b, B, n
    <3>1. QED
      BY <1>3, <2>1, <2>2, Sizes
  <2>6. QED
    BY <1>8, <2>1, <2>3, <2>4, <2>5 DEF Follows, z
<1>10. ASSUME NEW s \in Seqs, Held(base.ring, s) PROVE Held(final.ring, s) \/ Behind(s) > Behind(final.next)
  <2> DEFINE i == s % Ring
             x == Ahead(s, base.next)
  <2>1. i \in Slots /\ base.ring[i] # NoPacket /\ base.ring[i].seq = s
    BY <1>1, <1>10, HeldIs
  <2>2. x \in Nat
    BY <1>1, AheadIs
  <2> HIDE DEF i
  <2>3. CASE x >= g
    <3>1. Held(final.ring, base.ring[i].seq)
      BY <2>1, <2>3 DEF Advances, g
    <3>2. QED
      BY <2>1, <3>1
  <2>4. CASE x < g
    <3>1. Plus(base.next, x) = s
      BY <1>1, PlusAhead
    <3>2. Behind(s) = B - x
      <4>1. x <= g
        BY <1>3, <2>2, <2>4
      <4>2. QED
        BY <1>6, <2>2, <3>1, <4>1
    <3> DEFINE v == Behind(s)
               w == Behind(final.next)
    <3> HIDE DEF x, B, v, w
    <3>3. v > w
      BY <1>3, <1>7, <2>2, <2>4, <3>2 DEF v, w
    <3>4. QED
      BY <3>3 DEF v, w
  <2>5. QED
    BY <1>3, <2>2, <2>3, <2>4
<1>11. ASSUME HandsUp(base, final, new), NEW k \in Nat, n - B < k, k <= n - Behind(final.next)
       PROVE  cut[k] \in PiecesOut(final)
  <2> DEFINE j == k - (n - B) - 1
  <2>1. j \in Nat /\ j < g /\ j <= g /\ n + 1 - (B - j) = k
    <3>1. k <= n - (B - g) /\ n - B < k
      BY <1>7, <1>11
    <3> HIDE DEF n, B
    <3>2. QED
      BY <1>3, <3>1
  <2> HIDE DEF j
  <2>2. PICK e \in new \cup {base.ring[i] : i \in Slots} :
             e # NoPacket /\ e.seq = Plus(base.next, j) /\ e.piece \in PiecesOut(final)
    BY <1>11, <2>1 DEF HandsUp, g
  <2>3. Behind(e.seq) = B - j
    BY <1>6, <2>1, <2>2
  <2>4. At(e.seq) = k
    BY <2>1, <2>3 DEF At
  <2>5. e.piece = cut[At(e.seq)]
    <3>1. CASE e \in new
      BY <3>1 DEF PacketOK
    <3>2. CASE e \in {base.ring[i] : i \in Slots}
      BY <2>2, <3>2 DEF Follows
    <3>3. QED
      BY <3>1, <3>2
  <2>6. QED
    BY <2>2, <2>4, <2>5
<1>12. Behind(final.next) <= B
  <2> DEFINE b == Behind(final.next)
  <2> HIDE DEF b, B
  <2>1. b = B - g
    BY <1>7 DEF b, B
  <2>2. b <= B
    BY <1>3, <2>1
  <2>3. QED
    BY <2>2 DEF b, B
<1>13. QED
  BY <1>9, <1>10, <1>11, <1>12

----------------------------------------------------------------------------
(* What the steps of one side leave alone.                                 *)

\* The receiver moved: all it was done with it is done with, and what it had it has or is done with.
LEMMA ReceiverMoves ==
  ASSUME StripeInv, UNCHANGED <<sendVars, acks>>, wire' \subseteq wire, Typed', ReceiverOK', WindowHolds',
         \A k \in 1..Len(cut) : Gone(k) => Gone(k)',
         \A s \in Seqs : Behind(s) \in 1..Len(cut) /\ Held(rx.ring, s) => Gone(At(s))' \/ Held(rx'.ring, s)
  PROVE  StripeInv'
<1>1. UNCHANGED <<seq, low, cut>> /\ tx' = tx /\ acks' = acks
  BY DEF sendVars
<1>2. /\ InFlight' = InFlight /\ Len(cut)' = Len(cut)
      /\ \A s : Behind(s)' = Behind(s) /\ At(s)' = At(s)
      /\ \A m : PacketOK(m)' <=> PacketOK(m)
      /\ \A a : Counts(a)' <=> Counts(a)
  BY <1>1, SameRun
<1>3. Typed
  BY DEF StripeInv
<1>4. Len(cut) \in Nat /\ InFlight \in Nat /\ \A s \in Seqs : Behind(s) \in Nat
  BY <1>3, RunIs
<1>5. \A s \in Seqs : Behind(s) \in 1..Len(cut) /\ Kept(s) => Kept(s)'
  <2> TAKE s \in Seqs
  <2>1. HAVE Behind(s) \in 1..Len(cut) /\ Kept(s)
  <2>2. CASE Gone(At(s))
    <3>1. At(s) \in 1..Len(cut)
      BY <1>4, <2>1 DEF At
    <3> DEFINE k == At(s)
    <3>2. Gone(k)'
      <4>1. \E j \in 1..Len(cut) : j = k /\ Gone(j) /\ Gone(j)'
        BY <2>2, <3>1
      <4>2. k' = k
        BY <1>2
      <4>3. QED
        BY <4>1, <4>2
    <3>3. QED
      BY <3>2 DEF Kept
  <2>3. CASE Held(rx.ring, s)
    BY <2>1, <2>3 DEF Kept
  <2>4. QED
    BY <2>1, <2>2, <2>3 DEF Kept
<1>6. TxOK'
  BY <1>1, <1>2 DEF StripeInv, TxOK
<1>7. WireOK'
  BY <1>2 DEF StripeInv, WireOK
<1>8. AcksOK'
  <2> SUFFICES ASSUME NEW a \in acks, Counts(a) PROVE AckSound(a)'
    BY <1>1, <1>2 DEF AcksOK
  <2>1. AckSound(a)
    BY DEF StripeInv, AcksOK
  <2>2. a.cum \in Seqs /\ a.hi \in Seqs
    BY <1>3 DEF Typed, TypeOK, Ack
  <2> DEFINE x == Behind(a.cum)
             h == Behind(a.hi)
  <2>3. x \in Nat /\ h \in Nat /\ x <= Len(cut) /\ h >= 1
    BY <1>4, <2>1, <2>2 DEF AckSound
  <2>4. x' = x /\ h' = h /\ Len(cut)' = Len(cut)
    BY <1>2
  <2>5. \A k \in 1..(Len(cut) - x) : Gone(k)'
    <3>1. \A k \in 1..(Len(cut) - x) : k \in 1..Len(cut)
      BY <1>4, <2>3
    <3>2. QED
      BY <2>1, <3>1 DEF AckSound
  <2>6. \A s \in Seqs : h <= Behind(s) /\ Behind(s) <= x /\ s \notin a.missing => Kept(s)'
    <3> TAKE s \in Seqs
    <3>1. HAVE h <= Behind(s) /\ Behind(s) <= x /\ s \notin a.missing
    <3>2. Kept(s)
      BY <2>1, <3>1 DEF AckSound
    <3>3. Behind(s) \in 1..Len(cut)
      BY <1>4, <2>3, <3>1
    <3>4. QED
      BY <1>5, <3>2, <3>3
  <2>7. x <= Len(cut) /\ h \in 1..(x + 1)
    BY <2>1 DEF AckSound
  <2>8. QED
    BY <1>2, <2>5, <2>6, <2>7 DEF AckSound
<1>9. ForgottenOK'
  <2>0. InFlight <= Len(cut)
    BY DEF StripeInv, TxOK
  <2>1. ASSUME NEW k \in 1..(Len(cut) - InFlight) PROVE Gone(k)'
    <3>1. k \in 1..Len(cut)
      BY <1>4
    <3>2. Gone(k)
      BY DEF StripeInv, ForgottenOK
    <3>3. QED
      BY <3>1, <3>2
  <2>2. ASSUME NEW s \in Seqs, Behind(s) \in 1..InFlight PROVE Held(tx, s) \/ Kept(s)'
    <3>1. Held(tx, s) \/ Kept(s)
      BY <2>2 DEF StripeInv, ForgottenOK
    <3>2. Behind(s) \in 1..Len(cut)
      BY <1>4, <2>0, <2>2
    <3>3. QED
      BY <1>5, <3>1, <3>2
  <2>3. QED
    BY <1>1, <1>2, <2>1, <2>2 DEF ForgottenOK
<1>10. QED
  BY <1>6, <1>7, <1>8, <1>9 DEF StripeInv

\* Only packets and acks come and go on the lanes, and sound ones.
LEMMA LanesMove ==
  ASSUME StripeInv, UNCHANGED <<seq, low, cut, tx, rx, handed, died, excuse, restarts>>, Typed',
         \A m \in wire' : m \in wire \/ (PacketOK(m) /\ Behind(m.seq) <= Ring),
         \A a \in acks' : a \in acks \/ (rx.started /\ a.cum = rx.next /\ (Counts(a) => AckSound(a)))
  PROVE  StripeInv'
<1>1. UNCHANGED <<seq, low, cut>>
  OBVIOUS
<1>2. /\ InFlight' = InFlight /\ Len(cut)' = Len(cut)
      /\ \A s : Behind(s)' = Behind(s) /\ At(s)' = At(s)
      /\ \A m : PacketOK(m)' <=> PacketOK(m)
      /\ \A a : Counts(a)' <=> Counts(a)
  BY <1>1, SameRun
<1>3. Typed
  BY DEF StripeInv
<1>4. Len(cut) \in Nat /\ InFlight \in Nat /\ \A s \in Seqs : Behind(s) \in Nat
  BY <1>3, RunIs
<1>5. Passed' = Passed
  BY DEF Passed
<1>6. \A k : Gone(k)' <=> Gone(k)
  BY <1>5 DEF Gone
<1>7. \A s : Kept(s)' <=> Kept(s)
  BY <1>2, <1>6 DEF Kept
<1>8. TxOK'
  BY <1>2 DEF StripeInv, TxOK
<1>9. WireOK'
  BY <1>2 DEF StripeInv, WireOK
<1>10. \A a : AckSound(a)' <=> AckSound(a)
  <2> TAKE a
  <2>1. Behind(a.cum)' = Behind(a.cum) /\ Behind(a.hi)' = Behind(a.hi) /\ a' = a
    BY <1>2
  <2>2. QED
    BY <1>2, <1>6, <1>7, <2>1 DEF AckSound
<1>11. AcksOK'
  BY <1>2, <1>10 DEF StripeInv, AcksOK
<1>12. ForgottenOK'
  BY <1>2, <1>6, <1>7 DEF StripeInv, ForgottenOK
<1>13. WindowHolds'
  BY <1>5 DEF StripeInv, WindowHolds
<1>14. ReceiverOK'
  <2>1. CASE ~rx.started
    <3>1. acks' \subseteq acks
      BY <2>1
    <3>2. Untouched => Untouched'
      BY <1>2, <3>1 DEF Untouched
    <3>3. QED
      BY <2>1, <3>2 DEF StripeInv, ReceiverOK
  <2>2. CASE rx.started
    <3>1. Fits(rx)' <=> Fits(rx)
      BY DEF Fits, Span, Near
    <3>2. Fits(rx) /\ (Follows(rx, excuse) \/ Elsewhere)
      BY <2>2 DEF StripeInv, ReceiverOK
    <3> DEFINE b == Behind(rx.next)
    <3>3. b \in Nat /\ b' = b /\ Span(rx)' = Span(rx) /\ Span(rx) \in Nat
      <4>1. rx.next \in Seqs /\ rx.hi \in Seqs
        BY <1>3 DEF Typed, TypeOK
      <4>2. Span(rx) \in Nat
        BY <4>1, NextIs, AheadIs DEF Span
      <4>3. QED
        BY <1>2, <1>4, <4>1, <4>2 DEF Span
    <3>4. CASE Follows(rx, excuse)
      <4>1. \A a \in acks' : Counts(a) => b <= Behind(a.cum) + 2 * Ring
        <5> TAKE a \in acks'
        <5>1. HAVE Counts(a)
        <5>2. CASE a \in acks
          BY <3>4, <5>1, <5>2 DEF Follows
        <5>3. CASE a.cum = rx.next
          <6>1. Behind(a.cum) = b
            BY <5>3
          <6> HIDE DEF b
          <6>2. QED
            BY <3>3, <6>1, Sizes
        <5>4. QED
          BY <5>2, <5>3
      <4>2. excuse = {} => b <= InFlight /\ \A a \in acks' : Counts(a) => b <= Behind(a.cum)
        <5> SUFFICES ASSUME excuse = {} PROVE b <= InFlight /\ \A a \in acks' : Counts(a) => b <= Behind(a.cum)
          OBVIOUS
        <5>1. b <= InFlight /\ \A a \in acks : Counts(a) => b <= Behind(a.cum)
          BY <3>4 DEF Follows
        <5>2. ASSUME NEW a \in acks', Counts(a) PROVE b <= Behind(a.cum)
          <6>1. CASE a \in acks
            BY <5>1, <5>2, <6>1
          <6>2. CASE a.cum = rx.next
            <7>1. Behind(a.cum) = b
              BY <6>2
            <7> HIDE DEF b
            <7>2. QED
              BY <3>3, <7>1
          <6>3. QED
            BY <5>2, <6>1, <6>2
        <5>3. QED
          BY <5>1, <5>2
      <4>3. /\ b <= Len(cut) /\ b <= InFlight + 2 * Ring /\ Span(rx) <= b
            /\ \A i \in Slots : rx.ring[i] # NoPacket => rx.ring[i].piece = cut[At(rx.ring[i].seq)]
        BY <3>4 DEF Follows
      <4>4. Follows(rx, excuse)'
        <5>1. \A i \in Slots : rx'.ring[i] # NoPacket => rx'.ring[i].piece = cut'[At(rx.ring[i].seq)']
          BY <1>2, <4>3
        <5>2. (\A a \in acks : Counts(a) => Behind(rx.next) <= Behind(a.cum) + 2 * Ring)'
          BY <1>2, <3>3, <4>1
        <5>3. (excuse = {} => /\ Behind(rx.next) <= InFlight
                              /\ \A a \in acks : Counts(a) => Behind(rx.next) <= Behind(a.cum))'
          BY <1>2, <3>3, <4>2
        <5>4. QED
          BY <1>2, <3>3, <4>3, <5>1, <5>2, <5>3 DEF Follows
      <4>5. QED
        BY <2>2, <3>1, <3>2, <4>4 DEF ReceiverOK
    <3>5. CASE Elsewhere
      <4>1. \A a \in acks' : ~Counts(a)
        <5> TAKE a \in acks'
        <5>1. CASE a \in acks
          BY <3>5, <5>1 DEF Elsewhere, Untouched
        <5>2. CASE a.cum = rx.next
          <6>1. Behind(a.cum) = b /\ Len(cut) + 2 * Ring + 1 + Span(rx) <= b
            BY <3>5, <5>2 DEF Elsewhere
          <6> HIDE DEF b
          <6>2. ~(Behind(a.cum) <= 2 * Ring)
            BY <1>4, <3>3, <6>1, Sizes
          <6>3. QED
            BY <6>2 DEF Counts
        <5>3. QED
          BY <5>1, <5>2
      <4>2. Untouched'
        BY <1>2, <3>5, <4>1 DEF Elsewhere, Untouched
      <4>3. Elsewhere'
        BY <1>2, <3>3, <3>5, <4>2 DEF Elsewhere
      <4>4. QED
        BY <2>2, <3>1, <3>2, <4>3 DEF ReceiverOK
    <3>6. QED
      BY <3>2, <3>4, <3>5
  <2>3. QED
    BY <2>1, <2>2
<1>15. QED
  BY <1>8, <1>9, <1>11, <1>12, <1>13, <1>14 DEF StripeInv

----------------------------------------------------------------------------
(* How it starts.                                                          *)

LEMMA NoRingIs ==
  /\ NoRing \in Rings /\ \A i \in Slots : NoRing[i] = NoPacket
  /\ \A s \in Seqs : ~Held(NoRing, s)
<1>1. NoRing \in Rings /\ \A i \in Slots : NoRing[i] = NoPacket
  BY DEF NoRing, Rings
<1>2. ASSUME NEW s \in Seqs, Held(NoRing, s) PROVE FALSE
  BY <1>1, <1>2, HeldIs
<1>3. QED
  BY <1>1, <1>2

LEMMA StripeInit == Init => StripeInv
<1> SUFFICES ASSUME Init PROVE StripeInv
  OBVIOUS
<1>1. seq \in Seqs /\ low \in Seqs /\ low = Plus(seq, 1)
  BY StripeAssumption, NextIs DEF Init
<1>2. Typed
  <2>1. queue \in Seq(1..MaxFrames) /\ Len(queue) <= QueueLimit
    BY StripeAssumption DEF Init
  <2>2. tx \in [Slots -> Packet \cup {NoPacket}] /\ rx.ring \in [Slots -> Packet \cup {NoPacket}]
    BY NoRingIs DEF Init, Rings
  <2>3. rx.started \in BOOLEAN /\ rx.next \in Seqs /\ rx.hi \in Seqs /\ rx.gap \in BOOLEAN
    BY InSeqs, Sizes DEF Init
  <2>4. offered \in 0..MaxFrames
    <3>1. MaxFrames \in Nat
      BY StripeAssumption DEF MaxFrames
    <3>2. QED
      BY <3>1 DEF Init
  <2>5. restarts \in [{"send", "receive"} -> Nat] /\ \A side \in {"send", "receive"} : restarts[side] \in 0..MaxRestarts[side]
    <3>1. \A side \in {"send", "receive"} : MaxRestarts[side] \in Nat
      BY StripeAssumption
    <3>2. restarts = [send |-> 0, receive |-> 0]
      BY DEF Init
    <3>3. restarts.send = 0 /\ restarts.receive = 0 /\ DOMAIN restarts = {"send", "receive"}
      BY <3>2
    <3>4. restarts = [side \in {"send", "receive"} |-> restarts[side]]
      BY <3>2
    <3>5. restarts \in [{"send", "receive"} -> Nat]
      BY <3>3, <3>4
    <3>6. QED
      BY <3>1, <3>3, <3>5
  <2>6. cut \in Seq(Pieces)
    BY DEF Init
  <2>7. /\ cur \in Pieces \cup {NoPiece} /\ rtxQ = {} /\ wire = {} /\ acks = {} /\ news \in BOOLEAN
        /\ handed = {} /\ died = {} /\ excuse = {}
    BY DEF Init
  <2>8. QED
    BY <1>1, <2>1, <2>2, <2>3, <2>4, <2>5, <2>6, <2>7 DEF Typed, TypeOK
<1>3. InFlight = 0 /\ Len(cut) = 0
  <2>1. Ahead(low, low) = 0
    BY <1>1, AheadIs, InSeqs
  <2>2. QED
    BY <1>1, <2>1 DEF Init, InFlight
<1>4. tx = NoRing /\ wire = {} /\ acks = {} /\ rx.started = FALSE /\ rx.ring = NoRing
  BY DEF Init
<1>5. TxOK /\ WireOK /\ AcksOK
  BY <1>3, <1>4, NoRingIs, Sizes DEF TxOK, WireOK, AcksOK
<1>6. \A s \in Seqs : ~(Behind(s) \in 1..InFlight)
  BY <1>3
<1>7. Untouched
  BY <1>3, <1>4, <1>6 DEF Untouched
<1>8. ReceiverOK
  BY <1>4, <1>7 DEF ReceiverOK
<1>9. ForgottenOK
  BY <1>3, <1>6 DEF ForgottenOK
<1>10. WindowHolds
  BY <1>4 DEF WindowHolds, Passed
<1>11. QED
  BY <1>2, <1>5, <1>8, <1>9, <1>10 DEF StripeInv

----------------------------------------------------------------------------
(* What changes only the lanes.                                            *)

LEMMA SendKeeps == ASSUME StripeInv, Send PROVE StripeInv'
<1>1. UNCHANGED <<seq, low, cut, tx, rx, handed, died, excuse, restarts, wire, acks>> /\ UNCHANGED <<cur, rtxQ, news>>
  BY DEF Send, recvVars
<1>2. Typed'
  <2>1. Typed
    BY DEF StripeInv
  <2>2. offered' \in 0..MaxFrames /\ offered + 1 \in 1..MaxFrames
    <3>1. MaxFrames \in Nat /\ offered \in 0..MaxFrames /\ offered < MaxFrames /\ offered' = offered + 1
      BY <2>1, StripeAssumption DEF MaxFrames, Send, Typed, TypeOK
    <3>2. QED
      BY <3>1
  <2>3. queue' \in Seq(1..MaxFrames) /\ Len(queue') <= QueueLimit
    <3> DEFINE S == 1..MaxFrames
    <3>1. queue \in Seq(S) /\ Len(queue) \in Nat /\ Len(queue) <= QueueLimit /\ QueueLimit \in Nat /\ offered + 1 \in S
      BY <2>1, <2>2, StripeAssumption DEF Typed, TypeOK
    <3> HIDE DEF S
    <3>2. queue' = IF Len(queue) < QueueLimit THEN Append(queue, offered + 1) ELSE queue
      BY DEF Send
    <3>3. queue' \in Seq(S) /\ Len(queue') <= QueueLimit
      BY <3>1, <3>2
    <3>4. QED
      BY <3>3 DEF S
  <2>4. QED
    BY <1>1, <2>1, <2>2, <2>3 DEF Typed, TypeOK
<1>3. QED
  BY <1>1, <1>2, LanesMove

\* A packet in flight is one of this run.
LEMMA InFlightIs ==
  ASSUME StripeInv, NEW i \in Slots, tx[i].seq # Modulus
  PROVE  /\ tx[i] # NoPacket /\ tx[i] \in Packet /\ tx[i].seq % Ring = i /\ tx[i].seq \in Seqs
         /\ PacketOK(tx[i]) /\ Behind(tx[i].seq) <= Ring
<1>1. tx[i] # NoPacket
  BY NoPacketIs
<1>2. tx \in Rings
  BY DEF StripeInv, Typed, TypeOK, Rings
<1>3. tx[i] \in Packet /\ tx[i].seq \in Seqs
  BY <1>1, <1>2, EntryIs
<1>4. tx[i].seq % Ring = i /\ Behind(tx[i].seq) \in 1..InFlight /\ PacketOK(tx[i]) /\ InFlight <= Ring
  BY <1>1 DEF StripeInv, TxOK
<1>5. Typed
  BY DEF StripeInv
<1>6. InFlight \in Nat /\ Behind(tx[i].seq) \in Nat
  BY <1>3, <1>5, RunIs
<1>7. Behind(tx[i].seq) <= Ring
  BY <1>4, <1>6, Sizes
<1>8. QED
  BY <1>1, <1>3, <1>4, <1>7

LEMMA PullAgainKeeps ==
  ASSUME StripeInv, NEW i \in Slots, tx[i].seq # Modulus, PullAgain(tx[i].seq) PROVE StripeInv'
<1>1. /\ UNCHANGED <<seq, low, cut, tx, rx, handed, died, excuse, restarts>>
      /\ UNCHANGED <<queue, cur, offered, acks, news>>
      /\ rtxQ' \subseteq rtxQ
  BY DEF PullAgain, recvVars
<1>2. wire' = wire \cup {tx[i]}
  BY InFlightIs DEF PullAgain
<1>3. Typed'
  BY <1>1, <1>2, InFlightIs DEF StripeInv, Typed, TypeOK
<1>4. QED
  BY <1>1, <1>2, <1>3, InFlightIs, LanesMove

LEMMA SpareCopyKeeps ==
  ASSUME StripeInv, NEW i \in Slots, tx[i].seq # Modulus, SpareCopy(tx[i].seq) PROVE StripeInv'
<1>1. /\ UNCHANGED <<seq, low, cut, tx, rx, handed, died, excuse, restarts>>
      /\ UNCHANGED <<queue, cur, offered, acks, news, rtxQ>>
  BY DEF SpareCopy, recvVars, sendVars
<1>2. wire' = wire \cup {tx[i]}
  BY InFlightIs DEF SpareCopy
<1>3. Typed'
  BY <1>1, <1>2, InFlightIs DEF StripeInv, Typed, TypeOK
<1>4. QED
  BY <1>1, <1>2, <1>3, InFlightIs, LanesMove

LEMMA DetectLossKeeps ==
  ASSUME StripeInv, NEW i \in Slots, tx[i].seq # Modulus, DetectLoss(tx[i].seq) PROVE StripeInv'
<1>1. /\ UNCHANGED <<seq, low, cut, tx, rx, handed, died, excuse, restarts>>
      /\ UNCHANGED <<queue, cur, offered, acks, news, wire>>
      /\ rtxQ' = rtxQ \cup {tx[i].seq}
  BY DEF DetectLoss, recvVars
<1>2. Typed'
  BY <1>1 DEF StripeInv, Typed, TypeOK
<1>3. QED
  BY <1>1, <1>2, LanesMove

LEMMA LosePacketKeeps == ASSUME StripeInv, NEW m, LosePacket(m) PROVE StripeInv'
<1>1. /\ UNCHANGED <<seq, low, cut, tx, rx, handed, died, excuse, restarts>>
      /\ UNCHANGED <<queue, cur, offered, acks, news, rtxQ>> /\ wire' \subseteq wire
  BY DEF LosePacket, recvVars, sendVars
<1>2. Typed'
  BY <1>1 DEF StripeInv, Typed, TypeOK
<1>3. QED
  BY <1>1, <1>2, LanesMove

LEMMA LoseAckKeeps == ASSUME StripeInv, NEW a, LoseAck(a) PROVE StripeInv'
<1>1. /\ UNCHANGED <<seq, low, cut, tx, rx, handed, died, excuse, restarts>>
      /\ UNCHANGED <<queue, cur, offered, wire, news, rtxQ>> /\ acks' \subseteq acks
  BY DEF LoseAck, recvVars, sendVars
<1>2. Typed'
  BY <1>1 DEF StripeInv, Typed, TypeOK
<1>3. QED
  BY <1>1, <1>2, LanesMove

\* What the receiver says of its window.
LEMMA AckIs ==
  ASSUME StripeInv, rx.started
  PROVE  /\ AckFrame \in Ack /\ AckFrame.cum = rx.next
         /\ Counts(AckFrame) => AckSound(AckFrame)
<1> DEFINE hi == IF Before(rx.hi, rx.next) THEN Plus(rx.next, -1) ELSE rx.hi
           far == Ahead(Plus(hi, 1), rx.next)
           miss == {k \in 0..(far - 1) : ~Held(rx.ring, Plus(rx.next, k))}
           starts == {k \in miss : k - 1 \notin miss}
           cutAt == IF Cardinality(starts) > Runs THEN Nth(starts, Runs + 1) ELSE far
           top == Span(rx)
           end == Plus(rx.next, cutAt - 1)
           missing == {Plus(rx.next, k) : k \in {j \in miss : j < cutAt}}
<1>1. AckFrame = [cum |-> rx.next, hi |-> end, missing |-> missing]
  BY DEF AckFrame
<1>2. Typed /\ Fits(rx)
  BY DEF StripeInv, ReceiverOK
<1>3. rx.next \in Seqs /\ rx.hi \in Seqs /\ rx.ring \in Rings
  BY <1>2 DEF Typed, TypeOK, Rings
<1>4. Ring \in Nat /\ Ring >= 1 /\ Modulus \in Nat /\ Modulus >= 8 * Ring
  BY Sizes
<1>5. top \in Nat /\ top <= Ring
  BY <1>2, <1>3, NextIs, AheadIs DEF Span, Fits
<1>6. far = top
  <2> DEFINE x == Ahead(rx.hi, rx.next)
             h == Plus(rx.next, -1)
  <2>1. x \in Nat /\ x < Modulus /\ top = IF x = Modulus - 1 THEN 0 ELSE x + 1
    BY <1>3, AheadIs, HiIs DEF Span
  <2>2. CASE Before(rx.hi, rx.next)
    <3>1. h \in Seqs /\ far = Ahead(Plus(h, 1), rx.next)
      <4>1. -1 \in Int /\ -1 >= -Modulus /\ -1 <= Modulus
        BY <1>4
      <4>2. h \in Seqs
        BY <1>3, <4>1, PlusIs
      <4>3. QED
        BY <2>2, <4>2
    <3>2. Plus(h, 1) = rx.next
      <4> DEFINE n == rx.next
      <4>1. n \in Nat /\ n < Modulus /\ h \in Nat /\ h < Modulus
        BY <1>3, <3>1, InSeqs
      <4>2. -1 \in Int /\ -1 >= -Modulus /\ -1 <= Modulus
        BY <1>4
      <4>3. h = IF n + (-1) < 0 THEN n + (-1) + Modulus ELSE IF n + (-1) < Modulus THEN n + (-1) ELSE n + (-1) - Modulus
        BY <1>3, <4>2, PlusIs
      <4>4. Plus(h, 1) = IF h + 1 < Modulus THEN h + 1 ELSE 0
        BY <3>1, NextIs
      <4> DEFINE p == Plus(h, 1)
      <4> HIDE DEF h, n, p
      <4>5. p = n
        BY <1>4, <4>1, <4>3, <4>4 DEF p
      <4>6. QED
        BY <4>5 DEF n, p
    <3>3. far = 0
      <4>1. Ahead(rx.next, rx.next) = 0
        BY <1>3, NothingMoves
      <4>2. QED
        BY <3>1, <3>2, <4>1
    <3>4. top = 0
      <4>1. ~(x <= 4 * Ring - 1)
        BY <1>3, <2>2, BeforeIs
      <4> HIDE DEF x, top
      <4>2. QED
        BY <1>4, <1>5, <2>1, <4>1
    <3>5. QED
      BY <3>3, <3>4
  <2>3. CASE ~Before(rx.hi, rx.next)
    <3>1. far = Ahead(Plus(rx.hi, 1), rx.next)
      BY <2>3
    <3>2. QED
      BY <3>1 DEF Span
  <2>4. QED
    BY <2>2, <2>3
<1> HIDE DEF hi, far
<1>7. miss \in SUBSET Nat /\ IsFiniteSet(miss) /\ \A k \in miss : k < top
  <2>1. \A k \in miss : k \in Nat /\ k < top /\ k \in 0..(far - 1)
    BY <1>5, <1>6
  <2>2. IsFiniteSet(0..(far - 1))
    <3>1. far \in Nat
      BY <1>5, <1>6
    <3>2. 0 \in Int /\ far - 1 \in Int
      BY <3>1
    <3>3. QED
      BY <3>2, FS_Interval
  <2>3. miss \in SUBSET (0..(far - 1))
    OBVIOUS
  <2> HIDE DEF miss
  <2>4. IsFiniteSet(miss)
    BY <2>2, <2>3, FS_Subset
  <2>5. QED
    BY <2>1, <2>4
<1>8. cutAt \in Nat /\ cutAt <= top
  <2>1. CASE Cardinality(starts) > Runs
    <3>1. starts \in SUBSET miss
      OBVIOUS
    <3>2. cutAt = Nth(starts, Runs + 1)
      BY <2>1
    <3> HIDE DEF miss, starts
    <3>3. starts \in SUBSET Nat /\ IsFiniteSet(starts)
      BY <1>7, <3>1, FS_Subset
    <3>4. Runs + 1 \in 1..Cardinality(starts)
      <4>1. Cardinality(starts) \in Nat
        BY <3>3, FS_CardinalityType
      <4>2. QED
        BY <2>1, <4>1, StripeAssumption
    <3>5. \A n \in 1..Cardinality(starts) : \E k \in starts : Cardinality({j \in starts : j <= k}) = n
      BY <3>3, Ranks
    <3> DEFINE n == Runs + 1
    <3>6. \E k \in starts : Cardinality({j \in starts : j <= k}) = n
      BY <3>4, <3>5
    <3> HIDE DEF n
    <3>7. Nth(starts, n) \in starts
      BY <3>6 DEF Nth
    <3>8. cutAt \in starts
      BY <3>2, <3>7 DEF n
    <3> HIDE DEF cutAt
    <3>9. cutAt \in Nat /\ cutAt < top
      BY <1>7, <3>1, <3>8
    <3>10. QED
      BY <1>5, <3>9
  <2>2. CASE ~(Cardinality(starts) > Runs)
    BY <1>5, <1>6, <2>2
  <2>3. QED
    BY <2>1, <2>2
<1> HIDE DEF cutAt
<1>9. end \in Seqs
  <2>1. cutAt - 1 \in Int /\ cutAt - 1 >= -Modulus /\ cutAt - 1 <= Modulus
    <3> HIDE DEF top
    <3>1. QED
      BY <1>4, <1>5, <1>8
  <2> DEFINE c == cutAt - 1
  <2> HIDE DEF c
  <2>2. Plus(rx.next, c) \in Seqs
    BY <1>3, <2>1, PlusIs DEF c
  <2>3. QED
    BY <2>2 DEF c
<1>10. missing \subseteq Seqs
  <2> SUFFICES ASSUME NEW k \in miss PROVE Plus(rx.next, k) \in Seqs
    OBVIOUS
  <2>1. k \in Nat /\ k < top
    BY <1>7
  <2>2. k < Modulus
    <3> HIDE DEF top, miss
    <3>1. QED
      BY <1>4, <1>5, <2>1
  <2> HIDE DEF miss
  <2>3. QED
    BY <1>3, <2>1, <2>2, AheadPlus
<1>11. AckFrame \in Ack /\ AckFrame.cum = rx.next /\ AckFrame.hi = end /\ AckFrame.missing = missing
  <2> HIDE DEF end, missing
  <2>1. QED
    BY <1>1, <1>3, <1>9, <1>10 DEF Ack
<1>12. ASSUME Counts(AckFrame) PROVE AckSound(AckFrame)
  <2> DEFINE b == Behind(rx.next)
             n == Len(cut)
  <2>1. n \in Nat /\ b \in Nat /\ b < Modulus /\ seq \in Seqs /\ \A s \in Seqs : Behind(s) \in Nat
    BY <1>2, <1>3, RunIs
  <2>2. b <= 2 * Ring
    BY <1>11, <1>12 DEF Counts
  <2>3. Follows(rx, excuse)
    <3> SUFFICES ASSUME Elsewhere PROVE FALSE
      BY DEF StripeInv, ReceiverOK
    <3>1. n + 2 * Ring + 1 + top <= b
      BY DEF Elsewhere
    <3> HIDE DEF n, b, top
    <3>2. QED
      BY <1>4, <1>5, <2>1, <2>2, <3>1
  <2>4. b <= n /\ top <= b
    BY <2>3 DEF Follows
  <2>5. Behind(end) = b - (cutAt - 1)
    <3> DEFINE c == cutAt - 1
    <3>1. c \in Int /\ c <= b /\ c > b - Modulus
      <4> HIDE DEF b, top, n
      <4>1. QED
        BY <1>4, <1>5, <1>8, <2>1, <2>2, <2>4
    <3> HIDE DEF c
    <3>2. Behind(Plus(rx.next, c)) = b - c
      BY <1>3, <2>1, <3>1, BehindPlus DEF Behind
    <3>3. QED
      BY <3>2 DEF c
  <2>6. Behind(end) \in 1..(b + 1)
    <3> HIDE DEF b, top, n, end
    <3>1. QED
      BY <1>5, <1>8, <2>1, <2>4, <2>5
  <2>7. \A k \in 1..(n - b) : Gone(k)
    <3> TAKE k \in 1..(n - b)
    <3>1. Ahead(Plus(seq, 1), rx.next) = b
      BY DEF Behind, BehindOf
    <3>2. Passed = {cut[i] : i \in 1..(n - b)} \ handed
      BY <2>4, <3>1 DEF Passed
    <3> HIDE DEF n, b
    <3>3. QED
      BY <3>2 DEF Gone
  <2>8. ASSUME NEW s \in Seqs, Behind(end) <= Behind(s), Behind(s) <= b, s \notin missing PROVE Kept(s)
    <3> DEFINE k == Ahead(s, rx.next)
               y == Behind(s)
    <3>1. k = b - y /\ y \in Nat
      <4>1. k = IF b >= y THEN b - y ELSE b - y + Modulus
        BY <1>3, <2>1, AheadBehind DEF Behind
      <4>2. y \in Nat /\ b >= y
        BY <2>1, <2>8
      <4>3. QED
        BY <4>1, <4>2
    <3>2. Plus(rx.next, k) = s
      BY <1>3, PlusAhead
    <3>3. k \in Nat /\ k < cutAt
      <4>1. b - (cutAt - 1) <= y /\ y <= b
        BY <2>5, <2>8
      <4> HIDE DEF k, b, y, n
      <4>2. QED
        BY <1>8, <2>1, <3>1, <4>1
    <3>4. k \in 0..(far - 1)
      <4> HIDE DEF k, top
      <4>1. QED
        BY <1>5, <1>6, <1>8, <3>3
    <3>5. k \notin miss
      BY <2>8, <3>2, <3>3
    <3>6. Held(rx.ring, s)
      BY <3>2, <3>4, <3>5
    <3>7. QED
      BY <3>6 DEF Kept
  <2> HIDE DEF end, missing
  <2>9. AckSound(AckFrame)
    BY <1>11, <2>4, <2>6, <2>7, <2>8 DEF AckSound
  <2>10. QED
    BY <2>9
<1>13. QED
  BY <1>11, <1>12

LEMMA SendAckKeeps == ASSUME StripeInv, SendAck PROVE StripeInv'
<1>1. /\ UNCHANGED <<seq, low, cut, tx, rx, handed, died, excuse, restarts>>
      /\ UNCHANGED <<queue, cur, offered, wire, rtxQ>>
      /\ rx.started /\ acks' = acks \cup {AckFrame} /\ news' = FALSE
  BY DEF SendAck, sendVars
<1>2. AckFrame \in Ack /\ AckFrame.cum = rx.next /\ (Counts(AckFrame) => AckSound(AckFrame))
  BY <1>1, AckIs
<1>3. Typed'
  BY <1>1, <1>2 DEF StripeInv, Typed, TypeOK
<1>4. QED
  BY <1>1, <1>2, <1>3, LanesMove

----------------------------------------------------------------------------
(* The receiver moves, or restarts.                                        *)

\* What a window with next moved past of this run.
Past(next) == {cut[i] : i \in 1..(Len(cut) - Behind(next))}

LEMMA PassedIs ==
  /\ ~rx.started => Passed = {}
  /\ ~(Behind(rx.next) <= Len(cut)) => Passed = {}
  /\ rx.started /\ Behind(rx.next) <= Len(cut) => Passed = Past(rx.next) \ handed
<1>1. Ahead(Plus(seq, 1), rx.next) = Behind(rx.next)
  BY DEF Behind, BehindOf
<1>2. QED
  BY <1>1 DEF Passed, Past

LEMMA BufferIs ==
  ASSUME StripeInv
  PROVE  /\ Buffer \in Window /\ Buffer.started = rx.started /\ Buffer.next = rx.next /\ Buffer.hi = rx.hi
         /\ Buffer.ring = rx.ring /\ Span(Buffer) = Span(rx) /\ (Fits(Buffer) <=> Fits(rx))
         /\ \A ex : Follows(Buffer, ex) <=> Follows(rx, ex)
         /\ PiecesOut(Buffer) = {}
<1>1. rx.started \in BOOLEAN /\ rx.next \in Seqs /\ rx.hi \in Seqs /\ rx.ring \in Rings /\ rx.gap \in BOOLEAN
  BY DEF StripeInv, Typed, TypeOK, Rings
<1>2. <<>> \in Seq(Outs)
  OBVIOUS
<1>3. Buffer \in Window
  BY <1>1, <1>2 DEF Buffer, Window
<1>4. /\ Buffer.started = rx.started /\ Buffer.next = rx.next /\ Buffer.hi = rx.hi
      /\ Buffer.ring = rx.ring /\ Buffer.out = <<>>
  BY DEF Buffer
<1> HIDE DEF Buffer
<1>5. Span(Buffer) = Span(rx)
  BY <1>4 DEF Span
<1>6. Fits(Buffer) <=> Fits(rx)
  BY <1>4, <1>5 DEF Fits
<1>7. \A ex : Follows(Buffer, ex) <=> Follows(rx, ex)
  BY <1>4, <1>5 DEF Follows
<1>8. PiecesOut(Buffer) = {}
  BY <1>4 DEF PiecesOut
<1>9. QED
  BY <1>3, <1>4, <1>5, <1>6, <1>7, <1>8

LEMMA SettleIs ==
  ASSUME NEW r \in Window, Settle(r)
  PROVE  /\ rx' = [started |-> r.started, next |-> r.next, hi |-> r.hi, ring |-> r.ring, gap |-> r.gap]
         /\ handed' = handed \cup PiecesOut(r)
BY DEF Settle, PiecesOut

\* The buffer settles as r, and follows this run.
LEMMA Settles ==
  ASSUME StripeInv, NEW r \in Window, Settle(r), r.started = TRUE, UNCHANGED <<sendVars, acks, died, restarts>>,
         wire' \subseteq wire, news' \in BOOLEAN, excuse' \subseteq {"joined", "gaveUp", "restarted"},
         Fits(r), Follows(r, excuse'), Passed \subseteq Past(r.next),
         \A s \in Seqs : Behind(s) \in 1..Len(cut) /\ Held(rx.ring, s) => Held(r.ring, s) \/ Behind(s) > Behind(r.next),
         excuse' = {} => Past(r.next) \subseteq handed \cup PiecesOut(r)
  PROVE  StripeInv'
<1>1. /\ rx'.started = TRUE /\ rx'.next = r.next /\ rx'.hi = r.hi /\ rx'.ring = r.ring /\ rx'.gap = r.gap
      /\ handed' = handed \cup PiecesOut(r)
  BY SettleIs
<1>2. UNCHANGED <<seq, low, cut, acks, tx, queue, cur, offered, rtxQ>>
  BY DEF sendVars
<1>3. /\ InFlight' = InFlight /\ Len(cut)' = Len(cut)
      /\ \A s : Behind(s)' = Behind(s) /\ At(s)' = At(s)
      /\ \A a : Counts(a)' <=> Counts(a)
  BY <1>2, SameRun
<1>4. Typed
  BY DEF StripeInv
<1> DEFINE n == Len(cut)
           b == Behind(r.next)
<1>5. n \in Nat /\ b \in Nat /\ b <= n /\ \A s \in Seqs : Behind(s) \in Nat
  BY <1>4, RunIs, WindowIs DEF Follows
<1>6. r.next \in Seqs /\ r.hi \in Seqs /\ r.ring \in Rings /\ r.gap \in BOOLEAN /\ PiecesOut(r) \subseteq Pieces
  BY WindowIs
<1>7. Typed'
  BY <1>1, <1>2, <1>4, <1>6 DEF Typed, TypeOK, Rings
<1>8. Behind(rx.next)' = b /\ Span(rx)' = Span(r)
  <2>1. Behind(rx.next)' = BehindOf(seq, r.next)
    BY <1>1, <1>2 DEF Behind
  <2>2. QED
    BY <1>1, <2>1 DEF Span, Behind
<1>9. Fits(rx)'
  BY <1>1 DEF Fits, Span, Near
<1>10. Follows(rx, excuse)'
  <2>1. /\ b <= Len(cut) /\ b <= InFlight + 2 * Ring /\ Span(r) <= b
        /\ \A i \in Slots : r.ring[i] # NoPacket => r.ring[i].piece = cut[At(r.ring[i].seq)]
        /\ \A a \in acks : Counts(a) => b <= Behind(a.cum) + 2 * Ring
        /\ excuse' = {} => b <= InFlight /\ \A a \in acks : Counts(a) => b <= Behind(a.cum)
    BY DEF Follows
  <2> HIDE DEF b
  <2>2. (\A i \in Slots : rx.ring[i] # NoPacket => rx.ring[i].piece = cut[At(rx.ring[i].seq)])'
    <3>1. \A i \in Slots : At(rx.ring[i].seq)' = At(r.ring[i].seq)
      BY <1>1, <1>2 DEF At, Behind
    <3>2. QED
      BY <1>1, <1>2, <2>1, <3>1
  <2>3. (\A a \in acks : Counts(a) => Behind(rx.next) <= Behind(a.cum) + 2 * Ring)'
    BY <1>2, <1>3, <1>8, <2>1
  <2>4. (excuse = {} => /\ Behind(rx.next) <= InFlight
                        /\ \A a \in acks : Counts(a) => Behind(rx.next) <= Behind(a.cum))'
    BY <1>2, <1>3, <1>8, <2>1
  <2>5. QED
    BY <1>3, <1>8, <2>1, <2>2, <2>3, <2>4 DEF Follows
<1>11. ReceiverOK'
  BY <1>1, <1>9, <1>10 DEF ReceiverOK
<1>12. Passed' = Past(r.next) \ handed'
  <2>1. Ahead(Plus(seq, 1), r.next) = b
    BY DEF Behind, BehindOf
  <2> HIDE DEF b
  <2>2. Passed' = {cut[i] : i \in 1..(n - b)} \ handed'
    BY <1>1, <1>2, <1>5, <2>1 DEF Passed
  <2>3. QED
    BY <2>2 DEF Past, b
<1>13. WindowHolds'
  BY <1>1, <1>12 DEF WindowHolds
<1>14. \A k \in 1..n : Gone(k) => Gone(k)'
  <2> TAKE k \in 1..n
  <2>1. HAVE Gone(k)
  <2>2. cut[k] \in handed' \cup died' \cup Passed'
    BY <1>1, <1>12, <2>1 DEF Gone
  <2>3. QED
    BY <1>2, <2>2 DEF Gone
<1>15. \A s \in Seqs : Behind(s) \in 1..n /\ Held(rx.ring, s) => Gone(At(s))' \/ Held(rx'.ring, s)
  <2> TAKE s \in Seqs
  <2>1. HAVE Behind(s) \in 1..n /\ Held(rx.ring, s)
  <2>2. CASE Held(r.ring, s)
    BY <1>1, <2>2
  <2>3. CASE Behind(s) > b
    <3> DEFINE y == Behind(s)
               k == At(s)
    <3>1. k = n + 1 - y /\ y \in 1..n /\ y > b
      BY <2>1, <2>3 DEF At
    <3> HIDE DEF y, k, b, n
    <3>2. k \in 1..(n - b)
      BY <1>5, <3>1
    <3>3. cut[k] \in Past(r.next)
      BY <3>2 DEF Past, n, b
    <3>4. cut'[k] \in handed' \cup died' \cup Passed'
      BY <1>2, <1>12, <3>3
    <3>5. At(s)' = k
      BY <1>3 DEF k
    <3>6. Gone(At(s))'
      BY <3>4, <3>5 DEF Gone
    <3>7. QED
      BY <3>6
  <2>4. QED
    BY <2>1, <2>2, <2>3
<1>16. QED
  BY <1>7, <1>11, <1>13, <1>14, <1>15, ReceiverMoves

\* What is held is within the window's span.
LEMMA HeldWithin ==
  ASSUME NEW ring \in Rings, NEW next \in Seqs, NEW top \in Nat, Near(ring, next, top), NEW s \in Seqs, Held(ring, s)
  PROVE  Ahead(s, next) \in Nat /\ Ahead(s, next) < top
<1>1. s % Ring \in Slots /\ ring[s % Ring] # NoPacket /\ ring[s % Ring].seq = s
  BY HeldIs
<1>2. QED
  BY <1>1, AheadIs DEF Near

LEMMA WindowOfRx ==
  ASSUME StripeInv, rx.started
  PROVE  /\ Fits(rx) /\ rx.next \in Seqs /\ rx.hi \in Seqs /\ rx.ring \in Rings /\ Span(rx) \in Nat /\ Span(rx) <= Ring
         /\ Near(rx.ring, rx.next, Span(rx)) /\ Behind(rx.next) \in Nat /\ Behind(rx.next) < Modulus
         /\ Follows(rx, excuse) \/ Elsewhere
<1>1. Fits(rx) /\ (Follows(rx, excuse) \/ Elsewhere) /\ Typed
  BY DEF StripeInv, ReceiverOK
<1>2. rx.next \in Seqs /\ rx.hi \in Seqs /\ rx.ring \in Rings
  BY <1>1 DEF Typed, TypeOK, Rings
<1>3. Span(rx) \in Nat
  BY <1>2, NextIs, AheadIs DEF Span
<1>4. QED
  BY <1>1, <1>2, <1>3, RunIs DEF Fits

\* How far what is held is behind.
LEMMA HeldBehind ==
  ASSUME StripeInv, rx.started, NEW s \in Seqs, Held(rx.ring, s), Span(rx) <= Behind(rx.next)
  PROVE  Ahead(s, rx.next) \in Nat /\ Ahead(s, rx.next) < Span(rx) /\ Behind(s) = Behind(rx.next) - Ahead(s, rx.next)
<1> DEFINE b == Behind(rx.next)
           x == Ahead(s, rx.next)
<1>1. /\ rx.next \in Seqs /\ rx.ring \in Rings /\ Span(rx) \in Nat /\ Near(rx.ring, rx.next, Span(rx))
      /\ b \in Nat /\ b < Modulus /\ Typed
  BY WindowOfRx DEF StripeInv
<1>2. x \in Nat /\ x < Span(rx)
  BY <1>1, HeldWithin
<1>3. Plus(rx.next, x) = s
  BY <1>1, PlusAhead
<1>4. x \in Int /\ x <= b /\ x > b - Modulus
  <2> DEFINE top == Span(rx)
  <2>1. x < top /\ top <= b /\ top \in Nat
    BY <1>1, <1>2
  <2> HIDE DEF x, b, top
  <2>2. QED
    BY <1>1, <1>2, <2>1, Sizes
<1>5. Behind(Plus(rx.next, x)) = b - x
  BY <1>1, <1>4, BehindPlus, RunIs DEF Behind
<1>6. QED
  BY <1>2, <1>3, <1>5

\* What a receiver holds of another run is not of this one.
LEMMA OthersHeld ==
  ASSUME StripeInv, rx.started, Elsewhere, NEW s \in Seqs, Held(rx.ring, s)
  PROVE  ~(Behind(s) \in 1..Len(cut))
<1> DEFINE b == Behind(rx.next)
           x == Ahead(s, rx.next)
           top == Span(rx)
           y == Behind(s)
<1>1. b \in Nat /\ top \in Nat /\ Len(cut) \in Nat /\ Len(cut) + 2 * Ring + 1 + top <= b
  BY WindowOfRx, RunIs DEF StripeInv, Elsewhere
<1>2. top <= b
  <2> HIDE DEF b, top
  <2>1. QED
    BY <1>1, Sizes
<1>3. x \in Nat /\ x < top /\ y = b - x
  BY <1>2, HeldBehind
<1> HIDE DEF b, x, top, y
<1>4. y > Len(cut)
  BY <1>1, <1>3, Sizes
<1>5. ~(y \in 1..Len(cut))
  BY <1>1, <1>3, <1>4
<1>6. QED
  BY <1>5 DEF y

LEMMA RestartReceiverKeeps == ASSUME StripeInv, RestartReceiver PROVE StripeInv'
<1>1. /\ rx.started /\ UNCHANGED <<sendVars, wire, acks, handed>>
      /\ restarts.receive < MaxRestarts.receive /\ restarts' = [restarts EXCEPT !.receive = @ + 1]
      /\ died' = died \cup Passed \cup {rx.ring[i].piece : i \in Buffered}
      /\ rx' = [started |-> FALSE, next |-> 0, hi |-> 0, ring |-> NoRing, gap |-> FALSE]
      /\ news' = FALSE /\ excuse' = excuse \cup {"restarted"}
  BY DEF RestartReceiver
<1>2. UNCHANGED <<seq, low, cut, acks, tx, queue, cur, offered, rtxQ>>
  BY <1>1 DEF sendVars
<1>3. rx'.started = FALSE /\ rx'.next = 0 /\ rx'.hi = 0 /\ rx'.ring = NoRing /\ rx'.gap = FALSE
  BY <1>1
<1>4. Typed
  BY DEF StripeInv
<1>5. died' \subseteq Pieces
  <2>1. Passed \subseteq Pieces
    <3>1. cut \in Seq(Pieces)
      BY <1>4 DEF Typed
    <3>2. Passed \subseteq {cut[i] : i \in 1..Len(cut)}
      <4>1. \A i \in 1..(Len(cut) - Behind(rx.next)) : i \in 1..Len(cut)
        BY <1>4, RunIs, WindowOfRx, <1>1
      <4>2. Past(rx.next) \subseteq {cut[i] : i \in 1..Len(cut)}
        BY <4>1 DEF Past
      <4>3. QED
        BY <1>1, <4>2, PassedIs
    <3>3. \A i \in 1..Len(cut) : cut[i] \in Pieces
      BY <3>1
    <3>4. QED
      BY <3>2, <3>3
  <2>2. \A i \in Buffered : rx.ring[i].piece \in Pieces
    <3>1. rx.ring \in Rings
      BY <1>1, WindowOfRx
    <3>2. QED
      BY <3>1, EntryIs DEF Buffered
  <2>3. died \subseteq Pieces
    BY <1>4 DEF Typed, TypeOK
  <2>4. QED
    BY <1>1, <2>1, <2>2, <2>3
<1>6. restarts' \in [{"send", "receive"} -> Nat] /\ \A side \in {"send", "receive"} : restarts'[side] \in 0..MaxRestarts[side]
  <2>1. restarts \in [{"send", "receive"} -> Nat] /\ \A side \in {"send", "receive"} : restarts[side] \in 0..MaxRestarts[side]
    BY <1>4 DEF Typed, TypeOK
  <2>2. restarts' \in [{"send", "receive"} -> Nat]
    BY <1>1, <2>1
  <2>3. restarts'["send"] = restarts["send"] /\ restarts'["receive"] = restarts["receive"] + 1
    BY <1>1, <2>1
  <2>4. \A side \in {"send", "receive"} : MaxRestarts[side] \in Nat
    BY StripeAssumption
  <2>5. restarts["receive"] + 1 \in 0..MaxRestarts["receive"]
    BY <1>1, <2>1, <2>4
  <2>6. QED
    BY <2>1, <2>2, <2>3, <2>5
<1>7. Typed'
  <2>1. NoRing \in [Slots -> Packet \cup {NoPacket}] /\ 0 \in Seqs
    BY NoRingIs, InSeqs, Sizes DEF Rings
  <2>2. QED
    BY <1>1, <1>2, <1>3, <1>4, <1>5, <1>6, <2>1 DEF Typed, TypeOK
<1>8. ReceiverOK'
  BY <1>1, <1>3 DEF ReceiverOK
<1>9. Passed' = {}
  BY <1>3 DEF Passed
<1>10. WindowHolds'
  BY <1>9 DEF WindowHolds
<1>11. \A k \in 1..Len(cut) : Gone(k) => Gone(k)'
  <2> TAKE k \in 1..Len(cut)
  <2>1. HAVE Gone(k)
  <2>2. cut[k] \in handed' \cup died'
    BY <1>1, <2>1 DEF Gone
  <2>3. QED
    BY <1>2, <2>2 DEF Gone
<1>12. \A s \in Seqs : Behind(s) \in 1..Len(cut) /\ Held(rx.ring, s) => Gone(At(s))' \/ Held(rx'.ring, s)
  <2> TAKE s \in Seqs
  <2>1. HAVE Behind(s) \in 1..Len(cut) /\ Held(rx.ring, s)
  <2>2. Follows(rx, excuse)
    BY <1>1, <2>1, WindowOfRx, OthersHeld
  <2> DEFINE i == s % Ring
  <2>3. i \in Slots /\ rx.ring[i] # NoPacket /\ rx.ring[i].seq = s
    BY <1>1, <2>1, WindowOfRx, HeldIs
  <2> HIDE DEF i
  <2>4. rx.ring[i].piece = cut[At(s)] /\ i \in Buffered
    BY <2>2, <2>3 DEF Follows, Buffered
  <2>5. cut[At(s)] \in died'
    BY <1>1, <2>4
  <2>6. At(s)' = At(s)
    BY <1>2, SameRun
  <2>7. Gone(At(s))'
    BY <1>2, <2>5, <2>6 DEF Gone
  <2>8. QED
    BY <2>7
<1>13. UNCHANGED <<sendVars, acks>> /\ wire' \subseteq wire
  BY <1>1
<1>14. QED
  BY <1>7, <1>8, <1>10, <1>11, <1>12, <1>13, ReceiverMoves

LEMMA GiveUpKeeps == ASSUME StripeInv, GiveUp PROVE StripeInv'
<1> DEFINE there == {k \in Slots : Held(rx.ring, Plus(rx.next, k))}
           first == Plus(rx.next, Min(there))
           end == RunEnd(rx, first)
           final == MoveTo(Buffer, end)
<1>1. /\ Buffered # {} /\ Settle(final) /\ news' = TRUE /\ excuse' = excuse \cup {"gaveUp"}
      /\ UNCHANGED <<sendVars, wire, acks, died, restarts>>
  BY DEF GiveUp
<1>2. rx.started
  <2> SUFFICES ASSUME ~rx.started PROVE FALSE
    OBVIOUS
  <2>1. rx.ring = NoRing
    BY DEF StripeInv, ReceiverOK
  <2>2. QED
    BY <1>1, <2>1, NoRingIs DEF Buffered
<1>3. /\ Fits(rx) /\ rx.next \in Seqs /\ rx.hi \in Seqs /\ rx.ring \in Rings /\ Span(rx) \in Nat /\ Span(rx) <= Ring
      /\ Near(rx.ring, rx.next, Span(rx)) /\ Behind(rx.next) \in Nat /\ Behind(rx.next) < Modulus
      /\ Follows(rx, excuse) \/ Elsewhere
  BY <1>2, WindowOfRx
<1>4. there # {} /\ there \in SUBSET Nat
  <2>1. PICK i \in Slots : rx.ring[i] # NoPacket
    BY <1>1 DEF Buffered
  <2> DEFINE s == rx.ring[i].seq
             k == Ahead(s, rx.next)
  <2>2. s \in Seqs /\ Held(rx.ring, s)
    BY <1>3, <2>1, EntryIs DEF Near
  <2>3. k \in Nat /\ k < Span(rx)
    BY <1>3, <2>2, HeldWithin
  <2>4. Plus(rx.next, k) = s
    BY <1>3, <2>2, PlusAhead
  <2>5. k \in Slots
    <3> DEFINE top == Span(rx)
    <3> HIDE DEF k, top
    <3>1. k < Ring
      BY <1>3, <2>3, Sizes DEF top
    <3>2. QED
      BY <2>3, <3>1, InSlots
  <2>6. k \in there
    BY <2>2, <2>4, <2>5
  <2> HIDE DEF k
  <2>7. QED
    BY <2>6, InSlots
<1> DEFINE j == Min(there)
<1>5. j \in there
  <2> HIDE DEF there
  <2>1. QED
    BY <1>4, LeastIs
<1>6. j \in Nat /\ j < Ring /\ Held(rx.ring, Plus(rx.next, j))
  BY <1>5, InSlots
<1> HIDE DEF j, there
<1>7. first \in Seqs /\ Ahead(first, rx.next) = j /\ Held(rx.ring, first)
  <2>1. j < Modulus
    BY <1>6, Sizes
  <2>2. first = Plus(rx.next, j)
    BY DEF j
  <2> HIDE DEF first
  <2>3. QED
    BY <1>3, <1>6, <2>1, <2>2, AheadPlus
<1> HIDE DEF first
<1>8. Ahead(first, rx.next) <= Span(rx)
  <2>1. Ahead(first, rx.next) \in Nat /\ Ahead(first, rx.next) < Span(rx)
    BY <1>3, <1>7, HeldWithin
  <2>2. QED
    BY <1>3, <2>1
<1>9. /\ Buffer \in Window /\ Buffer.started = rx.started /\ Buffer.next = rx.next /\ Buffer.ring = rx.ring
      /\ Span(Buffer) = Span(rx) /\ Fits(Buffer) /\ PiecesOut(Buffer) = {}
      /\ \A ex : Follows(Buffer, ex) <=> Follows(rx, ex)
  BY <1>3, BufferIs
<1>10. RunEnd(rx, first) = RunEnd(Buffer, first)
  BY <1>9 DEF RunEnd
<1>11. end \in Seqs /\ Ahead(end, Buffer.next) <= Span(Buffer)
  BY <1>7, <1>8, <1>9, <1>10, RunWithin
<1> HIDE DEF end
<1>12. Advances(Buffer, final, {})
  BY <1>9, <1>11, MovesOn
<1> HIDE DEF final
<1>13. final \in Window /\ final.started = TRUE /\ Fits(final)
  BY <1>2, <1>9, <1>12 DEF Advances, Window
<1>14. Typed /\ news' \in BOOLEAN /\ excuse' \subseteq {"joined", "gaveUp", "restarted"} /\ excuse' # {}
  BY <1>1 DEF StripeInv, Typed, TypeOK
<1>15. CASE Follows(rx, excuse)
  <2>1. Follows(Buffer, excuse')
    <3>1. Follows(rx, excuse')
      BY <1>14, <1>15 DEF Follows
    <3>2. QED
      BY <1>9, <3>1
  <2>2. /\ Follows(final, excuse') /\ Behind(final.next) <= Behind(rx.next)
        /\ \A s \in Seqs : Held(rx.ring, s) => Held(final.ring, s) \/ Behind(s) > Behind(final.next)
    <3>1. {} \in SUBSET Packet /\ \A m \in {} : PacketOK(m) /\ Ahead(m.seq, Buffer.next) = Behind(Buffer.next) - Behind(m.seq)
      OBVIOUS
    <3> DEFINE none == {}
    <3> HIDE DEF none
    <3>2. none \in SUBSET Packet /\ Advances(Buffer, final, none)
          /\ \A m \in none : PacketOK(m) /\ Ahead(m.seq, Buffer.next) = Behind(Buffer.next) - Behind(m.seq)
      BY <1>12, <3>1 DEF none
    <3>3. /\ Follows(final, excuse') /\ Behind(final.next) <= Behind(Buffer.next)
          /\ \A s \in Seqs : Held(Buffer.ring, s) => Held(final.ring, s) \/ Behind(s) > Behind(final.next)
      BY <1>9, <1>14, <2>1, <3>2, FollowsOn
    <3>4. QED
      BY <1>9, <3>3
  <2>3. Passed \subseteq Past(final.next)
    <3>1. Past(rx.next) \subseteq Past(final.next)
      <4> DEFINE b == Behind(rx.next)
                 c == Behind(final.next)
      <4>1. c \in Nat /\ c <= b /\ b \in Nat /\ Len(cut) \in Nat
        BY <1>3, <1>13, <1>14, <2>2, WindowIs, RunIs
      <4> HIDE DEF b, c
      <4>2. \A i \in 1..(Len(cut) - b) : i \in 1..(Len(cut) - c)
        BY <4>1
      <4>3. QED
        BY <4>2 DEF Past, b, c
    <3>2. QED
      BY <1>2, <3>1, PassedIs
  <2>4. QED
    BY <1>1, <1>13, <1>14, <2>2, <2>3, Settles
<1>16. CASE Elsewhere
  <2> DEFINE b == Behind(rx.next)
             g == Ahead(final.next, rx.next)
             top == Span(rx)
             z == Span(final)
             n == Len(cut)
  <2>1. n \in Nat /\ n + 2 * Ring + 1 + top <= b /\ b <= n + Modulus - 3 * Ring + 1
    BY <1>14, <1>16, RunIs DEF Elsewhere
  <2>2. final.next \in Seqs /\ final.hi \in Seqs /\ final.ring \in Rings /\ final.gap \in BOOLEAN
        /\ PiecesOut(final) \subseteq Pieces /\ z \in Nat /\ g \in Nat
    BY <1>3, <1>13, WindowIs, AheadIs
  <2>3. g + z = top
    BY <1>9, <1>12 DEF Advances
  <2>4. b \in Nat /\ b < Modulus /\ top \in Nat
    BY <1>3
  <2>5. Behind(final.next) = b - g
    <3>1. Plus(rx.next, g) = final.next
      BY <1>3, <2>2, PlusAhead
    <3>2. g \in Int /\ g <= b /\ g > b - Modulus
      <4> HIDE DEF b, g, top, z, n
      <4>1. QED
        BY <2>1, <2>2, <2>3, <2>4, Sizes
    <3>3. Behind(Plus(rx.next, g)) = b - g
      BY <1>3, <1>14, <3>2, BehindPlus, RunIs DEF Behind
    <3>4. QED
      BY <3>1, <3>3
  <2>6. n + 2 * Ring + 1 + z <= Behind(final.next) /\ Behind(final.next) <= n + Modulus - 3 * Ring + 1
    <3> DEFINE c == Behind(final.next)
    <3>1. c = b - g
      BY <2>5
    <3> HIDE DEF b, g, top, z, n, c
    <3>2. n + 2 * Ring + 1 + z <= c /\ c <= n + Modulus - 3 * Ring + 1
      BY <2>1, <2>2, <2>3, <2>4, <3>1, Sizes
    <3>3. QED
      BY <3>2 DEF c
  <2>7. /\ rx'.started = TRUE /\ rx'.next = final.next /\ rx'.hi = final.hi /\ rx'.ring = final.ring
        /\ rx'.gap = final.gap /\ handed' = handed \cup PiecesOut(final)
    BY <1>1, <1>13, SettleIs
  <2>8. UNCHANGED <<seq, low, cut, acks, tx, queue, cur, offered, rtxQ>>
    BY <1>1 DEF sendVars
  <2>9. /\ InFlight' = InFlight /\ Len(cut)' = Len(cut)
        /\ \A s : Behind(s)' = Behind(s)
        /\ \A a : Counts(a)' <=> Counts(a)
    BY <2>8, SameRun
  <2>10. Typed'
    BY <1>1, <1>14, <2>2, <2>7, <2>8 DEF Typed, TypeOK, Rings
  <2>11. Behind(rx.next)' = Behind(final.next) /\ Span(rx)' = z /\ Fits(rx)'
    <3>1. Behind(rx.next)' = BehindOf(seq, final.next)
      BY <2>7, <2>8 DEF Behind
    <3>2. Fits(rx)'
      BY <1>13, <2>7 DEF Fits, Span, Near
    <3>3. QED
      BY <2>7, <3>1, <3>2 DEF Span, Behind
  <2>12. Untouched'
    BY <1>16, <2>8, <2>9 DEF Elsewhere, Untouched
  <2>13. Elsewhere'
    <3> HIDE DEF z
    <3>1. QED
      BY <2>6, <2>9, <2>11, <2>12 DEF Elsewhere
  <2>14. ReceiverOK'
    BY <2>7, <2>11, <2>13 DEF ReceiverOK
  <2>15. Passed = {}
    <3>1. ~(b <= n)
      <4> HIDE DEF b, top, n
      <4>1. QED
        BY <2>1, <2>4, Sizes
    <3>2. QED
      BY <3>1, PassedIs
  <2>16. WindowHolds'
    BY <1>14 DEF WindowHolds
  <2>17. \A k \in 1..Len(cut) : Gone(k) => Gone(k)'
    <3> TAKE k \in 1..Len(cut)
    <3>1. HAVE Gone(k)
    <3>2. cut[k] \in handed' \cup died'
      BY <1>1, <2>7, <2>15, <3>1 DEF Gone
    <3>3. QED
      BY <2>8, <3>2 DEF Gone
  <2>18. \A s \in Seqs : Behind(s) \in 1..Len(cut) /\ Held(rx.ring, s) => Gone(At(s))' \/ Held(rx'.ring, s)
    BY <1>2, <1>16, OthersHeld
  <2>19. UNCHANGED <<sendVars, acks>> /\ wire' \subseteq wire
    BY <1>1
  <2>20. QED
    BY <2>10, <2>14, <2>16, <2>17, <2>18, <2>19, ReceiverMoves
<1>17. QED
  BY <1>3, <1>15, <1>16

----------------------------------------------------------------------------
(* A packet arrives.                                                       *)

\* A packet on the lanes, and the low mark it carries.
LEMMA OnTheWire ==
  ASSUME StripeInv, NEW m \in wire
  PROVE  /\ m \in Packet /\ PacketOK(m) /\ m.seq \in Seqs /\ m.low \in Seqs
         /\ Behind(m.seq) \in Nat /\ Behind(m.seq) >= 1 /\ Behind(m.seq) <= Len(cut) /\ Behind(m.seq) <= Ring
         /\ Ahead(m.seq, m.low) \in Nat /\ Ahead(m.seq, m.low) < Ring
         /\ Behind(m.low) = Behind(m.seq) + Ahead(m.seq, m.low)
         /\ InFlight <= Behind(m.low) /\ Behind(m.low) <= Len(cut) /\ Behind(m.low) < 2 * Ring
<1> DEFINE y == Behind(m.seq)
           z == Behind(m.low)
           d == Ahead(m.seq, m.low)
<1>1. Typed
  BY DEF StripeInv
<1>2. m \in Packet /\ m.seq \in Seqs /\ m.low \in Seqs
  BY <1>1, NoPacketIs DEF Typed, TypeOK
<1>3. PacketOK(m) /\ y <= Ring
  BY DEF StripeInv, WireOK
<1>4. y \in Nat /\ y < Modulus /\ z \in Nat /\ z < Modulus /\ d \in Nat
  BY <1>1, <1>2, RunIs, AheadIs
<1>5. y >= 1 /\ y <= Len(cut) /\ d < Ring /\ InFlight <= z /\ z <= Len(cut)
  <2>1. y \in 1..Len(cut) /\ d < Ring /\ InFlight <= z /\ z <= Len(cut)
    BY <1>3 DEF PacketOK
  <2>2. Len(cut) \in Nat
    BY <1>1, RunIs
  <2> HIDE DEF y, z, d
  <2>3. QED
    BY <1>4, <2>1, <2>2
<1>6. d = IF z >= y THEN z - y ELSE z - y + Modulus
  BY <1>1, <1>2, RunIs, AheadBehind DEF Behind
<1>7. z = y + d /\ z < 2 * Ring
  <2> HIDE DEF y, z, d
  <2>1. QED
    BY <1>3, <1>4, <1>5, <1>6, Sizes
<1>8. QED
  BY <1>2, <1>3, <1>4, <1>5, <1>7

\* A packet comes into a window that follows this run.
LEMMA PushInto ==
  ASSUME StripeInv, NEW m \in wire, NEW base \in Window, base.started = TRUE, Fits(base), PiecesOut(base) = {},
         IF Before(m.seq, base.next) THEN Settle(base)
         ELSE \E room \in {MakeRoom(base, m.seq)} :
              \E full \in {Stored(room, m)} :
              \E r \in {MoveTo(full, RunEnd(full, full.next))} : Settle(r),
         UNCHANGED <<sendVars, acks, died, restarts>>, wire' \subseteq wire, news' \in BOOLEAN,
         excuse' \subseteq {"joined", "gaveUp", "restarted"},
         Follows(base, excuse'), Passed \subseteq Past(base.next),
         ~Before(m.seq, base.next) => /\ Ahead(m.seq, base.next) = Behind(base.next) - Behind(m.seq)
                                      /\ Ahead(m.seq, base.next) < 2 * Ring,
         \A s \in Seqs : Behind(s) \in 1..Len(cut) /\ Held(rx.ring, s) =>
           Held(base.ring, s) \/ Behind(s) > Behind(base.next),
         excuse' = {} => Past(base.next) \subseteq handed
  PROVE  StripeInv'
<1> DEFINE full == Stored(MakeRoom(base, m.seq), m)
           moved == MoveTo(full, RunEnd(full, full.next))
           r == IF Before(m.seq, base.next) THEN base ELSE moved
           new == IF Before(m.seq, base.next) THEN {} ELSE {m}
           d == Ahead(m.seq, base.next)
           b == Behind(base.next)
           n == Len(cut)
<1>1. Typed /\ Len(cut) \in Nat /\ \A s \in Seqs : Behind(s) \in Nat
  BY RunIs DEF StripeInv
<1>2. m \in Packet /\ PacketOK(m) /\ m.seq \in Seqs /\ Behind(m.seq) \in Nat /\ Behind(m.seq) >= 1
  BY OnTheWire
<1>3. Settle(r)
  BY DEF full, moved, r
<1>4. Advances(base, r, new) /\ (Before(m.seq, base.next) \/ d < Ring => HandsUp(base, r, new))
  <2>1. CASE Before(m.seq, base.next)
    <3>1. Advances(base, base, {}) /\ HandsUp(base, base, {})
      BY StandsStill
    <3>2. r = base /\ new = {}
      BY <2>1
    <3>3. QED
      BY <3>1, <3>2
  <2>2. CASE ~Before(m.seq, base.next)
    <3>1. d < 2 * Ring
      BY <2>2
    <3>2. Advances(base, moved, {m}) /\ (d < Ring => HandsUp(base, moved, {m}))
      BY <1>2, <3>1, PushMoves
    <3>3. r = moved /\ new = {m}
      BY <2>2
    <3> HIDE DEF moved, r, new, d
    <3>4. QED
      BY <2>2, <3>2, <3>3
  <2>3. QED
    BY <2>1, <2>2
<1> HIDE DEF full, moved, r
<1>5. new \in SUBSET Packet /\ \A o \in new : PacketOK(o) /\ Ahead(o.seq, base.next) = Behind(base.next) - Behind(o.seq)
  BY <1>2
<1> HIDE DEF new
<1>6. /\ Follows(r, excuse') /\ Behind(r.next) <= Behind(base.next)
      /\ \A s \in Seqs : Held(base.ring, s) => Held(r.ring, s) \/ Behind(s) > Behind(r.next)
      /\ HandsUp(base, r, new) =>
           \A k \in Nat : n - Behind(base.next) < k /\ k <= n - Behind(r.next) => cut[k] \in PiecesOut(r)
  BY <1>1, <1>4, <1>5, FollowsOn
<1>7. r \in Window /\ r.started = TRUE /\ Fits(r) /\ r.next \in Seqs
  <2>1. r \in Window /\ r.started = TRUE /\ Fits(r)
    BY <1>4 DEF Advances
  <2>2. QED
    BY <2>1, WindowIs
<1> DEFINE c == Behind(r.next)
<1>8. b \in Nat /\ c \in Nat /\ c <= b /\ n \in Nat /\ b <= n
  BY <1>1, <1>6, <1>7, WindowIs DEF Follows
<1>9. Passed \subseteq Past(r.next)
  <2> HIDE DEF b, c, n
  <2>1. \A i \in 1..(n - b) : i \in 1..(n - c)
    BY <1>8
  <2>2. Past(base.next) \subseteq Past(r.next)
    BY <2>1 DEF Past, b, c, n
  <2>3. QED
    BY <2>2
<1>10. \A s \in Seqs : Behind(s) \in 1..n /\ Held(rx.ring, s) => Held(r.ring, s) \/ Behind(s) > Behind(r.next)
  <2> TAKE s \in Seqs
  <2>1. HAVE Behind(s) \in 1..n /\ Held(rx.ring, s)
  <2>2. CASE Held(base.ring, s)
    BY <1>6, <2>2
  <2>3. CASE Behind(s) > b
    <3> DEFINE y == Behind(s)
    <3>1. y \in Nat /\ y > b
      BY <1>1, <2>3
    <3> HIDE DEF y, b, c
    <3>2. y > c
      BY <1>8, <3>1
    <3>3. QED
      BY <3>2 DEF y, c
  <2>4. QED
    BY <2>1, <2>2, <2>3
<1>11. ASSUME excuse' = {} PROVE Past(r.next) \subseteq handed \cup PiecesOut(r)
  <2>1. HandsUp(base, r, new)
    <3>1. CASE Before(m.seq, base.next)
      BY <1>4, <3>1
    <3>2. CASE ~Before(m.seq, base.next)
      <4>1. b <= InFlight /\ InFlight <= Ring /\ InFlight \in Nat
        BY <1>1, <1>11, RunIs DEF Follows, StripeInv, TxOK
      <4>2. d = b - Behind(m.seq)
        BY <3>2
      <4> DEFINE y == Behind(m.seq)
      <4> HIDE DEF b, d, y
      <4>3. d < Ring
        BY <1>2, <1>8, <4>1, <4>2, Sizes DEF y
      <4>4. QED
        BY <1>4, <4>3
    <3>3. QED
      BY <3>1, <3>2
  <2>2. ASSUME NEW i \in 1..(n - c) PROVE cut[i] \in handed \cup PiecesOut(r)
    <3>1. CASE i \in 1..(n - b)
      BY <1>11, <3>1 DEF Past
    <3>2. CASE i \notin 1..(n - b)
      <4>1. i \in Nat /\ n - b < i /\ i <= n - c
        <5> HIDE DEF n, b, c
        <5>1. QED
          BY <1>8, <2>2, <3>2
      <4>2. QED
        BY <1>6, <2>1, <4>1
    <3>3. QED
      BY <3>1, <3>2
  <2>3. QED
    BY <2>2 DEF Past
<1>12. QED
  BY <1>3, <1>6, <1>7, <1>9, <1>10, <1>11, Settles

\* The receiver starts over, at the sender's low mark or at the packet.
LEMMA StartOverIs ==
  ASSUME Typed, NEW m \in Packet
  PROVE  LET base == StartOver(m) IN
         /\ base \in Window /\ base.started = TRUE /\ base.next = StartAt(m) /\ StartAt(m) \in {m.low, m.seq}
         /\ base.ring = NoRing /\ Span(base) = 0 /\ Fits(base) /\ PiecesOut(base) = {} /\ StartAt(m) \in Seqs
<1> DEFINE t == StartAt(m)
           h == Plus(t, -1)
           base == StartOver(m)
<1>1. t \in {m.low, m.seq} /\ t \in Seqs
  BY NoPacketIs DEF StartAt
<1>2. base = [started |-> TRUE, next |-> t, hi |-> h, ring |-> NoRing, gap |-> rx.started, out |-> <<>>]
  BY DEF StartOver, GapAtStart
<1> HIDE DEF t
<1>3. t \in Nat /\ t < Modulus /\ Modulus \in Nat /\ Modulus >= 8
  BY <1>1, InSeqs, Sizes
<1>4. h \in Seqs /\ h = IF t + (-1) < 0 THEN t + (-1) + Modulus ELSE IF t + (-1) < Modulus THEN t + (-1) ELSE t + (-1) - Modulus
  <2>1. -1 \in Int /\ -1 >= -Modulus /\ -1 <= Modulus
    BY <1>3
  <2>2. QED
    BY <1>1, <2>1, PlusIs
<1>5. Plus(h, 1) = t
  <2>1. Plus(h, 1) = IF h + 1 < Modulus THEN h + 1 ELSE 0
    BY <1>4, NextIs
  <2>2. h \in Nat /\ h < Modulus
    BY <1>4, InSeqs
  <2> DEFINE p == Plus(h, 1)
  <2> HIDE DEF h, p
  <2>3. p = t
    BY <1>3, <1>4, <2>1, <2>2 DEF p
  <2>4. QED
    BY <2>3 DEF p
<1> HIDE DEF h
<1>6. rx.started \in BOOLEAN /\ NoRing \in Rings /\ <<>> \in Seq(Outs)
  BY NoRingIs DEF Typed, TypeOK
<1> HIDE DEF base
<1>7. base \in Window /\ base.started = TRUE /\ base.next = t /\ base.hi = h /\ base.ring = NoRing /\ base.out = <<>>
  BY <1>1, <1>2, <1>4, <1>6 DEF Window
<1>8. Span(base) = 0
  <2>1. Ahead(t, t) = 0
    BY <1>1, NothingMoves, NoRingIs
  <2>2. QED
    BY <1>5, <1>7, <2>1 DEF Span
<1>9. Fits(base)
  <2>1. Near(base.ring, base.next, Span(base))
    BY <1>7, NoRingIs DEF Near
  <2>2. QED
    BY <1>8, <2>1, Sizes DEF Fits
<1>10. PiecesOut(base) = {}
  <2>1. DOMAIN base.out = {}
    BY <1>7
  <2>2. QED
    BY <2>1 DEF PiecesOut
<1>11. QED
  BY <1>1, <1>7, <1>8, <1>9, <1>10 DEF t, base

\* How a packet of this run looks to a window that follows it, and to one that is far from it.
LEMMA RestartedIs ==
  ASSUME StripeInv, NEW m \in wire, rx.started
  PROVE  /\ Follows(rx, excuse) /\ Restarted(rx, m) => Behind(rx.next) >= 2 * Ring + Behind(m.seq)
         /\ Follows(rx, excuse) /\ ~Restarted(rx, m) /\ ~Before(m.seq, rx.next) =>
              Ahead(m.seq, rx.next) = Behind(rx.next) - Behind(m.seq) /\ Ahead(m.seq, rx.next) < 2 * Ring
         /\ Elsewhere => Restarted(rx, m)
<1> DEFINE b == Behind(rx.next)
           y == Behind(m.seq)
           d == Ahead(m.seq, rx.next)
           e == Ahead(rx.next, m.seq)
           n == Len(cut)
           F == InFlight
           top == Span(rx)
           g == Signed(d)
<1>1. Typed /\ F <= Ring /\ n \in Nat /\ F \in Nat /\ seq \in Seqs
  BY RunIs DEF StripeInv, TxOK
<1>2. m.seq \in Seqs /\ y \in Nat /\ y >= 1 /\ y <= n /\ y <= Ring
  BY OnTheWire
<1>3. rx.next \in Seqs /\ b \in Nat /\ b < Modulus /\ top \in Nat
  BY WindowOfRx
<1>4. d \in Nat /\ d < Modulus /\ d = IF b >= y THEN b - y ELSE b - y + Modulus
  BY <1>1, <1>2, <1>3, AheadIs, AheadBehind DEF Behind
<1>5. e = IF y >= b THEN y - b ELSE y - b + Modulus
  BY <1>1, <1>2, <1>3, AheadBehind DEF Behind
<1>6. /\ g \in {d, d - Modulus}
      /\ d <= 4 * Ring - 1 => g = d
      /\ d >= Modulus - 4 * Ring => g = d - Modulus
  <2> HIDE DEF d
  <2>1. QED
    BY <1>4, SignedIs
<1>7. Restarted(rx, m) <=> g >= 2 * Ring \/ g < -Ring
  BY DEF Restarted
<1>8. e >= 1 /\ e <= 4 * Ring => Before(m.seq, rx.next)
  BY <1>2, <1>3, BeforeIs
<1>9. Follows(rx, excuse) => b <= F + 2 * Ring
  BY DEF Follows
<1>10. Elsewhere => n + 2 * Ring + 1 + top <= b /\ b <= n + Modulus - 3 * Ring + 1 /\ F = n
  BY DEF Elsewhere, Untouched
<1> HIDE DEF g, d, e, b, y, n, F, top
<1>11. ASSUME Follows(rx, excuse), Restarted(rx, m) PROVE b >= 2 * Ring + y
  <2>1. b >= y
    <3> SUFFICES ASSUME ~(b >= y) PROVE FALSE
      OBVIOUS
    <3>1. d = b - y + Modulus /\ d >= Modulus - 4 * Ring
      BY <1>2, <1>3, <1>4, Sizes
    <3>2. g = b - y
      BY <1>2, <1>3, <1>6, <3>1, Sizes
    <3>3. QED
      BY <1>2, <1>3, <1>7, <1>11, <3>2, Sizes
  <2>2. d = b - y /\ d <= 4 * Ring - 1
    BY <1>1, <1>2, <1>3, <1>4, <1>9, <1>11, <2>1, Sizes
  <2>3. g = d
    BY <1>6, <2>2
  <2>4. QED
    BY <1>2, <1>3, <1>4, <1>7, <1>11, <2>2, <2>3, Sizes
<1>12. ASSUME Follows(rx, excuse), ~Restarted(rx, m), ~Before(m.seq, rx.next) PROVE d = b - y /\ d < 2 * Ring
  <2>1. b >= y
    <3> SUFFICES ASSUME ~(b >= y) PROVE FALSE
      OBVIOUS
    <3>1. e = y - b /\ e >= 1 /\ e <= 4 * Ring
      BY <1>2, <1>3, <1>5, Sizes
    <3>2. QED
      BY <1>8, <1>12, <3>1
  <2>2. d = b - y /\ d <= 4 * Ring - 1
    BY <1>1, <1>2, <1>3, <1>4, <1>9, <1>12, <2>1, Sizes
  <2>3. g = d
    BY <1>6, <2>2
  <2>4. QED
    BY <1>2, <1>3, <1>4, <1>7, <1>12, <2>2, <2>3, Sizes
<1>13. ASSUME Elsewhere PROVE Restarted(rx, m)
  <2>1. d = b - y /\ d >= 2 * Ring /\ d <= Modulus - 2 * Ring
    BY <1>1, <1>2, <1>3, <1>4, <1>10, <1>13, Sizes
  <2>2. g >= 2 * Ring \/ g < -Ring
    BY <1>4, <1>6, <2>1, Sizes
  <2>3. QED
    BY <1>7, <2>2
<1>14. QED
  BY <1>11, <1>12, <1>13 DEF b, y, d

\* A packet the receiver starts over with.
LEMMA PushStartsOver ==
  ASSUME StripeInv, NEW m \in wire, Push(m), ~rx.started \/ Restarted(rx, m)
  PROVE  StripeInv'
<1> DEFINE base == StartOver(m)
           t == StartAt(m)
           y == Behind(m.seq)
           z == Behind(m.low)
           w == Behind(t)
           b == Behind(rx.next)
           n == Len(cut)
           F == InFlight
<1>1. /\ IF Before(m.seq, base.next) THEN Settle(base)
         ELSE \E room \in {MakeRoom(base, m.seq)} :
              \E full \in {Stored(room, m)} :
              \E r \in {MoveTo(full, RunEnd(full, full.next))} : Settle(r)
      /\ UNCHANGED <<sendVars, acks, died, restarts>> /\ wire' \subseteq wire /\ news' = (news \/ WorthAnAck(m))
      /\ excuse' = IF t # m.low THEN excuse \cup {"joined"} ELSE excuse
  <2> HIDE DEF base, t
  <2>1. QED
    BY DEF Push, base, t
<1>2. Typed /\ n \in Nat /\ F \in Nat /\ F <= n /\ seq \in Seqs
  BY RunIs DEF StripeInv, TxOK
<1>3. /\ m \in Packet /\ m.seq \in Seqs /\ m.low \in Seqs /\ y \in Nat /\ y >= 1 /\ y <= n /\ y <= Ring
      /\ z = y + Ahead(m.seq, m.low) /\ Ahead(m.seq, m.low) \in Nat /\ Ahead(m.seq, m.low) < Ring
      /\ F <= z /\ z <= n /\ z < 2 * Ring
  BY OnTheWire
<1>4. /\ base \in Window /\ base.started = TRUE /\ base.next = t /\ t \in {m.low, m.seq}
      /\ base.ring = NoRing /\ Span(base) = 0 /\ Fits(base) /\ PiecesOut(base) = {} /\ t \in Seqs
  BY <1>2, <1>3, StartOverIs
<1> HIDE DEF base, t
<1>5. w \in Nat /\ w < Modulus /\ w >= y /\ w <= z /\ w < y + Ring
  <2>1. w \in {y, z} /\ w \in Nat /\ w < Modulus
    BY <1>2, <1>4, RunIs
  <2> DEFINE a == Ahead(m.seq, m.low)
  <2>2. z = y + a /\ a \in Nat /\ a < Ring
    BY <1>3
  <2> HIDE DEF w, y, z, a
  <2>3. QED
    BY <1>3, <2>1, <2>2, Sizes
<1>6. Ahead(m.seq, t) = w - y /\ w - y < 2 * Ring
  <2>1. Ahead(m.seq, t) = IF w >= y THEN w - y ELSE w - y + Modulus
    BY <1>2, <1>3, <1>4, AheadBehind DEF Behind
  <2> HIDE DEF w, y
  <2>2. w - y < 2 * Ring
    BY <1>3, <1>5, Sizes
  <2>3. QED
    BY <1>5, <2>1, <2>2
<1>7. w <= n /\ w < 2 * Ring
  <2> HIDE DEF w, z, n, y
  <2>1. z \in Nat
    BY <1>2, <1>3, RunIs DEF z
  <2>2. QED
    BY <1>2, <1>3, <1>5, <2>1, Sizes
<1>8. news' \in BOOLEAN /\ excuse' \subseteq {"joined", "gaveUp", "restarted"}
  BY <1>1, <1>2 DEF Typed, TypeOK, WorthAnAck
<1>9. rx.started => (Follows(rx, excuse) /\ b >= 2 * Ring + y) \/ Elsewhere
  BY WindowOfRx, RestartedIs
<1>10. ASSUME excuse' = {} PROVE t = m.low /\ excuse = {} /\ Untouched /\ w = z /\ z = n /\ F = n
  <2>1. t = m.low /\ excuse = {}
    BY <1>1, <1>10
  <2>2. Untouched
    <3>1. CASE ~rx.started
      BY <2>1, <3>1 DEF StripeInv, ReceiverOK
    <3>2. CASE rx.started /\ Elsewhere
      BY <3>2 DEF Elsewhere
    <3>3. CASE rx.started /\ Follows(rx, excuse) /\ b >= 2 * Ring + y
      <4>1. b <= F /\ F <= Ring
        BY <2>1, <3>3 DEF Follows, StripeInv, TxOK
      <4>2. b \in Nat
        BY <3>3, WindowOfRx
      <4> HIDE DEF b, y, F
      <4>3. QED
        BY <1>2, <1>3, <3>3, <4>1, <4>2, Sizes
    <3>4. QED
      BY <1>9, <3>1, <3>2, <3>3
  <2>3. F = n
    BY <2>2 DEF Untouched
  <2>4. w = z
    BY <2>1
  <2>5. z = n
    <3>1. z \in Nat
      BY <1>2, <1>3, RunIs
    <3> HIDE DEF z, n, F
    <3>2. QED
      BY <1>2, <1>3, <2>3, <3>1
  <2>6. QED
    BY <2>1, <2>2, <2>3, <2>4, <2>5
<1>11. Follows(base, excuse')
  <2>1. Behind(base.next) = w
    BY <1>4
  <2>2. w <= F + 2 * Ring
    <3> HIDE DEF w, F
    <3>1. QED
      BY <1>2, <1>5, <1>7, Sizes
  <2>3. \A a \in acks : Counts(a) => w <= Behind(a.cum) + 2 * Ring
    <3> TAKE a \in acks
    <3>1. Behind(a.cum) \in Nat
      BY <1>2, RunIs DEF Typed, TypeOK, Ack
    <3> DEFINE c == Behind(a.cum)
    <3> HIDE DEF w, c
    <3>2. w <= c + 2 * Ring
      BY <1>5, <1>7, <3>1, Sizes DEF c
    <3>3. QED
      BY <3>2 DEF c
  <2>4. excuse' = {} => w <= F /\ \A a \in acks : Counts(a) => w <= Behind(a.cum)
    <3> SUFFICES ASSUME excuse' = {} PROVE w <= F /\ \A a \in acks : Counts(a) => w <= Behind(a.cum)
      OBVIOUS
    <3>1. w = F /\ \A a \in acks : ~Counts(a)
      BY <1>10 DEF Untouched
    <3> HIDE DEF w, F
    <3>2. w <= F
      BY <1>2, <3>1
    <3>3. QED
      BY <3>1, <3>2
  <2>5. \A i \in Slots : base.ring[i] # NoPacket => base.ring[i].piece = cut[At(base.ring[i].seq)]
    BY <1>4, NoRingIs
  <2>6. Span(base) <= w
    <3> HIDE DEF w
    <3>1. QED
      BY <1>4, <1>5
  <2> HIDE DEF w, n, F
  <2>7. QED
    BY <1>7, <2>1, <2>2, <2>3, <2>4, <2>5, <2>6 DEF Follows, F, n
<1>12. Passed \subseteq Past(base.next)
  <2>1. CASE ~rx.started
    BY <2>1, PassedIs
  <2>2. CASE rx.started /\ Elsewhere
    <3>1. n + 2 * Ring + 1 + Span(rx) <= b /\ b \in Nat /\ Span(rx) \in Nat
      BY <2>2, WindowOfRx DEF Elsewhere
    <3> DEFINE top == Span(rx)
    <3> HIDE DEF n, b, top
    <3>2. ~(b <= n)
      BY <1>2, <3>1, Sizes DEF top
    <3>3. QED
      BY <3>2, PassedIs DEF b, n
  <2>3. CASE rx.started /\ Follows(rx, excuse) /\ b >= 2 * Ring + y
    <3>1. b \in Nat
      BY <2>3, WindowOfRx
    <3>2. \A i \in 1..(n - b) : i \in 1..(n - w)
      <4> HIDE DEF n, b, w, y
      <4>1. w <= b
        BY <1>3, <1>5, <1>7, <2>3, <3>1, Sizes
      <4>2. QED
        BY <1>2, <1>5, <3>1, <4>1
    <3>3. Past(rx.next) \subseteq Past(t)
      BY <3>2 DEF Past
    <3>4. QED
      BY <1>4, <2>3, <3>3, PassedIs
  <2>4. QED
    BY <1>9, <2>1, <2>2, <2>3
<1>13. ASSUME NEW s \in Seqs, Behind(s) \in 1..Len(cut), Held(rx.ring, s)
       PROVE  Held(base.ring, s) \/ Behind(s) > Behind(base.next)
  <2>1. rx.started
    <3> SUFFICES ASSUME ~rx.started PROVE FALSE
      OBVIOUS
    <3>1. rx.ring = NoRing
      BY DEF StripeInv, ReceiverOK
    <3>2. QED
      BY <1>13, <3>1, NoRingIs
  <2>2. Follows(rx, excuse) /\ b >= 2 * Ring + y
    BY <1>9, <1>13, <2>1, OthersHeld
  <2> DEFINE x == Ahead(s, rx.next)
             v == Behind(s)
  <2>3. x \in Nat /\ x < Span(rx) /\ v = b - x
    <3>1. Span(rx) <= Behind(rx.next)
      BY <2>2 DEF Follows
    <3>2. QED
      BY <1>13, <2>1, <3>1, HeldBehind
  <2>4. Span(rx) \in Nat /\ Span(rx) <= Ring /\ b \in Nat
    BY <2>1, WindowOfRx
  <2> DEFINE top == Span(rx)
  <2>5. v > w
    <3> HIDE DEF x, v, w, b, y, top
    <3>1. QED
      BY <1>3, <1>5, <2>2, <2>3, <2>4, Sizes DEF top
  <2>6. QED
    BY <1>4, <2>5
<1>14. excuse' = {} => Past(base.next) \subseteq handed
  <2> SUFFICES ASSUME excuse' = {} PROVE Past(base.next) = {}
    OBVIOUS
  <2>1. w = n
    BY <1>10
  <2>2. 1..(n - w) = {}
    <3> HIDE DEF n, w
    <3>1. QED
      BY <1>2, <2>1
  <2>3. QED
    BY <1>4, <2>2 DEF Past
<1>15. ~Before(m.seq, base.next) => /\ Ahead(m.seq, base.next) = Behind(base.next) - Behind(m.seq)
                                    /\ Ahead(m.seq, base.next) < 2 * Ring
  BY <1>4, <1>6
<1>16. QED
  BY <1>1, <1>4, <1>8, <1>11, <1>12, <1>13, <1>14, <1>15, PushInto

\* A packet the window takes as it is.
LEMMA PushGoesOn ==
  ASSUME StripeInv, NEW m \in wire, Push(m), rx.started, ~Restarted(rx, m)
  PROVE  StripeInv'
<1> DEFINE base == Buffer
<1>1. /\ IF Before(m.seq, base.next) THEN Settle(base)
         ELSE \E room \in {MakeRoom(base, m.seq)} :
              \E full \in {Stored(room, m)} :
              \E r \in {MoveTo(full, RunEnd(full, full.next))} : Settle(r)
      /\ UNCHANGED <<sendVars, acks, died, restarts>> /\ wire' \subseteq wire /\ news' = (news \/ WorthAnAck(m))
      /\ excuse' = excuse
  <2> HIDE DEF base
  <2>1. QED
    BY DEF Push, base
<1>2. Typed
  BY DEF StripeInv
<1>3. news' \in BOOLEAN /\ excuse' \subseteq {"joined", "gaveUp", "restarted"}
  BY <1>1, <1>2 DEF Typed, TypeOK, WorthAnAck
<1>4. Follows(rx, excuse) /\ Fits(rx)
  BY WindowOfRx, RestartedIs
<1>5. /\ base \in Window /\ base.started = TRUE /\ base.next = rx.next /\ base.ring = rx.ring
      /\ Fits(base) /\ PiecesOut(base) = {} /\ Follows(base, excuse')
  <2>1. base.started = rx.started /\ base.started \in BOOLEAN /\ base \in Window
    BY BufferIs, WindowIs
  <2>2. base.started = TRUE
    BY <2>1
  <2>3. QED
    BY <1>1, <1>4, <2>1, <2>2, BufferIs
<1> HIDE DEF base
<1>6. Passed = Past(rx.next) \ handed
  BY <1>4, PassedIs DEF Follows
<1>7. excuse' = {} => Past(base.next) \subseteq handed
  BY <1>1, <1>5, <1>6 DEF StripeInv, WindowHolds
<1>8. Passed \subseteq Past(base.next)
  BY <1>5, <1>6
<1>9. ~Before(m.seq, base.next) => /\ Ahead(m.seq, base.next) = Behind(base.next) - Behind(m.seq)
                                   /\ Ahead(m.seq, base.next) < 2 * Ring
  BY <1>4, <1>5, RestartedIs
<1>10. \A s \in Seqs : Behind(s) \in 1..Len(cut) /\ Held(rx.ring, s) =>
         Held(base.ring, s) \/ Behind(s) > Behind(base.next)
  BY <1>5
<1>11. QED
  BY <1>1, <1>3, <1>5, <1>7, <1>8, <1>9, <1>10, PushInto

LEMMA PushKeeps == ASSUME StripeInv, NEW m \in wire, Push(m) PROVE StripeInv'
  BY PushStartsOver, PushGoesOn

----------------------------------------------------------------------------
(* An ack arrives, and the sender restarts.                                *)

\* Of two numbers a little behind, the one that is farther behind comes before the other.
LEMMA FartherIsBefore ==
  ASSUME Typed, NEW s \in Seqs, NEW t \in Seqs, Behind(s) <= 4 * Ring - 1, Behind(t) <= 4 * Ring - 1
  PROVE  Before(s, t) <=> Behind(s) > Behind(t)
<1> DEFINE x == Behind(s)
           y == Behind(t)
           d == Ahead(s, t)
           e == Ahead(t, s)
<1>1. x \in Nat /\ y \in Nat /\ d = (IF y >= x THEN y - x ELSE y - x + Modulus) /\ e = (IF x >= y THEN x - y ELSE x - y + Modulus)
  BY RunIs, AheadBehind DEF Behind
<1>2. /\ d <= 4 * Ring - 1 => ~Before(s, t)
      /\ e >= 1 /\ e <= 4 * Ring => Before(s, t)
  BY BeforeIs
<1> HIDE DEF x, y, d, e
<1>3. x <= 4 * Ring - 1 /\ y <= 4 * Ring - 1
  BY DEF x, y
<1>4. CASE x > y
  <2>1. e >= 1 /\ e <= 4 * Ring
    BY <1>1, <1>3, <1>4, Sizes
  <2>2. QED
    BY <1>2, <1>4, <2>1 DEF x, y
<1>5. CASE ~(x > y)
  <2>1. d <= 4 * Ring - 1
    BY <1>1, <1>3, <1>5, Sizes
  <2>2. QED
    BY <1>2, <1>5, <2>1 DEF x, y
<1>6. QED
  BY <1>4, <1>5

\* An ack that is taken to be about this run counts.
LEMMA TakenCounts ==
  ASSUME StripeInv, NEW a \in acks, AboutThisRun(a)
  PROVE  /\ a.cum \in Seqs /\ a.hi \in Seqs /\ Behind(a.cum) \in Nat /\ Behind(a.hi) \in Nat
         /\ Behind(a.cum) <= InFlight + Ring /\ Counts(a) /\ AckSound(a)
<1> DEFINE c == Behind(a.cum)
           F == InFlight
           d == Ahead(a.cum, low)
           g == Signed(d)
<1>1. Typed /\ F \in Nat /\ F <= Ring /\ F = Behind(low) /\ low \in Seqs /\ seq \in Seqs
  BY RunIs DEF StripeInv, TxOK
<1>2. a.cum \in Seqs /\ a.hi \in Seqs
  BY <1>1 DEF Typed, TypeOK, Ack
<1>3. c \in Nat /\ c < Modulus /\ Behind(a.hi) \in Nat
  BY <1>1, <1>2, RunIs
<1>4. d \in Nat /\ d < Modulus /\ d = IF F >= c THEN F - c ELSE F - c + Modulus
  BY <1>1, <1>2, AheadIs, AheadBehind DEF Behind
<1>5. g \in {d, d - Modulus}
  <2> HIDE DEF d
  <2>1. QED
    BY <1>4, SignedIs
<1>6. g \in (-Ring)..F
  BY DEF AboutThisRun
<1>7. c <= F + Ring /\ c <= 2 * Ring
  <2> HIDE DEF c, F, d, g
  <2>1. g \in Int /\ -Ring <= g /\ g <= F
    BY <1>1, <1>4, <1>5, <1>6, Sizes
  <2>2. c <= F + Ring
    BY <1>1, <1>3, <1>4, <1>5, <2>1, Sizes
  <2>3. QED
    BY <1>1, <1>3, <2>2, Sizes
<1>8. Counts(a)
  BY <1>7 DEF Counts
<1>9. AckSound(a)
  BY <1>8 DEF StripeInv, AcksOK
<1>10. QED
  BY <1>2, <1>3, <1>7, <1>8, <1>9

\* What an ack takes out of flight is kept, and it takes out all that lies before cum.
LEMMA AckedIs ==
  ASSUME StripeInv, NEW a \in acks, AboutThisRun(a), NEW s \in Seqs, Behind(s) \in 1..InFlight
  PROVE  /\ Acked(a, s) => Kept(s)
         /\ Behind(s) > Behind(a.cum) => Acked(a, s)
         /\ Acked(a, s) => s \in {Plus(low, k) : k \in {j \in 0..(InFlight - 1) : Acked(a, Plus(low, j))}}
<1> DEFINE c == Behind(a.cum)
           e == Behind(a.hi)
           F == InFlight
           v == Behind(s)
           n == Len(cut)
           k == F - v
<1>1. Typed /\ F \in Nat /\ F <= Ring /\ F <= n /\ F = Behind(low) /\ low \in Seqs /\ seq \in Seqs /\ n \in Nat
  BY RunIs DEF StripeInv, TxOK
<1>2. a.cum \in Seqs /\ a.hi \in Seqs /\ c \in Nat /\ e \in Nat /\ c <= F + Ring /\ AckSound(a)
  BY TakenCounts
<1>3. v \in Nat /\ v >= 1 /\ v <= F
  <2>1. v \in Nat /\ v \in 1..F
    BY <1>1, RunIs
  <2> HIDE DEF v, F
  <2>2. QED
    BY <1>1, <2>1
<1>4. e <= c + 1
  <2>1. e \in 1..(c + 1)
    BY <1>2 DEF AckSound
  <2> HIDE DEF e, c
  <2>2. QED
    BY <1>2, <2>1
<1>5. c <= 4 * Ring - 1 /\ e <= 4 * Ring - 1 /\ v <= 4 * Ring - 1
  <2> HIDE DEF c, e, v, F, n
  <2>1. QED
    BY <1>1, <1>2, <1>3, <1>4, Sizes
<1>6. Before(s, a.cum) <=> v > c
  BY <1>1, <1>2, <1>5, FartherIsBefore
<1>7. Before(a.hi, s) <=> e > v
  BY <1>1, <1>2, <1>5, FartherIsBefore
<1>8. ASSUME Acked(a, s) PROVE Kept(s)
  <2>1. CASE v > c
    <3>1. At(s) \in 1..(n - c)
      <4>1. At(s) = n + 1 - v
        BY DEF At
      <4> HIDE DEF v, c, n, F
      <4>2. n + 1 - v \in 1..(n - c)
        BY <1>1, <1>2, <1>3, <2>1
      <4>3. QED
        BY <4>1, <4>2
    <3>2. \A i \in 1..(n - c) : Gone(i)
      BY <1>2 DEF AckSound
    <3> DEFINE i == At(s)
    <3> HIDE DEF i, n, c
    <3>3. Gone(i)
      BY <3>1, <3>2 DEF i
    <3>4. QED
      BY <3>3 DEF Kept, i
  <2>2. CASE ~(v > c)
    <3>1. ~(e > v) /\ s \notin a.missing
      BY <1>6, <1>7, <1>8, <2>2 DEF Acked
    <3>2. e <= v /\ v <= c
      <4> HIDE DEF e, v, c
      <4>1. QED
        BY <1>2, <1>3, <2>2, <3>1
    <3>3. QED
      BY <1>2, <3>1, <3>2 DEF AckSound
  <2>3. QED
    BY <2>1, <2>2
<1>9. v > c => Acked(a, s)
  BY <1>6 DEF Acked
<1>10. Plus(low, k) = s /\ k \in 0..(F - 1)
  <2>1. Ahead(s, low) = IF F >= v THEN F - v ELSE F - v + Modulus
    BY <1>1, AheadBehind DEF Behind
  <2>2. k \in 0..(F - 1) /\ F >= v
    <3> HIDE DEF F, v
    <3>1. QED
      BY <1>1, <1>3
  <2>3. Ahead(s, low) = k
    BY <2>1, <2>2
  <2>4. QED
    BY <1>1, <2>2, <2>3, PlusAhead
<1> HIDE DEF k
<1>11. Acked(a, s) => s \in {Plus(low, i) : i \in {j \in 0..(InFlight - 1) : Acked(a, Plus(low, j))}}
  BY <1>10
<1>12. QED
  BY <1>8, <1>9, <1>11

\* And nothing that is not in flight.
LEMMA DoneIs ==
  ASSUME StripeInv, NEW k \in 0..(InFlight - 1)
  PROVE  Plus(low, k) \in Seqs /\ Behind(Plus(low, k)) \in 1..InFlight
<1> DEFINE F == InFlight
           s == Plus(low, k)
<1>1. Typed /\ F \in Nat /\ F <= Ring /\ F = Behind(low) /\ low \in Seqs /\ seq \in Seqs
  BY RunIs DEF StripeInv, TxOK
<1>2. k \in Int /\ k <= F /\ k > F - Modulus /\ F - k \in 1..F
  <2>1. k \in 0..(F - 1)
    OBVIOUS
  <2> HIDE DEF F
  <2>2. QED
    BY <1>1, <2>1, Sizes
<1>3. s \in Seqs /\ Behind(s) = F - k
  BY <1>1, <1>2, BehindPlus DEF Behind
<1>4. QED
  BY <1>2, <1>3

LEMMA AckIgnored == ASSUME StripeInv, NEW a, OnAck(a), ~AboutThisRun(a) PROVE StripeInv'
<1>1. /\ UNCHANGED <<seq, low, cut, tx, rx, handed, died, excuse, restarts>>
      /\ UNCHANGED <<queue, cur, offered, wire, news, rtxQ>> /\ acks' \subseteq acks
  BY DEF OnAck, recvVars
<1>2. Typed'
  BY <1>1 DEF StripeInv, Typed, TypeOK
<1>3. QED
  BY <1>1, <1>2, LanesMove

LEMMA AckTaken == ASSUME StripeInv, NEW a, OnAck(a), AboutThisRun(a) PROVE StripeInv'
<1> DEFINE F == InFlight
           c == Behind(a.cum)
           n == Len(cut)
           gone == {k \in 0..(InFlight - 1) : Acked(a, Plus(low, k))}
           done == {Plus(low, k) : k \in gone}
<1>1. a \in acks /\ acks' \subseteq acks
  BY DEF OnAck
<1>2. /\ tx' = [i \in Slots |-> IF tx[i].seq \in done THEN NoPacket ELSE tx[i]]
      /\ rtxQ' = rtxQ \ done
      /\ low' = IF Before(low, a.cum) THEN a.cum ELSE low
  BY DEF OnAck, StillInLine
<1>3. UNCHANGED <<queue, cur, offered, seq, cut, wire, rx, news, handed, died, excuse, restarts>>
  BY DEF OnAck, recvVars
<1>4. Typed /\ F \in Nat /\ F <= Ring /\ F <= n /\ F = Behind(low) /\ low \in Seqs /\ seq \in Seqs /\ n \in Nat
  BY RunIs DEF StripeInv, TxOK
<1>5. a.cum \in Seqs /\ c \in Nat /\ c <= F + Ring /\ Counts(a) /\ AckSound(a)
  BY <1>1, TakenCounts
<1>6. c <= n /\ \A k \in 1..(n - c) : Gone(k)
  BY <1>5 DEF AckSound
<1>7. \A s \in Seqs : Behind(s) \in 1..F => (s \in done => Kept(s)) /\ (s \notin done => Behind(s) <= c)
  <2> TAKE s \in Seqs
  <2>1. HAVE Behind(s) \in 1..F
  <2>2. /\ Acked(a, s) => Kept(s)
        /\ Behind(s) > c => Acked(a, s)
        /\ Acked(a, s) => s \in done
    BY <1>1, <2>1, AckedIs
  <2>3. s \in done => Acked(a, s)
    OBVIOUS
  <2>4. Behind(s) \in Nat
    BY <1>4, RunIs
  <2> DEFINE v == Behind(s)
  <2> HIDE DEF done, v, c
  <2>5. v > c \/ v <= c
    BY <1>5, <2>4 DEF v
  <2>6. QED
    BY <2>2, <2>3, <2>5 DEF v
<1>8. done \subseteq Seqs
  BY DoneIs
<1> HIDE DEF done, gone
\* The new low mark.
<1>9. Before(low, a.cum) <=> F > c
  <2>1. F <= 4 * Ring - 1 /\ c <= 4 * Ring - 1
    <3> HIDE DEF F, c, n
    <3>1. QED
      BY <1>4, <1>5, Sizes
  <2>2. QED
    BY <1>4, <1>5, <2>1, FartherIsBefore
<1>10. low' \in Seqs /\ Behind(low') = IF F > c THEN c ELSE F
  BY <1>2, <1>4, <1>5, <1>9
<1>11. \A s : Behind(s)' = Behind(s') /\ At(s)' = n + 1 - Behind(s')
  BY <1>3 DEF Behind, At
<1> DEFINE G == IF F > c THEN c ELSE F
<1>12. InFlight' = G
  <2>1. InFlight' = Behind(low')
    BY <1>3 DEF InFlight, Behind, BehindOf
  <2>2. QED
    BY <1>10, <2>1
<1>13. G \in Nat /\ G <= F /\ G <= c /\ (G = F \/ G = c)
  <2> HIDE DEF F, c
  <2>1. QED
    BY <1>4, <1>5
<1> HIDE DEF G
<1>14. \A m : m.low \in Seqs /\ PacketOK(m) => PacketOK(m)'
  <2> TAKE m
  <2>1. HAVE m.low \in Seqs /\ PacketOK(m)
  <2> DEFINE z == Behind(m.low)
  <2>2. z \in Nat /\ F <= z /\ z <= n
    BY <1>4, <2>1, RunIs DEF PacketOK
  <2>3. G <= z
    <3> HIDE DEF F, z
    <3>1. QED
      BY <1>4, <1>13, <2>2
  <2>4. Behind(m.seq)' = Behind(m.seq) /\ Behind(m.low)' = z /\ At(m.seq)' = At(m.seq)
    BY <1>3 DEF Behind, At
  <2>5. QED
    BY <1>3, <1>12, <2>1, <2>2, <2>3, <2>4 DEF PacketOK
<1>15. \A i \in Slots : tx'[i] # NoPacket => tx'[i] = tx[i] /\ tx[i] # NoPacket /\ tx[i].seq \notin done
  BY <1>2
<1>16. TxOK'
  <2>1. InFlight' <= Ring /\ InFlight' <= Len(cut')
    <3> HIDE DEF F, n
    <3>1. G <= Ring /\ G <= n
      BY <1>4, <1>13, Sizes
    <3>2. QED
      BY <1>3, <1>12, <3>1 DEF n
  <2>2. ASSUME NEW i \in Slots, tx'[i] # NoPacket
        PROVE  tx'[i].seq % Ring = i /\ Behind(tx[i].seq)' \in 1..InFlight' /\ PacketOK(tx[i])'
               /\ tx'[i] = tx[i]
    <3> DEFINE s == tx[i].seq
               v == Behind(s)
    <3>1. tx'[i] = tx[i] /\ tx[i] # NoPacket /\ s \notin done
      BY <1>15, <2>2
    <3>2. s \in Seqs /\ tx[i].low \in Seqs /\ s % Ring = i /\ v \in 1..F /\ PacketOK(tx[i])
      <4>1. tx \in Rings
        BY <1>4 DEF Typed, TypeOK, Rings
      <4>2. QED
        BY <3>1, <4>1, EntryIs DEF StripeInv, TxOK
    <3>3. v <= c
      BY <1>7, <3>1, <3>2
    <3>4. v \in 1..G
      <4> HIDE DEF v, c, F
      <4>1. QED
        BY <1>4, <1>5, <1>13, <3>2, <3>3
    <3>5. Behind(tx[i].seq)' = v
      BY <1>3, <3>1 DEF Behind
    <3>6. PacketOK(tx[i])'
      <4>1. PacketOK(tx'[i]) /\ tx'[i].low \in Seqs
        BY <3>1, <3>2
      <4>2. QED
        BY <1>3, <1>12, <1>14, <3>1, <3>2, <4>1 DEF PacketOK, Behind, At
    <3>7. QED
      BY <1>12, <3>1, <3>2, <3>4, <3>5, <3>6
  <2>3. QED
    BY <2>1, <2>2 DEF TxOK
<1>17. WireOK'
  <2>1. \A m \in wire : m.low \in Seqs /\ m.seq \in Seqs
    BY <1>4, NoPacketIs DEF Typed, TypeOK
  <2>2. \A m \in wire' : PacketOK(m)'
    BY <1>3, <1>14, <2>1 DEF StripeInv, WireOK
  <2>3. \A m \in wire' : Behind(m.seq)' <= Ring
    BY <1>3 DEF StripeInv, WireOK, Behind
  <2>4. QED
    BY <2>2, <2>3 DEF WireOK
<1>18. Passed' = Passed
  BY <1>3 DEF Passed
<1>19. \A k : Gone(k)' <=> Gone(k)
  BY <1>3, <1>18 DEF Gone
<1>20. \A s : (Behind(s)' = Behind(s)) /\ (At(s)' = At(s))
  BY <1>3 DEF Behind, At
<1>21. \A s : Kept(s)' <=> Kept(s)
  BY <1>3, <1>19, <1>20 DEF Kept
<1>22. \A o : Counts(o)' <=> Counts(o)
  BY <1>20 DEF Counts
<1>23. AcksOK'
  <2>1. \A o : AckSound(o)' <=> AckSound(o)
    <3> TAKE o
    <3>1. Behind(o.cum)' = Behind(o.cum) /\ Behind(o.hi)' = Behind(o.hi) /\ o' = o
      BY <1>20
    <3>2. QED
      BY <1>3, <1>19, <1>20, <1>21, <3>1 DEF AckSound
  <2>2. QED
    BY <1>1, <1>22, <2>1 DEF StripeInv, AcksOK
<1>24. ~Untouched
  BY <1>1, <1>5 DEF Untouched
<1>25. ReceiverOK'
  <2>1. CASE ~rx.started
    BY <1>3, <1>24, <2>1 DEF StripeInv, ReceiverOK
  <2>2. CASE rx.started
    <3> DEFINE b == Behind(rx.next)
    <3>1. Follows(rx, excuse) /\ Fits(rx) /\ b \in Nat
      BY <1>24, <2>2, WindowOfRx DEF Elsewhere
    <3>2. Fits(rx)' /\ Span(rx)' = Span(rx) /\ Behind(rx.next)' = b
      BY <1>3, <3>1 DEF Fits, Span, Near, Behind
    <3>3. b <= n /\ b <= G + 2 * Ring /\ Span(rx) <= b
      <4>1. b <= n /\ b <= F + 2 * Ring /\ Span(rx) <= b /\ b <= c + 2 * Ring
        BY <1>1, <1>5, <3>1 DEF Follows
      <4>2. b <= G + 2 * Ring
        BY <1>13, <4>1
      <4>3. QED
        BY <4>1, <4>2
    <3>4. \A o \in acks : Counts(o) => b <= Behind(o.cum) + 2 * Ring
      BY <3>1 DEF Follows
    <3>5. excuse = {} => b <= G /\ \A o \in acks : Counts(o) => b <= Behind(o.cum)
      <4> SUFFICES ASSUME excuse = {} PROVE b <= G /\ \A o \in acks : Counts(o) => b <= Behind(o.cum)
        OBVIOUS
      <4>1. b <= F /\ \A o \in acks : Counts(o) => b <= Behind(o.cum)
        BY <3>1 DEF Follows
      <4>2. b <= G
        BY <1>1, <1>5, <1>13, <4>1
      <4>3. QED
        BY <4>1, <4>2
    <3>6. \A i \in Slots : rx'.ring[i] # NoPacket => rx'.ring[i].piece = cut'[At(rx.ring[i].seq)']
      BY <1>3, <1>20, <3>1 DEF Follows
    <3>7. \A o \in acks' : Counts(o)' => b <= Behind(o.cum)' + 2 * Ring
      BY <1>1, <1>20, <1>22, <3>4
    <3>8. excuse' = {} => b <= G /\ \A o \in acks' : Counts(o)' => b <= Behind(o.cum)'
      BY <1>1, <1>3, <1>20, <1>22, <3>5
    <3> HIDE DEF b
    <3>9. Follows(rx, excuse)'
      BY <1>3, <1>12, <3>2, <3>3, <3>6, <3>7, <3>8 DEF Follows
    <3>10. QED
      BY <1>3, <2>2, <3>2, <3>9 DEF ReceiverOK
  <2>3. QED
    BY <2>1, <2>2
<1>26. ForgottenOK'
  <2>1. \A k \in 1..(n - G) : Gone(k)
    BY <1>6, <1>13 DEF StripeInv, ForgottenOK
  <2>2. \A s \in Seqs : Behind(s) \in 1..G => Held(tx', s) \/ Kept(s)
    <3> TAKE s \in Seqs
    <3>1. HAVE Behind(s) \in 1..G
    <3>2. Behind(s) \in 1..F
      <4> DEFINE v == Behind(s)
      <4> HIDE DEF v, F
      <4>1. v \in 1..F
        BY <1>4, <1>13, <3>1 DEF v
      <4>2. QED
        BY <4>1 DEF v
    <3>3. CASE Held(tx, s) /\ s \notin done
      <4>1. s % Ring \in Slots /\ tx[s % Ring].seq = s
        BY <3>3, SlotOf DEF Held
      <4>2. QED
        BY <1>2, <3>3, <4>1 DEF Held
    <3>4. CASE s \in done
      BY <1>7, <3>2, <3>4
    <3>5. CASE Kept(s)
      BY <3>5
    <3>6. QED
      BY <3>2, <3>3, <3>4, <3>5 DEF StripeInv, ForgottenOK
  <2>3. QED
    BY <1>3, <1>12, <1>19, <1>20, <1>21, <2>1, <2>2 DEF ForgottenOK
<1>27. WindowHolds'
  BY <1>3, <1>18 DEF StripeInv, WindowHolds
<1>28. Typed'
  <2>1. tx' \in [Slots -> Packet \cup {NoPacket}]
    BY <1>2, <1>4 DEF Typed, TypeOK
  <2>2. rtxQ' \subseteq {tx'[i].seq : i \in Slots} \ {Modulus}
    <3> SUFFICES ASSUME NEW s \in rtxQ, s \notin done PROVE s \in {tx'[i].seq : i \in Slots} \ {Modulus}
      BY <1>2
    <3>1. PICK i \in Slots : s = tx[i].seq /\ s # Modulus
      BY <1>4 DEF Typed, TypeOK
    <3>2. tx'[i] = tx[i]
      BY <1>2, <3>1
    <3>3. QED
      BY <3>1, <3>2
  <2>3. acks' \subseteq Ack
    BY <1>1, <1>4 DEF Typed, TypeOK
  <2>4. QED
    BY <1>3, <1>4, <1>10, <2>1, <2>2, <2>3 DEF Typed, TypeOK
<1>29. QED
  BY <1>16, <1>17, <1>23, <1>25, <1>26, <1>27, <1>28 DEF StripeInv

LEMMA OnAckKeeps == ASSUME StripeInv, NEW a, OnAck(a) PROVE StripeInv'
  BY AckIgnored, AckTaken

LEMMA RestartSenderKeeps == ASSUME StripeInv, RestartSender PROVE StripeInv'
<1>1. PICK s \in FirstSeqs : FarAway(s) /\ seq' = s /\ low' = Plus(s, 1)
  BY DEF RestartSender
<1>2. /\ queue' = <<>> /\ cur' = NoPiece /\ tx' = NoRing /\ rtxQ' = {} /\ cut' = <<>> /\ wire' = {}
      /\ restarts.send < MaxRestarts.send /\ restarts' = [restarts EXCEPT !.send = @ + 1]
      /\ UNCHANGED <<offered, acks, rx, news, handed, excuse, died>>
  BY DEF RestartSender, recvVars
<1>3. Typed /\ s \in Seqs /\ Plus(s, 1) \in Seqs
  BY NextIs, StripeAssumption DEF StripeInv
<1>4. Len(cut') = 0 /\ InFlight' = 0
  <2>1. InFlight' = Ahead(Plus(s, 1), Plus(s, 1))
    BY <1>1 DEF InFlight
  <2>2. QED
    BY <1>2, <1>3, <2>1, NothingMoves, NoRingIs
\* Whatever was near the old sender is far from the new one.
<1>5. \A x \in Seqs : \A least \in Nat : Ahead(s, x) \in least..(Modulus - 3 * Ring) =>
        /\ BehindOf(seq', x) \in Nat /\ least + 1 <= BehindOf(seq', x)
        /\ BehindOf(seq', x) <= Modulus - 3 * Ring + 1
  <2> TAKE x \in Seqs
  <2> TAKE least \in Nat
  <2> DEFINE d == Ahead(s, x)
             v == Ahead(Plus(s, 1), x)
  <2>1. HAVE d \in least..(Modulus - 3 * Ring)
  <2>2. d \in Nat /\ v = IF d = Modulus - 1 THEN 0 ELSE d + 1
    BY <1>3, AheadIs, HiIs
  <2>3. BehindOf(seq', x) = v
    BY <1>1 DEF BehindOf
  <2> HIDE DEF d, v
  <2>4. v \in Nat /\ least + 1 <= v /\ v <= Modulus - 3 * Ring + 1
    BY <2>1, <2>2, Sizes
  <2>5. QED
    BY <2>3, <2>4
<1>6. \A a \in acks : ~Counts(a)'
  <2> TAKE a \in acks
  <2> DEFINE v == BehindOf(seq', a.cum)
             least == 2 * Ring
  <2>1. a.cum \in Seqs /\ Ahead(s, a.cum) \in least..(Modulus - 3 * Ring) /\ least \in Nat
    BY <1>1, <1>3, Sizes DEF FarAway, Typed, TypeOK, Ack
  <2>2. v \in Nat /\ least + 1 <= v
    <3> HIDE DEF least
    <3>1. QED
      BY <1>5, <2>1
  <2> HIDE DEF v
  <2>3. ~(v <= 2 * Ring)
    BY <2>2, Sizes
  <2>4. QED
    BY <2>3 DEF Counts, Behind, v
<1>7. Untouched'
  BY <1>2, <1>4, <1>6 DEF Untouched
<1>8. rx.started => Elsewhere' /\ ~(Behind(rx.next)' <= 0)
  <2> SUFFICES ASSUME rx.started PROVE Elsewhere' /\ ~(Behind(rx.next)' <= 0)
    OBVIOUS
  <2> DEFINE v == BehindOf(seq', rx.next)
             least == 3 * Ring
             top == Span(rx)
  <2>1. rx.next \in Seqs /\ Ahead(s, rx.next) \in least..(Modulus - 3 * Ring) /\ least \in Nat
    BY <1>1, <1>3, Sizes DEF FarAway, Typed, TypeOK
  <2>2. v \in Nat /\ least + 1 <= v /\ v <= Modulus - 3 * Ring + 1
    <3> HIDE DEF least
    <3>1. QED
      BY <1>5, <2>1
  <2>3. top \in Nat /\ top <= Ring /\ Span(rx)' = top
    BY <1>2, WindowOfRx DEF Span
  <2> HIDE DEF v, top
  <2>4. 2 * Ring + 1 + top <= v /\ ~(v <= 0)
    BY <2>2, <2>3, Sizes
  <2>5. 0 + 2 * Ring + 1 + top <= v /\ v <= 0 + Modulus - 3 * Ring + 1
    BY <2>2, <2>3, <2>4, Sizes
  <2>6. QED
    BY <1>2, <1>4, <1>7, <2>3, <2>4, <2>5 DEF Elsewhere, Behind, v
<1>9. ReceiverOK'
  <2>1. CASE rx.started
    <3>1. Fits(rx)'
      BY <1>2, <2>1, WindowOfRx DEF Fits, Span, Near
    <3>2. QED
      BY <1>2, <1>8, <2>1, <3>1 DEF ReceiverOK
  <2>2. CASE ~rx.started
    BY <1>2, <1>7, <2>2 DEF StripeInv, ReceiverOK
  <2>3. QED
    BY <2>1, <2>2
<1>10. Passed' = {}
  <2>1. CASE ~rx.started
    BY <1>2, <2>1 DEF Passed
  <2>2. CASE rx.started
    <3>1. ~(Ahead(Plus(seq, 1), rx.next)' <= Len(cut'))
      BY <1>4, <1>8, <2>2 DEF Behind, BehindOf
    <3>2. QED
      BY <3>1 DEF Passed
  <2>3. QED
    BY <2>1, <2>2
<1>11. WindowHolds'
  BY <1>10 DEF WindowHolds
<1>12. TxOK' /\ WireOK' /\ AcksOK' /\ ForgottenOK'
  <2>1. TxOK'
    <3>1. 0 <= Ring
      BY Sizes
    <3>2. QED
      BY <1>2, <1>4, <3>1, NoRingIs DEF TxOK
  <2>2. WireOK'
    BY <1>2 DEF WireOK
  <2>3. AcksOK'
    BY <1>2, <1>6 DEF AcksOK
  <2>4. ForgottenOK'
    BY <1>4 DEF ForgottenOK
  <2>5. QED
    BY <2>1, <2>2, <2>3, <2>4
<1>13. restarts' \in [{"send", "receive"} -> Nat] /\ \A side \in {"send", "receive"} : restarts'[side] \in 0..MaxRestarts[side]
  <2>1. restarts \in [{"send", "receive"} -> Nat] /\ \A side \in {"send", "receive"} : restarts[side] \in 0..MaxRestarts[side]
    BY <1>3 DEF Typed, TypeOK
  <2>2. restarts' \in [{"send", "receive"} -> Nat]
    BY <1>2, <2>1
  <2>3. restarts'["receive"] = restarts["receive"] /\ restarts'["send"] = restarts["send"] + 1
    BY <1>2, <2>1
  <2>4. \A side \in {"send", "receive"} : MaxRestarts[side] \in Nat
    BY StripeAssumption
  <2>5. restarts["send"] + 1 \in 0..MaxRestarts["send"]
    BY <1>2, <2>1, <2>4
  <2>6. QED
    BY <2>1, <2>2, <2>3, <2>5
<1>14. Typed'
  <2>1. NoRing \in [Slots -> Packet \cup {NoPacket}] /\ <<>> \in Seq(1..MaxFrames) /\ <<>> \in Seq(Pieces)
        /\ Len(<<>>) <= QueueLimit
    BY NoRingIs, StripeAssumption DEF Rings
  <2>2. QED
    BY <1>1, <1>2, <1>3, <1>13, <2>1 DEF Typed, TypeOK
<1>15. QED
  BY <1>9, <1>11, <1>12, <1>14 DEF StripeInv

----------------------------------------------------------------------------
(* A new piece is sent.                                                    *)

\* What is sent next, and what stays to be sent.
LEMMA PieceIs ==
  /\ \A f \in 1..MaxFrames : \A p \in 1..Parts[f] : <<f, p>> \in Pieces
  /\ \A x \in Pieces : \E f \in 1..MaxFrames : \E p \in 1..Parts[f] : x = <<f, p>>
  BY DEF Pieces

LEMMA HeadsIs ==
  ASSUME Typed, NEW h \in Heads
  PROVE  /\ h[1] \in Pieces /\ Rest(h[1]) \in Pieces \cup {NoPiece}
         /\ h[2] \in Seq(1..MaxFrames) /\ Len(h[2]) <= QueueLimit
<1>1. queue \in Seq(1..MaxFrames) /\ Len(queue) <= QueueLimit /\ cur \in Pieces \cup {NoPiece}
  BY DEF Typed, TypeOK
<1>2. \A f \in 1..MaxFrames : Parts[f] \in Nat /\ Parts[f] >= 1
  BY StripeAssumption DEF MaxFrames
<1>3. h[1] \in Pieces /\ h[2] \in Seq(1..MaxFrames) /\ Len(h[2]) <= QueueLimit
  <2>1. CASE cur # NoPiece
    BY <1>1, <2>1 DEF Heads
  <2>2. CASE cur = NoPiece
    <3>1. PICK k \in DOMAIN queue : h = <<<<queue[k], 1>>, SubSeq(queue, k + 1, Len(queue))>>
      BY <2>2 DEF Heads
    <3>2. queue[k] \in 1..MaxFrames
      BY <1>1, Element
    <3>3. k \in 1..Len(queue) /\ k \in 0..Len(queue) /\ Len(queue) \in Nat /\ QueueLimit \in Nat
      BY <1>1, StripeAssumption
    <3>4. <<queue[k], 1>> \in Pieces
      <4>1. 1 \in 1..Parts[queue[k]]
        BY <1>2, <3>2
      <4>2. QED
        BY <3>2, <4>1, PieceIs
    <3> DEFINE F == 1..MaxFrames
               rest == SubSeq(queue, k + 1, Len(queue))
    <3>5. rest \in Seq(F) /\ Len(rest) = Len(queue) - k
      <4>1. queue \in Seq(F)
        BY <1>1
      <4> HIDE DEF F
      <4>2. QED
        BY <3>3, <4>1, Cut
    <3>6. Len(rest) <= QueueLimit
      <4> HIDE DEF rest
      <4>1. QED
        BY <1>1, <3>3, <3>5
    <3>7. QED
      BY <3>1, <3>4, <3>5, <3>6
  <2>3. QED
    BY <2>1, <2>2
<1>4. Rest(h[1]) \in Pieces \cup {NoPiece}
  <2>1. PICK f \in 1..MaxFrames : \E p \in 1..Parts[f] : h[1] = <<f, p>>
    BY <1>3, PieceIs
  <2>2. PICK p \in 1..Parts[f] : h[1] = <<f, p>>
    BY <2>1
  <2>3. p < Parts[f] => p + 1 \in 1..Parts[f]
    BY <1>2, <2>2
  <2>4. p < Parts[f] => <<f, p + 1>> \in Pieces
    BY <2>3, PieceIs
  <2>5. QED
    BY <2>2, <2>4 DEF Rest
<1>5. QED
  BY <1>3, <1>4

\* The next number is handed out: everything is one farther behind.
LEMMA RunGrows ==
  ASSUME Typed, NEW piece \in Pieces, seq' = Plus(seq, 1), UNCHANGED low, cut' = Append(cut, piece), InFlight < Ring
  PROVE  /\ seq' \in Seqs /\ Len(cut') = Len(cut) + 1 /\ cut' \in Seq(Pieces) /\ cut'[Len(cut) + 1] = piece
         /\ \A k \in 1..Len(cut) : cut'[k] = cut[k]
         /\ InFlight' = InFlight + 1
         /\ \A s \in Seqs : Behind(s)' = IF Behind(s) = Modulus - 1 THEN 0 ELSE Behind(s) + 1
         /\ \A s \in Seqs : Behind(s) < Modulus - 1 => Behind(s)' = Behind(s) + 1 /\ At(s)' = At(s)
         /\ BehindOf(seq', seq') = 1
<1>1. seq \in Seqs /\ low \in Seqs /\ cut \in Seq(Pieces) /\ Len(cut) \in Nat /\ InFlight = Behind(low) /\ InFlight \in Nat
      /\ \A s \in Seqs : Behind(s) \in Nat
  BY RunIs
<1>2. seq' \in Seqs
  BY <1>1, NextIs
<1>3. Len(cut') = Len(cut) + 1 /\ cut' \in Seq(Pieces) /\ cut'[Len(cut) + 1] = piece /\ \A k \in 1..Len(cut) : cut'[k] = cut[k]
  BY <1>1
<1>4. \A s \in Seqs : Behind(s)' = IF Behind(s) = Modulus - 1 THEN 0 ELSE Behind(s) + 1
  <2>1. \A s \in Seqs : BehindOf(Plus(seq, 1), s) = IF BehindOf(seq, s) = Modulus - 1 THEN 0 ELSE BehindOf(seq, s) + 1
    BY <1>1, BehindGrows
  <2>2. QED
    BY <2>1 DEF Behind
<1>5. ASSUME NEW s \in Seqs, Behind(s) < Modulus - 1 PROVE Behind(s)' = Behind(s) + 1 /\ At(s)' = At(s)
  <2> DEFINE v == Behind(s)
             w == Behind(s)'
             n == Len(cut)
  <2>1. w = (IF v = Modulus - 1 THEN 0 ELSE v + 1) /\ v < Modulus - 1 /\ v \in Nat
    BY <1>1, <1>4, <1>5
  <2>2. At(s) = n + 1 - v /\ At(s)' = n + 1 + 1 - w
    BY <1>3 DEF At
  <2> HIDE DEF v, w, n
  <2>3. w = v + 1
    BY <2>1, Sizes
  <2>4. n + 1 + 1 - w = n + 1 - v
    BY <1>1, <2>1, <2>3 DEF n
  <2>5. QED
    BY <2>2, <2>3, <2>4 DEF v, w
<1>6. InFlight' = InFlight + 1
  <2>1. InFlight' = Behind(low)'
    BY DEF InFlight, Behind, BehindOf
  <2>2. InFlight < Modulus - 1
    <3> DEFINE F == InFlight
    <3> HIDE DEF F
    <3>1. F \in Nat /\ F < Ring
      BY <1>1 DEF F
    <3>2. F < Modulus - 1
      BY <3>1, Sizes
    <3>3. QED
      BY <3>2 DEF F
  <2>3. Behind(low)' = Behind(low) + 1
    BY <1>1, <1>5, <2>2
  <2>4. QED
    BY <1>1, <2>1, <2>3
<1>7. BehindOf(seq', seq') = 1
  <2>1. BehindOf(Plus(seq, 1), Plus(seq, 1)) = 1
    BY <1>1, NewestBehind
  <2>2. QED
    BY <2>1
<1>8. QED
  BY <1>2, <1>3, <1>4, <1>5, <1>6, <1>7

LEMMA PullNewKeeps == ASSUME StripeInv, PullNew, Linger < Ring PROVE StripeInv'
<1> DEFINE S == Plus(seq, 1)
           n == Len(cut)
           F == InFlight
<1>1. PICK h \in Heads :
        /\ cur' = Rest(h[1]) /\ queue' = h[2] /\ cut' = Append(cut, h[1]) /\ seq' = S
        /\ tx' = [tx EXCEPT ![S % Ring] = [seq |-> S, low |-> low, piece |-> h[1]]]
        /\ wire' = OnTime(S) \cup {[seq |-> S, low |-> low, piece |-> h[1]]}
        /\ acks' = Recent(S)
  BY DEF PullNew
<1>2. F < Ring /\ UNCHANGED <<offered, low, rtxQ, rx, news, handed, excuse, died, restarts>>
  BY DEF PullNew, RoomInRing, recvVars
<1> DEFINE piece == h[1]
           m == [seq |-> S, low |-> low, piece |-> piece]
<1>3. Typed
  BY DEF StripeInv
<1>4. /\ piece \in Pieces /\ cur' \in Pieces \cup {NoPiece}
      /\ queue' \in Seq(1..MaxFrames) /\ Len(queue') <= QueueLimit
  BY <1>1, <1>3, HeadsIs
<1> HIDE DEF piece
<1>5. /\ seq \in Seqs /\ low \in Seqs /\ F = Behind(low) /\ F \in Nat /\ n \in Nat /\ F <= n
      /\ \A s \in Seqs : Behind(s) \in Nat
  BY <1>3, RunIs DEF StripeInv, TxOK
<1>6. /\ S \in Seqs /\ Len(cut') = n + 1 /\ cut' \in Seq(Pieces) /\ cut'[n + 1] = piece
      /\ \A k \in 1..n : cut'[k] = cut[k]
      /\ InFlight' = F + 1
      /\ \A s \in Seqs : Behind(s)' = IF Behind(s) = Modulus - 1 THEN 0 ELSE Behind(s) + 1
      /\ \A s \in Seqs : Behind(s) < Modulus - 1 => Behind(s)' = Behind(s) + 1 /\ At(s)' = At(s)
      /\ BehindOf(seq', S) = 1
  <2>1. seq' = Plus(seq, 1) /\ UNCHANGED low /\ cut' = Append(cut, piece) /\ InFlight < Ring
    BY <1>1, <1>2 DEF piece
  <2> HIDE DEF S
  <2>2. S = seq'
    BY <2>1 DEF S
  <2>3. QED
    BY <1>3, <1>4, <2>1, <2>2, RunGrows
<1>7. Behind(S) = 0
  BY <1>5, NewestBehind DEF Behind
<1>8. m \in Packet /\ m.seq = S /\ m.low = low /\ m.piece = piece
  BY <1>4, <1>5, <1>6 DEF Packet
<1> HIDE DEF m
<1>9. tx' = [tx EXCEPT ![S % Ring] = m] /\ wire' = OnTime(S) \cup {m}
  BY <1>1 DEF m, piece
<1> DEFINE T == S % Ring
<1>10. T \in Slots /\ tx \in Rings /\ tx' \in Rings /\ tx'[T] = m /\ \A i \in Slots : i # T => tx'[i] = tx[i]
  <2>1. T \in Slots /\ tx \in Rings
    BY <1>3, <1>6, SlotOf DEF Typed, TypeOK, Rings
  <2> HIDE DEF T
  <2>2. tx' = [tx EXCEPT ![T] = m]
    BY <1>9 DEF T
  <2>3. QED
    BY <1>8, <2>1, <2>2 DEF Rings
<1> HIDE DEF S
\* Only the newest is one behind, and what was behind is one farther.
<1>11. ASSUME NEW s \in Seqs, Behind(s)' = 1 PROVE s = S
  <2>1. Behind(s) = 0
    <3> DEFINE v == Behind(s)
               w == Behind(s)'
    <3>1. w = (IF v = Modulus - 1 THEN 0 ELSE v + 1) /\ w = 1 /\ v \in Nat
      BY <1>5, <1>6, <1>11
    <3> HIDE DEF v, w
    <3>2. v = 0
      BY <3>1, Sizes
    <3>3. QED
      BY <3>2 DEF v
  <2>2. QED
    BY <1>5, <1>6, <1>7, <2>1, OneBehind DEF Behind
<1>12. ASSUME NEW s \in Seqs, NEW top \in Nat, Behind(s)' >= 2, Behind(s)' <= top + 1
       PROVE  Behind(s) >= 1 /\ Behind(s) <= top /\ Behind(s)' = Behind(s) + 1 /\ At(s)' = At(s)
  <2> DEFINE v == Behind(s)
             w == Behind(s)'
  <2>1. w = (IF v = Modulus - 1 THEN 0 ELSE v + 1) /\ v \in Nat /\ v < Modulus /\ w >= 2 /\ w <= top + 1
    BY <1>3, <1>6, <1>12, RunIs
  <2>2. v < Modulus - 1 => At(s)' = At(s)
    BY <1>6
  <2> HIDE DEF v, w
  <2>3. v < Modulus - 1 /\ v >= 1 /\ v <= top /\ w = v + 1
    BY <2>1, Sizes
  <2>4. QED
    BY <2>2, <2>3 DEF v, w
\* Nothing in flight had the slot.
<1>13. ASSUME NEW s \in Seqs, Behind(s) \in 1..F PROVE s % Ring # T
  <2> SUFFICES ASSUME s % Ring = T PROVE FALSE
    OBVIOUS
  <2>1. Ahead(S, s) = Behind(s)
    BY DEF Behind, BehindOf, S
  <2> DEFINE v == Behind(s)
  <2>2. v < Ring /\ v # 0
    <3>1. v \in 1..F
      BY <1>13
    <3> HIDE DEF v, F
    <3>2. QED
      BY <1>2, <1>5, <3>1, Sizes DEF F
  <2>3. S = s
    BY <1>6, <2>1, <2>2, SlotsApart DEF T
  <2>4. QED
    BY <1>7, <2>2, <2>3
<1>14. ASSUME NEW i \in Slots, tx[i] # NoPacket
       PROVE  i # T /\ tx'[i] = tx[i] /\ tx[i].seq \in Seqs /\ tx[i].low \in Seqs /\ tx[i].seq % Ring = i
              /\ Behind(tx[i].seq) \in 1..F /\ PacketOK(tx[i])
  <2>1. tx[i].seq \in Seqs /\ tx[i].low \in Seqs /\ tx[i].seq % Ring = i /\ Behind(tx[i].seq) \in 1..F /\ PacketOK(tx[i])
    BY <1>10, <1>14, EntryIs DEF StripeInv, TxOK
  <2>2. i # T
    BY <1>13, <2>1
  <2>3. QED
    BY <1>10, <2>1, <2>2
<1>15. ASSUME NEW s \in Seqs, Behind(s) \in 1..F, Held(tx, s) PROVE Held(tx', s)
  <2>1. s % Ring \in Slots /\ s % Ring # T
    BY <1>13, <1>15, SlotOf
  <2>2. QED
    BY <1>10, <1>15, <2>1 DEF Held
<1>16. Held(tx', S)
  BY <1>8, <1>10 DEF Held, T
\* The packets.
<1>17. ASSUME NEW p, p.seq \in Seqs, p.low \in Seqs, PacketOK(p), Behind(p.seq) <= Ring
       PROVE  PacketOK(p)' /\ Behind(p.seq)' = Behind(p.seq) + 1
  <2> DEFINE y == Behind(p.seq)
             z == Behind(p.low)
             d == Ahead(p.seq, p.low)
  <2>1. y \in 1..n /\ p.piece = cut[At(p.seq)] /\ d < Ring /\ F <= z /\ z <= n
    BY <1>17 DEF PacketOK
  <2>2. y \in Nat /\ z \in Nat /\ d \in Nat /\ d = (IF z >= y THEN z - y ELSE z - y + Modulus)
    BY <1>5, <1>17, AheadIs, AheadBehind DEF Behind
  <2>3. y < Modulus - 1 /\ z < Modulus - 1
    <3> HIDE DEF y, z, d, n, F
    <3>1. y <= Ring
      BY <1>17 DEF y
    <3>2. QED
      BY <2>1, <2>2, <3>1, Sizes
  <2>4. Behind(p.seq)' = y + 1 /\ Behind(p.low)' = z + 1 /\ At(p.seq)' = At(p.seq)
    BY <1>6, <1>17, <2>3
  <2>5. At(p.seq) \in 1..n
    <3>1. At(p.seq) = n + 1 - y
      BY DEF At
    <3> HIDE DEF n, y
    <3>2. n + 1 - y \in 1..n
      BY <1>5, <2>1
    <3>3. QED
      BY <3>1, <3>2
  <2>6. p.piece = cut'[At(p.seq)']
    BY <1>6, <2>1, <2>4, <2>5
  <2>7. y + 1 \in 1..(n + 1) /\ F + 1 <= z + 1 /\ z + 1 <= n + 1
    <3> HIDE DEF y, z, n, F
    <3>1. QED
      BY <1>5, <2>1, <2>2
  <2> HIDE DEF y, z, n, F
  <2>8. PacketOK(p)'
    BY <1>6, <2>1, <2>4, <2>6, <2>7 DEF PacketOK
  <2>9. QED
    BY <2>4, <2>8 DEF y
<1>18. ASSUME NEW p, p = m PROVE PacketOK(p)' /\ Behind(p.seq)' = 1 /\ p.seq = S
  <2>1. p.seq = S /\ p.low = low /\ p.piece = piece
    BY <1>8, <1>18
  <2>2. Behind(p.seq)' = 1
    BY <1>6, <2>1 DEF Behind
  <2>3. Behind(p.low)' = F + 1
    <3>1. Behind(low) < Modulus - 1
      <4> HIDE DEF F
      <4>1. QED
        BY <1>2, <1>5, Sizes
    <3>2. Behind(p.low)' = Behind(p.low) + 1
      BY <1>5, <1>6, <2>1, <3>1
    <3>3. QED
      BY <1>5, <2>1, <3>2
  <2>4. Ahead(p.seq, p.low) = F
    BY <2>1 DEF InFlight, S
  <2>5. At(p.seq)' = n + 1
    <3>1. At(p.seq)' = n + 1 + 1 - 1
      BY <1>6, <2>2 DEF At
    <3> HIDE DEF n
    <3>2. QED
      BY <1>5, <3>1
  <2>6. 1 \in 1..(n + 1) /\ F + 1 <= n + 1
    <3> HIDE DEF n, F
    <3>1. QED
      BY <1>5
  <2>7. PacketOK(p)'
    BY <1>2, <1>6, <2>1, <2>2, <2>3, <2>4, <2>5, <2>6 DEF PacketOK
  <2>8. QED
    BY <2>1, <2>2, <2>7
<1>19. TxOK'
  <2>1. F + 1 <= Ring /\ F + 1 <= n + 1 /\ 1 \in 1..(F + 1)
    <3> HIDE DEF n, F
    <3>1. QED
      BY <1>2, <1>5, Sizes
  <2>2. ASSUME NEW i \in Slots, tx'[i] # NoPacket
        PROVE  tx'[i].seq % Ring = i /\ Behind(tx[i].seq)' \in 1..(F + 1) /\ PacketOK(tx[i])'
    <3>1. PICK p : p = tx'[i]
      OBVIOUS
    <3>2. p.seq % Ring = i /\ Behind(p.seq)' \in 1..(F + 1) /\ PacketOK(p)'
      <4>1. CASE i = T
        <5>1. p = m
          BY <1>10, <3>1, <4>1
        <5>2. PacketOK(p)' /\ Behind(p.seq)' = 1 /\ p.seq = S
          BY <1>18, <5>1
        <5>3. QED
          BY <2>1, <4>1, <5>2 DEF T
      <4>2. CASE i # T
        <5>1. p = tx[i] /\ tx[i] # NoPacket
          BY <1>10, <2>2, <3>1, <4>2
        <5>2. p.seq \in Seqs /\ p.low \in Seqs /\ p.seq % Ring = i /\ Behind(p.seq) \in 1..F /\ PacketOK(p)
          BY <1>14, <5>1
        <5> DEFINE y == Behind(p.seq)
        <5>3. y <= Ring /\ y + 1 \in 1..(F + 1)
          <6>1. y \in 1..F
            BY <5>2
          <6> HIDE DEF y, F
          <6>2. QED
            BY <1>2, <1>5, <6>1, Sizes
        <5>4. PacketOK(p)' /\ Behind(p.seq)' = y + 1
          BY <1>17, <5>2, <5>3
        <5>5. QED
          BY <5>2, <5>3, <5>4
      <4>3. QED
        BY <4>1, <4>2
    <3>3. Behind(tx[i].seq)' = Behind(p.seq)'
      BY <3>1 DEF Behind
    <3>4. PacketOK(tx[i])'
      BY <3>1, <3>2 DEF PacketOK, Behind, At
    <3>5. QED
      BY <3>1, <3>2, <3>3, <3>4
  <2>3. QED
    BY <1>6, <2>1, <2>2 DEF TxOK
<1>20. WireOK'
  <2> SUFFICES ASSUME NEW p \in wire' PROVE PacketOK(p)' /\ Behind(p.seq)' <= Ring
    BY DEF WireOK
  <2>1. CASE p = m
    BY <1>18, <2>1, Sizes
  <2>2. CASE p \in OnTime(S)
    <3>1. p \in wire /\ Behind(p.seq) <= Linger
      BY <2>2 DEF OnTime, Behind, BehindOf, S
    <3>2. p.seq \in Seqs /\ p.low \in Seqs /\ PacketOK(p) /\ Behind(p.seq) <= Ring
      BY <3>1, OnTheWire
    <3>3. PacketOK(p)' /\ Behind(p.seq)' = Behind(p.seq) + 1
      BY <1>17, <3>2
    <3> DEFINE y == Behind(p.seq)
    <3>4. y \in Nat
      BY <1>5, <3>2
    <3>5. y + 1 <= Ring
      <4> HIDE DEF y
      <4>1. y <= Linger
        BY <3>1 DEF y
      <4>2. QED
        BY <3>4, <4>1, Sizes
    <3>6. QED
      BY <3>3, <3>5
  <2>3. QED
    BY <1>9, <2>1, <2>2
\* The receiver's window.
<1> DEFINE b == Behind(rx.next)
           top == Span(rx)
<1>21. /\ rx.started => /\ Fits(rx) /\ rx.next \in Seqs /\ rx.ring \in Rings /\ b \in Nat /\ top \in Nat /\ top <= Ring
                        /\ Follows(rx, excuse) \/ Elsewhere
       /\ Follows(rx, excuse) => b <= n /\ b <= F + 2 * Ring /\ top <= b
       /\ Elsewhere => n + 2 * Ring + 1 + top <= b /\ b <= n + Modulus - 3 * Ring + 1 /\ F = n /\ Untouched
  BY WindowOfRx DEF Follows, Elsewhere, Untouched
<1>22. ASSUME rx.started PROVE b' = b + 1 /\ b < Modulus - 1
  <2>1. b < Modulus - 1
    <3> HIDE DEF b, n, F, top
    <3>1. CASE Follows(rx, excuse)
      BY <1>2, <1>5, <1>21, <1>22, <3>1, Sizes DEF F
    <3>2. CASE Elsewhere
      BY <1>2, <1>5, <1>21, <1>22, <3>2, Sizes DEF F
    <3>3. QED
      BY <1>21, <1>22, <3>1, <3>2
  <2>2. PICK s : s = rx.next
    OBVIOUS
  <2>3. Behind(s)' = Behind(s) + 1
    BY <1>6, <1>21, <1>22, <2>1, <2>2
  <2>4. b' = Behind(s)' /\ b = Behind(s)
    BY <1>2, <2>2 DEF Behind
  <2>5. QED
    BY <2>1, <2>3, <2>4
<1>23. Passed' = Passed
  <2>1. CASE ~rx.started
    BY <1>2, <2>1 DEF Passed
  <2>2. CASE rx.started
    <3>1. Passed = (IF b <= n THEN {cut[i] : i \in 1..(n - b)} \ handed ELSE {})
      BY <2>2 DEF Passed, Behind, BehindOf
    <3>2. Passed' = (IF b' <= Len(cut') THEN {cut'[i] : i \in 1..(Len(cut') - b')} \ handed' ELSE {})
      <4>1. rx'.started
        BY <1>2, <2>2
      <4>2. QED
        BY <4>1 DEF Passed, Behind, BehindOf
    <3>3. b' = b + 1 /\ b \in Nat /\ Len(cut') = n + 1 /\ handed' = handed
      BY <1>2, <1>6, <1>21, <1>22, <2>2
    <3> DEFINE c == b'
               l == Len(cut')
    <3>4. (c <= l <=> b <= n) /\ 1..(l - c) = 1..(n - b) /\ \A i \in 1..(n - b) : i \in 1..n
      <4> HIDE DEF b, n, c, l
      <4>1. c = b + 1 /\ l = n + 1
        BY <3>3 DEF c, l
      <4>2. l - c = n - b /\ (c <= l <=> b <= n)
        BY <1>5, <3>3, <4>1 DEF n
      <4>3. \A i \in 1..(n - b) : i \in 1..n
        BY <1>5, <3>3 DEF n
      <4>4. QED
        BY <4>2, <4>3
    <3>5. {cut'[i] : i \in 1..(l - c)} = {cut[i] : i \in 1..(n - b)}
      <4> DEFINE I == 1..(n - b)
                 J == 1..(l - c)
      <4>1. J = I /\ \A i \in I : cut'[i] = cut[i]
        BY <1>6, <3>4
      <4> HIDE DEF I, J
      <4>2. {cut'[i] : i \in J} = {cut[i] : i \in I}
        BY <4>1
      <4>3. QED
        BY <4>2 DEF I, J
    <3>6. QED
      BY <3>1, <3>2, <3>3, <3>4, <3>5
  <2>3. QED
    BY <2>1, <2>2
<1>24. ASSUME NEW k \in 1..n, Gone(k) PROVE Gone(k)'
  BY <1>2, <1>6, <1>23, <1>24 DEF Gone
<1>25. ASSUME NEW s \in Seqs, Behind(s) \in 1..n, At(s)' = At(s), Kept(s) PROVE Kept(s)'
  <2>1. At(s) \in 1..n
    <3> DEFINE y == Behind(s)
    <3>1. At(s) = n + 1 - y /\ y \in 1..n
      BY <1>25 DEF At
    <3> HIDE DEF n, y
    <3>2. n + 1 - y \in 1..n
      BY <1>5, <3>1
    <3>3. QED
      BY <3>1, <3>2
  <2>2. PICK k : k = At(s)
    OBVIOUS
  <2>3. Gone(At(s)) => Gone(At(s))'
    <3>1. Gone(k) => Gone(k)'
      BY <1>24, <2>1, <2>2
    <3>2. (Gone(At(s)) <=> Gone(k)) /\ (Gone(At(s))' <=> Gone(k)')
      BY <1>25, <2>2 DEF Gone
    <3>3. QED
      BY <3>1, <3>2
  <2>4. QED
    BY <1>2, <1>25, <2>3 DEF Kept
\* The acks.
<1>26. ASSUME NEW a \in acks', Counts(a)'
       PROVE  a \in acks /\ Counts(a) /\ Behind(a.cum)' = Behind(a.cum) + 1 /\ a.cum \in Seqs /\ a.hi \in Seqs
  <2>1. a \in acks /\ a.cum # Plus(S, 1) /\ a.cum \in Seqs /\ a.hi \in Seqs
    BY <1>1, <1>3 DEF Recent, Typed, TypeOK, Ack
  <2> DEFINE c == Behind(a.cum)
             d == Behind(a.cum)'
  <2>2. c \in Nat /\ d = (IF c = Modulus - 1 THEN 0 ELSE c + 1) /\ d <= 2 * Ring
    BY <1>5, <1>6, <1>26, <2>1 DEF Counts
  <2>3. d # 0
    <3>1. BehindOf(S, Plus(S, 1)) = 0 /\ Plus(S, 1) \in Seqs
      BY <1>6, NewestBehind, NextIs
    <3>2. BehindOf(S, a.cum) # 0
      BY <1>6, <2>1, <3>1, OneBehind
    <3>3. QED
      BY <1>1, <3>2 DEF Behind, S
  <2> HIDE DEF c, d
  <2>4. d = c + 1 /\ c <= 2 * Ring
    BY <2>2, <2>3, Sizes
  <2>5. QED
    BY <2>1, <2>4 DEF c, d, Counts
<1>27. AcksOK'
  <2> SUFFICES ASSUME NEW a \in acks', Counts(a)' PROVE AckSound(a)'
    BY DEF AcksOK
  <2> DEFINE c == Behind(a.cum)
             e == Behind(a.hi)
  <2>1. a \in acks /\ Counts(a) /\ Behind(a.cum)' = c + 1 /\ a.cum \in Seqs /\ a.hi \in Seqs
    BY <1>26
  <2>2. AckSound(a)
    BY <2>1 DEF StripeInv, AcksOK
  <2>3. c \in Nat /\ c <= n /\ e \in 1..(c + 1) /\ e \in Nat /\ c <= 2 * Ring
    BY <1>5, <2>1, <2>2 DEF AckSound, Counts
  <2>4. e >= 1 /\ e <= c + 1 /\ e < Modulus - 1 /\ c + 1 <= n + 1
    <3> HIDE DEF c, e, n
    <3>1. QED
      BY <1>5, <2>3, Sizes DEF n
  <2>5. Behind(a.hi)' = e + 1
    BY <1>6, <2>1, <2>4
  <2>6. e + 1 \in 1..(c + 1 + 1)
    <3> HIDE DEF c, e
    <3>1. QED
      BY <2>3, <2>4
  <2>7. \A k \in 1..(n + 1 - (c + 1)) : Gone(k)'
    <3> TAKE k \in 1..(n + 1 - (c + 1))
    <3>1. k \in 1..(n - c) /\ k \in 1..n
      <4>1. k \in 1..(n + 1 - (c + 1))
        OBVIOUS
      <4> HIDE DEF c, n
      <4>2. QED
        BY <1>5, <2>3, <4>1 DEF n
    <3>2. Gone(k)
      BY <2>2, <3>1 DEF AckSound
    <3>3. QED
      BY <1>24, <3>1, <3>2
  <2>8. ASSUME NEW s \in Seqs, e + 1 <= Behind(s)', Behind(s)' <= c + 1, s \notin a.missing PROVE Kept(s)'
    <3> DEFINE y == Behind(s)
               w == Behind(s)'
    <3>1. w \in Nat
      BY <1>5, <1>6
    <3>2. w >= 2
      <4> HIDE DEF e, c, w
      <4>1. e + 1 <= w
        BY <2>8 DEF w
      <4>2. QED
        BY <2>3, <2>4, <3>1, <4>1
    <3>3. y >= 1 /\ y <= c /\ w = y + 1 /\ At(s)' = At(s) /\ y \in Nat
      BY <1>5, <1>12, <2>3, <2>8, <3>2
    <3>4. e <= y /\ y \in 1..n
      <4>1. e + 1 <= w
        BY <2>8
      <4> HIDE DEF e, c, w, y, n
      <4>2. QED
        BY <1>5, <2>3, <3>3, <4>1 DEF n
    <3>5. Kept(s)
      BY <2>2, <2>8, <3>3, <3>4 DEF AckSound
    <3>6. QED
      BY <1>25, <3>3, <3>4, <3>5
  <2>9. (Behind(a.cum) <= Len(cut))' /\ (Behind(a.hi) \in 1..(Behind(a.cum) + 1))'
    BY <1>6, <2>1, <2>4, <2>5, <2>6
  <2>10. (\A k \in 1..(Len(cut) - Behind(a.cum)) : Gone(k))'
    <3>1. Len(cut)' = n + 1 /\ Behind(a.cum)' = c + 1
      BY <1>6, <2>1
    <3>2. ASSUME NEW k \in 1..(Len(cut) - Behind(a.cum))' PROVE Gone(k)'
      <4>1. k \in 1..(n + 1 - (c + 1))
        <5> DEFINE x == Len(cut)'
                   y == Behind(a.cum)'
        <5>1. x = n + 1 /\ y = c + 1 /\ k \in 1..(x - y) /\ n \in Nat /\ c \in Nat
          BY <1>5, <2>3, <3>1, <3>2
        <5> HIDE DEF x, y, n, c
        <5>2. QED
          BY <5>1
      <4>2. QED
        BY <2>7, <4>1
    <3>3. QED
      BY <3>2
  <2>11. (\A s \in Seqs : Behind(a.hi) <= Behind(s) /\ Behind(s) <= Behind(a.cum) /\ s \notin a.missing => Kept(s))'
    BY <2>1, <2>5, <2>8
  <2>12. QED
    BY <2>9, <2>10, <2>11 DEF AckSound
\* In flight is what was, and the newest.
<1>28. ASSUME NEW s \in Seqs, Behind(s)' \in 1..(F + 1)
       PROVE  \/ Held(tx', s)
              \/ /\ Behind(s) \in 1..F /\ Behind(s) \in 1..n /\ At(s)' = At(s)
                 /\ Held(tx, s) => Held(tx', s)
  <2> DEFINE v == Behind(s)
             w == Behind(s)'
  <2>1. CASE w = 1
    BY <1>11, <1>16, <2>1
  <2>2. CASE w # 1
    <3>1. w >= 2 /\ w <= F + 1
      <4>1. w \in 1..(F + 1)
        BY <1>28
      <4> HIDE DEF w, F
      <4>2. QED
        BY <1>5, <2>2, <4>1 DEF F
    <3>2. v >= 1 /\ v <= F /\ At(s)' = At(s) /\ v \in Nat
      BY <1>5, <1>12, <3>1
    <3>3. v \in 1..F /\ v \in 1..n
      <4> HIDE DEF v, F, n
      <4>1. QED
        BY <1>5, <3>2 DEF F, n
    <3>4. QED
      BY <1>15, <3>2, <3>3
  <2>3. QED
    BY <2>1, <2>2
<1>29. ASSUME Untouched PROVE Untouched'
  <2>1. F = n /\ \A s \in Seqs : Behind(s) \in 1..F => Held(tx, s)
    BY <1>29 DEF Untouched
  <2>2. InFlight' = F + 1 /\ Len(cut)' = n + 1
    BY <1>6
  <2>3. ASSUME NEW s \in Seqs, Behind(s)' \in 1..InFlight' PROVE Held(tx', s)
    BY <1>28, <2>1, <2>2, <2>3
  <2>4. \A a \in acks' : ~Counts(a)'
    BY <1>26, <1>29 DEF Untouched
  <2>5. QED
    BY <2>1, <2>2, <2>3, <2>4 DEF Untouched
<1>30. ReceiverOK'
  <2>1. CASE ~rx.started
    BY <1>2, <1>29, <2>1 DEF StripeInv, ReceiverOK
  <2>2. CASE rx.started
    <3>1. Fits(rx)' /\ Span(rx)' = top /\ Behind(rx.next)' = b + 1
      BY <1>2, <1>21, <1>22, <2>2 DEF Fits, Span, Near
    <3>2. InFlight' = F + 1 /\ Len(cut)' = n + 1
      BY <1>6
    <3>3. CASE Follows(rx, excuse)
      <4>1. b <= n /\ b <= F + 2 * Ring /\ top <= b /\ b \in Nat /\ top \in Nat
        BY <1>21, <2>2, <3>3
      <4>2. b + 1 <= n + 1 /\ b + 1 <= F + 1 + 2 * Ring /\ top <= b + 1
        <5> HIDE DEF b, n, F, top
        <5>1. QED
          BY <1>5, <4>1, Sizes DEF n, F
      <4>3. ASSUME NEW i \in Slots, rx.ring[i] # NoPacket PROVE rx.ring[i].piece = cut'[At(rx.ring[i].seq)']
        <5>1. PICK s : s = rx.ring[i].seq
          OBVIOUS
        <5>2. s \in Seqs /\ Held(rx.ring, s)
          BY <1>21, <2>2, <4>3, <5>1, EntryIs DEF Fits, Near
        <5> DEFINE x == Ahead(s, rx.next)
                   y == Behind(s)
        <5>3. x \in Nat /\ x < top /\ y = b - x
          BY <2>2, <4>1, <5>2, HeldBehind
        <5>4. y < Modulus - 1 /\ n + 1 - y \in 1..n
          <6> HIDE DEF x, y, n, b, top
          <6>1. QED
            BY <1>5, <1>22, <2>2, <4>1, <5>3, Sizes DEF n
        <5>5. At(s)' = At(s) /\ At(s) \in 1..n
          BY <1>6, <5>2, <5>4 DEF At
        <5>6. rx.ring[i].piece = cut[At(s)]
          BY <3>3, <4>3, <5>1 DEF Follows
        <5>7. At(rx.ring[i].seq)' = At(s)'
          BY <1>2, <5>1 DEF At, Behind
        <5>8. QED
          BY <1>6, <5>5, <5>6, <5>7
      <4>4. ASSUME NEW a \in acks', Counts(a)' PROVE b + 1 <= Behind(a.cum)' + 2 * Ring
        <5> DEFINE c == Behind(a.cum)
        <5>1. Behind(a.cum)' = c + 1 /\ c \in Nat /\ b <= c + 2 * Ring
          BY <1>5, <1>26, <3>3, <4>4 DEF Follows
        <5> HIDE DEF b, c
        <5>2. b + 1 <= c + 1 + 2 * Ring
          BY <4>1, <5>1, Sizes
        <5>3. QED
          BY <5>1, <5>2
      <4>5. ASSUME excuse = {} PROVE b + 1 <= F + 1 /\ \A a \in acks' : Counts(a)' => b + 1 <= Behind(a.cum)'
        <5>1. b <= F /\ \A a \in acks : Counts(a) => b <= Behind(a.cum)
          BY <3>3, <4>5 DEF Follows
        <5>2. ASSUME NEW a \in acks', Counts(a)' PROVE b + 1 <= Behind(a.cum)'
          <6> DEFINE c == Behind(a.cum)
          <6>1. Behind(a.cum)' = c + 1 /\ c \in Nat /\ b <= c
            BY <1>5, <1>26, <5>1, <5>2
          <6> HIDE DEF b, c
          <6>2. b + 1 <= c + 1
            BY <4>1, <6>1
          <6>3. QED
            BY <6>1, <6>2
        <5>3. b + 1 <= F + 1
          <6> HIDE DEF b, F
          <6>1. QED
            BY <1>5, <4>1, <5>1 DEF F
        <5>4. QED
          BY <5>2, <5>3
      <4> HIDE DEF b, n, F, top
      <4>6. Follows(rx, excuse)'
        BY <1>2, <3>1, <3>2, <4>2, <4>3, <4>4, <4>5 DEF Follows
      <4>7. QED
        BY <1>2, <2>2, <3>1, <4>6 DEF ReceiverOK
    <3>4. CASE Elsewhere
      <4>1. n + 2 * Ring + 1 + top <= b /\ b <= n + Modulus - 3 * Ring + 1 /\ b \in Nat /\ top \in Nat /\ Untouched
        BY <1>21, <2>2, <3>4
      <4>2. n + 1 + 2 * Ring + 1 + top <= b + 1 /\ b + 1 <= n + 1 + Modulus - 3 * Ring + 1
        <5> HIDE DEF b, n, F, top
        <5>1. QED
          BY <1>5, <4>1, Sizes DEF n
      <4> HIDE DEF b, n, F, top
      <4>3. Elsewhere'
        BY <1>29, <3>1, <3>2, <4>1, <4>2 DEF Elsewhere
      <4>4. QED
        BY <1>2, <2>2, <3>1, <4>3 DEF ReceiverOK
    <3>5. QED
      BY <1>21, <2>2, <3>3, <3>4
  <2>3. QED
    BY <2>1, <2>2
<1>31. ForgottenOK'
  <2>1. InFlight' = F + 1 /\ Len(cut)' = n + 1
    BY <1>6
  <2>2. ASSUME NEW k \in 1..(n + 1 - (F + 1)) PROVE Gone(k)'
    <3>1. k \in 1..(n - F) /\ k \in 1..n
      <4>1. k \in 1..(n + 1 - (F + 1))
        BY <2>2
      <4> HIDE DEF n, F
      <4>2. QED
        BY <1>5, <4>1 DEF n, F
    <3>2. Gone(k)
      BY <3>1 DEF StripeInv, ForgottenOK
    <3>3. QED
      BY <1>24, <3>1, <3>2
  <2>3. ASSUME NEW s \in Seqs, Behind(s)' \in 1..(F + 1) PROVE Held(tx', s) \/ Kept(s)'
    <3>1. CASE Held(tx', s)
      BY <3>1
    <3>2. CASE Behind(s) \in 1..F /\ Behind(s) \in 1..n /\ At(s)' = At(s) /\ (Held(tx, s) => Held(tx', s))
      <4>1. Held(tx, s) \/ Kept(s)
        BY <3>2 DEF StripeInv, ForgottenOK
      <4>2. QED
        BY <1>25, <3>2, <4>1
    <3>3. QED
      BY <1>28, <2>3, <3>1, <3>2
  <2>4. (\A k \in 1..(Len(cut) - InFlight) : Gone(k))'
    <3> DEFINE x == Len(cut)'
               y == InFlight'
    <3>1. ASSUME NEW k \in 1..(x - y) PROVE Gone(k)'
      <4>1. k \in 1..(n + 1 - (F + 1))
        <5>1. x = n + 1 /\ y = F + 1 /\ k \in 1..(x - y) /\ n \in Nat /\ F \in Nat
          BY <1>5, <2>1, <3>1
        <5> HIDE DEF x, y, n, F
        <5>2. QED
          BY <5>1
      <4>2. QED
        BY <2>2, <4>1
    <3>2. QED
      BY <3>1
  <2>5. (\A s \in Seqs : Behind(s) \in 1..InFlight => Held(tx, s) \/ Kept(s))'
    BY <2>1, <2>3
  <2>6. QED
    BY <2>4, <2>5 DEF ForgottenOK
<1>32. WindowHolds'
  BY <1>2, <1>23 DEF StripeInv, WindowHolds
<1>33. Typed'
  <2>1. rtxQ' \subseteq {tx'[i].seq : i \in Slots} \ {Modulus}
    <3> SUFFICES ASSUME NEW s \in rtxQ PROVE s \in {tx'[i].seq : i \in Slots} \ {Modulus}
      BY <1>2
    <3>1. PICK i \in Slots : s = tx[i].seq /\ s # Modulus
      BY <1>3 DEF Typed, TypeOK
    <3>2. tx'[i] = tx[i]
      BY <1>14, <3>1, NoPacketIs
    <3>3. QED
      BY <3>1, <3>2
  <2>2. tx' \in [Slots -> Packet \cup {NoPacket}]
    BY <1>10 DEF Rings
  <2>3. wire' \subseteq Packet
    BY <1>3, <1>8, <1>9 DEF OnTime, Typed, TypeOK
  <2>4. acks' \subseteq Ack
    BY <1>1, <1>3 DEF Recent, Typed, TypeOK
  <2>5. seq' \in Seqs /\ low' \in Seqs /\ cut' \in Seq(Pieces)
    BY <1>1, <1>2, <1>5, <1>6 DEF S
  <2>6. QED
    BY <1>2, <1>3, <1>4, <2>1, <2>2, <2>3, <2>4, <2>5 DEF Typed, TypeOK
<1>34. QED
  BY <1>19, <1>20, <1>27, <1>30, <1>31, <1>32, <1>33 DEF StripeInv

----------------------------------------------------------------------------
(* The theorems.                                                           *)

LEMMA StripeNext == ASSUME Linger < Ring, StripeInv, [Next]_vars PROVE StripeInv'
<1>1. CASE Send
  BY <1>1, SendKeeps
<1>2. CASE PullNew
  BY <1>2, PullNewKeeps
<1>3. CASE GiveUp
  BY <1>3, GiveUpKeeps
<1>4. CASE SendAck
  BY <1>4, SendAckKeeps
<1>5. CASE RestartSender
  BY <1>5, RestartSenderKeeps
<1>6. CASE RestartReceiver
  BY <1>6, RestartReceiverKeeps
<1>7. ASSUME NEW i \in Slots, tx[i].seq # Modulus, PullAgain(tx[i].seq) \/ SpareCopy(tx[i].seq) \/ DetectLoss(tx[i].seq)
      PROVE  StripeInv'
  BY <1>7, PullAgainKeeps, SpareCopyKeeps, DetectLossKeeps
<1>8. ASSUME NEW m \in wire, Push(m) \/ LosePacket(m) PROVE StripeInv'
  BY <1>8, PushKeeps, LosePacketKeeps
<1>9. ASSUME NEW a \in acks, OnAck(a) \/ LoseAck(a) PROVE StripeInv'
  BY <1>9, OnAckKeeps, LoseAckKeeps
<1>10. CASE UNCHANGED vars
  <2>1. /\ UNCHANGED <<seq, low, cut, tx, rx, handed, died, excuse, restarts>>
        /\ UNCHANGED <<queue, cur, offered, wire, acks, news, rtxQ>>
    BY <1>10 DEF vars, sendVars, recvVars
  <2>2. Typed'
    BY <2>1 DEF StripeInv, Typed, TypeOK
  <2>3. QED
    BY <2>1, <2>2, LanesMove
<1>11. QED
  BY <1>1, <1>2, <1>3, <1>4, <1>5, <1>6, <1>7, <1>8, <1>9, <1>10 DEF Next

\* The link keeps to its invariant when no copy outlives the window (striped.go: push takes what is
\* farther behind than reorderWindow for another run of the sender).
THEOREM StripeKeepsInv == ASSUME Linger < Ring PROVE Spec => []StripeInv
<1>1. Init => StripeInv
  BY StripeInit
<1>2. StripeInv /\ [Next]_vars => StripeInv'
  BY StripeNext
<1>3. QED
  BY <1>1, <1>2, PTL DEF Spec

\* The state of both ends keeps its types.
THEOREM StripeTyped == ASSUME Linger < Ring PROVE Spec => []TypeOK
<1>1. StripeInv => TypeOK
  BY DEF StripeInv, Typed
<1>2. QED
  BY <1>1, StripeKeepsInv, PTL

\* The receiver passes over a piece only after holeDeadline, when it joined late or restarted
\* (reorderBuffer.push, skipToLocked; pull against txRingSize).
THEOREM WindowIsKept == ASSUME Linger < Ring PROVE Spec => []WindowHolds
<1>1. StripeInv => WindowHolds
  BY DEF StripeInv
<1>2. QED
  BY <1>1, StripeKeepsInv, PTL

\* What the sender has forgotten the receiver has, or is done with (onAck, ackFrame, push).
THEOREM NoneForgotten == ASSUME Linger < Ring PROVE Spec => []NothingForgotten
<1>1. ASSUME StripeInv PROVE NothingForgotten
  <2> DEFINE n == Len(cut)
             F == InFlight
  <2> SUFFICES ASSUME NEW k \in 1..n
               PROVE  LET s == Plus(seq, k - n) IN Held(tx, s) \/ Gone(k) \/ Held(rx.ring, s)
    BY DEF NothingForgotten, Gone
  <2> DEFINE s == Plus(seq, k - n)
  <2>1. Typed /\ seq \in Seqs /\ n \in Nat /\ F \in Nat /\ F <= Ring /\ F <= n
    BY <1>1, RunIs DEF StripeInv, TxOK
  <2>2. CASE k <= n - F
    <3>1. k \in 1..(n - F)
      <4> HIDE DEF n, F
      <4>1. QED
        BY <2>1, <2>2
    <3>2. QED
      BY <1>1, <3>1 DEF StripeInv, ForgottenOK
  <2>3. CASE ~(k <= n - F)
    <3> DEFINE j == k - n
    <3>1. j \in Int /\ j <= 1 /\ j > 1 - Modulus /\ 1 - j \in 1..F /\ n + 1 - (1 - j) = k
      <4> HIDE DEF n, F
      <4>1. QED
        BY <2>1, <2>3, Sizes
    <3>2. BehindOf(seq, seq) = 1
      BY <2>1, NewestBehind
    <3> HIDE DEF j
    <3>3. Plus(seq, j) \in Seqs /\ BehindOf(seq, Plus(seq, j)) = 1 - j
      BY <2>1, <3>1, <3>2, BehindPlus
    <3>4. s = Plus(seq, j)
      BY DEF j
    <3> HIDE DEF s
    <3>5. s \in Seqs /\ Behind(s) = 1 - j /\ At(s) = k
      BY <3>1, <3>3, <3>4 DEF Behind, At
    <3>6. Held(tx, s) \/ Kept(s)
      BY <1>1, <3>1, <3>5 DEF StripeInv, ForgottenOK
    <3>7. Held(tx, s) \/ Gone(k) \/ Held(rx.ring, s)
      BY <3>5, <3>6 DEF Kept
    <3>8. QED
      BY <3>7 DEF s
  <2>4. QED
    BY <2>2, <2>3
<1>2. QED
  BY <1>1, StripeKeepsInv, PTL

=============================================================================
