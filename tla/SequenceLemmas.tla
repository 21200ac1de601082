--------------------------- MODULE SequenceLemmas ---------------------------
(***************************************************************************)
(* What the proofs need to know of numbers and sequences whatever they are *)
(* about: induction, with a set for the statement, for the provers do not  *)
(* instantiate the operators of the library's induction theorems; what is  *)
(* in a sequence that grows or is cut; and what FlattenSeq returns.        *)
(***************************************************************************)
EXTENDS Integers, FiniteSets, SequencesExt, SequenceTheorems, FiniteSetTheorems, WellFoundedInduction, TLAPS

\* A set of numbers has a least one.
LEMMA LeastOf ==
  ASSUME NEW S, S \subseteq Nat, S # {}
  PROVE  \E c \in S : \A d \in S : c <= d
<1> DEFINE R == OpToRel(<, Nat)
<1>1. IsWellFoundedOn(R, Nat)
  BY NatLessThanWellFounded
<1>2. \A x, y \in Nat : x < y => <<x, y>> \in R
  BY DEF OpToRel
<1> HIDE DEF R
<1>3. PICK c \in S : \A d \in S : ~(<<d, c>> \in R)
  BY <1>1, WFMin
<1>4. ASSUME NEW d \in S PROVE c <= d
  <2>1. c \in Nat /\ d \in Nat /\ ~(<<d, c>> \in R)
    BY <1>3
  <2>2. ~(d < c)
    BY <1>2, <2>1
  <2>3. QED
    BY <2>1, <2>2
<1>5. QED
  BY <1>4

\* Induction over 0..n, with a set for the statement.
LEMMA StepByStep ==
  ASSUME NEW n \in Nat, NEW S \in SUBSET (0..n), 0 \in S,
         \A x \in S : x < n => x + 1 \in S
  PROVE  n \in S
<1> SUFFICES ASSUME n \notin S PROVE FALSE
  OBVIOUS
<1> DEFINE next == [x \in S |-> x + 1]
<1>1. IsFiniteSet(S)
  <2>1. IsFiniteSet(0..n)
    BY FS_Interval
  <2>2. QED
    BY <2>1, FS_Subset
<1>2. IsFiniteSet(S \ {0}) /\ Cardinality(S \ {0}) < Cardinality(S)
  <2>1. IsFiniteSet(S \ {0}) /\ Cardinality(S \ {0}) = Cardinality(S) - 1
    BY <1>1, FS_RemoveElement
  <2>2. Cardinality(S) \in Nat
    BY <1>1, FS_CardinalityType
  <2>3. QED
    BY <2>1, <2>2
<1>3. \A x \in S : x \in 0..n /\ x # n
  OBVIOUS
<1>4. \A x \in S : x + 1 \in S /\ x + 1 # 0
  BY <1>3
<1>5. next \in [S -> S \ {0}]
  BY <1>4
<1>6. PICK x, y \in S : x # y /\ next[x] = next[y]
  <2> HIDE DEF next
  <2>1. QED
    BY <1>1, <1>2, <1>5, FS_PigeonHole
<1>7. x + 1 = y + 1
  BY <1>6
<1>8. QED
  BY <1>3, <1>6, <1>7

\* What is in a sequence is in its set; a function on 1..n is a sequence.
LEMMA Element == ASSUME NEW S, NEW q \in Seq(S), NEW i \in DOMAIN q PROVE q[i] \in S
OBVIOUS

LEMMA FirstElement ==
  ASSUME NEW S, NEW q \in Seq(S), q # <<>>
  PROVE  Head(q) \in S /\ Tail(q) \in Seq(S) /\ Len(Tail(q)) = Len(q) - 1 /\ Len(q) \in Nat /\ Len(q) # 0
OBVIOUS

LEMMA FunctionIsSeq == ASSUME NEW S, NEW n \in Nat, NEW f \in [1..n -> S] PROVE f \in Seq(S) /\ Len(f) = n
OBVIOUS

LEMMA WhereElement == ASSUME NEW S, NEW q \in Seq(S), NEW i \in Nat, i >= 1, i <= Len(q) PROVE i \in DOMAIN q /\ q[i] \in S
OBVIOUS

----------------------------------------------------------------------------
(* Sequences without repetition.                                           *)

\* What is in a sequence, when it grows, shrinks or is cut; one that has nothing twice stays so.
LEMMA OneMore ==
  ASSUME NEW S, NEW q \in Seq(S), NEW x \in S
  PROVE  /\ Append(q, x) \in Seq(S) /\ ToSet(Append(q, x)) = ToSet(q) \cup {x}
         /\ IsInjective(q) /\ x \notin ToSet(q) => IsInjective(Append(q, x))
<1> DEFINE r == Append(q, x)
<1>1. r \in Seq(S) /\ Len(q) \in Nat /\ Len(r) = Len(q) + 1 /\ r[Len(q) + 1] = x /\ DOMAIN r = 1..Len(q) + 1
      /\ DOMAIN q = 1..Len(q) /\ \A i \in 1..Len(q) : r[i] = q[i]
  OBVIOUS
<1> HIDE DEF r
<1>2. ToSet(r) = ToSet(q) \cup {x}
  <2>1. ASSUME NEW y \in ToSet(r) PROVE y \in ToSet(q) \cup {x}
    <3>1. PICK i \in 1..Len(q) + 1 : y = r[i]
      BY <1>1 DEF ToSet
    <3>2. CASE i = Len(q) + 1
      BY <1>1, <3>1, <3>2
    <3>3. CASE i # Len(q) + 1
      <4>1. i \in 1..Len(q)
        BY <1>1, <3>3
      <4>2. QED
        BY <1>1, <3>1, <4>1 DEF ToSet
    <3>4. QED
      BY <3>2, <3>3
  <2>2. ASSUME NEW y \in ToSet(q) PROVE y \in ToSet(r)
    <3>1. PICK i \in 1..Len(q) : y = q[i]
      BY <1>1 DEF ToSet
    <3>2. i \in 1..Len(q) + 1 /\ y = r[i]
      BY <1>1, <3>1
    <3>3. QED
      BY <1>1, <3>2 DEF ToSet
  <2>3. x \in ToSet(r)
    <3>1. Len(q) + 1 \in 1..Len(q) + 1
      BY <1>1
    <3>2. QED
      BY <1>1, <3>1 DEF ToSet
  <2>4. QED
    BY <2>1, <2>2, <2>3
<1>3. ASSUME IsInjective(q), x \notin ToSet(q) PROVE IsInjective(r)
  <2> SUFFICES ASSUME NEW i \in 1..Len(q) + 1, NEW j \in 1..Len(q) + 1, r[i] = r[j] PROVE i = j
    BY <1>1 DEF IsInjective
  <2>1. \A k \in 1..Len(q) : q[k] # x
    BY <1>1, <1>3 DEF ToSet
  <2>2. CASE i # Len(q) + 1 /\ j # Len(q) + 1
    <3>1. i \in 1..Len(q) /\ j \in 1..Len(q)
      BY <1>1, <2>2
    <3>2. QED
      BY <1>1, <1>3, <3>1 DEF IsInjective
  <2>3. CASE i = Len(q) + 1
    <3>1. j # Len(q) + 1 => j \in 1..Len(q)
      BY <1>1
    <3>2. QED
      BY <1>1, <2>1, <2>3, <3>1
  <2>4. CASE j = Len(q) + 1
    <3>1. i # Len(q) + 1 => i \in 1..Len(q)
      BY <1>1
    <3>2. QED
      BY <1>1, <2>1, <2>4, <3>1
  <2>5. QED
    BY <2>2, <2>3, <2>4
<1>4. QED
  BY <1>1, <1>2, <1>3 DEF r

LEMMA Together ==
  ASSUME NEW S, NEW q \in Seq(S), NEW r \in Seq(S)
  PROVE  /\ q \o r \in Seq(S) /\ ToSet(q \o r) = ToSet(q) \cup ToSet(r)
         /\ IsInjective(q) /\ IsInjective(r) /\ ToSet(q) \cap ToSet(r) = {} => IsInjective(q \o r)
<1> DEFINE t == q \o r
           m == Len(q)
           n == Len(r)
<1>1. /\ t \in Seq(S) /\ m \in Nat /\ n \in Nat /\ DOMAIN q = 1..m /\ DOMAIN r = 1..n /\ DOMAIN t = 1..m + n
      /\ \A i \in 1..m + n : t[i] = IF i <= m THEN q[i] ELSE r[i - m]
  OBVIOUS
<1> HIDE DEF t, m, n
<1>2. \A i \in 1..m : i \in 1..m + n /\ t[i] = q[i]
  BY <1>1
<1>3. \A i \in 1..n : m + i \in 1..m + n /\ t[m + i] = r[i]
  <2> SUFFICES ASSUME NEW i \in 1..n PROVE m + i \in 1..m + n /\ t[m + i] = r[i]
    OBVIOUS
  <2>1. m + i \in 1..m + n /\ ~(m + i <= m) /\ (m + i) - m = i
    BY <1>1
  <2>2. QED
    BY <1>1, <2>1
<1>4. \A i \in 1..m + n : (i \in 1..m /\ t[i] = q[i]) \/ (i - m \in 1..n /\ t[i] = r[i - m])
  BY <1>1
<1>5. ToSet(t) = ToSet(q) \cup ToSet(r)
  <2>1. ASSUME NEW y \in ToSet(t) PROVE y \in ToSet(q) \cup ToSet(r)
    <3>1. PICK i \in 1..m + n : y = t[i]
      BY <1>1 DEF ToSet
    <3>2. QED
      BY <1>1, <1>4, <3>1 DEF ToSet
  <2>2. ASSUME NEW y \in ToSet(q) PROVE y \in ToSet(t)
    <3>1. PICK i \in 1..m : y = q[i]
      BY <1>1, <2>2 DEF ToSet
    <3>2. i \in DOMAIN t /\ t[i] = y
      BY <1>1, <1>2, <3>1
    <3>3. QED
      BY <3>2 DEF ToSet
  <2>3. ASSUME NEW y \in ToSet(r) PROVE y \in ToSet(t)
    <3>1. PICK i \in 1..n : y = r[i]
      BY <1>1, <2>3 DEF ToSet
    <3>2. m + i \in DOMAIN t /\ t[m + i] = y
      BY <1>1, <1>3, <3>1
    <3>3. QED
      BY <3>2 DEF ToSet
  <2>4. QED
    BY <2>1, <2>2, <2>3
<1>6. ASSUME IsInjective(q), IsInjective(r), ToSet(q) \cap ToSet(r) = {} PROVE IsInjective(t)
  <2> SUFFICES ASSUME NEW i \in 1..m + n, NEW j \in 1..m + n, t[i] = t[j] PROVE i = j
    BY <1>1 DEF IsInjective
  <2>1. \A k \in 1..m, l \in 1..n : q[k] # r[l]
    BY <1>1, <1>6 DEF ToSet
  <2>2. CASE i \in 1..m /\ j \in 1..m
    BY <1>1, <1>2, <1>6, <2>2 DEF IsInjective
  <2>3. CASE i \notin 1..m /\ j \notin 1..m
    <3>1. i - m \in 1..n /\ j - m \in 1..n /\ r[i - m] = r[j - m]
      BY <1>4, <2>3
    <3>2. i - m = j - m
      BY <1>1, <1>6, <3>1 DEF IsInjective
    <3>3. QED
      BY <1>1, <3>2
  <2>4. CASE i \in 1..m /\ j \notin 1..m
    BY <1>2, <1>4, <2>1, <2>4
  <2>5. CASE i \notin 1..m /\ j \in 1..m
    BY <1>2, <1>4, <2>1, <2>5
  <2>6. QED
    BY <2>2, <2>3, <2>4, <2>5
<1>7. QED
  BY <1>1, <1>5, <1>6 DEF t

\* A sequence is what it has up to a place and what it has after it.
LEMMA Cut ==
  ASSUME NEW S, NEW q \in Seq(S), NEW n \in 0..Len(q)
  PROVE  /\ SubSeq(q, 1, n) \in Seq(S) /\ SubSeq(q, n + 1, Len(q)) \in Seq(S)
         /\ Len(SubSeq(q, 1, n)) = n /\ Len(SubSeq(q, n + 1, Len(q))) = Len(q) - n
         /\ ToSet(SubSeq(q, 1, n)) \cup ToSet(SubSeq(q, n + 1, Len(q))) = ToSet(q)
         /\ IsInjective(q) =>
              /\ IsInjective(SubSeq(q, 1, n)) /\ IsInjective(SubSeq(q, n + 1, Len(q)))
              /\ ToSet(SubSeq(q, 1, n)) \cap ToSet(SubSeq(q, n + 1, Len(q))) = {}
<1> DEFINE m == Len(q)
           a == SubSeq(q, 1, n)
           b == SubSeq(q, n + 1, m)
<1>1. m \in Nat /\ n \in Nat /\ n <= m /\ DOMAIN q = 1..m
  OBVIOUS
<1>2. a \in Seq(S) /\ Len(a) = n /\ DOMAIN a = 1..n /\ \A i \in 1..n : a[i] = q[i]
  BY <1>1
<1>3. b \in Seq(S) /\ Len(b) = m - n /\ DOMAIN b = 1..m - n /\ \A i \in 1..m - n : b[i] = q[n + i]
  <2>1. \A i \in n + 1..m : q[i] \in S
    BY <1>1
  <2>2. n + 1 \in Int /\ m \in Int /\ m - (n + 1) + 1 = m - n
    BY <1>1
  <2> HIDE DEF m
  <2>3. /\ b \in Seq(S) /\ Len(b) = IF n + 1 <= m THEN m - (n + 1) + 1 ELSE 0
        /\ \A i \in 1..m - (n + 1) + 1 : b[i] = q[(n + 1) + i - 1]
    BY <2>1, <2>2, SubSeqProperties
  <2>4. \A i \in 1..m - n : (n + 1) + i - 1 = n + i
    BY <1>1
  <2>5. Len(b) = m - n
    BY <1>1, <2>2, <2>3
  <2>6. DOMAIN b = 1..m - n
    BY <2>3, <2>5
  <2>7. QED
    BY <2>2, <2>3, <2>4, <2>5, <2>6
<1> HIDE DEF a, b, m
<1>4. \A i \in 1..n : i \in 1..m
  BY <1>1
<1>5. \A i \in 1..m - n : n + i \in 1..m
  BY <1>1
<1>6. \A i \in 1..m : i \in 1..n \/ (i - n \in 1..m - n /\ n + (i - n) = i)
  BY <1>1
<1>7. ToSet(a) \cup ToSet(b) = ToSet(q)
  <2>1. ASSUME NEW y \in ToSet(q) PROVE y \in ToSet(a) \cup ToSet(b)
    <3>1. PICK i \in 1..m : y = q[i]
      BY <1>1 DEF ToSet
    <3>2. CASE i \in 1..n
      BY <1>2, <3>1, <3>2 DEF ToSet
    <3>3. CASE i \notin 1..n
      <4>1. i - n \in 1..m - n /\ b[i - n] = y
        BY <1>3, <1>6, <3>1, <3>3
      <4>2. QED
        BY <1>3, <4>1 DEF ToSet
    <3>4. QED
      BY <3>2, <3>3
  <2>2. ASSUME NEW y \in ToSet(a) PROVE y \in ToSet(q)
    BY <1>1, <1>2, <1>4, <2>2 DEF ToSet
  <2>3. ASSUME NEW y \in ToSet(b) PROVE y \in ToSet(q)
    BY <1>1, <1>3, <1>5, <2>3 DEF ToSet
  <2>4. QED
    BY <2>1, <2>2, <2>3
<1>8. ASSUME IsInjective(q) PROVE IsInjective(a) /\ IsInjective(b) /\ ToSet(a) \cap ToSet(b) = {}
  <2>1. \A i \in 1..m, j \in 1..m : q[i] = q[j] => i = j
    BY <1>1, <1>8 DEF IsInjective
  <2>2. IsInjective(a)
    BY <1>2, <1>4, <2>1 DEF IsInjective
  <2>3. ASSUME NEW i \in 1..m - n, NEW j \in 1..m - n, b[i] = b[j] PROVE i = j
    <3>1. n + i = n + j
      BY <1>3, <1>5, <2>1, <2>3
    <3>2. QED
      BY <1>1, <3>1
  <2>4. IsInjective(b)
    BY <1>3, <2>3 DEF IsInjective
  <2>5. ASSUME NEW i \in 1..n, NEW j \in 1..m - n, a[i] = b[j] PROVE FALSE
    <3>1. i \in 1..m /\ n + j \in 1..m /\ q[i] = q[n + j]
      BY <1>2, <1>3, <1>4, <1>5, <2>5
    <3>2. i = n + j
      BY <2>1, <3>1
    <3>3. QED
      BY <1>1, <3>2
  <2>6. ToSet(a) \cap ToSet(b) = {}
    BY <1>2, <1>3, <2>5 DEF ToSet
  <2>7. QED
    BY <2>2, <2>4, <2>6
<1>9. QED
  BY <1>2, <1>3, <1>7, <1>8 DEF a, b, m

LEMMA FirstTaken ==
  ASSUME NEW S, NEW q \in Seq(S), q # <<>>
  PROVE  /\ Head(q) \in S /\ Head(q) \in ToSet(q) /\ Tail(q) \in Seq(S) /\ Len(Tail(q)) = Len(q) - 1
         /\ ToSet(q) = {Head(q)} \cup ToSet(Tail(q))
         /\ IsInjective(q) => IsInjective(Tail(q)) /\ Head(q) \notin ToSet(Tail(q))
<1>1. Len(q) \in Nat /\ 1 \in 0..Len(q) /\ 1 \in DOMAIN q /\ Head(q) = q[1]
  OBVIOUS
<1>2. SubSeq(q, 1, 1) = <<Head(q)>> /\ Tail(q) = SubSeq(q, 2, Len(q)) /\ Head(q) \in S
  <2>1. Tail(q) = SubSeq(q, 2, Len(q)) /\ Head(q) \in S
    BY <1>1, TailIsSubSeq
  <2>2. \A i \in 1..1 : q[i] \in S
    BY <1>1
  <2>3. /\ SubSeq(q, 1, 1) \in Seq(S) /\ Len(SubSeq(q, 1, 1)) = 1
        /\ \A i \in 1..1 : SubSeq(q, 1, 1)[i] = q[i]
    BY <2>2, SubSeqProperties
  <2>4. SubSeq(q, 1, 1) = <<Head(q)>>
    <3> DEFINE a == SubSeq(q, 1, 1)
               h == Head(q)
    <3>1. a \in Seq(S) /\ Len(a) = 1 /\ a[1] = h /\ h \in S
      BY <1>1, <2>1, <2>3
    <3> HIDE DEF a, h
    <3>2. a = <<h>>
      BY <3>1
    <3>3. QED
      BY <3>2 DEF a, h
  <2>5. QED
    BY <2>1, <2>4
<1>3. ToSet(<<Head(q)>>) = {Head(q)}
  BY DEF ToSet
<1>4. Head(q) \in ToSet(q)
  BY <1>1 DEF ToSet
<1>5. 1 + 1 = 2
  OBVIOUS
<1>6. /\ Tail(q) \in Seq(S) /\ Len(Tail(q)) = Len(q) - 1 /\ ToSet(q) = {Head(q)} \cup ToSet(Tail(q))
      /\ IsInjective(q) => IsInjective(Tail(q)) /\ {Head(q)} \cap ToSet(Tail(q)) = {}
  <2> DEFINE n == 1
  <2>1. n \in 0..Len(q) /\ n + 1 = 2
    BY <1>1
  <2> HIDE DEF n
  <2>2. /\ SubSeq(q, n + 1, Len(q)) \in Seq(S) /\ Len(SubSeq(q, n + 1, Len(q))) = Len(q) - n
        /\ ToSet(SubSeq(q, 1, n)) \cup ToSet(SubSeq(q, n + 1, Len(q))) = ToSet(q)
        /\ IsInjective(q) => /\ IsInjective(SubSeq(q, n + 1, Len(q)))
                             /\ ToSet(SubSeq(q, 1, n)) \cap ToSet(SubSeq(q, n + 1, Len(q))) = {}
    BY <2>1, Cut
  <2>3. QED
    BY <1>2, <1>3, <2>1, <2>2 DEF n
<1>7. QED
  BY <1>2, <1>4, <1>6

LEMMA InSequence ==
  ASSUME NEW S, NEW q \in Seq(S)
  PROVE  ToSet(q) \subseteq S /\ (ToSet(q) = {} <=> q = <<>>) /\ Len(q) \in Nat
<1>1. DOMAIN q = 1..Len(q) /\ Len(q) \in Nat /\ \A i \in DOMAIN q : q[i] \in S
  OBVIOUS
<1>2. q # <<>> => 1 \in DOMAIN q
  OBVIOUS
<1>3. q = <<>> => DOMAIN q = {}
  OBVIOUS
<1>4. QED
  BY <1>1, <1>2, <1>3 DEF ToSet

LEMMA NoneThere == ToSet(<<>>) = {} /\ IsInjective(<<>>)
  BY DEF ToSet, IsInjective

LEMMA OneThere == ASSUME NEW x PROVE ToSet(<<x>>) = {x} /\ IsInjective(<<x>>) /\ <<x>> \in Seq({x})
  BY DEF ToSet, IsInjective

----------------------------------------------------------------------------
(* Sequences that are put together.                                        *)

\* f has gathered the first n of seqs.
Gathers(f, n, seqs, S) ==
    f \in [1..n -> Seq(S)] /\ \A i \in 1..n : f[i] = IF i = 1 THEN seqs[i] ELSE f[i-1] \o seqs[i]

LEMMA GatheringExists ==
  ASSUME NEW S, NEW seqs \in Seq(Seq(S)), NEW n \in 0..Len(seqs)
  PROVE  \E f : Gathers(f, n, seqs, S)
<1> DEFINE Done == {k \in 0..n : \E f : Gathers(f, k, seqs, S)}
<1>1. 0 \in Done
  <2>1. Gathers([i \in 1..0 |-> <<>>], 0, seqs, S)
    BY DEF Gathers
  <2>2. QED
    BY <2>1
<1>2. ASSUME NEW k \in Done, k < n PROVE k + 1 \in Done
  <2>1. PICK f : Gathers(f, k, seqs, S)
    OBVIOUS
  <2> DEFINE g == [i \in 1..(k+1) |-> IF i <= k THEN f[i] ELSE IF k = 0 THEN seqs[1] ELSE f[k] \o seqs[k+1]]
  <2>2. seqs[k+1] \in Seq(S)
    BY <1>2
  <2>3. k # 0 => f[k] \in Seq(S)
    BY <2>1 DEF Gathers
  <2>4. k # 0 => f[k] \o seqs[k+1] \in Seq(S)
    BY <2>2, <2>3
  <2>5. g \in [1..(k+1) -> Seq(S)]
    BY <2>1, <2>2, <2>4 DEF Gathers
  <2>6. ASSUME NEW i \in 1..(k+1) PROVE g[i] = IF i = 1 THEN seqs[i] ELSE g[i-1] \o seqs[i]
    <3>1. CASE i <= k
      <4>1. f[i] = IF i = 1 THEN seqs[i] ELSE f[i-1] \o seqs[i]
        <5>1. i \in 1..k
          BY <3>1
        <5>2. \A j \in 1..k : f[j] = IF j = 1 THEN seqs[j] ELSE f[j-1] \o seqs[j]
          BY <2>1 DEF Gathers
        <5>3. QED
          BY <5>1, <5>2
      <4>2. i # 1 => i - 1 \in 1..(k+1) /\ i - 1 <= k
        BY <3>1
      <4>3. QED
        BY <3>1, <4>1, <4>2
    <3>2. CASE i = k + 1
      BY <3>2
    <3>3. QED
      BY <3>1, <3>2
  <2>7. Gathers(g, k+1, seqs, S)
    <3> HIDE DEF g
    <3> QED BY <2>5, <2>6 DEF Gathers
  <2>8. k + 1 \in 0..n
    BY <1>2
  <2>9. QED
    BY <2>7, <2>8
<1>3. n \in Done
  <2> HIDE DEF Done
  <2>1. Done \in SUBSET (0..n) /\ n \in Nat
    BY DEF Done
  <2>2. QED
    BY <1>1, <1>2, <2>1, StepByStep
<1>4. QED
  BY <1>3

LEMMA GatheringIsUnique ==
  ASSUME NEW S, NEW seqs, NEW n \in Nat, NEW m \in Nat, m <= n,
         NEW f, NEW g, NEW more,
         Gathers(f, m, seqs, S), Gathers(g, n, more, S),
         \A i \in 1..m : more[i] = seqs[i]
  PROVE  \A i \in 1..m : f[i] = g[i]
<1> DEFINE Same == {k \in 0..m : \A i \in 1..k : f[i] = g[i]}
<1>1. 0 \in Same
  OBVIOUS
<1>2. ASSUME NEW k \in Same, k < m PROVE k + 1 \in Same
  <2>1. f[k+1] = g[k+1]
    <3>0. k + 1 \in 1..m /\ k + 1 \in 1..n
      BY <1>2
    <3>1. f[k+1] = IF k + 1 = 1 THEN seqs[k+1] ELSE f[k+1-1] \o seqs[k+1]
      <4>1. \A j \in 1..m : f[j] = IF j = 1 THEN seqs[j] ELSE f[j-1] \o seqs[j]
        BY DEF Gathers
      <4>2. QED
        BY <3>0, <4>1
    <3>2. g[k+1] = IF k + 1 = 1 THEN more[k+1] ELSE g[k+1-1] \o more[k+1]
      <4>1. \A j \in 1..n : g[j] = IF j = 1 THEN more[j] ELSE g[j-1] \o more[j]
        BY DEF Gathers
      <4>2. QED
        BY <3>0, <4>1
    <3>3. more[k+1] = seqs[k+1] /\ (k # 0 => f[k] = g[k]) /\ k + 1 - 1 = k /\ (k + 1 = 1 <=> k = 0)
      BY <1>2
    <3>4. QED
      BY <3>1, <3>2, <3>3
  <2>2. QED
    BY <1>2, <2>1
<1>3. m \in Same
  <2> HIDE DEF Same
  <2>1. Same \in SUBSET (0..m)
    BY DEF Same
  <2>2. QED
    BY <1>1, <1>2, <2>1, StepByStep
<1>4. QED
  BY <1>3

\* FlattenSeq is what has been gathered at the end.
LEMMA FlattenGathers ==
  ASSUME NEW S, NEW seqs \in Seq(Seq(S)), NEW f, Gathers(f, Len(seqs), seqs, S), Len(seqs) # 0
  PROVE  FlattenSeq(seqs) = f[Len(seqs)]
<1> DEFINE Rec(g) == [i \in 1..Len(seqs) |-> IF i = 1 THEN seqs[i] ELSE g[i-1] \o seqs[i]]
           h == CHOOSE g : g = Rec(g)
<1>1. f = Rec(f)
  BY DEF Gathers
<1>2. h = Rec(h)
  BY <1>1
<1>3. FlattenSeq(seqs) = h[Len(seqs)]
  BY DEF FlattenSeq
<1>4. \A i \in 1..Len(seqs) : h[i] = IF i = 1 THEN seqs[i] ELSE h[i-1] \o seqs[i]
  BY <1>2
<1> HIDE DEF h, Rec
<1> DEFINE Same == {k \in 0..Len(seqs) : \A i \in 1..k : f[i] = h[i]}
<1>5. 0 \in Same
  OBVIOUS
<1>6. ASSUME NEW k \in Same, k < Len(seqs) PROVE k + 1 \in Same
  <2>1. f[k+1] = h[k+1]
    <3>0. k + 1 \in 1..Len(seqs)
      BY <1>6
    <3>1. f[k+1] = IF k + 1 = 1 THEN seqs[k+1] ELSE f[k+1-1] \o seqs[k+1]
      <4>1. \A j \in 1..Len(seqs) : f[j] = IF j = 1 THEN seqs[j] ELSE f[j-1] \o seqs[j]
        BY DEF Gathers
      <4>2. QED
        BY SMTT(40), <3>0, <4>1
    <3>2. h[k+1] = IF k + 1 = 1 THEN seqs[k+1] ELSE h[k+1-1] \o seqs[k+1]
      BY <1>4, <3>0
    <3>3. (k # 0 => f[k] = h[k]) /\ k + 1 - 1 = k /\ (k + 1 = 1 <=> k = 0)
      BY <1>6
    <3>4. QED
      BY <3>1, <3>2, <3>3
  <2>2. QED
    BY <1>6, <2>1
<1>7. Len(seqs) \in Same
  <2> HIDE DEF Same
  <2>1. Same \in SUBSET (0..Len(seqs)) /\ Len(seqs) \in Nat
    BY DEF Same
  <2>2. QED
    BY <1>5, <1>6, <2>1, StepByStep
<1>8. f[Len(seqs)] = h[Len(seqs)]
  BY <1>7
<1>9. QED
  BY <1>3, <1>8

LEMMA FlattenType ==
  ASSUME NEW S, NEW seqs \in Seq(Seq(S))
  PROVE  FlattenSeq(seqs) \in Seq(S)
<1>1. CASE Len(seqs) = 0
  BY <1>1 DEF FlattenSeq
<1>2. CASE Len(seqs) # 0
  <2>1. PICK f : Gathers(f, Len(seqs), seqs, S)
    BY GatheringExists
  <2>2. f[Len(seqs)] \in Seq(S)
    BY SMTT(40), <1>2, <2>1 DEF Gathers
  <2>3. QED
    BY <1>2, <2>1, <2>2, FlattenGathers
<1>3. QED
  BY <1>1, <1>2

\* One more sequence comes after all the others.
LEMMA FlattenAppend ==
  ASSUME NEW S, NEW seqs \in Seq(Seq(S)), NEW s \in Seq(S)
  PROVE  FlattenSeq(Append(seqs, s)) = FlattenSeq(seqs) \o s
<1> DEFINE more == Append(seqs, s)
           n == Len(seqs)
<1>1. more \in Seq(Seq(S)) /\ Len(more) = n + 1 /\ n \in Nat
      /\ more[n+1] = s /\ \A i \in 1..n : more[i] = seqs[i]
  OBVIOUS
<1> HIDE DEF more
<1> HIDE DEF n
<1>2. PICK g : Gathers(g, n + 1, more, S)
  <2>1. n + 1 \in 0..Len(more)
    BY <1>1
  <2>2. QED
    BY <1>1, <2>1, GatheringExists
<1>3. FlattenSeq(more) = g[n+1]
  BY <1>1, <1>2, FlattenGathers
<1>4. CASE n = 0
  <2>1. g[1] = s
    BY <1>1, <1>2, <1>4 DEF Gathers
  <2>2. FlattenSeq(seqs) = seqs /\ seqs = <<>>
    <3>1. Len(seqs) = 0
      BY <1>4 DEF n
    <3>2. FlattenSeq(seqs) = seqs
      BY <3>1 DEF FlattenSeq
    <3>3. QED
      BY <3>1, <3>2, EmptySeq
  <2>3. <<>> \o s = s /\ g[n+1] = s
    BY <1>4, <2>1, ConcatEmptySeq
  <2>4. QED
    BY <1>3, <2>2, <2>3 DEF more
<1>5. CASE n # 0
  <2>1. PICK f : Gathers(f, n, seqs, S)
    <3>1. n \in 0..Len(seqs)
      BY <1>1 DEF n
    <3>2. QED
      BY <3>1, GatheringExists
  <2>2. f[n] = g[n]
    <3>1. n + 1 \in Nat /\ n <= n + 1 /\ n \in 1..n
      BY <1>1, <1>5
    <3>2. n \in Nat /\ \A i \in 1..n : more[i] = seqs[i]
      BY <1>1
    <3>3. \A i \in 1..n : f[i] = g[i]
      <4> DEFINE m == n + 1
      <4>1. m \in Nat /\ n <= m /\ Gathers(g, m, more, S)
        BY <1>2, <3>1
      <4> HIDE DEF m
      <4>2. QED
        BY <2>1, <3>2, <4>1, GatheringIsUnique
    <3>4. QED
      BY <3>1, <3>3
  <2>3. g[n+1] = g[n] \o s
    <3>1. \A i \in 1..(n+1) : g[i] = IF i = 1 THEN more[i] ELSE g[i-1] \o more[i]
      BY <1>2 DEF Gathers
    <3>2. ASSUME NEW i \in 1..(n+1), i = n + 1 PROVE g[i] = g[n] \o s
      <4>1. i # 1 /\ i - 1 = n /\ more[i] = s
        BY <1>1, <1>5, <3>2
      <4>2. QED
        BY <3>1, <4>1
    <3>3. n + 1 \in 1..(n+1)
      BY <1>1
    <3>4. QED
      BY <3>2, <3>3
  <2>4. FlattenSeq(seqs) = f[n]
    BY <1>5, <2>1, FlattenGathers DEF n
  <2>5. QED
    BY <1>3, <2>2, <2>3, <2>4 DEF more
<1>6. QED
  BY <1>4, <1>5

LEMMA OneLonger ==
  ASSUME NEW S, NEW s \in Seq(S), NEW e \in S
  PROVE  Append(s, e) = s \o <<e>> /\ <<e>> \in Seq(S)
<1>1. <<e>> \in Seq(S) /\ Len(<<e>>) = 1 /\ <<e>>[1] = e
  OBVIOUS
<1>2. /\ s \o <<e>> \in Seq(S) /\ Len(s \o <<e>>) = Len(s) + 1
      /\ \A i \in 1..(Len(s) + 1) : (s \o <<e>>)[i] = IF i <= Len(s) THEN s[i] ELSE <<e>>[i - Len(s)]
  BY <1>1, ConcatProperties
<1>3. Append(s, e) \in Seq(S) /\ Len(Append(s, e)) = Len(s) + 1
  OBVIOUS
<1>4. ASSUME NEW i \in 1..(Len(s) + 1) PROVE Append(s, e)[i] = (s \o <<e>>)[i]
  BY <1>1, <1>2
<1>5. QED
  BY <1>1, <1>2, <1>3, <1>4, SeqEqual

\* The first of q may as well be the last of what goes before.
LEMMA HeadMoves ==
  ASSUME NEW S, NEW s \in Seq(S), NEW q \in Seq(S), q # <<>>
  PROVE  Append(s, Head(q)) \o Tail(q) = s \o q
<1>1. Head(q) \in S /\ Tail(q) \in Seq(S) /\ <<Head(q)>> \in Seq(S)
  BY HeadTailProperties
<1>2. q = <<Head(q)>> \o Tail(q)
  <2>1. /\ Len(Tail(q)) = Len(q) - 1 /\ Len(q) \in Nat /\ Len(q) # 0
        /\ \A i \in 1..Len(Tail(q)) : Tail(q)[i] = q[i+1]
    BY HeadTailProperties, EmptySeq
  <2>2. Len(<<Head(q)>>) = 1 /\ <<Head(q)>>[1] = q[1]
    OBVIOUS
  <2>3. /\ <<Head(q)>> \o Tail(q) \in Seq(S) /\ Len(<<Head(q)>> \o Tail(q)) = 1 + Len(Tail(q))
        /\ \A i \in 1..(1 + Len(Tail(q))) : (<<Head(q)>> \o Tail(q))[i]
              = IF i <= 1 THEN <<Head(q)>>[i] ELSE Tail(q)[i - 1]
    BY <1>1, <2>2, ConcatProperties
  <2>4. ASSUME NEW i \in 1..Len(q) PROVE q[i] = (<<Head(q)>> \o Tail(q))[i]
    <3>1. CASE i = 1
      BY <2>1, <2>2, <2>3, <3>1
    <3>2. CASE i # 1
      <4>1. i - 1 \in 1..Len(Tail(q)) /\ (i - 1) + 1 = i
        BY <2>1, <3>2
      <4>2. (<<Head(q)>> \o Tail(q))[i] = Tail(q)[i - 1]
        BY <2>1, <2>3, <3>2
      <4>3. QED
        BY <2>1, <4>1, <4>2
    <3>3. QED
      BY <3>1, <3>2
  <2>5. QED
    BY <2>1, <2>3, <2>4, SeqEqual
<1>3. Append(s, Head(q)) = s \o <<Head(q)>>
  BY <1>1, OneLonger
<1>4. (s \o <<Head(q)>>) \o Tail(q) = s \o (<<Head(q)>> \o Tail(q))
  BY <1>1, ConcatAssociative
<1>5. QED
  BY <1>2, <1>3, <1>4

LEMMA AppendAtEnd ==
  ASSUME NEW S, NEW s \in Seq(S), NEW q \in Seq(S), NEW e \in S
  PROVE  s \o Append(q, e) = Append(s \o q, e)
<1>1. Append(q, e) = q \o <<e>> /\ <<e>> \in Seq(S) /\ s \o q \in Seq(S)
  BY OneLonger, ConcatProperties
<1>2. Append(s \o q, e) = (s \o q) \o <<e>>
  BY <1>1, OneLonger
<1>3. (s \o q) \o <<e>> = s \o (q \o <<e>>)
  BY <1>1, ConcatAssociative
<1>4. QED
  BY <1>1, <1>2, <1>3
----------------------------------------------------------------------------
(* Ranks.                                                                  *)

\* The ranks of the members of a finite set of numbers are the numbers up to its size: they are
\* as many as the members, so none is left out.
LEMMA Ranks ==
  ASSUME NEW ns \in SUBSET Nat, IsFiniteSet(ns)
  PROVE  /\ \A k \in ns : Cardinality({j \in ns : j <= k}) \in 1..Cardinality(ns)
         /\ \A k, l \in ns : Cardinality({j \in ns : j <= k}) = Cardinality({j \in ns : j <= l}) => k = l
         /\ \A n \in 1..Cardinality(ns) : \E k \in ns : Cardinality({j \in ns : j <= k}) = n
<1> DEFINE rank == [k \in ns |-> Cardinality({j \in ns : j <= k})]
           top == Cardinality(ns)
<1>1. top \in Nat
  BY FS_CardinalityType
<1>2. ASSUME NEW k \in ns
      PROVE  /\ IsFiniteSet({j \in ns : j <= k}) /\ Cardinality({j \in ns : j <= k}) \in 1..top
  <2>1. {j \in ns : j <= k} \in SUBSET ns /\ k \in {j \in ns : j <= k}
    OBVIOUS
  <2>2. IsFiniteSet({j \in ns : j <= k}) /\ Cardinality({j \in ns : j <= k}) <= top
    BY <2>1, FS_Subset
  <2>3. Cardinality({j \in ns : j <= k}) \in Nat /\ Cardinality({j \in ns : j <= k}) # 0
    BY <2>1, <2>2, FS_CardinalityType, FS_EmptySet
  <2>4. QED
    BY <1>1, <2>2, <2>3
<1>3. ASSUME NEW k \in ns, NEW l \in ns, k < l
      PROVE  rank[k] # rank[l]
  <2>1. {j \in ns : j <= k} \in SUBSET {j \in ns : j <= l}
    <3>1. \A j \in ns : j <= k => j <= l
      BY <1>3
    <3>2. QED
      BY <3>1
  <2>2. l \in {j \in ns : j <= l} /\ l \notin {j \in ns : j <= k}
    BY <1>3
  <2>3. Cardinality({j \in ns : j <= k}) # Cardinality({j \in ns : j <= l})
    BY <1>2, <2>1, <2>2, FS_Subset
  <2>4. QED
    BY <2>3
<1>4. ASSUME NEW n \in 1..top, \A k \in ns : rank[k] # n PROVE FALSE
  <2>1. IsFiniteSet(1..top) /\ Cardinality(1..top) = top
    BY <1>1, FS_Interval
  <2>2. IsFiniteSet((1..top) \ {n}) /\ Cardinality((1..top) \ {n}) = top - 1
    BY ZenonT(40), <2>1, FS_RemoveElement
  <2>3. rank \in [ns -> (1..top) \ {n}]
    BY <1>2, <1>4
  <2>4. PICK k, l \in ns : k # l /\ rank[k] = rank[l]
    <3>1. Cardinality((1..top) \ {n}) < Cardinality(ns)
      BY <1>1, <2>2
    <3> HIDE DEF rank
    <3>2. QED
      BY <2>2, <2>3, <3>1, FS_PigeonHole
  <2>5. k < l \/ l < k
    BY <2>4
  <2>6. QED
    BY <1>3, <2>4, <2>5
<1>5. ASSUME NEW n \in 1..top PROVE \E k \in ns : rank[k] = n
  BY <1>4
<1>6. ASSUME NEW k \in ns, NEW l \in ns, rank[k] = rank[l] PROVE k = l
  <2>1. k \in Nat /\ l \in Nat /\ ~(k < l) /\ ~(l < k)
    BY <1>3, <1>6
  <2>2. QED
    BY <2>1
<1>7. \A k \in ns : rank[k] = Cardinality({j \in ns : j <= k})
  OBVIOUS
<1> HIDE DEF rank
<1>8. QED
  BY <1>2, <1>5, <1>6, <1>7
=============================================================================
