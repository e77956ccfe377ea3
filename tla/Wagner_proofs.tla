---------------------------- MODULE Wagner_proofs ----------------------------
(***************************************************************************)
(* Lemmas about the data of Requihash: powers of two, index vectors and    *)
(* their spans, the canonical order, XOR over sets of leaves, the merge of *)
(* two rows; and about a round on a list: the stable order, the pairs of   *)
(* its runs, the list they make, the solutions left at the end.            *)
(***************************************************************************)
EXTENDS Wagner, FiniteSetTheorems, SequenceTheorems, NaturalsInduction,
        WellFoundedInduction, TLAPS

-----------------------------------------------------------------------------
(* Leaves and vectors.                                                     *)

\* A power of two is the number of subsets of a finite set.
LEMMA PowerOfTwoType == \A n \in Nat : 2^n \in Nat
  <1> SUFFICES ASSUME NEW n \in Nat
               PROVE  2^n \in Nat
    OBVIOUS
  <1>1. IsFiniteSet(1 .. n) /\ Cardinality(1 .. n) = n
    BY FS_Interval
  <1>2. IsFiniteSet(SUBSET (1 .. n)) /\ Cardinality(SUBSET (1 .. n)) = 2^n
    BY <1>1, FS_SUBSET
  <1> QED
    BY <1>2, FS_CardinalityType

\* The subsets of 1 .. n + 1 are those of 1 .. n, without and with n + 1.
LEMMA PowerOfTwoDoubles == \A n \in Nat : 2^(n + 1) = 2 * 2^n
  <1> SUFFICES ASSUME NEW n \in Nat
               PROVE  2^(n + 1) = 2 * 2^n
    OBVIOUS
  <1> DEFINE A == SUBSET (1 .. n)
             B == {T \cup {n + 1} : T \in A}
  <1>1. IsFiniteSet(A) /\ Cardinality(A) = 2^n
    <2>1. IsFiniteSet(1 .. n) /\ Cardinality(1 .. n) = n
      BY FS_Interval
    <2> QED
      BY <2>1, FS_SUBSET
  <1>2. Cardinality(SUBSET (1 .. n + 1)) = 2^(n + 1)
    <2>1. IsFiniteSet(1 .. n + 1) /\ Cardinality(1 .. n + 1) = n + 1
      BY FS_Interval
    <2> QED
      BY <2>1, FS_SUBSET
  <1>3. n + 1 \notin 1 .. n /\ 1 .. n + 1 = (1 .. n) \cup {n + 1}
    OBVIOUS
  <1>4. SUBSET (1 .. n + 1) = A \cup B
    <2>1. ASSUME NEW T \in SUBSET (1 .. n + 1), n + 1 \in T
          PROVE  T \in B
      <3>1. T \ {n + 1} \in A
        BY <1>3
      <3>2. T = (T \ {n + 1}) \cup {n + 1}
        BY <2>1
      <3> QED
        BY <3>1, <3>2
    <2>2. ASSUME NEW T \in SUBSET (1 .. n + 1), n + 1 \notin T
          PROVE  T \in A
      BY <1>3, <2>2
    <2>3. A \cup B \subseteq SUBSET (1 .. n + 1)
      BY <1>3
    <2> QED
      BY <2>1, <2>2, <2>3
  <1>5. A \cap B = {}
    BY <1>3
  <1>6. IsFiniteSet(B) /\ Cardinality(B) = 2^n
    <2> DEFINE f == [T \in A |-> T \cup {n + 1}]
    <2>1. \A T, U \in A : T \cup {n + 1} = U \cup {n + 1} => T = U
      BY <1>3
    <2>2. f \in Bijection(A, B)
      <3>1. f \in [A -> B]
        OBVIOUS
      <3>2. \A T, U \in A : f[T] = f[U] => T = U
        BY <2>1
      <3>3. \A t \in B : \E T \in A : f[T] = t
        OBVIOUS
      <3> QED
        BY <3>1, <3>2, <3>3 DEF Bijection, Injection, Surjection, IsInjective
    <2> HIDE DEF A, B, f
    <2>3. ExistsBijection(A, B)
      BY <2>2 DEF ExistsBijection
    <2> QED
      BY <1>1, <2>3, FS_Bijection
  <1>7. Cardinality(A \cup B) = Cardinality(A) + Cardinality(B)
    <2>1. Cardinality(A \cup B) = Cardinality(A) + Cardinality(B) - Cardinality(A \cap B)
      BY <1>1, <1>6, FS_Union
    <2>2. Cardinality(A \cap B) = 0
      BY <1>5, FS_EmptySet
    <2>3. Cardinality(A) \in Nat /\ Cardinality(B) \in Nat
      BY <1>1, <1>6, FS_CardinalityType
    <2> HIDE DEF A, B
    <2> QED
      BY <2>1, <2>2, <2>3
  <1>8. 2^n \in Nat
    BY PowerOfTwoType
  <1> HIDE DEF A, B
  <1>9. 2^(n + 1) = 2^n + 2^n
    BY <1>1, <1>2, <1>4, <1>6, <1>7
  <1>10. \A m \in Nat : m + m = 2 * m
    OBVIOUS
  <1> QED
    BY <1>8, <1>9, <1>10

\* A set of naturals that is not empty has a least element.
LEMMA LeastNatural ==
  ASSUME NEW T \in SUBSET Nat, T # {}
  PROVE  \E n \in T : \A m \in T : n <= m
  <1>1. PICK n \in T : \A m \in T : ~(<<m, n>> \in OpToRel(<, Nat))
    BY NatLessThanWellFounded, WFMin
  <1>2. \A m \in T : ~(m < n)
    BY <1>1 DEF OpToRel
  <1> QED
    BY <1>2

\* A power of two is at least one.
LEMMA PowerOfTwoPositive == \A n \in Nat : 2^n \in Nat /\ 1 <= 2^n
  <1> SUFFICES ASSUME NEW n \in Nat
               PROVE  2^n \in Nat /\ 1 <= 2^n
    OBVIOUS
  <1>1. IsFiniteSet(1 .. n) /\ Cardinality(1 .. n) = n
    BY FS_Interval
  <1>2. IsFiniteSet(SUBSET (1 .. n)) /\ Cardinality(SUBSET (1 .. n)) = 2^n
    BY <1>1, FS_SUBSET
  <1>3. SUBSET (1 .. n) # {}
    OBVIOUS
  <1>4. 2^n \in Nat /\ 2^n # 0
    BY <1>2, <1>3, FS_EmptySet, FS_CardinalityType
  <1> QED
    BY <1>4

\* Exponents add up.
LEMMA PowerOfTwoSum == \A m, n \in Nat : 2^(m + n) = 2^m * 2^n
  <1> SUFFICES ASSUME NEW m \in Nat
               PROVE  \A n \in Nat : 2^(m + n) = 2^m * 2^n
    OBVIOUS
  <1> DEFINE T == {n \in Nat : 2^(m + n) # 2^m * 2^n}
  <1>1. SUFFICES ASSUME T # {}
                 PROVE  FALSE
    OBVIOUS
  <1>2. PICK n \in T : \A l \in T : n <= l
    <2>1. T \in SUBSET Nat
      OBVIOUS
    <2> HIDE DEF T
    <2> QED
      BY <1>1, <2>1, LeastNatural
  <1>3. n # 0
    <2>1. m + 0 = m /\ 2^0 = 1 /\ 2^m * 1 = 2^m
      BY PowerOfTwoPositive
    <2> QED
      BY <2>1
  <1>4. n - 1 \in Nat /\ n - 1 \notin T
    BY <1>2, <1>3
  <1> DEFINE l == n - 1
             p == 2^m
             q == 2^l
  <1>5. 2^(m + l) = p * q
    BY <1>4
  <1>6. l + 1 = n /\ (m + l) + 1 = m + n /\ l \in Nat /\ m + l \in Nat
    BY <1>4
  <1> HIDE DEF l
  <1>7. 2^(m + n) = 2 * 2^(m + l) /\ 2^n = 2 * q
    BY <1>6, PowerOfTwoDoubles
  <1>8. p \in Nat /\ q \in Nat
    BY <1>6, PowerOfTwoType
  <1> HIDE DEF p, q
  <1>9. 2 * (p * q) = p * (2 * q)
    BY <1>8
  <1>10. 2^(m + n) = p * 2^n
    BY <1>5, <1>7, <1>9
  <1> QED
    BY <1>10 DEF p

\* init_size, the number of leaves, is a natural number.
LEMMA InitSizeType == InitSize \in Nat
  <1>1. CollisionBits + 1 \in Nat
    BY BitsAssumption
  <1> QED
    BY <1>1, PowerOfTwoType DEF InitSize

\* Every set of leaves is finite.
LEMMA LeafFinite == \A S \in SUBSET Leaf : IsFiniteSet(S)
  <1>1. IsFiniteSet(Leaf)
    BY InitSizeType, FS_Interval DEF Leaf
  <1> QED
    BY <1>1, FS_Subset

\* Concatenating two repetition-free vectors that share no leaf.
LEMMA ConcatOfVectors ==
  ASSUME NEW v \in Seq(Leaf), NEW w \in Seq(Leaf)
  PROVE  /\ v \o w \in Seq(Leaf)
         /\ Len(v \o w) = Len(v) + Len(w)
         /\ Range(v \o w) = Range(v) \cup Range(w)
         /\ IsInjective(v) /\ IsInjective(w) /\ SlicesDistinct(v, w) => IsInjective(v \o w)
  <1> DEFINE u == v \o w
  <1>1. /\ u \in Seq(Leaf)
        /\ Len(u) = Len(v) + Len(w)
        /\ DOMAIN u = 1 .. Len(v) + Len(w)
        /\ DOMAIN v = 1 .. Len(v)
        /\ DOMAIN w = 1 .. Len(w)
        /\ Len(v) \in Nat /\ Len(w) \in Nat
    OBVIOUS
  <1>2. \A p \in 1 .. Len(v) : u[p] = v[p]
    OBVIOUS
  <1>3. \A p \in 1 .. Len(w) : u[Len(v) + p] = w[p]
    OBVIOUS
  <1>4. \A p \in DOMAIN u : \/ p \in 1 .. Len(v)
                            \/ \E q \in 1 .. Len(w) : p = Len(v) + q
    <2> SUFFICES ASSUME NEW p \in DOMAIN u, p \notin 1 .. Len(v)
                 PROVE  \E q \in 1 .. Len(w) : p = Len(v) + q
      OBVIOUS
    <2>1. p - Len(v) \in 1 .. Len(w)
      BY <1>1
    <2> QED
      BY <1>1, <2>1
  <1>5. Range(u) = Range(v) \cup Range(w)
    <2>1. Range(u) \subseteq Range(v) \cup Range(w)
      BY <1>1, <1>2, <1>3, <1>4 DEF Range
    <2>2. Range(v) \subseteq Range(u)
      BY <1>1, <1>2 DEF Range
    <2>3. Range(w) \subseteq Range(u)
      <3>1. \A p \in 1 .. Len(w) : Len(v) + p \in DOMAIN u
        BY <1>1
      <3> HIDE DEF u
      <3> QED
        BY <1>1, <1>3, <3>1 DEF Range
    <2> QED
      BY <2>1, <2>2, <2>3
  <1>6. ASSUME IsInjective(v), IsInjective(w), SlicesDistinct(v, w)
        PROVE  IsInjective(u)
    <2> SUFFICES ASSUME NEW p \in DOMAIN u, NEW q \in DOMAIN u, u[p] = u[q]
                 PROVE  p = q
      BY DEF IsInjective
    <2>1. CASE p \in 1 .. Len(v) /\ q \in 1 .. Len(v)
      BY <1>1, <1>2, <1>6, <2>1 DEF IsInjective
    <2>2. CASE p \notin 1 .. Len(v) /\ q \notin 1 .. Len(v)
      BY <1>1, <1>3, <1>4, <1>6, <2>2 DEF IsInjective
    <2>3. CASE p \in 1 .. Len(v) /\ q \notin 1 .. Len(v)
      <3>1. u[p] \in Range(v)
        BY <1>1, <1>2, <2>3 DEF Range
      <3>2. u[q] \in Range(w)
        BY <1>1, <1>3, <1>4, <2>3 DEF Range
      <3> QED
        BY <1>6, <3>1, <3>2 DEF SlicesDistinct
    <2>4. CASE p \notin 1 .. Len(v) /\ q \in 1 .. Len(v)
      <3>1. u[q] \in Range(v)
        BY <1>1, <1>2, <2>4 DEF Range
      <3>2. u[p] \in Range(w)
        BY <1>1, <1>3, <1>4, <2>4 DEF Range
      <3> QED
        BY <1>6, <3>1, <3>2 DEF SlicesDistinct
    <2> QED
      BY <2>1, <2>2, <2>3, <2>4
  <1> QED
    BY <1>1, <1>5, <1>6

\* The order in which Canonical concatenates does not matter to its leaves.
LEMMA CanonicalOfVectors ==
  ASSUME NEW v \in Seq(Leaf), NEW w \in Seq(Leaf)
  PROVE  /\ Canonical(v, w) \in Seq(Leaf)
         /\ Len(Canonical(v, w)) = Len(v) + Len(w)
         /\ Range(Canonical(v, w)) = Range(v) \cup Range(w)
         /\ IsInjective(v) /\ IsInjective(w) /\ SlicesDistinct(v, w)
              => IsInjective(Canonical(v, w))
  <1>1. SlicesDistinct(v, w) => SlicesDistinct(w, v)
    BY DEF SlicesDistinct
  <1>2. Len(v) \in Nat /\ Len(w) \in Nat
    OBVIOUS
  <1>3. CASE Canonical(v, w) = v \o w
    BY <1>3, ConcatOfVectors
  <1>4. CASE Canonical(v, w) = w \o v
    BY <1>1, <1>2, <1>4, ConcatOfVectors
  <1> QED
    BY <1>3, <1>4 DEF Canonical

\* The leaves of an index vector are leaves.
LEMMA RangeOfVector ==
  ASSUME NEW v \in Seq(Leaf)
  PROVE  Range(v) \subseteq Leaf
  BY DEF Range

-----------------------------------------------------------------------------
(* Nodes of the tree over a vector, and the spans they cover.              *)

\* Multiplication by a natural keeps the order.
LEMMA ProductMonotone == \A a, b, c \in Nat : a <= b => a * c <= b * c
  <1> SUFFICES ASSUME NEW a \in Nat, NEW b \in Nat, NEW c \in Nat, a <= b
               PROVE  a * c <= b * c
    OBVIOUS
  <1>1. PICK e \in Nat : b = a + e
    <2>1. b - a \in Nat /\ b = a + (b - a)
      OBVIOUS
    <2> QED
      BY <2>1
  <1>2. b * c = a * c + e * c /\ a * c \in Nat /\ e * c \in Nat
    BY <1>1
  <1> QED
    BY <1>2

\* The j-th node of height r lies within the 2^m positions.
LEMMA NodeBounds ==
  ASSUME NEW m \in Nat, NEW r \in 0 .. m, NEW j \in 0 .. 2^(m - r) - 1
  PROVE  /\ j * 2^r \in Nat /\ (j + 1) * 2^r \in Nat
         /\ (j + 1) * 2^r = j * 2^r + 2^r
         /\ 1 <= 2^r /\ 2^r \in Nat
         /\ (j + 1) * 2^r <= 2^m /\ 2^m \in Nat
  <1> DEFINE p == 2^r
             q == 2^(m - r)
  <1>1. r \in Nat /\ m - r \in Nat /\ r + (m - r) = m
    OBVIOUS
  <1>2. p \in Nat /\ q \in Nat /\ 1 <= p /\ 2^m \in Nat
    BY <1>1, PowerOfTwoPositive
  <1>3. 2^m = p * q
    BY <1>1, PowerOfTwoSum
  <1>4. j \in Nat /\ j + 1 \in Nat /\ j + 1 <= q
    BY <1>2
  <1> HIDE DEF p, q
  <1>5. (j + 1) * p <= q * p
    BY <1>2, <1>4, ProductMonotone
  <1>6. q * p = p * q /\ (j + 1) * p = j * p + p /\ j * p \in Nat /\ (j + 1) * p \in Nat
    BY <1>2, <1>4
  <1>7. (j + 1) * p <= 2^m
    BY <1>3, <1>5, <1>6
  <1> QED
    BY <1>2, <1>6, <1>7 DEF p

\* What a span is: 2^r consecutive elements of the vector.
LEMMA SpanType ==
  ASSUME NEW S, NEW v \in Seq(S), NEW m \in Nat, Len(v) = 2^m,
         NEW r \in 0 .. m, NEW j \in 0 .. 2^(m - r) - 1
  PROVE  /\ Span(v, r, j) \in Seq(S)
         /\ Len(Span(v, r, j)) = 2^r
         /\ \A p \in 1 .. 2^r : /\ j * 2^r + p \in DOMAIN v
                                /\ Span(v, r, j)[p] = v[j * 2^r + p]
         /\ Range(Span(v, r, j)) \subseteq Range(v)
  <1> DEFINE lo == j * 2^r
             h  == 2^r
  <1>1. /\ lo \in Nat /\ h \in Nat /\ 1 <= h /\ lo + h <= Len(v) /\ Len(v) \in Nat
        /\ (j + 1) * 2^r = lo + h
    BY NodeBounds
  <1>2. DOMAIN v = 1 .. Len(v) /\ \A i \in 1 .. Len(v) : v[i] \in S
    BY LenProperties, ElementOfSeq
  <1>3. Span(v, r, j) = SubSeq(v, lo + 1, lo + h)
    BY <1>1 DEF Span
  <1> HIDE DEF lo, h
  <1>4. /\ SubSeq(v, lo + 1, lo + h) \in Seq(S)
        /\ Len(SubSeq(v, lo + 1, lo + h)) = h
        /\ \A p \in 1 .. h : SubSeq(v, lo + 1, lo + h)[p] = v[lo + p]
    <2>1. lo + 1 \in Int /\ lo + h \in Int /\ lo + 1 <= lo + h /\ (lo + h) - (lo + 1) + 1 = h
      BY <1>1
    <2>2. \A i \in lo + 1 .. lo + h : v[i] \in S
      BY <1>1, <1>2
    <2>3. \A p \in 1 .. h : lo + 1 + p - 1 = lo + p
      BY <1>1
    <2> QED
      BY <2>1, <2>2, <2>3, SubSeqProperties
  <1>5. \A p \in 1 .. h : lo + p \in DOMAIN v
    BY <1>1, <1>2
  <1>6. Range(Span(v, r, j)) \subseteq Range(v)
    <2>1. DOMAIN Span(v, r, j) = 1 .. h
      BY <1>3, <1>4, LenProperties
    <2> QED
      BY <1>3, <1>4, <1>5, <2>1 DEF Range
  <1> QED
    BY <1>3, <1>4, <1>5, <1>6 DEF lo, h

\* The span of height m is the vector.
LEMMA SpanWhole ==
  ASSUME NEW S, NEW v \in Seq(S), NEW m \in Nat, Len(v) = 2^m
  PROVE  Span(v, m, 0) = v
  <1>1. 0 * 2^m + 1 = 1 /\ (0 + 1) * 2^m = 2^m
    BY PowerOfTwoPositive
  <1>2. Span(v, m, 0) = SubSeq(v, 1, Len(v))
    BY <1>1 DEF Span
  <1> QED
    BY <1>2, SubSeqFull

\* The children of a node are nodes.
LEMMA NodeChildren ==
  ASSUME NEW m \in Nat, NEW r \in 1 .. m, NEW j \in 0 .. 2^(m - r) - 1
  PROVE  /\ r - 1 \in 0 .. m
         /\ 2 * j \in 0 .. 2^(m - (r - 1)) - 1
         /\ 2 * j + 1 \in 0 .. 2^(m - (r - 1)) - 1
  <1>1. m - r \in Nat /\ (m - r) + 1 = m - (r - 1)
    OBVIOUS
  <1>2. 2^(m - (r - 1)) = 2 * 2^(m - r) /\ 2^(m - r) \in Nat
    BY <1>1, PowerOfTwoDoubles, PowerOfTwoType
  <1> QED
    BY <1>2

\* A node's span is that of its left child, then that of its right child.
LEMMA SpanChildren ==
  ASSUME NEW S, NEW v \in Seq(S), NEW m \in Nat, Len(v) = 2^m,
         NEW r \in 1 .. m, NEW j \in 0 .. 2^(m - r) - 1
  PROVE  Span(v, r, j) = Span(v, r - 1, 2 * j) \o Span(v, r - 1, 2 * j + 1)
  <1> DEFINE h  == 2^(r - 1)
             lo == j * 2^r
  <1>1. /\ lo \in Nat /\ h \in Nat /\ 1 <= h /\ 2^r = 2 * h
        /\ (j + 1) * 2^r = lo + 2^r /\ lo + 2^r <= Len(v) /\ Len(v) \in Nat
    <2>1. r - 1 \in Nat /\ (r - 1) + 1 = r /\ r \in 0 .. m
      OBVIOUS
    <2>2. h \in Nat /\ 1 <= h /\ 2^r = 2 * h
      BY <2>1, PowerOfTwoPositive, PowerOfTwoDoubles
    <2> QED
      BY <2>1, <2>2, NodeBounds
  <1>2. /\ (2 * j) * h = lo
        /\ (2 * j + 1) * h = lo + h
        /\ (2 * j + 1 + 1) * h = lo + 2 * h
    <2>1. j \in Nat
      BY <1>1, PowerOfTwoType
    <2>2. j * (2 * h) = lo
      BY <1>1
    <2> HIDE DEF h, lo
    <2> QED
      BY <1>1, <2>1, <2>2
  <1>3. /\ Span(v, r, j) = SubSeq(v, lo + 1, lo + 2 * h)
        /\ Span(v, r - 1, 2 * j) = SubSeq(v, lo + 1, lo + h)
        /\ Span(v, r - 1, 2 * j + 1) = SubSeq(v, (lo + h) + 1, lo + 2 * h)
    BY <1>1, <1>2 DEF Span
  <1> HIDE DEF h, lo
  <1>4. /\ lo + 1 \in 1 .. Len(v) + 1
        /\ lo + h \in (lo + 1) - 1 .. Len(v)
        /\ lo + 2 * h \in lo + h .. Len(v)
    BY <1>1
  <1> QED
    BY <1>3, <1>4, ConcatAdjacentSubSeq

\* The spans of a concatenation are those of its halves.
LEMMA SpanOfConcat ==
  ASSUME NEW S, NEW v \in Seq(S), NEW w \in Seq(S), NEW m \in Nat,
         Len(v) = 2^m, Len(w) = 2^m,
         NEW r \in 0 .. m, NEW j \in 0 .. 2^(m - r) - 1
  PROVE  /\ Span(v \o w, r, j) = Span(v, r, j)
         /\ Span(v \o w, r, 2^(m - r) + j) = Span(w, r, j)
  <1> DEFINE lo == j * 2^r
             h  == 2^r
             n  == 2^m
             q  == 2^(m - r)
  <1>1. /\ lo \in Nat /\ h \in Nat /\ 1 <= h /\ lo + h <= n /\ n \in Nat
        /\ (j + 1) * 2^r = lo + h
    BY NodeBounds
  <1>2. q \in Nat /\ q * h = n /\ j \in Nat
    <2>1. r \in Nat /\ m - r \in Nat /\ (m - r) + r = m
      OBVIOUS
    <2>2. q \in Nat
      BY <2>1, PowerOfTwoType
    <2> QED
      BY <2>1, <2>2, PowerOfTwoSum
  <1>3. (q + j) * h = n + lo /\ (q + j + 1) * h = n + (lo + h)
    <2>1. j * h = lo
      OBVIOUS
    <2> HIDE DEF lo, h, n, q
    <2>2. (q + j) * h = q * h + j * h /\ (q + j + 1) * h = q * h + j * h + h
      BY <1>1, <1>2
    <2> QED
      BY <1>1, <1>2, <2>1, <2>2
  <1>4. /\ Span(v \o w, r, j) = SubSeq(v \o w, lo + 1, lo + h)
        /\ Span(v, r, j) = SubSeq(v, lo + 1, lo + h)
        /\ Span(w, r, j) = SubSeq(w, lo + 1, lo + h)
        /\ Span(v \o w, r, q + j) = SubSeq(v \o w, n + lo + 1, n + (lo + h))
    BY <1>1, <1>3 DEF Span
  <1>5. Len(v) = n /\ Len(w) = n
    OBVIOUS
  <1> HIDE DEF lo, h, n
  <1>6. SubSeq(v \o w, lo + 1, lo + h) = SubSeq(v, lo + 1, lo + h)
    <2>1. lo + 1 \in 1 .. Len(v) /\ lo + h \in 1 .. Len(v)
      BY <1>1, <1>5
    <2> QED
      BY <2>1, SubSeqOfConcat1
  <1>7. SubSeq(v \o w, n + lo + 1, n + (lo + h)) = SubSeq(w, lo + 1, lo + h)
    <2> DEFINE u == v \o w
               a == n + lo
    <2>1. /\ u \in Seq(S) /\ Len(u) = n + n /\ DOMAIN u = 1 .. n + n
          /\ \A p \in 1 .. n : u[n + p] = w[p]
      BY <1>1, <1>5
    <2>2. a \in Nat /\ a + 1 = n + lo + 1 /\ a + h = n + (lo + h)
      BY <1>1
    <2>3. \A p \in 1 .. h : lo + p \in 1 .. n /\ a + p = n + (lo + p) /\ a + p \in 1 .. n + n
      BY <1>1
    <2>4. \A p \in 1 .. h : u[a + p] = w[lo + p] /\ u[a + p] \in S
      BY <1>5, <2>1, <2>3, ElementOfSeq
    <2> HIDE DEF u, a
    <2>5. \A c \in Nat, x \in Seq(S) : c + h <= Len(x) =>
            /\ SubSeq(x, c + 1, c + h) \in Seq(S)
            /\ Len(SubSeq(x, c + 1, c + h)) = h
            /\ \A p \in 1 .. h : SubSeq(x, c + 1, c + h)[p] = x[c + p]
      BY <1>1
    <2>6. a + h <= Len(u) /\ lo + h <= Len(w)
      BY <1>1, <1>5, <2>1, <2>2
    <2> DEFINE x == SubSeq(u, a + 1, a + h)
               y == SubSeq(w, lo + 1, lo + h)
    <2>7. /\ x \in Seq(S) /\ Len(x) = h /\ \A p \in 1 .. h : x[p] = u[a + p]
          /\ y \in Seq(S) /\ Len(y) = h /\ \A p \in 1 .. h : y[p] = w[lo + p]
      BY <1>1, <2>1, <2>2, <2>5, <2>6
    <2> HIDE DEF x, y
    <2>8. x = y
      BY <2>4, <2>7, SeqEqual
    <2> QED
      BY <2>2, <2>8 DEF u, x, y
  <1> QED
    BY <1>4, <1>6, <1>7

-----------------------------------------------------------------------------
(* XOR over sets of leaves.                                                *)

\* The XOR of a union of disjoint sets is the XOR of the XORs.
LEMMA XorOfUnion ==
  ASSUME NEW d, NEW S \in SUBSET Leaf, NEW T \in SUBSET Leaf, S \cap T = {}, NEW s
  PROVE  XorOfLeaves(d, S \cup T, s) = SymDiff(XorOfLeaves(d, S, s), XorOfLeaves(d, T, s))
  <1> DEFINE ones(A, b) == {i \in A : b \in LeafRow(d, i)[s]}
  <1>1. ASSUME NEW b
        PROVE  /\ Cardinality(ones(S \cup T, b)) = Cardinality(ones(S, b)) + Cardinality(ones(T, b))
               /\ Cardinality(ones(S, b)) \in Nat
               /\ Cardinality(ones(T, b)) \in Nat
    <2>1. IsFiniteSet(ones(S, b)) /\ IsFiniteSet(ones(T, b))
      <3>1. ones(S, b) \in SUBSET Leaf /\ ones(T, b) \in SUBSET Leaf
        OBVIOUS
      <3> QED
        BY <3>1, LeafFinite
    <2>2. ones(S \cup T, b) = ones(S, b) \cup ones(T, b)
      OBVIOUS
    <2>3. ones(S, b) \cap ones(T, b) = {}
      OBVIOUS
    <2> HIDE DEF ones
    <2>4. Cardinality(ones(S, b) \cup ones(T, b))
            = Cardinality(ones(S, b)) + Cardinality(ones(T, b))
                - Cardinality(ones(S, b) \cap ones(T, b))
      BY <2>1, FS_Union
    <2>5. Cardinality(ones(S, b)) \in Nat /\ Cardinality(ones(T, b)) \in Nat
      BY <2>1, FS_CardinalityType
    <2>6. Cardinality(ones(S, b) \cap ones(T, b)) = 0
      BY <2>3, FS_EmptySet
    <2>7. Cardinality(ones(S \cup T, b)) = Cardinality(ones(S, b) \cup ones(T, b))
      BY <2>2
    <2>8. \A m, n \in Nat : m + n - 0 = m + n
      OBVIOUS
    <2> QED
      BY <2>4, <2>5, <2>6, <2>7, <2>8
  <1> DEFINE odd(A, b) == Cardinality(ones(A, b)) % 2 = 1
  <1>2. ASSUME NEW b
        PROVE  odd(S \cup T, b) <=> (odd(S, b) <=> ~odd(T, b))
    <2> DEFINE m == Cardinality(ones(S, b))
               n == Cardinality(ones(T, b))
    <2>1. m \in Nat /\ n \in Nat /\ Cardinality(ones(S \cup T, b)) = m + n
      BY <1>1
    <2> HIDE DEF m, n
    <2>2. (m + n) % 2 = 1 <=> (m % 2 = 1 <=> ~(n % 2 = 1))
      BY <2>1
    <2> QED
      BY <2>1, <2>2 DEF m, n
  <1>3. \A A : XorOfLeaves(d, A, s) = {b \in Bit : odd(A, b)}
    BY DEF XorOfLeaves
  <1> HIDE DEF odd
  <1> QED
    BY <1>2, <1>3 DEF SymDiff

\* The XOR over a single leaf is its row.
LEMMA XorOfSingleton ==
  ASSUME NEW d \in [Key -> Row], NEW i \in Leaf, NEW s \in 1 .. K + 1
  PROVE  XorOfLeaves(d, {i}, s) = LeafRow(d, i)[s]
  <1>1. LeafRow(d, i)[s] \subseteq Bit
    <2>1. LeafKey(i) \in Key
      BY DEF Key
    <2>2. LeafRow(d, i) \in Row
      BY <2>1 DEF LeafRow
    <2> QED
      BY <2>2 DEF Row, Segment
  <1> DEFINE ones(b) == {j \in {i} : b \in LeafRow(d, j)[s]}
  <1>2. ASSUME NEW b
        PROVE  Cardinality(ones(b)) % 2 = 1 <=> b \in LeafRow(d, i)[s]
    <2>1. CASE b \in LeafRow(d, i)[s]
      <3>1. ones(b) = {i}
        BY <2>1
      <3>2. Cardinality(ones(b)) = 1
        BY <3>1, FS_Singleton
      <3> QED
        BY <2>1, <3>2
    <2>2. CASE b \notin LeafRow(d, i)[s]
      <3>1. ones(b) = {}
        BY <2>2
      <3>2. Cardinality(ones(b)) = 0
        BY <3>1, FS_EmptySet
      <3> QED
        BY <2>2, <3>2
    <2> QED
      BY <2>1, <2>2
  <1> QED
    BY <1>1, <1>2 DEF XorOfLeaves

-----------------------------------------------------------------------------
(* Trees.                                                                  *)

\* Every node above the 2^m leaves of v collides and is in order.
IsTree(d, m, v) ==
  \A r \in 1 .. m : \A j \in 0 .. 2^(m - r) - 1 :
    NodeCollides(d, v, r, j) /\ NodeOrdered(v, r, j)

\* Of two vectors that share no leaf one is smaller: they differ at once.
LEMMA DisjointOrdered ==
  ASSUME NEW v \in Seq(Leaf), NEW w \in Seq(Leaf),
         1 <= Len(v), 1 <= Len(w), SlicesDistinct(v, w)
  PROVE  LexLess(v, w) \/ LexLess(w, v)
  <1>1. 1 \in DOMAIN v /\ 1 \in DOMAIN w
    OBVIOUS
  <1>2. v[1] # w[1]
    BY <1>1 DEF SlicesDistinct, Range
  <1>3. v[1] \in Nat /\ w[1] \in Nat
    BY <1>1, InitSizeType DEF Leaf
  <1>4. \A p \in 1 .. 1 - 1 : FALSE
    OBVIOUS
  <1>5. v[1] < w[1] => LexLess(v, w)
    BY <1>1, <1>4 DEF LexLess
  <1>6. w[1] < v[1] => LexLess(w, v)
    BY <1>1, <1>4 DEF LexLess
  <1> QED
    BY <1>2, <1>3, <1>5, <1>6

\* Two trees in order whose XORs agree on the next segment make a tree.
LEMMA ConcatOfTrees ==
  ASSUME NEW d, NEW S, NEW v \in Seq(S), NEW w \in Seq(S), NEW m \in Nat,
         Len(v) = 2^m, Len(w) = 2^m,
         IsTree(d, m, v), IsTree(d, m, w), LexLess(v, w),
         XorOfLeaves(d, Range(v), m + 1) = XorOfLeaves(d, Range(w), m + 1)
  PROVE  IsTree(d, m + 1, v \o w)
  <1> DEFINE u == v \o w
  <1> SUFFICES ASSUME NEW r \in 1 .. m + 1, NEW j \in 0 .. 2^(m + 1 - r) - 1
               PROVE  NodeCollides(d, u, r, j) /\ NodeOrdered(u, r, j)
    BY DEF IsTree
  <1>1. CASE r = m + 1
    <2>1. m + 1 - r = 0 /\ r - 1 = m /\ m - m = 0 /\ 2^0 = 1 /\ m \in 0 .. m /\ 0 \in 0 .. 1 - 1
      BY <1>1
    <2>2. j = 0 /\ 2 * j = 0 /\ 2 * j + 1 = 1 + 0
      BY <2>1
    <2>3. Span(u, m, 0) = v /\ Span(u, m, 1 + 0) = w
      <3> DEFINE k == r - 1
      <3>1. k \in 0 .. m /\ 2^(m - k) = 1 /\ 0 \in 0 .. 2^(m - k) - 1
        BY <2>1
      <3>2. k = m
        BY <2>1
      <3> HIDE DEF k
      <3>3. Span(u, k, 0) = Span(v, k, 0) /\ Span(u, k, 2^(m - k) + 0) = Span(w, k, 0)
        BY <3>1, SpanOfConcat
      <3>4. Span(v, m, 0) = v /\ Span(w, m, 0) = w
        BY SpanWhole
      <3> QED
        BY <3>1, <3>2, <3>3, <3>4
    <2>4. Span(u, r - 1, 2 * j) = v /\ Span(u, r - 1, 2 * j + 1) = w
      BY <2>1, <2>2, <2>3
    <2> QED
      BY <1>1, <2>4 DEF NodeCollides, NodeOrdered
  <1>2. CASE r # m + 1
    <2> DEFINE q == 2^(m - r)
    <2>1. r \in 1 .. m /\ m - r \in Nat /\ (m - r) + 1 = m + 1 - r /\ m - (r - 1) = m + 1 - r
      BY <1>2
    <2>2. q \in Nat /\ 2^(m + 1 - r) = 2 * q
      BY <2>1, PowerOfTwoType, PowerOfTwoDoubles
    <2>3. j \in Nat /\ j < 2 * q
      BY <2>2
    <2>4. ASSUME j < q
          PROVE  /\ Span(u, r - 1, 2 * j) = Span(v, r - 1, 2 * j)
                 /\ Span(u, r - 1, 2 * j + 1) = Span(v, r - 1, 2 * j + 1)
                 /\ NodeCollides(d, v, r, j) /\ NodeOrdered(v, r, j)
      <3>1. j \in 0 .. 2^(m - r) - 1
        BY <2>2, <2>3, <2>4
      <3>2. /\ r - 1 \in 0 .. m
            /\ 2 * j \in 0 .. 2^(m - (r - 1)) - 1
            /\ 2 * j + 1 \in 0 .. 2^(m - (r - 1)) - 1
        BY <2>1, <3>1, NodeChildren
      <3>3. NodeCollides(d, v, r, j) /\ NodeOrdered(v, r, j)
        BY <2>1, <3>1 DEF IsTree
      <3>4. Span(u, r - 1, 2 * j) = Span(v, r - 1, 2 * j)
        BY <3>2, SpanOfConcat
      <3>5. Span(u, r - 1, 2 * j + 1) = Span(v, r - 1, 2 * j + 1)
        BY <3>2, SpanOfConcat
      <3> QED
        BY <3>3, <3>4, <3>5
    <2>5. ASSUME q <= j
          PROVE  /\ Span(u, r - 1, 2 * j) = Span(w, r - 1, 2 * (j - q))
                 /\ Span(u, r - 1, 2 * j + 1) = Span(w, r - 1, 2 * (j - q) + 1)
                 /\ NodeCollides(d, w, r, j - q) /\ NodeOrdered(w, r, j - q)
      <3> DEFINE l == j - q
      <3>1. l \in 0 .. 2^(m - r) - 1
        BY <2>2, <2>3, <2>5
      <3> HIDE DEF l
      <3>2. /\ r - 1 \in 0 .. m
            /\ 2 * l \in 0 .. 2^(m - (r - 1)) - 1
            /\ 2 * l + 1 \in 0 .. 2^(m - (r - 1)) - 1
        BY <2>1, <3>1, NodeChildren
      <3>3. NodeCollides(d, w, r, l) /\ NodeOrdered(w, r, l)
        BY <2>1, <3>1 DEF IsTree
      <3>4. /\ 2 * j = 2^(m - (r - 1)) + 2 * l
            /\ 2 * j + 1 = 2^(m - (r - 1)) + (2 * l + 1)
        BY <2>1, <2>2, <2>3 DEF l
      <3>5. Span(u, r - 1, 2^(m - (r - 1)) + 2 * l) = Span(w, r - 1, 2 * l)
        BY <3>2, SpanOfConcat
      <3>6. Span(u, r - 1, 2^(m - (r - 1)) + (2 * l + 1)) = Span(w, r - 1, 2 * l + 1)
        BY <3>2, SpanOfConcat
      <3>7. Span(u, r - 1, 2 * j) = Span(w, r - 1, 2 * l)
        BY <3>4, <3>5
      <3>8. Span(u, r - 1, 2 * j + 1) = Span(w, r - 1, 2 * l + 1)
        BY <3>4, <3>6
      <3> QED
        BY <3>3, <3>7, <3>8 DEF l
    <2> HIDE DEF u
    <2>6. CASE j < q
      BY <2>4, <2>6 DEF NodeCollides, NodeOrdered
    <2>7. CASE q <= j
      BY <2>5, <2>7 DEF NodeCollides, NodeOrdered
    <2> QED
      BY <2>2, <2>3, <2>6, <2>7
  <1> QED
    BY <1>1, <1>2

\* Two trees that share no leaf make a tree whichever comes first.
LEMMA CanonicalOfTrees ==
  ASSUME NEW d, NEW v \in Seq(Leaf), NEW w \in Seq(Leaf), NEW m \in Nat,
         Len(v) = 2^m, Len(w) = 2^m,
         IsTree(d, m, v), IsTree(d, m, w), SlicesDistinct(v, w),
         XorOfLeaves(d, Range(v), m + 1) = XorOfLeaves(d, Range(w), m + 1)
  PROVE  IsTree(d, m + 1, Canonical(v, w))
  <1>1. 1 <= Len(v) /\ 1 <= Len(w)
    BY PowerOfTwoPositive
  <1>2. LexLess(v, w) \/ LexLess(w, v)
    BY <1>1, DisjointOrdered
  <1>3. CASE LexLess(v, w)
    <2>1. IsTree(d, m + 1, v \o w)
      BY <1>3, ConcatOfTrees
    <2> QED
      BY <1>3, <2>1 DEF Canonical
  <1>4. CASE ~LexLess(v, w)
    <2>1. IsTree(d, m + 1, w \o v)
      BY <1>2, <1>4, ConcatOfTrees
    <2> QED
      BY <1>4, <2>1 DEF Canonical
  <1> QED
    BY <1>3, <1>4

-----------------------------------------------------------------------------
(* What a verifier's row stands for.                                       *)

\* Segment by segment, XOR of rows is the symmetric difference.
LEMMA XorOfRows ==
  ASSUME NEW g \in Row, NEW h \in Row
  PROVE  /\ Xor(g, h) \in Row
         /\ \A s \in 1 .. K + 1 : Xor(g, h)[s] = SymDiff(g[s], h[s])
  BY DEF Xor, SymDiff, Row, Segment

\* Different children of a node share no leaf.
LEMMA ChildrenDisjoint ==
  ASSUME NEW S, NEW v \in Seq(S), NEW m \in Nat, Len(v) = 2^m, IsInjective(v),
         NEW r \in 1 .. m, NEW j \in 0 .. 2^(m - r) - 1
  PROVE  Range(Span(v, r - 1, 2 * j)) \cap Range(Span(v, r - 1, 2 * j + 1)) = {}
  <1> DEFINE h == 2^(r - 1)
             a == Span(v, r - 1, 2 * j)
             b == Span(v, r - 1, 2 * j + 1)
  <1>1. /\ r - 1 \in 0 .. m
        /\ 2 * j \in 0 .. 2^(m - (r - 1)) - 1
        /\ 2 * j + 1 \in 0 .. 2^(m - (r - 1)) - 1
    BY NodeChildren
  <1>2. /\ a \in Seq(S) /\ Len(a) = h
        /\ \A p \in 1 .. h : (2 * j) * h + p \in DOMAIN v /\ a[p] = v[(2 * j) * h + p]
    BY <1>1, SpanType
  <1>3. /\ b \in Seq(S) /\ Len(b) = h
        /\ \A p \in 1 .. h : (2 * j + 1) * h + p \in DOMAIN v /\ b[p] = v[(2 * j + 1) * h + p]
    BY <1>1, SpanType
  <1>4. h \in Nat /\ (2 * j) * h \in Nat /\ (2 * j + 1) * h = (2 * j) * h + h
    <2>1. h \in Nat /\ 2 * j \in Nat
      BY <1>1, PowerOfTwoType
    <2> HIDE DEF h
    <2>2. \A e \in Nat : e * h \in Nat /\ (e + 1) * h = e * h + h
      BY <2>1
    <2> QED
      BY <2>1, <2>2
  <1>5. DOMAIN a = 1 .. h /\ DOMAIN b = 1 .. h
    BY <1>2, <1>3, LenProperties
  <1> DEFINE lo == (2 * j) * h
  <1>6. /\ \A p \in 1 .. h : lo + p \in DOMAIN v /\ a[p] = v[lo + p]
        /\ \A p \in 1 .. h : lo + h + p \in DOMAIN v /\ b[p] = v[lo + h + p]
        /\ lo \in Nat
    BY <1>2, <1>3, <1>4
  <1> HIDE DEF a, b, h, lo
  <1> SUFFICES ASSUME NEW p \in 1 .. h, NEW q \in 1 .. h, a[p] = b[q]
               PROVE  FALSE
    BY <1>5 DEF Range, a, b
  <1>7. lo + p = lo + h + q
    BY <1>6 DEF IsInjective
  <1> QED
    BY <1>4, <1>6, <1>7

\* Row row stands for the j-th node of height r of the vector v: it has the
\* node's leaves, it is their XOR, and the r segments that collided are zero.
IsNode(d, v, row, r, j) ==
  /\ row.idx = Span(v, r, j)
  /\ row.h \in Row
  /\ \A s \in 1 .. r : row.h[s] = {}
  /\ \A s \in 1 .. K + 1 : row.h[s] = XorOfLeaves(d, Range(row.idx), s)

\* The row of a leaf stands for it.
LEMMA LeafIsNode ==
  ASSUME NEW d \in [Key -> Row], NEW v \in Seq(Leaf), Len(v) = 2^K, NEW p \in DOMAIN v
  PROVE  /\ Span(v, 0, p - 1) = <<v[p]>>
         /\ IsNode(d, v, [h |-> LeafRow(d, v[p]), idx |-> <<v[p]>>], 0, p - 1)
  <1>1. p \in 1 .. 2^K /\ v[p] \in Leaf
    BY LenProperties, ElementOfSeq
  <1>2. K \in Nat /\ K - 0 = K /\ 0 \in 0 .. K /\ 2^0 = 1 /\ 2^K \in Nat
    BY KAssumption, PowerOfTwoType
  <1>3. p - 1 \in 0 .. 2^(K - 0) - 1 /\ (p - 1) * 2^0 + 1 = p
    BY <1>1, <1>2
  <1>4. Span(v, 0, p - 1) = <<v[p]>>
    <2> DEFINE a == Span(v, 0, p - 1)
    <2>1. a \in Seq(Leaf) /\ Len(a) = 2^0 /\ a[1] = v[(p - 1) * 2^0 + 1]
      <3> DEFINE z == 0
                 j == p - 1
      <3>1. z \in 0 .. K /\ j \in 0 .. 2^(K - z) - 1 /\ 1 \in 1 .. 2^z
        BY <1>2, <1>3
      <3> HIDE DEF z, j
      <3>2. /\ Span(v, z, j) \in Seq(Leaf)
            /\ Len(Span(v, z, j)) = 2^z
            /\ \A q \in 1 .. 2^z : Span(v, z, j)[q] = v[j * 2^z + q]
        BY <1>2, <3>1, SpanType
      <3> QED
        BY <3>1, <3>2 DEF z, j
    <2>2. a \in Seq(Leaf) /\ Len(a) = 1 /\ a[1] = v[p]
      BY <1>2, <1>3, <2>1
    <2> HIDE DEF a
    <2>3. <<v[p]>> \in Seq(Leaf) /\ Len(<<v[p]>>) = 1 /\ <<v[p]>>[1] = v[p]
      BY <1>1
    <2>4. \A q \in 1 .. Len(a) : a[q] = <<v[p]>>[q]
      BY <2>2, <2>3
    <2>5. a = <<v[p]>>
      BY <2>2, <2>3, <2>4, SeqEqual
    <2> QED
      BY <2>5 DEF a
  <1>5. LeafRow(d, v[p]) \in Row
    BY <1>1 DEF LeafRow, Key
  <1>6. Range(<<v[p]>>) = {v[p]}
    BY DEF Range
  <1>7. \A s \in 1 .. K + 1 : LeafRow(d, v[p])[s] = XorOfLeaves(d, {v[p]}, s)
    BY <1>1, XorOfSingleton
  <1>8. 1 .. 0 = {}
    OBVIOUS
  <1> QED
    BY <1>4, <1>5, <1>6, <1>7, <1>8 DEF IsNode

\* Rows that stand for the children of a node tell whether it collides and is
\* in order; folded they stand for the node.
LEMMA FoldIsNode ==
  ASSUME NEW d, NEW v \in Seq(Leaf), Len(v) = 2^K, IsInjective(v),
         NEW r \in Rounds, NEW j \in Nodes(r), NEW a, NEW b,
         IsNode(d, v, a, r - 1, 2 * j), IsNode(d, v, b, r - 1, 2 * j + 1)
  PROVE  /\ a.h[r] = b.h[r] <=> NodeCollides(d, v, r, j)
         /\ LexLess(a.idx, b.idx) <=> NodeOrdered(v, r, j)
         /\ a.idx \o b.idx = Span(v, r, j)
         /\ a.h[r] = b.h[r] => IsNode(d, v, [h |-> Xor(a.h, b.h), idx |-> a.idx \o b.idx], r, j)
  <1>1. K \in Nat /\ r \in 1 .. K /\ j \in 0 .. 2^(K - r) - 1 /\ r \in 1 .. K + 1
    BY KAssumption DEF Rounds, Nodes
  <1>2. a.idx = Span(v, r - 1, 2 * j) /\ b.idx = Span(v, r - 1, 2 * j + 1)
    BY DEF IsNode
  <1>3. /\ a.h[r] = XorOfLeaves(d, Range(a.idx), r)
        /\ b.h[r] = XorOfLeaves(d, Range(b.idx), r)
    BY <1>1 DEF IsNode
  <1>4. a.h[r] = b.h[r] <=> NodeCollides(d, v, r, j)
    BY <1>2, <1>3 DEF NodeCollides
  <1>5. LexLess(a.idx, b.idx) <=> NodeOrdered(v, r, j)
    BY <1>2 DEF NodeOrdered
  <1>6. a.idx \o b.idx = Span(v, r, j)
    BY <1>1, <1>2, SpanChildren
  <1>7. ASSUME a.h[r] = b.h[r]
        PROVE  IsNode(d, v, [h |-> Xor(a.h, b.h), idx |-> a.idx \o b.idx], r, j)
    <2>1. a.h \in Row /\ b.h \in Row
      BY DEF IsNode
    <2>2. /\ Xor(a.h, b.h) \in Row
          /\ \A s \in 1 .. K + 1 : Xor(a.h, b.h)[s] = SymDiff(a.h[s], b.h[s])
      BY <2>1, XorOfRows
    <2>3. ASSUME NEW s \in 1 .. r
          PROVE  Xor(a.h, b.h)[s] = {}
      <3>1. s \in 1 .. K + 1
        BY <1>1
      <3>2. a.h[s] = b.h[s]
        <4>1. CASE s = r
          BY <1>7, <4>1
        <4>2. CASE s # r
          <5>1. s \in 1 .. r - 1
            BY <1>1, <4>2
          <5> QED
            BY <5>1 DEF IsNode
        <4> QED
          BY <4>1, <4>2
      <3> QED
        BY <2>2, <3>1, <3>2 DEF SymDiff
    <2>4. a.idx \in Seq(Leaf) /\ b.idx \in Seq(Leaf)
      <3>1. /\ r - 1 \in 0 .. K
            /\ 2 * j \in 0 .. 2^(K - (r - 1)) - 1
            /\ 2 * j + 1 \in 0 .. 2^(K - (r - 1)) - 1
        BY <1>1, NodeChildren
      <3>2. Span(v, r - 1, 2 * j) \in Seq(Leaf) /\ Span(v, r - 1, 2 * j + 1) \in Seq(Leaf)
        BY <1>1, <3>1, SpanType
      <3> QED
        BY <1>2, <3>2
    <2>5. /\ Range(a.idx \o b.idx) = Range(a.idx) \cup Range(b.idx)
          /\ Range(a.idx) \in SUBSET Leaf /\ Range(b.idx) \in SUBSET Leaf
      BY <2>4, ConcatOfVectors, RangeOfVector
    <2>6. Range(a.idx) \cap Range(b.idx) = {}
      BY <1>1, <1>2, ChildrenDisjoint
    <2>7. ASSUME NEW s \in 1 .. K + 1
          PROVE  Xor(a.h, b.h)[s] = XorOfLeaves(d, Range(a.idx \o b.idx), s)
      <3>1. /\ a.h[s] = XorOfLeaves(d, Range(a.idx), s)
            /\ b.h[s] = XorOfLeaves(d, Range(b.idx), s)
        BY DEF IsNode
      <3>2. XorOfLeaves(d, Range(a.idx) \cup Range(b.idx), s)
              = SymDiff(XorOfLeaves(d, Range(a.idx), s), XorOfLeaves(d, Range(b.idx), s))
        BY <2>5, <2>6, XorOfUnion
      <3> QED
        BY <2>2, <2>5, <3>1, <3>2
    <2> QED
      BY <1>6, <2>2, <2>3, <2>7 DEF IsNode
  <1> QED
    BY <1>4, <1>5, <1>6, <1>7

-----------------------------------------------------------------------------
(* Merging two rows.                                                       *)

\* XOR of two rows is, segment by segment, the symmetric difference.
LEMMA XorProperties ==
  ASSUME NEW n \in Nat, NEW g \in [1 .. n -> Segment], NEW h \in [1 .. n -> Segment]
  PROVE  /\ Xor(g, h) \in [1 .. n -> Segment]
         /\ \A s \in 1 .. n : Xor(g, h)[s] = SymDiff(g[s], h[s])
  BY DEF Xor, SymDiff, Segment

\* Dropping the collided segment shifts the others down by one.
LEMMA TailProperties ==
  ASSUME NEW n \in Nat, NEW g \in [1 .. n + 1 -> Segment]
  PROVE  /\ Tail(g) \in [1 .. n -> Segment]
         /\ \A s \in 1 .. n : Tail(g)[s] = g[s + 1]
  <1>1. g \in Seq(Segment) /\ Len(g) = n + 1
    OBVIOUS
  <1>2. Tail(g) \in Seq(Segment) /\ Len(Tail(g)) = n
    BY <1>1
  <1>3. Tail(g) \in [1 .. n -> Segment]
    BY <1>2, LenProperties
  <1>4. \A s \in 1 .. n : Tail(g)[s] = g[s + 1]
    BY <1>1
  <1> QED
    BY <1>3, <1>4

\* A row of the list of round r, and what RowsAreXors says of it after m rounds.
RowAt(r) == [h : [1 .. K + 2 - r -> Segment], idx : Seq(Leaf)]

\* It is what is left of the XOR of its leaves when m segments have cancelled.
IsXor(d, m, row) ==
  /\ Len(row.idx) = 2^m
  /\ IsInjective(row.idx)
  /\ \A s \in 1 .. m : XorOfLeaves(d, Range(row.idx), s) = {}
  /\ \A s \in DOMAIN row.h : row.h[s] = XorOfLeaves(d, Range(row.idx), s + m)

\* A merge of two rows of a round is a row of the next.
LEMMA MergeType ==
  ASSUME NEW r \in Rounds, NEW a \in RowAt(r), NEW b \in RowAt(r)
  PROVE  /\ Merge(a, b) \in RowAt(r + 1)
         /\ \A s \in 1 .. K + 1 - r : Merge(a, b).h[s] = SymDiff(a.h[s + 1], b.h[s + 1])
  <1> DEFINE n == K + 1 - r
  <1>1. n \in Nat /\ K + 2 - r = n + 1 /\ K + 2 - (r + 1) = n
    BY KAssumption DEF Rounds
  <1> HIDE DEF n
  <1>2. /\ a.h \in [1 .. n + 1 -> Segment] /\ b.h \in [1 .. n + 1 -> Segment]
        /\ a.idx \in Seq(Leaf) /\ b.idx \in Seq(Leaf)
    BY <1>1 DEF RowAt
  <1>3. /\ Xor(a.h, b.h) \in [1 .. n + 1 -> Segment]
        /\ \A s \in 1 .. n + 1 : Xor(a.h, b.h)[s] = SymDiff(a.h[s], b.h[s])
    <2> DEFINE m == n + 1
    <2>1. m \in Nat /\ a.h \in [1 .. m -> Segment] /\ b.h \in [1 .. m -> Segment]
      BY <1>1, <1>2
    <2> HIDE DEF m
    <2>2. /\ Xor(a.h, b.h) \in [1 .. m -> Segment]
          /\ \A s \in 1 .. m : Xor(a.h, b.h)[s] = SymDiff(a.h[s], b.h[s])
      BY <2>1, XorProperties
    <2> QED
      BY <2>2 DEF m
  <1>4. /\ Tail(Xor(a.h, b.h)) \in [1 .. n -> Segment]
        /\ \A s \in 1 .. n : Tail(Xor(a.h, b.h))[s] = Xor(a.h, b.h)[s + 1]
    BY <1>1, <1>3, TailProperties
  <1>5. \A s \in 1 .. n : s + 1 \in 1 .. n + 1
    BY <1>1
  <1>6. Canonical(a.idx, b.idx) \in Seq(Leaf)
    BY <1>2, CanonicalOfVectors
  <1>7. Merge(a, b) \in RowAt(r + 1)
    BY <1>1, <1>4, <1>6 DEF Merge, RowAt
  <1>8. \A s \in 1 .. n : Merge(a, b).h[s] = SymDiff(a.h[s + 1], b.h[s + 1])
    BY <1>3, <1>4, <1>5 DEF Merge
  <1> QED
    BY <1>7, <1>8 DEF n

\* Merging keeps what RowsAreXors says.
LEMMA MergeIsXor ==
  ASSUME NEW d \in [Key -> Row], NEW r \in Rounds,
         NEW a \in RowAt(r), NEW b \in RowAt(r), Mergeable(a, b),
         IsXor(d, r - 1, a), IsXor(d, r - 1, b)
  PROVE  IsXor(d, r, Merge(a, b))
  <1> DEFINE m == Merge(a, b)
             A == Range(a.idx)
             B == Range(b.idx)
  <1>1. K \in Nat /\ r \in Nat /\ 1 <= r /\ r <= K
    BY KAssumption DEF Rounds
  <1>2. a.idx \in Seq(Leaf) /\ b.idx \in Seq(Leaf)
    BY DEF RowAt
  <1>3. DOMAIN a.h = 1 .. K + 2 - r /\ DOMAIN b.h = 1 .. K + 2 - r
    BY DEF RowAt
  <1>4. A \in SUBSET Leaf /\ B \in SUBSET Leaf /\ A \cap B = {}
    BY <1>2, RangeOfVector DEF Mergeable, SlicesDistinct
  <1>5. /\ m.idx = Canonical(a.idx, b.idx)
        /\ Len(m.idx) = Len(a.idx) + Len(b.idx)
        /\ Range(m.idx) = A \cup B
        /\ IsInjective(m.idx)
    BY <1>2, CanonicalOfVectors DEF Merge, Mergeable, IsXor
  <1>6. \A s : XorOfLeaves(d, Range(m.idx), s)
                 = SymDiff(XorOfLeaves(d, A, s), XorOfLeaves(d, B, s))
    BY <1>4, <1>5, XorOfUnion
  <1>7. Len(m.idx) = 2^r
    <2>1. Len(m.idx) = 2^(r - 1) + 2^(r - 1)
      BY <1>5 DEF IsXor
    <2>2. r - 1 \in Nat /\ r - 1 + 1 = r
      BY <1>1
    <2>3. 2^r = 2 * 2^(r - 1) /\ 2^(r - 1) \in Nat
      BY <2>2, PowerOfTwoType, PowerOfTwoDoubles
    <2>4. \A n \in Nat : n + n = 2 * n
      OBVIOUS
    <2> QED
      BY <2>1, <2>3, <2>4
  <1>8. ASSUME NEW s \in 1 .. r
        PROVE  XorOfLeaves(d, Range(m.idx), s) = {}
    <2>1. XorOfLeaves(d, A, s) = XorOfLeaves(d, B, s)
      <3>1. CASE s = r
        <4>1. 1 \in DOMAIN a.h /\ 1 \in DOMAIN b.h /\ 1 + (r - 1) = r
          BY <1>1, <1>3
        <4> QED
          BY <3>1, <4>1 DEF IsXor, Mergeable
      <3>2. CASE s # r
        <4>1. s \in 1 .. r - 1
          BY <1>1, <3>2
        <4> QED
          BY <4>1 DEF IsXor
      <3> QED
        BY <3>1, <3>2
    <2> QED
      BY <1>6, <2>1 DEF SymDiff
  <1>9. DOMAIN m.h = 1 .. K + 1 - r
    <2>1. m \in RowAt(r + 1)
      BY MergeType
    <2>2. m.h \in [1 .. K + 2 - (r + 1) -> Segment]
      BY <2>1 DEF RowAt
    <2>3. K + 2 - (r + 1) = K + 1 - r
      BY <1>1
    <2> QED
      BY <2>2, <2>3
  <1>10. ASSUME NEW s \in DOMAIN m.h
         PROVE  m.h[s] = XorOfLeaves(d, Range(m.idx), s + r)
    <2>1. m.h[s] = SymDiff(a.h[s + 1], b.h[s + 1])
      BY <1>9, MergeType
    <2>2. s + 1 \in 1 .. K + 2 - r /\ s + 1 + (r - 1) = s + r
      BY <1>1, <1>9
    <2>3. /\ a.h[s + 1] = XorOfLeaves(d, A, s + r)
          /\ b.h[s + 1] = XorOfLeaves(d, B, s + r)
      BY <1>3, <2>2 DEF IsXor
    <2> QED
      BY <1>6, <2>1, <2>3
  <1> HIDE DEF m
  <1>11. IsXor(d, r, m)
    BY <1>5, <1>7, <1>8, <1>10 DEF IsXor
  <1> QED
    BY <1>11 DEF m

\* Merging the rows of two trees makes a tree: the collision is the new node's,
\* and Canonical puts its children in order.
LEMMA MergeIsTree ==
  ASSUME NEW d \in [Key -> Row], NEW r \in Rounds,
         NEW a \in RowAt(r), NEW b \in RowAt(r), Mergeable(a, b),
         IsXor(d, r - 1, a), IsXor(d, r - 1, b),
         IsTree(d, r - 1, a.idx), IsTree(d, r - 1, b.idx)
  PROVE  IsTree(d, r, Merge(a, b).idx)
  <1>1. K \in Nat /\ r \in Nat /\ 1 <= r /\ r <= K
    BY KAssumption DEF Rounds
  <1>2. a.idx \in Seq(Leaf) /\ b.idx \in Seq(Leaf)
    BY DEF RowAt
  <1>3. Len(a.idx) = 2^(r - 1) /\ Len(b.idx) = 2^(r - 1) /\ SlicesDistinct(a.idx, b.idx)
    BY DEF IsXor, Mergeable
  <1>4. r - 1 \in Nat /\ (r - 1) + 1 = r /\ 1 + (r - 1) = r
    BY <1>1
  <1>5. XorOfLeaves(d, Range(a.idx), r) = XorOfLeaves(d, Range(b.idx), r)
    <2>1. 1 \in DOMAIN a.h /\ 1 \in DOMAIN b.h
      BY <1>1 DEF RowAt
    <2> QED
      BY <1>4, <2>1 DEF IsXor, Mergeable
  <1> DEFINE m == r - 1
  <1>6. /\ m \in Nat /\ Len(a.idx) = 2^m /\ Len(b.idx) = 2^m
        /\ IsTree(d, m, a.idx) /\ IsTree(d, m, b.idx)
        /\ XorOfLeaves(d, Range(a.idx), m + 1) = XorOfLeaves(d, Range(b.idx), m + 1)
        /\ m + 1 = r
    BY <1>3, <1>4, <1>5
  <1> HIDE DEF m
  <1>7. IsTree(d, m + 1, Canonical(a.idx, b.idx))
    BY <1>2, <1>3, <1>6, CanonicalOfTrees
  <1> QED
    BY <1>6, <1>7 DEF Merge

\* What is known of a row of the working list after r - 1 rounds.
GoodRow(d, r, row) ==
  row \in RowAt(r) /\ IsXor(d, r - 1, row) /\ IsTree(d, r - 1, row.idx)

\* The row of a leaf is a row of round 1.
LEMMA LeafIsGood ==
  ASSUME NEW d \in [Key -> Row], NEW leaf \in Leaf
  PROVE  GoodRow(d, 1, [h |-> LeafRow(d, leaf), idx |-> <<leaf>>])
  <1> DEFINE row == [h |-> LeafRow(d, leaf), idx |-> <<leaf>>]
  <1>1. LeafKey(leaf) \in Key
    BY DEF Key
  <1>2. LeafRow(d, leaf) \in Row
    BY <1>1 DEF LeafRow
  <1>3. LeafRow(d, leaf) \in [1 .. K + 2 - 1 -> Segment] /\ K + 2 - 1 = K + 1
    BY KAssumption, <1>2 DEF Row
  <1>4. <<leaf>> \in Seq(Leaf) /\ Len(<<leaf>>) = 1 /\ Range(<<leaf>>) = {leaf}
    BY DEF Range
  <1>5. IsInjective(<<leaf>>)
    BY DEF IsInjective
  <1>6. \A s \in 1 .. K + 1 :
          XorOfLeaves(d, {leaf}, s) = LeafRow(d, leaf)[s] /\ s + 0 = s
    BY XorOfSingleton
  <1>7. 2^0 = 1 /\ 1 .. 0 = {} /\ 1 - 1 = 0
    OBVIOUS
  <1>8. row \in RowAt(1)
    BY <1>3, <1>4 DEF RowAt
  <1>9. IsXor(d, 0, row)
    BY <1>3, <1>4, <1>5, <1>6, <1>7 DEF IsXor
  <1>10. IsTree(d, 0, row.idx)
    BY <1>7 DEF IsTree
  <1> QED
    BY <1>7, <1>8, <1>9, <1>10 DEF GoodRow

\* Merging two rows of a round gives a row of the next.
LEMMA MergeIsGood ==
  ASSUME NEW d \in [Key -> Row], NEW r \in Rounds, NEW a, NEW b,
         GoodRow(d, r, a), GoodRow(d, r, b), Mergeable(a, b)
  PROVE  GoodRow(d, r + 1, Merge(a, b))
  <1>1. /\ a \in RowAt(r) /\ b \in RowAt(r)
        /\ IsXor(d, r - 1, a) /\ IsXor(d, r - 1, b)
        /\ IsTree(d, r - 1, a.idx) /\ IsTree(d, r - 1, b.idx)
    BY DEF GoodRow
  <1>2. Merge(a, b) \in RowAt(r + 1)
    BY <1>1, MergeType
  <1>3. IsXor(d, r, Merge(a, b))
    BY <1>1, MergeIsXor
  <1>4. IsTree(d, r, Merge(a, b).idx)
    BY <1>1, MergeIsTree
  <1> DEFINE q == r + 1
             m == Merge(a, b)
  <1>5. q - 1 = r
    BY KAssumption DEF Rounds
  <1>6. m \in RowAt(q) /\ IsXor(d, r, m)
    BY <1>2, <1>3
  <1>7. IsTree(d, r, m.idx)
    BY <1>4
  <1> HIDE DEF q, m
  <1>8. GoodRow(d, q, m)
    BY <1>5, <1>6, <1>7 DEF GoodRow
  <1> QED
    BY <1>8 DEF q, m

\* A row that is left zero after all rounds stands for a solution.
LEMMA RootIsValid ==
  ASSUME NEW d \in [Key -> Row], NEW row, GoodRow(d, K + 1, row), IsZero(row.h)
  PROVE  /\ row.idx \in Seq(Leaf)
         /\ Valid(d, row.idx)
  <1> DEFINE v == row.idx
  <1>1. K \in Nat /\ K + 1 - 1 = K /\ K + 2 - (K + 1) = 1
    BY KAssumption
  <1>2. row \in RowAt(K + 1) /\ IsXor(d, K, row) /\ IsTree(d, K, v)
    BY <1>1 DEF GoodRow
  <1>3. Len(v) = 2^K /\ IsInjective(v)
    BY <1>2 DEF IsXor
  <1>4. v \in Seq(Leaf) /\ Range(v) \subseteq Leaf
    BY <1>2, RangeOfVector DEF RowAt
  <1>5. \A s \in 1 .. K : XorOfLeaves(d, Range(v), s) = {}
    BY <1>2 DEF IsXor
  <1>6. XorOfLeaves(d, Range(v), K + 1) = {}
    <2>1. DOMAIN row.h = {1}
      BY <1>1, <1>2 DEF RowAt
    <2>2. row.h[1] = {}
      BY <2>1 DEF IsZero
    <2>3. row.h[1] = XorOfLeaves(d, Range(v), 1 + K)
      BY <1>2, <2>1 DEF IsXor
    <2>4. 1 + K = K + 1
      BY <1>1
    <2> QED
      BY <2>2, <2>3, <2>4
  <1>7. \A s \in 1 .. K + 1 : s \in 1 .. K \/ s = K + 1
    BY <1>1
  <1>8. Valid(d, v)
    BY <1>2, <1>3, <1>4, <1>5, <1>6, <1>7 DEF Valid, IsTree, Rounds, Nodes
  <1> QED
    BY <1>4, <1>8

-----------------------------------------------------------------------------
(* Lists: the elements kept, the stable order, the pairs of the runs.      *)

\* The positions kept, and how many there are up to one of them.
KeptAt(s, T)     == {m \in DOMAIN s : s[m] \in T}
KeptPlace(at, m) == Cardinality(at \cap (1 .. m))

\* The positions kept are numbered from 1, each number once.
LEMMA KeptPlaces ==
  ASSUME NEW n \in Nat, NEW at \in SUBSET (1 .. n)
  PROVE  /\ IsFiniteSet(at) /\ Cardinality(at) \in Nat
         /\ \A m, l \in at : KeptPlace(at, m) = KeptPlace(at, l) => m = l
         /\ \A m \in at : KeptPlace(at, m) \in 1 .. Cardinality(at)
         /\ \A p \in 1 .. Cardinality(at) : \E m \in at : KeptPlace(at, m) = p
  <1> DEFINE B(m) == at \cap (1 .. m)
  <1>1. IsFiniteSet(at) /\ Cardinality(at) \in Nat
    <2>1. IsFiniteSet(1 .. n)
      BY FS_Interval
    <2>2. IsFiniteSet(at)
      BY <2>1, FS_Subset
    <2> QED
      BY <2>2, FS_CardinalityType
  <1>2. ASSUME NEW m \in at
        PROVE  /\ IsFiniteSet(B(m)) /\ Cardinality(B(m)) \in 1 .. Cardinality(at)
               /\ KeptPlace(at, m) = Cardinality(B(m))
    <2>1. B(m) \in SUBSET at /\ m \in B(m)
      OBVIOUS
    <2>2. IsFiniteSet(B(m)) /\ Cardinality(B(m)) <= Cardinality(at) /\ Cardinality(B(m)) \in Nat
      BY <1>1, <2>1, FS_Subset, FS_CardinalityType
    <2>3. Cardinality(B(m)) # 0
      BY <2>1, <2>2, FS_EmptySet
    <2>4. KeptPlace(at, m) = Cardinality(B(m))
      BY DEF KeptPlace
    <2> HIDE DEF B
    <2> QED
      BY <1>1, <2>2, <2>3, <2>4
  <1>3. ASSUME NEW m \in at, NEW l \in at, m < l
        PROVE  KeptPlace(at, m) # KeptPlace(at, l)
    <2>1. B(m) \in SUBSET B(l) /\ l \in B(l) /\ l \notin B(m)
      BY <1>3
    <2>2. IsFiniteSet(B(l))
      BY <1>2
    <2>3. KeptPlace(at, m) = Cardinality(B(m)) /\ KeptPlace(at, l) = Cardinality(B(l))
      BY <1>2
    <2> HIDE DEF B
    <2> QED
      BY <2>1, <2>2, <2>3, FS_Subset
  <1>4. \A m, l \in at : KeptPlace(at, m) = KeptPlace(at, l) => m = l
    <2> SUFFICES ASSUME NEW m \in at, NEW l \in at, KeptPlace(at, m) = KeptPlace(at, l), m # l
                 PROVE  FALSE
      OBVIOUS
    <2>1. m < l \/ l < m
      OBVIOUS
    <2> QED
      BY <1>3, <2>1
  <1>5. \A m \in at : KeptPlace(at, m) \in 1 .. Cardinality(at)
    BY <1>2
  <1>6. \A p \in 1 .. Cardinality(at) : \E m \in at : KeptPlace(at, m) = p
    <2> DEFINE N     == 1 .. Cardinality(at)
               place == [m \in at |-> KeptPlace(at, m)]
    <2>1. place \in [at -> N] /\ \A m \in at : place[m] = KeptPlace(at, m)
      BY <1>5
    <2>2. IsFiniteSet(N) /\ Cardinality(N) = Cardinality(at)
      BY <1>1, FS_Interval
    <2> HIDE DEF place, N
    <2>3. place \in Injection(at, N)
      BY <1>4, <2>1 DEF Injection, IsInjective
    <2>4. place \in Surjection(at, N)
      BY <2>2, <2>3, FS_Injection
    <2> QED
      BY <2>1, <2>4 DEF Surjection, N
  <1> QED
    BY <1>1, <1>4, <1>5, <1>6

\* So the elements kept are those at the positions kept, in a sequence.
LEMMA KeptIs ==
  ASSUME NEW S, NEW s \in Seq(S), NEW T
  PROVE  \E from :
           /\ from \in [1 .. Cardinality(KeptAt(s, T)) -> KeptAt(s, T)]
           /\ \A p, q \in DOMAIN from : from[p] = from[q] => p = q
           /\ \A m \in KeptAt(s, T) : \E p \in DOMAIN from : from[p] = m
           /\ Kept(s, T) = [p \in DOMAIN from |-> s[from[p]]]
           /\ Kept(s, T) \in Seq(S)
  <1> DEFINE at   == KeptAt(s, T)
             N    == 1 .. Cardinality(at)
             C(p) == CHOOSE m \in at : KeptPlace(at, m) = p
             from == [p \in N |-> C(p)]
  <1>1. Len(s) \in Nat /\ DOMAIN s = 1 .. Len(s) /\ at \in SUBSET (1 .. Len(s))
    BY LenProperties DEF KeptAt
  <1>2. Kept(s, T) = << >> \o [p \in N |-> s[C(p)]]
    BY Zenon DEF Kept, KeptAt, KeptPlace
  <1> HIDE DEF at
  <1>3. /\ Cardinality(at) \in Nat
        /\ \A m, l \in at : KeptPlace(at, m) = KeptPlace(at, l) => m = l
        /\ \A m \in at : KeptPlace(at, m) \in N
        /\ \A p \in N : \E m \in at : KeptPlace(at, m) = p
    BY <1>1, KeptPlaces
  <1>4. \A p \in N : C(p) \in at /\ KeptPlace(at, C(p)) = p
    BY <1>3, Zenon
  <1>5. \A m \in at : C(KeptPlace(at, m)) = m
    BY <1>3, <1>4
  <1> HIDE DEF C
  <1>6. from \in [N -> at] /\ DOMAIN from = N /\ \A p \in N : from[p] = C(p)
    BY <1>4
  <1>7. [p \in N |-> s[C(p)]] = [p \in DOMAIN from |-> s[from[p]]]
    BY <1>6, Zenon
  <1>8. [p \in N |-> s[C(p)]] \in Seq(S)
    <2>1. \A p \in N : s[C(p)] \in S
      <3> SUFFICES ASSUME NEW p \in N
                   PROVE  s[C(p)] \in S
        OBVIOUS
      <3>1. C(p) \in 1 .. Len(s)
        BY <1>1, <1>4
      <3> QED
        BY <1>1, <3>1, ElementOfSeq
    <2> DEFINE c == Cardinality(at)
    <2>2. c \in Nat
      BY <1>3
    <2> HIDE DEF c
    <2>3. \A g \in [1 .. c -> S] : g \in Seq(S)
      BY <2>2
    <2>4. [p \in N |-> s[C(p)]] \in [N -> S]
      BY <2>1
    <2> QED
      BY <2>3, <2>4 DEF c
  <1>9. Kept(s, T) = [p \in DOMAIN from |-> s[from[p]]]
    <2> DEFINE g == [p \in N |-> s[C(p)]]
    <2>1. << >> \o g = g
      <3> HIDE DEF g
      <3> QED
        BY <1>8, ConcatEmptySeq DEF g
    <2> QED
      BY <1>2, <1>7, <2>1
  <1>10. \A p, q \in N : from[p] = from[q] => p = q
    BY <1>4, <1>6
  <1>11. \A m \in at : \E p \in N : from[p] = m
    BY <1>3, <1>5, <1>6
  <1> HIDE DEF from, N
  <1>12. from \in [1 .. Cardinality(at) -> at] /\ DOMAIN from = N
    BY <1>6 DEF N
  <1>13. Kept(s, T) \in Seq(S)
    <2> DEFINE g == [p \in N |-> s[C(p)]]
    <2> HIDE DEF g
    <2>1. Kept(s, T) = g
      BY <1>7, <1>9 DEF g
    <2> QED
      BY <1>8, <2>1 DEF g
  <1>14. /\ from \in [1 .. Cardinality(at) -> at]
         /\ \A p, q \in DOMAIN from : from[p] = from[q] => p = q
         /\ \A m \in at : \E p \in DOMAIN from : from[p] = m
         /\ Kept(s, T) = [p \in DOMAIN from |-> s[from[p]]]
         /\ Kept(s, T) \in Seq(S)
    BY <1>9, <1>10, <1>11, <1>12, <1>13
  <1> QED
    BY <1>14, Zenon DEF at

\* What is kept is what is in both, once if it was there once.
LEMMA KeptProperties ==
  ASSUME NEW S, NEW s \in Seq(S), NEW T
  PROVE  /\ Kept(s, T) \in Seq(S)
         /\ Range(Kept(s, T)) = Range(s) \cap T
         /\ IsInjective(s) => IsInjective(Kept(s, T))
  <1> DEFINE at == KeptAt(s, T)
             k  == Kept(s, T)
  <1>1. PICK from :
          /\ from \in [1 .. Cardinality(at) -> at]
          /\ \A p, q \in DOMAIN from : from[p] = from[q] => p = q
          /\ \A m \in at : \E p \in DOMAIN from : from[p] = m
          /\ k = [p \in DOMAIN from |-> s[from[p]]]
          /\ k \in Seq(S)
    BY KeptIs
  <1>2. \A m : m \in at <=> m \in DOMAIN s /\ s[m] \in T
    BY DEF KeptAt
  <1> HIDE DEF at, k
  <1>3. /\ DOMAIN k = DOMAIN from
        /\ \A p \in DOMAIN from : from[p] \in at /\ k[p] = s[from[p]]
    BY <1>1
  <1>4. Range(k) = Range(s) \cap T
    BY <1>1, <1>2, <1>3 DEF Range
  <1>5. ASSUME IsInjective(s)
        PROVE  IsInjective(k)
    BY <1>1, <1>2, <1>3, <1>5 DEF IsInjective
  <1> QED
    BY <1>1, <1>4, <1>5 DEF k

\* Kept does not look at T beyond the elements of s.
LEMMA KeptSame ==
  ASSUME NEW S, NEW s \in Seq(S), NEW T, NEW U, Range(s) \cap T = Range(s) \cap U
  PROVE  Kept(s, T) = Kept(s, U)
  <1> DEFINE K0(at) == << >> \o [p \in 1 .. Cardinality(at) |->
                          s[CHOOSE m \in at : Cardinality(at \cap (1 .. m)) = p]]
  <1>1. {m \in DOMAIN s : s[m] \in T} = {m \in DOMAIN s : s[m] \in U}
    BY DEF Range
  <1>2. /\ Kept(s, T) = K0({m \in DOMAIN s : s[m] \in T})
        /\ Kept(s, U) = K0({m \in DOMAIN s : s[m] \in U})
    BY Zenon DEF Kept
  <1> HIDE DEF K0
  <1> QED
    BY <1>1, <1>2

-----------------------------------------------------------------------------
(* The order of segments and the stable order of a list of them.           *)

\* A nonempty set of bits has a highest.
LEMMA HighestBit ==
  ASSUME NEW S \in SUBSET Bit, S # {}
  PROVE  \E x \in S : \A y \in S : y <= x
  <1> DEFINE T == {n \in Nat : \E y \in S : n + y = CollisionBits}
  <1>1. \A y \in S : y \in Nat /\ CollisionBits - y \in T
    BY BitsAssumption DEF Bit
  <1>2. T \in SUBSET Nat /\ T # {}
    BY <1>1
  <1>3. PICK n \in T : \A l \in T : n <= l
    BY <1>2, LeastNatural
  <1>4. PICK x \in S : n + x = CollisionBits
    BY <1>3
  <1>5. \A y \in S : y <= x
    <2> TAKE y \in S
    <2>1. n <= CollisionBits - y
      BY <1>1, <1>3
    <2> QED
      BY <1>1, <1>2, <1>3, <1>4, <2>1, BitsAssumption
  <1> QED
    BY <1>5

\* A segment is less than another when some bit of the other it lacks is not
\* below any bit in which the two differ.
LEMMA LessByBit ==
  ASSUME NEW s \in Segment, NEW t \in Segment
  PROVE  SegmentLess(s, t) <=>
           \E m \in t : m \notin s /\ \A y \in Bit : (y \in s /\ y \in t) \/ (y \notin s /\ y \notin t) \/ y <= m
  BY DEF SegmentLess, SymDiff, Segment

\* Segments are totally ordered.
LEMMA SegmentOrder ==
  ASSUME NEW s \in Segment, NEW t \in Segment, NEW u \in Segment
  PROVE  /\ ~SegmentLess(s, s)
         /\ SegmentLess(s, t) \/ s = t \/ SegmentLess(t, s)
         /\ ~(SegmentLess(s, t) /\ SegmentLess(t, s))
         /\ SegmentLess(s, t) /\ SegmentLess(t, u) => SegmentLess(s, u)
  <1>1. ~SegmentLess(s, s)
    BY DEF SegmentLess
  <1>2. SegmentLess(s, t) \/ s = t \/ SegmentLess(t, s)
    <2> DEFINE D == SymDiff(s, t)
    <2>1. D \in SUBSET Bit /\ D \subseteq (s \ t) \cup (t \ s) /\ (s # t => D # {}) /\ D = SymDiff(t, s)
      BY DEF SymDiff, Segment
    <2> HIDE DEF D
    <2>2. CASE D = {}
      BY <2>1, <2>2
    <2>3. CASE D # {}
      <3>1. PICK m \in D : \A y \in D : y <= m
        BY <2>1, <2>3, HighestBit
      <3>2. m \in t \ s => SegmentLess(s, t)
        BY <3>1 DEF SegmentLess, D
      <3>3. m \in s \ t => SegmentLess(t, s)
        BY <2>1, <3>1 DEF SegmentLess
      <3> QED
        BY <2>1, <3>1, <3>2, <3>3
    <2> QED
      BY <2>2, <2>3
  <1>3. ASSUME NEW a \in Segment, NEW b \in Segment, NEW c \in Segment,
               SegmentLess(a, b), SegmentLess(b, c)
        PROVE  SegmentLess(a, c)
    <2>1. a \subseteq Bit /\ b \subseteq Bit /\ c \subseteq Bit /\ Bit \subseteq Nat
      BY DEF Segment, Bit
    <2>2. PICK m \in b : m \notin a /\ \A y \in Bit : (y \in a /\ y \in b) \/ (y \notin a /\ y \notin b) \/ y <= m
      BY <1>3, LessByBit
    <2>3. PICK l \in c : l \notin b /\ \A y \in Bit : (y \in b /\ y \in c) \/ (y \notin b /\ y \notin c) \/ y <= l
      BY <1>3, LessByBit
    <2>4. m \in Bit /\ l \in Bit /\ m \in Nat /\ l \in Nat
      BY <2>1
    <2>5. \A y \in Bit : y \in Nat
      BY <2>1
    <2>6. CASE m < l
      <3>1. l \notin a
        BY <2>2, <2>3, <2>4, <2>6
      <3>2. \A y \in Bit : (y \in a /\ y \in c) \/ (y \notin a /\ y \notin c) \/ y <= l
        BY <2>2, <2>3, <2>4, <2>5, <2>6
      <3> QED
        BY <3>1, <3>2, LessByBit
    <2>7. CASE l < m
      <3>1. m \in c
        BY <2>2, <2>3, <2>4, <2>7
      <3>2. \A y \in Bit : (y \in a /\ y \in c) \/ (y \notin a /\ y \notin c) \/ y <= m
        BY <2>2, <2>3, <2>4, <2>5, <2>7
      <3> QED
        BY <2>2, <3>1, <3>2, LessByBit
    <2> QED
      BY <2>2, <2>3, <2>4, <2>6, <2>7
  <1> QED
    BY <1>1, <1>2, <1>3, Zenon

\* In the stable order p comes before q.
Before(keys, p, q) == SegmentLess(keys[p], keys[q]) \/ (keys[p] = keys[q] /\ p <= q)

\* It is a total order of the positions.
LEMMA BeforeIsOrder ==
  ASSUME NEW n \in Nat, NEW keys \in [1 .. n -> Segment],
         NEW p \in 1 .. n, NEW q \in 1 .. n, NEW t \in 1 .. n
  PROVE  /\ Before(keys, p, p)
         /\ Before(keys, p, q) \/ Before(keys, q, p)
         /\ Before(keys, p, q) /\ Before(keys, q, p) => p = q
         /\ Before(keys, p, q) /\ Before(keys, q, t) => Before(keys, p, t)
  <1>1. keys[p] \in Segment /\ keys[q] \in Segment /\ keys[t] \in Segment
    OBVIOUS
  <1>2. p <= p /\ (p <= q \/ q <= p) /\ (p <= q /\ q <= p => p = q) /\ (p <= q /\ q <= t => p <= t)
    OBVIOUS
  <1> DEFINE kp == keys[p]
             kq == keys[q]
             kt == keys[t]
  <1> HIDE DEF kp, kq, kt
  <1>3. kp \in Segment /\ kq \in Segment /\ kt \in Segment
    BY <1>1 DEF kp, kq, kt
  <1>4. /\ ~SegmentLess(kp, kp)
        /\ SegmentLess(kp, kq) \/ kp = kq \/ SegmentLess(kq, kp)
        /\ ~(SegmentLess(kp, kq) /\ SegmentLess(kq, kp))
        /\ SegmentLess(kp, kq) /\ SegmentLess(kq, kt) => SegmentLess(kp, kt)
    BY <1>3, SegmentOrder, Zenon
  <1>5. ~SegmentLess(kq, kq)
    BY <1>3, SegmentOrder, Zenon
  <1>6. /\ Before(keys, p, p) <=> SegmentLess(kp, kp) \/ (kp = kp /\ p <= p)
        /\ Before(keys, p, q) <=> SegmentLess(kp, kq) \/ (kp = kq /\ p <= q)
        /\ Before(keys, q, p) <=> SegmentLess(kq, kp) \/ (kq = kp /\ q <= p)
        /\ Before(keys, q, t) <=> SegmentLess(kq, kt) \/ (kq = kt /\ q <= t)
        /\ Before(keys, p, t) <=> SegmentLess(kp, kt) \/ (kp = kt /\ p <= t)
    BY DEF Before, kp, kq, kt
  <1> QED
    BY <1>2, <1>4, <1>5, <1>6, Zenon

\* The places of the positions: one more than the positions that come before.
Place(keys) ==
  [p \in DOMAIN keys |-> Cardinality({q \in DOMAIN keys : Before(keys, q, p)})]

\* Places are those of a permutation, in the stable order.
LEMMA PlaceProperties ==
  ASSUME NEW n \in Nat, NEW keys \in [1 .. n -> Segment]
  PROVE  /\ Place(keys) \in [1 .. n -> 1 .. n]
         /\ \A p, q \in 1 .. n : Before(keys, p, q) /\ p # q => Place(keys)[p] < Place(keys)[q]
         /\ \A p, q \in 1 .. n : Place(keys)[p] = Place(keys)[q] => p = q
         /\ \A m \in 1 .. n : \E p \in 1 .. n : Place(keys)[p] = m
  <1> DEFINE B(p) == {q \in 1 .. n : Before(keys, q, p)}
             place == Place(keys)
  <1>1. IsFiniteSet(1 .. n) /\ Cardinality(1 .. n) = n
    BY FS_Interval
  <1>2. ASSUME NEW p \in 1 .. n
        PROVE  /\ IsFiniteSet(B(p)) /\ Cardinality(B(p)) \in 1 .. n
               /\ place[p] = Cardinality(B(p))
    <2>1. B(p) \in SUBSET (1 .. n) /\ p \in B(p)
      BY BeforeIsOrder
    <2>2. IsFiniteSet(B(p)) /\ Cardinality(B(p)) <= n /\ Cardinality(B(p)) \in Nat
      BY <1>1, <2>1, FS_Subset, FS_CardinalityType
    <2>3. Cardinality(B(p)) # 0
      BY <2>1, <2>2, FS_EmptySet
    <2>4. DOMAIN keys = 1 .. n
      OBVIOUS
    <2>5. place[p] = Cardinality(B(p))
      BY <2>4, Zenon DEF Place
    <2> QED
      BY <2>2, <2>3, <2>5
  <1>3. place \in [1 .. n -> 1 .. n]
    <2>1. DOMAIN keys = 1 .. n
      OBVIOUS
    <2>2. place = [p \in 1 .. n |-> place[p]]
      BY <2>1, Zenon DEF Place
    <2> QED
      BY <1>2, <2>2
  <1>4. ASSUME NEW p \in 1 .. n, NEW q \in 1 .. n, Before(keys, p, q), p # q
        PROVE  place[p] < place[q]
    <2>1. B(p) \in SUBSET B(q)
      BY <1>4, BeforeIsOrder
    <2>2. q \in B(q) /\ q \notin B(p)
      BY <1>4, BeforeIsOrder
    <2>3. IsFiniteSet(B(q))
      BY <1>2
    <2>4. Cardinality(B(p)) <= Cardinality(B(q)) /\ Cardinality(B(p)) # Cardinality(B(q))
      <3> HIDE DEF B
      <3> QED
        BY <2>1, <2>2, <2>3, FS_Subset
    <2> HIDE DEF B, place
    <2> QED
      BY <1>2, <2>4
  <1>5. \A p, q \in 1 .. n : place[p] = place[q] => p = q
    <2> SUFFICES ASSUME NEW p \in 1 .. n, NEW q \in 1 .. n, place[p] = place[q], p # q
                 PROVE  FALSE
      OBVIOUS
    <2>1. place[p] \in Nat /\ place[q] \in Nat
      BY <1>3
    <2>2. Before(keys, p, q) \/ Before(keys, q, p)
      BY BeforeIsOrder
    <2>3. place[p] < place[q] \/ place[q] < place[p]
      BY <1>4, <2>2
    <2> HIDE DEF place
    <2> QED
      BY <2>1, <2>3
  <1>6. \A m \in 1 .. n : \E p \in 1 .. n : place[p] = m
    <2> DEFINE N == 1 .. n
    <2> HIDE DEF place, N
    <2>1. place \in Injection(N, N)
      BY <1>3, <1>5 DEF Injection, IsInjective, N
    <2>2. place \in Surjection(N, N)
      BY <1>1, <2>1, FS_Injection DEF N
    <2> QED
      BY <2>2 DEF Surjection, N
  <1> QED
    BY <1>3, <1>4, <1>5, <1>6

\* order runs through the positions 1 .. n, each once.
Permutes(order, n) ==
  /\ order \in [1 .. n -> 1 .. n]
  /\ \A p, q \in 1 .. n : order[p] = order[q] => p = q
  /\ \A m \in 1 .. n : \E p \in 1 .. n : order[p] = m

\* Equal keys form runs: no other key lies between them.
Contiguous(keys, order) ==
  \A p, q, t \in DOMAIN order :
    p <= t /\ t <= q /\ keys[order[p]] = keys[order[q]] => keys[order[t]] = keys[order[p]]

\* The stable order permutes the positions, never decreases, and so keeps equal
\* keys together.
LEMMA StableOrderProperties ==
  ASSUME NEW n \in Nat, NEW keys \in [1 .. n -> Segment]
  PROVE  /\ Permutes(StableOrder(keys), n)
         /\ Contiguous(keys, StableOrder(keys))
         /\ \A p, q \in 1 .. n : p <= q => Before(keys, StableOrder(keys)[p], StableOrder(keys)[q])
  <1> DEFINE place == Place(keys)
             order == [m \in 1 .. n |-> CHOOSE p \in 1 .. n : place[p] = m]
  <1>1. DOMAIN keys = 1 .. n
    OBVIOUS
  <1>2. /\ place \in [1 .. n -> 1 .. n]
        /\ \A p, q \in 1 .. n : Before(keys, p, q) /\ p # q => place[p] < place[q]
        /\ \A p, q \in 1 .. n : place[p] = place[q] => p = q
        /\ \A m \in 1 .. n : \E p \in 1 .. n : place[p] = m
    BY PlaceProperties
  <1>3. << >> \o place = place
    <2>1. place \in Seq(1 .. n)
      BY <1>2
    <2> HIDE DEF place
    <2> QED
      BY <2>1, ConcatEmptySeq
  <1>4. \A m \in 1 .. n : order[m] \in 1 .. n /\ place[order[m]] = m
    <2> SUFFICES ASSUME NEW m \in 1 .. n
                 PROVE  order[m] \in 1 .. n /\ place[order[m]] = m
      OBVIOUS
    <2>1. order[m] = CHOOSE p \in 1 .. n : place[p] = m
      BY Zenon
    <2>2. \E p \in 1 .. n : place[p] = m
      BY <1>2
    <2> HIDE DEF place, order
    <2> QED
      BY <2>1, <2>2, Zenon
  <1>5. order \in [1 .. n -> 1 .. n]
    <2> DEFINE f(m) == CHOOSE p \in 1 .. n : place[p] = m
    <2>1. \A m \in 1 .. n : f(m) \in 1 .. n
      BY <1>4
    <2> HIDE DEF f
    <2>2. [m \in 1 .. n |-> f(m)] \in [1 .. n -> 1 .. n]
      BY <2>1
    <2> QED
      BY <2>2 DEF f
  <1>6. StableOrder(keys) = order
    <2> DEFINE Sorted(S, f) == [m \in S |-> CHOOSE p \in S : f[p] = m]
    <2>1. StableOrder(keys) = << >> \o Sorted(DOMAIN keys, << >> \o place)
      BY Zenon DEF StableOrder, Place, Before
    <2>2. Sorted(1 .. n, place) = order
      BY Zenon
    <2> HIDE DEF order, Sorted, place
    <2>3. StableOrder(keys) = << >> \o order
      BY <1>1, <1>3, <2>1, <2>2
    <2>4. order \in Seq(1 .. n)
      BY <1>5
    <2> QED
      BY <2>3, <2>4, ConcatEmptySeq
  <1> HIDE DEF place, order
  <1>7. Permutes(order, n)
    <2>1. \A p, q \in 1 .. n : order[p] = order[q] => p = q
      BY <1>4
    <2>2. ASSUME NEW m \in 1 .. n
          PROVE  \E p \in 1 .. n : order[p] = m
      <3>1. place[m] \in 1 .. n
        BY <1>2
      <3>2. place[order[place[m]]] = place[m] /\ order[place[m]] \in 1 .. n
        BY <1>4, <3>1
      <3>3. order[place[m]] = m
        BY <1>2, <3>2
      <3> QED
        BY <3>1, <3>3
    <2> QED
      BY <1>5, <2>1, <2>2 DEF Permutes
  <1>8. ASSUME NEW p \in 1 .. n, NEW q \in 1 .. n, p <= q
        PROVE  Before(keys, order[p], order[q])
    <2>1. order[p] \in 1 .. n /\ order[q] \in 1 .. n /\ place[order[p]] = p /\ place[order[q]] = q
      BY <1>4
    <2>2. Before(keys, order[p], order[q]) \/ Before(keys, order[q], order[p])
      BY <2>1, BeforeIsOrder
    <2>3. ~(q < p)
      BY <1>8
    <2>4. Before(keys, order[q], order[p]) => order[p] = order[q]
      <3> SUFFICES ASSUME Before(keys, order[q], order[p]), order[p] # order[q]
                   PROVE  FALSE
        OBVIOUS
      <3>1. place[order[q]] < place[order[p]]
        BY <1>2, <2>1
      <3> QED
        BY <2>1, <2>3, <3>1
    <2> QED
      BY <2>1, <2>2, <2>4
  <1>9. Contiguous(keys, order)
    <2>1. DOMAIN order = 1 .. n
      BY <1>5
    <2> SUFFICES ASSUME NEW p \in 1 .. n, NEW q \in 1 .. n, NEW t \in 1 .. n,
                        p <= t, t <= q, keys[order[p]] = keys[order[q]]
                 PROVE  keys[order[t]] = keys[order[p]]
      BY <2>1 DEF Contiguous
    <2>2. Before(keys, order[p], order[t]) /\ Before(keys, order[t], order[q])
      BY <1>8
    <2>3. keys[order[p]] \in Segment /\ keys[order[t]] \in Segment
      BY <1>4
    <2> DEFINE kp == keys[order[p]]
               kt == keys[order[t]]
               kq == keys[order[q]]
    <2>4. /\ SegmentLess(kp, kt) \/ kp = kt
          /\ SegmentLess(kt, kq) \/ kt = kq
      BY <2>2 DEF Before
    <2>5. kp \in Segment /\ kt \in Segment /\ kq = kp
      BY <2>3
    <2> HIDE DEF kp, kt, kq
    <2>6. kt = kp
      BY <2>4, <2>5, SegmentOrder
    <2> QED
      BY <2>6 DEF kp, kt
  <1> QED
    BY <1>6, <1>7, <1>8, <1>9

-----------------------------------------------------------------------------
(* Cells of a rectangle laid out row by row.                               *)

\* Quotient and remainder,
LEMMA DivisionBounds ==
  ASSUME NEW w \in Nat \ {0}, NEW a \in Nat
  PROVE  a \div w \in Nat /\ a % w \in 0 .. w - 1 /\ a = (a \div w) * w + (a % w)
  BY SMT

\* and that there are no others.
LEMMA DivisionUnique ==
  ASSUME NEW w \in Nat \ {0}, NEW q \in Nat, NEW r \in 0 .. w - 1
  PROVE  (q * w + r) \div w = q /\ (q * w + r) % w = r
  <1>1. (q * w + r) \div w = q
    BY SMT
  <1>2. (q * w + r) % w = r
    BY SMT
  <1> QED
    BY <1>1, <1>2

\* The row and the place in it of cell c, and the cell at a place of a row.
CellRow(c, w)   == ((c - 1) \div w) + 1
CellPlace(c, w) == ((c - 1) % w) + 1

\* Every cell of n rows of w cells is at one place of one row.
LEMMA CellSplit ==
  ASSUME NEW w \in Nat \ {0}, NEW n \in Nat, NEW c \in 1 .. n * w
  PROVE  /\ CellRow(c, w) \in 1 .. n
         /\ CellPlace(c, w) \in 1 .. w
         /\ c = (CellRow(c, w) - 1) * w + CellPlace(c, w)
  <1> DEFINE a == c - 1
             q == a \div w
             r == a % w
  <1>1. n * w \in Nat
    OBVIOUS
  <1>2. a \in Nat /\ a + 1 = c /\ a + 1 <= n * w
    BY <1>1
  <1>3. q \in Nat /\ r \in 0 .. w - 1 /\ a = q * w + r
    BY <1>2, DivisionBounds
  <1>4. CellRow(c, w) = q + 1 /\ CellPlace(c, w) = r + 1
    BY DEF CellRow, CellPlace
  <1> HIDE DEF a, q, r
  <1>5. q < n
    <2> SUFFICES ASSUME n <= q
                 PROVE  FALSE
      BY <1>3
    <2>1. n * w <= q * w
      BY <1>3, ProductMonotone
    <2> DEFINE nw == n * w
               qw == q * w
    <2>2. qw \in Nat /\ nw \in Nat
      BY <1>3
    <2> HIDE DEF nw, qw
    <2>3. nw <= qw /\ a + 1 <= nw /\ a = qw + r
      BY <1>2, <1>3, <2>1 DEF nw, qw
    <2> QED
      BY <1>2, <1>3, <2>2, <2>3
  <1>6. c = q * w + r + 1
    <2> DEFINE qw == q * w
    <2>1. qw \in Nat
      BY <1>3
    <2> HIDE DEF qw
    <2>2. a = qw + r
      BY <1>3 DEF qw
    <2>3. c = qw + r + 1
      BY <1>2, <1>3, <2>1, <2>2
    <2> QED
      BY <2>3 DEF qw
  <1>7. q + 1 - 1 = q /\ q + 1 \in 1 .. n /\ r + 1 \in 1 .. w
    BY <1>3, <1>5
  <1>8. q * w + (r + 1) = q * w + r + 1
    BY <1>3
  <1>9. CellRow(c, w) - 1 = q
    BY <1>3, <1>4, <1>7
  <1>10. (CellRow(c, w) - 1) * w + CellPlace(c, w) = q * w + (r + 1)
    BY <1>4, <1>9
  <1> QED
    BY <1>4, <1>6, <1>7, <1>8, <1>10

\* Every place of every row is one cell.
LEMMA CellJoin ==
  ASSUME NEW w \in Nat \ {0}, NEW n \in Nat, NEW q \in 1 .. n, NEW s \in 1 .. w
  PROVE  /\ (q - 1) * w + s \in 1 .. n * w
         /\ CellRow((q - 1) * w + s, w) = q
         /\ CellPlace((q - 1) * w + s, w) = s
  <1> DEFINE m == q - 1
             r == s - 1
             c == m * w + s
  <1>1. m \in Nat /\ r \in 0 .. w - 1 /\ m + 1 = q /\ r + 1 = s /\ q \in Nat /\ q <= n
    OBVIOUS
  <1> HIDE DEF m, r
  <1>2. m * w \in Nat /\ q * w = m * w + w /\ q * w \in Nat /\ n * w \in Nat
    <2>1. (m + 1) * w = m * w + w
      BY <1>1
    <2> QED
      BY <1>1, <2>1
  <1>3. q * w <= n * w
    BY <1>1, ProductMonotone
  <1> DEFINE mw == m * w
             qw == q * w
             nw == n * w
  <1>4. mw \in Nat /\ qw = mw + w /\ qw <= nw /\ nw \in Nat /\ c = mw + s
    BY <1>2, <1>3
  <1> HIDE DEF mw, qw, nw, c
  <1>5. c \in 1 .. nw /\ c - 1 = mw + r
    BY <1>1, <1>4
  <1>6. (m * w + r) \div w = m /\ (m * w + r) % w = r
    BY <1>1, DivisionUnique
  <1>7. CellRow(c, w) = m + 1 /\ CellPlace(c, w) = r + 1
    BY <1>5, <1>6 DEF CellRow, CellPlace, mw
  <1> QED
    BY <1>1, <1>5, <1>7 DEF c, nw, m

\* The grid holds every pair of positions once.
LEMMA PairGridProperties ==
  ASSUME NEW n \in Nat
  PROVE  /\ PairGrid(n) \in Seq((1 .. n) \X (1 .. n))
         /\ Range(PairGrid(n)) = (1 .. n) \X (1 .. n)
         /\ IsInjective(PairGrid(n))
  <1> DEFINE G == PairGrid(n)
  <1>1. n * n \in Nat
    OBVIOUS
  <1>2. DOMAIN G = 1 .. n * n /\ \A m \in 1 .. n * n : G[m] = <<CellRow(m, n), CellPlace(m, n)>>
    BY DEF PairGrid, CellRow, CellPlace
  <1>3. 1 .. n * n # {} => n \in Nat \ {0}
    OBVIOUS
  <1>4. \A m \in 1 .. n * n : /\ CellRow(m, n) \in 1 .. n
                              /\ CellPlace(m, n) \in 1 .. n
                              /\ m = (CellRow(m, n) - 1) * n + CellPlace(m, n)
    BY <1>3, CellSplit
  <1>5. G = [m \in 1 .. n * n |-> G[m]]
    BY DEF PairGrid
  <1> HIDE DEF G
  <1>6. \A m \in 1 .. n * n : G[m] \in (1 .. n) \X (1 .. n)
    <2> TAKE m \in 1 .. n * n
    <2>1. CellRow(m, n) \in 1 .. n /\ CellPlace(m, n) \in 1 .. n
      BY <1>4
    <2>2. <<CellRow(m, n), CellPlace(m, n)>> \in (1 .. n) \X (1 .. n)
      BY <2>1
    <2> QED
      BY <1>2, <2>2, Zenon
  <1>7. G \in Seq((1 .. n) \X (1 .. n))
    <2> DEFINE N == n * n
    <2>1. N \in Nat /\ G = [m \in 1 .. N |-> G[m]]
      BY <1>1, <1>5
    <2>2. G \in [1 .. N -> (1 .. n) \X (1 .. n)]
      BY <1>6, <2>1
    <2> HIDE DEF N
    <2> QED
      BY <2>1, <2>2
  <1>8. Range(G) = (1 .. n) \X (1 .. n)
    <2>1. ASSUME NEW p \in 1 .. n, NEW q \in 1 .. n
          PROVE  <<p, q>> \in Range(G)
      <3> DEFINE m == (p - 1) * n + q
      <3>1. n \in Nat \ {0}
        OBVIOUS
      <3>2. m \in 1 .. n * n /\ CellRow(m, n) = p /\ CellPlace(m, n) = q
        BY <3>1, CellJoin
      <3> HIDE DEF m
      <3>3. m \in DOMAIN G /\ G[m] = <<p, q>>
        BY <1>2, <3>2
      <3> QED
        BY <3>3, Zenon DEF Range
    <2>2. Range(G) \subseteq (1 .. n) \X (1 .. n)
      BY <1>2, <1>6 DEF Range
    <2> QED
      BY <2>1, <2>2
  <1>9. IsInjective(G)
    <2> SUFFICES ASSUME NEW l \in 1 .. n * n, NEW m \in 1 .. n * n, G[l] = G[m]
                 PROVE  l = m
      BY <1>2 DEF IsInjective
    <2>1. CellRow(l, n) = CellRow(m, n) /\ CellPlace(l, n) = CellPlace(m, n)
      BY <1>2
    <2> QED
      BY <1>4, <2>1
  <1> QED
    BY <1>7, <1>8, <1>9 DEF G

-----------------------------------------------------------------------------
(* Vectors and their halves.                                               *)

\* A concatenation of vectors of known length determines them.
LEMMA ConcatHalves ==
  ASSUME NEW v \in Seq(Leaf), NEW w \in Seq(Leaf), NEW a \in Seq(Leaf), NEW b \in Seq(Leaf),
         Len(v) = Len(a), Len(w) = Len(b), v \o w = a \o b
  PROVE  v = a /\ w = b
  <1>1. \A i \in 1 .. Len(v) : v[i] = a[i]
    <2> TAKE i \in 1 .. Len(v)
    <2>1. i \in 1 .. Len(v) + Len(w) /\ i <= Len(v)
      BY LenProperties
    <2>2. (v \o w)[i] = v[i] /\ (a \o b)[i] = a[i]
      BY <2>1, ConcatProperties
    <2> QED
      BY <2>2
  <1>2. v = a
    BY <1>1, LenProperties, SeqEqual
  <1> QED
    BY <1>2, ConcatSimplifications

\* Of two vectors that share no leaf only one is smaller.
LEMMA DisjointLess ==
  ASSUME NEW v \in Seq(Leaf), NEW w \in Seq(Leaf),
         1 <= Len(v), 1 <= Len(w), SlicesDistinct(v, w), LexLess(v, w)
  PROVE  ~LexLess(w, v)
  <1>1. 1 \in DOMAIN v /\ 1 \in DOMAIN w
    OBVIOUS
  <1>2. v[1] # w[1]
    BY <1>1 DEF SlicesDistinct, Range
  <1>3. v[1] \in Nat /\ w[1] \in Nat
    BY <1>1, InitSizeType DEF Leaf
  <1>4. DOMAIN v \subseteq Nat \ {0} /\ DOMAIN w \subseteq Nat \ {0}
    BY LenProperties
  <1>5. \A p \in Nat \ {0} : p = 1 \/ 1 \in 1 .. p - 1
    OBVIOUS
  <1>6. v[1] < w[1]
    BY <1>1, <1>2, <1>4, <1>5 DEF LexLess
  <1>7. LexLess(w, v) => w[1] < v[1]
    BY <1>1, <1>2, <1>4, <1>5 DEF LexLess
  <1> QED
    BY <1>3, <1>6, <1>7

\* A canonical concatenation determines its halves, up to their order.
LEMMA CanonicalHalves ==
  ASSUME NEW v \in Seq(Leaf), NEW w \in Seq(Leaf), NEW a \in Seq(Leaf), NEW b \in Seq(Leaf),
         Len(v) = Len(w), Len(a) = Len(v), Len(b) = Len(v), Canonical(v, w) = Canonical(a, b)
  PROVE  (v = a /\ w = b) \/ (v = b /\ w = a)
  <1>1. Canonical(v, w) = v \o w \/ Canonical(v, w) = w \o v
    BY DEF Canonical
  <1>2. Canonical(a, b) = a \o b \/ Canonical(a, b) = b \o a
    BY DEF Canonical
  <1>3. v \o w = a \o b => v = a /\ w = b
    BY ConcatHalves
  <1>4. v \o w = b \o a => v = b /\ w = a
    BY ConcatHalves
  <1>5. w \o v = a \o b => w = a /\ v = b
    BY ConcatHalves
  <1>6. w \o v = b \o a => w = b /\ v = a
    BY ConcatHalves
  <1> QED
    BY <1>1, <1>2, <1>3, <1>4, <1>5, <1>6

-----------------------------------------------------------------------------
(* One round of the merge.                                                 *)

\* The loops visit every pair of the runs that shares no leaf, once.
LEMMA EmittedPairsProperties ==
  ASSUME NEW S, NEW list \in Seq(S), NEW order, Permutes(order, Len(list))
  PROVE  /\ EmittedPairs(list, order) \in Seq((1 .. Len(list)) \X (1 .. Len(list)))
         /\ IsInjective(EmittedPairs(list, order))
         /\ \A p, q \in 1 .. Len(list) :
              <<p, q>> \in Range(EmittedPairs(list, order)) <=> Emits(list, order, p, q)
  <1> DEFINE n == Len(list)
             N == 1 .. n
             T == {pq \in N \X N : Emits(list, order, pq[1], pq[2])}
  <1>1. n \in Nat
    BY LenProperties
  <1>2. DOMAIN order = N /\ Len(order) = n
    <2>1. order \in [1 .. n -> 1 .. n]
      BY DEF Permutes
    <2> HIDE DEF n
    <2>2. order \in Seq(1 .. n) /\ DOMAIN order = 1 .. n
      BY <1>1, <2>1
    <2> QED
      BY <1>1, <2>2, LenProperties
  <1>3. EmittedPairs(list, order) = Kept(PairGrid(n), T)
    <2> DEFINE U(l, D) == Kept(PairGrid(l), {pq \in D \X D : Emits(list, order, pq[1], pq[2])})
    <2>1. EmittedPairs(list, order) = U(Len(order), DOMAIN order)
      BY DEF EmittedPairs
    <2>2. U(n, N) = Kept(PairGrid(n), T)
      OBVIOUS
    <2> HIDE DEF U, T, N, n
    <2> QED
      BY <1>2, <2>1, <2>2
  <1> HIDE DEF n
  <1>4. /\ PairGrid(n) \in Seq(N \X N)
        /\ Range(PairGrid(n)) = N \X N
        /\ IsInjective(PairGrid(n))
    BY <1>1, PairGridProperties
  <1>5. /\ Kept(PairGrid(n), T) \in Seq(N \X N)
        /\ Range(Kept(PairGrid(n), T)) = (N \X N) \cap T
        /\ IsInjective(Kept(PairGrid(n), T))
    <2> HIDE DEF T, N
    <2> QED
      BY <1>4, KeptProperties
  <1>6. \A p, q \in N : <<p, q>> \in (N \X N) \cap T <=> Emits(list, order, p, q)
    <2> HIDE DEF N
    <2> QED
      OBVIOUS
  <1> QED
    BY <1>3, <1>5, <1>6 DEF n

\* A row of the next list is the merge of a pair the loops visit.
LEMMA EmittedProperties ==
  ASSUME NEW S, NEW list \in Seq(S), NEW order, Permutes(order, Len(list))
  PROVE  /\ Len(EmittedPairs(list, order)) \in Nat
         /\ DOMAIN EmittedPairs(list, order) = 1 .. Len(EmittedPairs(list, order))
         /\ DOMAIN Emitted(list, order) = 1 .. Len(EmittedPairs(list, order))
         /\ \A m \in 1 .. Len(EmittedPairs(list, order)) : \E p, q \in 1 .. Len(list) :
              /\ EmittedPairs(list, order)[m] = <<p, q>>
              /\ Emits(list, order, p, q)
              /\ order[p] \in DOMAIN list /\ order[q] \in DOMAIN list
              /\ Emitted(list, order)[m] = Merge(list[order[p]], list[order[q]])
              /\ Mergeable(list[order[p]], list[order[q]])
  <1> DEFINE n == Len(list)
             pairs == EmittedPairs(list, order)
  <1>1. n \in Nat /\ DOMAIN list = 1 .. n
    BY LenProperties
  <1>2. /\ pairs \in Seq((1 .. n) \X (1 .. n))
        /\ \A p, q \in 1 .. n : <<p, q>> \in Range(pairs) <=> Emits(list, order, p, q)
    BY EmittedPairsProperties
  <1>3. order \in [1 .. n -> 1 .. n]
    BY DEF Permutes
  <1> DEFINE row(m) == Merge(list[order[pairs[m][1]]], list[order[pairs[m][2]]])
  <1>4. Emitted(list, order) = [m \in DOMAIN pairs |-> row(m)]
    BY DEF Emitted
  <1> HIDE DEF n, pairs
  <1>5. Len(pairs) \in Nat /\ DOMAIN pairs = 1 .. Len(pairs)
    BY <1>2, LenProperties
  <1>6. DOMAIN Emitted(list, order) = 1 .. Len(pairs)
    <2> HIDE DEF row
    <2> QED
      BY <1>4, <1>5
  <1>7. ASSUME NEW m \in 1 .. Len(pairs)
        PROVE  \E p, q \in 1 .. n :
                 /\ pairs[m] = <<p, q>>
                 /\ Emits(list, order, p, q)
                 /\ order[p] \in DOMAIN list /\ order[q] \in DOMAIN list
                 /\ Emitted(list, order)[m] = Merge(list[order[p]], list[order[q]])
                 /\ Mergeable(list[order[p]], list[order[q]])
    <2>1. pairs[m] \in (1 .. n) \X (1 .. n) /\ m \in DOMAIN pairs
      BY <1>2, <1>5
    <2>2. PICK p \in 1 .. n, q \in 1 .. n : pairs[m] = <<p, q>>
      BY <2>1
    <2>3. <<p, q>> \in Range(pairs)
      BY <2>1, <2>2, Zenon DEF Range
    <2>4. Emits(list, order, p, q)
      BY <1>2, <2>3
    <2>5. pairs[m][1] = p /\ pairs[m][2] = q
      BY <2>2
    <2>6. Emitted(list, order)[m] = row(m)
      <3> HIDE DEF row
      <3> QED
        BY <1>4, <2>1
    <2>7. row(m) = Merge(list[order[p]], list[order[q]])
      BY <2>5
    <2>8. Mergeable(list[order[p]], list[order[q]])
      <3>1. p < q /\ SameRun(list, order, p, q) /\ SlicesDistinct(list[order[p]].idx, list[order[q]].idx)
        BY <2>4 DEF Emits
      <3>2. q \in p .. q
        BY <1>1, <3>1
      <3>3. list[order[q]].h[1] = list[order[p]].h[1]
        BY <3>1, <3>2 DEF SameRun
      <3> QED
        BY <3>1, <3>3 DEF Mergeable
    <2>9. order[p] \in DOMAIN list /\ order[q] \in DOMAIN list
      BY <1>1, <1>3
    <2> QED
      BY <2>2, <2>4, <2>6, <2>7, <2>8, <2>9
  <1> QED
    BY <1>5, <1>6, <1>7 DEF n, pairs

\* A list of rows of round r, no two of them with one vector.
GoodList(d, r, list) ==
  /\ list \in Seq(RowAt(r))
  /\ \A p \in DOMAIN list : GoodRow(d, r, list[p])
  /\ \A p, q \in DOMAIN list : list[p].idx = list[q].idx => p = q

\* Every node of every solution is in the list of its round.
Complete(d, r, list) ==
  \A v \in Solutions(d), j \in 0 .. 2^(K - (r - 1)) - 1 :
    \E p \in DOMAIN list : list[p].idx = Span(v, r - 1, j)

\* The leading segments of the rows of a list.
Leads(list) == [p \in DOMAIN list |-> list[p].h[1]]

\* A round keeps the list good, in whatever order it scans it.
LEMMA GoodListNext ==
  ASSUME NEW d \in [Key -> Row], NEW r \in Rounds, NEW list, GoodList(d, r, list),
         NEW order, Permutes(order, Len(list))
  PROVE  GoodList(d, r + 1, Emitted(list, order))
  <1> DEFINE n == Len(list)
             pairs == EmittedPairs(list, order)
             next == Emitted(list, order)
             N == Len(pairs)
  <1>1. list \in Seq(RowAt(r)) /\ n \in Nat /\ DOMAIN list = 1 .. n
    BY LenProperties DEF GoodList
  <1>2. /\ N \in Nat /\ DOMAIN next = 1 .. N /\ DOMAIN pairs = 1 .. N
        /\ \A m \in 1 .. N : \E p, q \in 1 .. n :
              /\ pairs[m] = <<p, q>>
              /\ Emits(list, order, p, q)
              /\ order[p] \in DOMAIN list /\ order[q] \in DOMAIN list
              /\ next[m] = Merge(list[order[p]], list[order[q]])
              /\ Mergeable(list[order[p]], list[order[q]])
    BY <1>1, EmittedProperties
  <1>3. next = [m \in DOMAIN next |-> next[m]]
    BY DEF Emitted
  <1>4. IsInjective(pairs)
    BY <1>1, EmittedPairsProperties
  <1> HIDE DEF n, pairs, next, N
  <1>5. ASSUME NEW m \in 1 .. N
        PROVE  GoodRow(d, r + 1, next[m])
    <2>1. PICK p \in 1 .. n, q \in 1 .. n :
              /\ order[p] \in DOMAIN list /\ order[q] \in DOMAIN list
              /\ next[m] = Merge(list[order[p]], list[order[q]])
              /\ Mergeable(list[order[p]], list[order[q]])
      BY <1>2
    <2>2. GoodRow(d, r, list[order[p]]) /\ GoodRow(d, r, list[order[q]])
      BY <2>1 DEF GoodList
    <2> QED
      BY <2>1, <2>2, MergeIsGood
  <1>6. next \in Seq(RowAt(r + 1))
    <2>1. \A m \in 1 .. N : next[m] \in RowAt(r + 1)
      BY <1>5 DEF GoodRow
    <2>2. next \in [1 .. N -> RowAt(r + 1)] /\ N \in Nat
      BY <1>2, <1>3, <2>1
    <2> DEFINE S == RowAt(r + 1)
    <2> HIDE DEF S
    <2>3. next \in Seq(S)
      BY <2>2 DEF S
    <2> QED
      BY <2>3 DEF S
  <1>7. ASSUME NEW l \in 1 .. N, NEW m \in 1 .. N, next[l].idx = next[m].idx
        PROVE  l = m
    <2>1. PICK p \in 1 .. n, q \in 1 .. n :
              /\ pairs[l] = <<p, q>>
              /\ Emits(list, order, p, q)
              /\ order[p] \in DOMAIN list /\ order[q] \in DOMAIN list
              /\ next[l] = Merge(list[order[p]], list[order[q]])
      BY <1>2
    <2>2. PICK t \in 1 .. n, u \in 1 .. n :
              /\ pairs[m] = <<t, u>>
              /\ Emits(list, order, t, u)
              /\ order[t] \in DOMAIN list /\ order[u] \in DOMAIN list
              /\ next[m] = Merge(list[order[t]], list[order[u]])
      BY <1>2
    <2> DEFINE a == list[order[p]].idx
               b == list[order[q]].idx
               e == list[order[t]].idx
               f == list[order[u]].idx
    <2>3. Canonical(a, b) = Canonical(e, f)
      <3>1. next[l].idx = Canonical(a, b)
        BY <2>1 DEF Merge
      <3>2. next[m].idx = Canonical(e, f)
        BY <2>2 DEF Merge
      <3> QED
        BY <1>7, <3>1, <3>2
    <2>4. \A i \in DOMAIN list : list[i].idx \in Seq(Leaf) /\ Len(list[i].idx) = 2^(r - 1)
      BY DEF GoodList, GoodRow, RowAt, IsXor
    <2>5. (a = e /\ b = f) \/ (a = f /\ b = e)
      <3>1. a \in Seq(Leaf) /\ b \in Seq(Leaf) /\ e \in Seq(Leaf) /\ f \in Seq(Leaf)
        BY <2>1, <2>2, <2>4
      <3>2. Len(a) = Len(b) /\ Len(e) = Len(a) /\ Len(f) = Len(a)
        BY <2>1, <2>2, <2>4
      <3> HIDE DEF a, b, e, f
      <3> QED
        BY <2>3, <3>1, <3>2, CanonicalHalves
    <2>6. \A i, j \in DOMAIN list : list[i].idx = list[j].idx => i = j
      BY DEF GoodList
    <2>7. \A i, j \in 1 .. n : order[i] = order[j] => i = j
      BY DEF Permutes, n
    <2>8. p < q /\ t < u
      BY <2>1, <2>2 DEF Emits
    <2>9. CASE a = e /\ b = f
      <3>1. order[p] = order[t] /\ order[q] = order[u]
        BY <2>1, <2>2, <2>6, <2>9
      <3>2. p = t /\ q = u
        BY <2>7, <3>1
      <3>3. pairs[l] = pairs[m]
        BY <2>1, <2>2, <3>2
      <3> QED
        BY <1>2, <1>4, <3>3 DEF IsInjective
    <2>10. CASE a = f /\ b = e
      <3>1. order[p] = order[u] /\ order[q] = order[t]
        BY <2>1, <2>2, <2>6, <2>10
      <3>2. p = u /\ q = t
        BY <2>7, <3>1
      <3> QED
        BY <1>1, <2>8, <3>2 DEF n
    <2> QED
      BY <2>5, <2>9, <2>10
  <1>8. GoodList(d, r + 1, next)
    BY <1>2, <1>5, <1>6, <1>7 DEF GoodList
  <1> QED
    BY <1>8 DEF next

\* A round that keeps equal leading segments together loses no solution: the
\* children of a node collide, share no leaf and merge into the node.
LEMMA CompleteNext ==
  ASSUME NEW d \in [Key -> Row], NEW r \in Rounds, NEW list, GoodList(d, r, list),
         NEW order, Permutes(order, Len(list)), Contiguous(Leads(list), order),
         Complete(d, r, list)
  PROVE  Complete(d, r + 1, Emitted(list, order))
  <1> DEFINE n == Len(list)
             next == Emitted(list, order)
  <1>1. list \in Seq(RowAt(r)) /\ n \in Nat /\ DOMAIN list = 1 .. n
    BY LenProperties DEF GoodList
  <1>2. r \in 1 .. K /\ K \in Nat /\ r + 1 - 1 = r /\ r - 1 \in Nat /\ r - 1 + 1 = r
    BY KAssumption DEF Rounds
  <1> SUFFICES ASSUME NEW v \in Solutions(d), NEW j \in 0 .. 2^(K - r) - 1
               PROVE  \E m \in DOMAIN next : next[m].idx = Span(v, r, j)
    BY <1>2 DEF Complete
  <1> DEFINE left  == Span(v, r - 1, 2 * j)
             right == Span(v, r - 1, 2 * j + 1)
  <1>3. v \in Seq(Leaf) /\ Len(v) = 2^K /\ IsInjective(v) /\ Valid(d, v)
    <2>1. v \in [1 .. 2^K -> Leaf] /\ Valid(d, v)
      BY DEF Solutions, CanonicalVectors
    <2>2. 2^K \in Nat
      BY <1>2, PowerOfTwoType
    <2> DEFINE N == 2^K
    <2>3. N \in Nat /\ v \in [1 .. N -> Leaf]
      BY <2>1, <2>2
    <2> HIDE DEF N
    <2>4. v \in Seq(Leaf)
      BY <2>3
    <2> QED
      BY <2>1, <2>4 DEF Valid
  <1>4. /\ r - 1 \in 0 .. K
        /\ 2 * j \in 0 .. 2^(K - (r - 1)) - 1
        /\ 2 * j + 1 \in 0 .. 2^(K - (r - 1)) - 1
    BY <1>2, NodeChildren
  <1>5. PICK a \in DOMAIN list : list[a].idx = left
    BY <1>4 DEF Complete
  <1>6. PICK b \in DOMAIN list : list[b].idx = right
    BY <1>4 DEF Complete
  <1>7. NodeCollides(d, v, r, j) /\ NodeOrdered(v, r, j)
    BY <1>2, <1>3 DEF Valid, Rounds, Nodes
  <1>8. SlicesDistinct(left, right) /\ SlicesDistinct(right, left)
    <2>1. Range(left) \cap Range(right) = {}
      BY <1>2, <1>3, ChildrenDisjoint
    <2> QED
      BY <2>1 DEF SlicesDistinct
  <1>9. LexLess(left, right)
    BY <1>7 DEF NodeOrdered
  <1>10. /\ left \in Seq(Leaf) /\ right \in Seq(Leaf)
         /\ 1 <= Len(left) /\ 1 <= Len(right)
    <2>1. left \in Seq(Leaf) /\ Len(left) = 2^(r - 1)
      BY <1>2, <1>3, <1>4, SpanType
    <2>2. right \in Seq(Leaf) /\ Len(right) = 2^(r - 1)
      BY <1>2, <1>3, <1>4, SpanType
    <2> QED
      BY <1>2, <2>1, <2>2, PowerOfTwoPositive
  <1>11. Canonical(left, right) = left \o right /\ Canonical(right, left) = left \o right
    <2>1. ~LexLess(right, left)
      BY <1>8, <1>9, <1>10, DisjointLess
    <2> QED
      BY <1>9, <2>1 DEF Canonical
  <1>12. left \o right = Span(v, r, j)
    BY <1>2, <1>3, SpanChildren
  <1> HIDE DEF left, right, n
  <1>13. list[a].h[1] = list[b].h[1]
    <2>1. ASSUME NEW i \in DOMAIN list
          PROVE  list[i].h[1] = XorOfLeaves(d, Range(list[i].idx), r)
      <3>1. list[i] \in RowAt(r) /\ IsXor(d, r - 1, list[i])
        BY DEF GoodList, GoodRow
      <3>2. DOMAIN list[i].h = 1 .. K + 2 - r
        BY <3>1 DEF RowAt
      <3>3. 1 \in 1 .. K + 2 - r /\ 1 + (r - 1) = r
        BY <1>2
      <3> QED
        BY <3>1, <3>2, <3>3 DEF IsXor
    <2>2. XorOfLeaves(d, Range(left), r) = XorOfLeaves(d, Range(right), r)
      BY <1>7 DEF NodeCollides, left, right
    <2>3. list[a].h[1] = XorOfLeaves(d, Range(left), r)
      BY <1>5, <2>1
    <2>4. list[b].h[1] = XorOfLeaves(d, Range(right), r)
      BY <1>6, <2>1
    <2> QED
      BY <2>2, <2>3, <2>4
  <1>14. a # b
    <2> SUFFICES ASSUME a = b
                 PROVE  FALSE
      OBVIOUS
    <2>1. left = right
      BY <1>5, <1>6
    <2>2. 1 \in DOMAIN left
      BY <1>10
    <2> QED
      BY <1>8, <2>1, <2>2 DEF SlicesDistinct, Range
  <1>15. PICK p \in 1 .. n : order[p] = a
    BY <1>1 DEF Permutes, n
  <1>16. PICK q \in 1 .. n : order[q] = b
    BY <1>1 DEF Permutes, n
  <1>17. ASSUME NEW s \in 1 .. n, NEW t \in 1 .. n, s < t,
                Leads(list)[order[s]] = Leads(list)[order[t]],
                SlicesDistinct(list[order[s]].idx, list[order[t]].idx),
                Canonical(list[order[s]].idx, list[order[t]].idx) = Span(v, r, j)
         PROVE  \E m \in DOMAIN next : next[m].idx = Span(v, r, j)
    <2>1. order \in [1 .. n -> 1 .. n]
      BY DEF Permutes, n
    <2>2. SameRun(list, order, s, t)
      <3> SUFFICES ASSUME NEW i \in s .. t
                   PROVE  list[order[i]].h[1] = list[order[s]].h[1]
        BY DEF SameRun
      <3>1. i \in 1 .. n /\ s <= i /\ i <= t
        BY <1>1
      <3>2. Leads(list)[order[i]] = Leads(list)[order[s]]
        BY <1>17, <2>1, <3>1 DEF Contiguous
      <3>3. order[i] \in DOMAIN list /\ order[s] \in DOMAIN list
        BY <1>1, <2>1, <3>1
      <3> QED
        BY <3>2, <3>3 DEF Leads
    <2>3. Emits(list, order, s, t)
      BY <1>17, <2>2 DEF Emits
    <2> DEFINE pairs == EmittedPairs(list, order)
    <2>4. <<s, t>> \in Range(pairs)
      BY <1>1, <2>3, EmittedPairsProperties DEF n
    <2>5. /\ DOMAIN next = 1 .. Len(pairs)
          /\ DOMAIN pairs = 1 .. Len(pairs)
          /\ \A m \in 1 .. Len(pairs) : \E i, k \in 1 .. Len(list) :
               /\ pairs[m] = <<i, k>>
               /\ next[m] = Merge(list[order[i]], list[order[k]])
      <3>1. /\ Len(pairs) \in Nat
            /\ DOMAIN pairs = 1 .. Len(pairs)
            /\ DOMAIN next = 1 .. Len(pairs)
            /\ \A m \in 1 .. Len(pairs) : \E i, k \in 1 .. Len(list) :
                 /\ pairs[m] = <<i, k>>
                 /\ Emits(list, order, i, k)
                 /\ order[i] \in DOMAIN list /\ order[k] \in DOMAIN list
                 /\ next[m] = Merge(list[order[i]], list[order[k]])
                 /\ Mergeable(list[order[i]], list[order[k]])
        BY <1>1, EmittedProperties
      <3> HIDE DEF pairs, next
      <3> QED
        BY <3>1
    <2> HIDE DEF pairs, next
    <2>6. PICK m \in 1 .. Len(pairs) : pairs[m] = <<s, t>>
      BY <2>4, <2>5 DEF Range
    <2>7. PICK i \in 1 .. Len(list), k \in 1 .. Len(list) :
               /\ pairs[m] = <<i, k>>
               /\ next[m] = Merge(list[order[i]], list[order[k]])
      BY <2>5
    <2>8. i = s /\ k = t
      BY <2>6, <2>7
    <2>9. next[m].idx = Canonical(list[order[s]].idx, list[order[t]].idx)
      BY <2>7, <2>8 DEF Merge
    <2> QED
      BY <1>17, <2>5, <2>9
  <1>18. Leads(list)[order[p]] = Leads(list)[order[q]]
    BY <1>13, <1>15, <1>16 DEF Leads
  <1>19. list[order[p]].idx = left /\ list[order[q]].idx = right
    BY <1>5, <1>6, <1>15, <1>16
  <1>20. CASE p < q
    BY <1>8, <1>11, <1>12, <1>17, <1>18, <1>19, <1>20
  <1>21. CASE q < p
    BY <1>8, <1>11, <1>12, <1>17, <1>18, <1>19, <1>21
  <1>22. p < q \/ q < p
    BY <1>1, <1>14, <1>15, <1>16
  <1> QED
    BY <1>20, <1>21, <1>22

\* The initial list is good and complete.
LEMMA LeafRowsGood ==
  ASSUME NEW d \in [Key -> Row]
  PROVE  /\ GoodList(d, 1, LeafRows(d)) /\ Complete(d, 1, LeafRows(d))
         /\ DOMAIN LeafRows(d) = 1 .. InitSize
         /\ \A p \in 1 .. InitSize : LeafRows(d)[p] = [h |-> LeafRow(d, p - 1), idx |-> <<p - 1>>]
  <1> DEFINE x == LeafRows(d)
             row(p) == [h |-> LeafRow(d, p - 1), idx |-> <<p - 1>>]
  <1>1. InitSize \in Nat
    BY InitSizeType
  <1>2. x = [p \in 1 .. InitSize |-> row(p)]
    BY DEF LeafRows
  <1>3. \A p \in 1 .. InitSize : p - 1 \in Leaf
    BY <1>1 DEF Leaf
  <1>4. \A p \in 1 .. InitSize : GoodRow(d, 1, row(p))
    <2> TAKE p \in 1 .. InitSize
    <2> DEFINE leaf == p - 1
    <2>1. leaf \in Leaf
      BY <1>3
    <2> HIDE DEF leaf
    <2>2. GoodRow(d, 1, [h |-> LeafRow(d, leaf), idx |-> <<leaf>>])
      BY <2>1, LeafIsGood
    <2> QED
      BY <2>2 DEF leaf
  <1>5. \A p \in 1 .. InitSize : x[p] = row(p)
    BY <1>2
  <1>6. \A p \in 1 .. InitSize : row(p).idx = <<p - 1>>
    OBVIOUS
  <1>7. GoodList(d, 1, x)
    <2> HIDE DEF row, x
    <2>1. DOMAIN x = 1 .. InitSize
      BY <1>2
    <2>2. \A p \in DOMAIN x : GoodRow(d, 1, x[p])
      BY <1>4, <1>5, <2>1
    <2>3. x \in [1 .. InitSize -> RowAt(1)]
      BY <1>2, <1>5, <2>1, <2>2 DEF GoodRow
    <2>4. x \in Seq(RowAt(1))
      BY <1>1, <2>3
    <2>5. ASSUME NEW p \in DOMAIN x, NEW q \in DOMAIN x, x[p].idx = x[q].idx
          PROVE  p = q
      <3>1. <<p - 1>> = <<q - 1>>
        BY <1>5, <1>6, <2>1, <2>5
      <3>2. p - 1 = q - 1
        BY <3>1
      <3> QED
        BY <1>1, <2>1, <3>2
    <2> QED
      BY <2>2, <2>4, <2>5 DEF GoodList
  <1>8. Complete(d, 1, x)
    <2>1. K \in Nat /\ 1 - 1 = 0 /\ K - 0 = K
      BY KAssumption
    <2> SUFFICES ASSUME NEW v \in Solutions(d), NEW j \in 0 .. 2^K - 1
                 PROVE  \E p \in DOMAIN x : x[p].idx = Span(v, 0, j)
      BY <2>1 DEF Complete
    <2>2. v \in [1 .. 2^K -> Leaf]
      BY DEF Solutions, CanonicalVectors
    <2>3. 2^K \in Nat
      BY <2>1, PowerOfTwoType
    <2> DEFINE N == 2^K
               i == j + 1
    <2>4. N \in Nat /\ v \in [1 .. N -> Leaf] /\ i \in 1 .. N /\ i - 1 = j
      BY <2>2, <2>3
    <2> HIDE DEF N, i
    <2>5. v \in Seq(Leaf) /\ Len(v) = N /\ v[i] \in Leaf /\ DOMAIN v = 1 .. N
      BY <2>4
    <2>6. Span(v, 0, i - 1) = <<v[i]>>
      BY <2>4, <2>5, LeafIsNode DEF N
    <2> DEFINE p == v[i] + 1
    <2>7. p \in 1 .. InitSize /\ p - 1 = v[i]
      BY <1>1, <2>5 DEF Leaf
    <2> HIDE DEF p
    <2>8. x[p].idx = <<v[i]>>
      <3>1. x[p] = row(p) /\ row(p).idx = <<p - 1>>
        BY <1>5, <1>6, <2>7
      <3> QED
        BY <2>7, <3>1
    <2>9. p \in DOMAIN x
      BY <1>2, <2>7
    <2> QED
      BY <2>4, <2>6, <2>8, <2>9
  <1> QED
    BY <1>2, <1>5, <1>7, <1>8

-----------------------------------------------------------------------------
(* The selection of solutions.                                             *)

\* The vectors returned are those of the zero rows that repeat no leaf.
LEMMA RootVectorsProperties ==
  ASSUME NEW S, NEW list \in Seq(S)
  PROVE  /\ \A v : v \in Range(RootVectors(list)) <=>
              \E p \in DOMAIN list : IsZero(list[p].h) /\ IsInjective(list[p].idx) /\ v = list[p].idx
         /\ (\A p, q \in DOMAIN list : list[p].idx = list[q].idx => p = q)
              => IsInjective(RootVectors(list))
  <1> DEFINE P == DOMAIN list
             T == {p \in P : IsZero(list[p].h) /\ IsInjective(list[p].idx)}
             id == [p \in P |-> p]
             roots == Kept(id, T)
  <1>1. id \in Seq(P) /\ Range(id) = P /\ IsInjective(id)
    <2>1. P = 1 .. Len(list) /\ Len(list) \in Nat
      BY LenProperties
    <2>2. DOMAIN id = P /\ \A p \in P : id[p] = p
      OBVIOUS
    <2>3. id \in [P -> P]
      OBVIOUS
    <2> HIDE DEF P, id
    <2>4. id \in Seq(P)
      BY <2>1, <2>3
    <2> QED
      BY <2>2, <2>4 DEF Range, IsInjective
  <1>2. /\ roots \in Seq(P)
        /\ Range(roots) = P \cap T
        /\ IsInjective(roots)
    <2> HIDE DEF P, id, T
    <2> QED
      BY <1>1, KeptProperties
  <1>3. RootVectors(list) = [m \in DOMAIN roots |-> list[roots[m]].idx]
    BY DEF RootVectors
  <1>4. \A p : p \in T <=> p \in P /\ IsZero(list[p].h) /\ IsInjective(list[p].idx)
    OBVIOUS
  <1> DEFINE R == RootVectors(list)
  <1> HIDE DEF roots, T, id
  <1>5. DOMAIN R = DOMAIN roots /\ \A m \in DOMAIN roots : R[m] = list[roots[m]].idx
    BY <1>3
  <1> HIDE DEF R
  <1>6. \A m \in DOMAIN roots : roots[m] \in T
    BY <1>2 DEF Range
  <1>7. ASSUME NEW v, v \in Range(R)
        PROVE  \E p \in P : IsZero(list[p].h) /\ IsInjective(list[p].idx) /\ v = list[p].idx
    <2>1. PICK m \in DOMAIN roots : v = R[m]
      BY <1>5, <1>7 DEF Range
    <2> QED
      BY <1>4, <1>5, <1>6, <2>1
  <1>8. ASSUME NEW v, NEW p \in P, IsZero(list[p].h), IsInjective(list[p].idx), v = list[p].idx
        PROVE  v \in Range(R)
    <2>1. p \in Range(roots)
      BY <1>2, <1>4, <1>8
    <2>2. PICK m \in DOMAIN roots : roots[m] = p
      BY <2>1 DEF Range
    <2>3. R[m] = v /\ m \in DOMAIN R
      BY <1>5, <1>8, <2>2
    <2> QED
      BY <2>3, Zenon DEF Range
  <1>9. ASSUME \A p, q \in P : list[p].idx = list[q].idx => p = q
        PROVE  IsInjective(R)
    <2> SUFFICES ASSUME NEW l \in DOMAIN roots, NEW m \in DOMAIN roots, R[l] = R[m]
                 PROVE  l = m
      BY <1>5 DEF IsInjective
    <2>1. roots[l] = roots[m]
      BY <1>4, <1>5, <1>6, <1>9
    <2> QED
      BY <1>2, <2>1 DEF IsInjective
  <1> QED
    BY <1>7, <1>8, <1>9 DEF R

\* A good list of the last round, or an empty one, gives nothing but solutions.
LEMMA RootsSolve ==
  ASSUME NEW d \in [Key -> Row], NEW r \in 1 .. K + 1, NEW list,
         GoodList(d, r, list), r > K \/ list = << >>
  PROVE  Range(RootVectors(list)) \subseteq Solutions(d)
  <1>1. K \in Nat
    BY KAssumption
  <1>2. list \in Seq(RowAt(r))
    BY DEF GoodList
  <1> SUFFICES ASSUME NEW v \in Range(RootVectors(list))
               PROVE  v \in Solutions(d)
    OBVIOUS
  <1>3. PICK p \in DOMAIN list : IsZero(list[p].h) /\ v = list[p].idx
    BY <1>2, RootVectorsProperties
  <1>4. list # << >>
    BY <1>3
  <1>5. r = K + 1
    BY <1>1, <1>4
  <1>6. GoodRow(d, K + 1, list[p])
    BY <1>3, <1>5 DEF GoodList
  <1>7. v \in Seq(Leaf) /\ Valid(d, v)
    BY <1>3, <1>6, RootIsValid
  <1>8. v \in [1 .. 2^K -> Leaf]
    BY <1>7, LenProperties DEF Valid
  <1>9. v \in CanonicalVectors
    BY <1>7, <1>8 DEF CanonicalVectors, Valid
  <1> QED
    BY <1>7, <1>9 DEF Solutions

\* A good and complete list of the last round, or an empty one, gives exactly
\* the solutions.
LEMMA RootsAreSolutions ==
  ASSUME NEW d \in [Key -> Row], NEW r \in 1 .. K + 1, NEW list,
         GoodList(d, r, list), Complete(d, r, list), r > K \/ list = << >>
  PROVE  /\ Range(RootVectors(list)) = Solutions(d)
         /\ IsInjective(RootVectors(list))
  <1>1. K \in Nat /\ r \in Nat /\ r - 1 \in Nat /\ K - (r - 1) \in Nat
    BY KAssumption
  <1>2. list \in Seq(RowAt(r)) /\ \A p, q \in DOMAIN list : list[p].idx = list[q].idx => p = q
    BY DEF GoodList
  <1>3. /\ \A v : v \in Range(RootVectors(list)) <=>
              \E p \in DOMAIN list : IsZero(list[p].h) /\ IsInjective(list[p].idx) /\ v = list[p].idx
        /\ IsInjective(RootVectors(list))
    BY <1>2, RootVectorsProperties
  <1>4. 0 \in 0 .. 2^(K - (r - 1)) - 1
    <2>1. 2^(K - (r - 1)) \in Nat /\ 1 <= 2^(K - (r - 1))
      BY <1>1, PowerOfTwoPositive
    <2> QED
      BY <2>1
  <1>5. \A v \in Solutions(d) : \E p \in DOMAIN list : list[p].idx = Span(v, r - 1, 0)
    BY <1>4 DEF Complete
  <1>6. CASE list = << >>
    <2>1. DOMAIN list = {}
      BY <1>6
    <2>2. Solutions(d) = {}
      BY <1>5, <2>1
    <2>3. Range(RootVectors(list)) = {}
      BY <1>3, <2>1
    <2> QED
      BY <1>3, <2>2, <2>3
  <1>7. CASE r > K
    <2>1. r = K + 1 /\ r - 1 = K /\ K + 2 - r = 1
      BY <1>1, <1>7
    <2>3. ASSUME NEW v \in Solutions(d)
          PROVE  v \in Range(RootVectors(list))
      <3>1. PICK p \in DOMAIN list : list[p].idx = Span(v, K, 0)
        BY <1>5, <2>1
      <3>2. v \in [1 .. 2^K -> Leaf] /\ Valid(d, v)
        BY DEF Solutions, CanonicalVectors
      <3>3. v \in Seq(Leaf) /\ Len(v) = 2^K
        <4>1. 2^K \in Nat
          BY <1>1, PowerOfTwoType
        <4> DEFINE N == 2^K
        <4>2. N \in Nat /\ v \in [1 .. N -> Leaf]
          BY <3>2, <4>1
        <4> HIDE DEF N
        <4>3. v \in Seq(Leaf)
          BY <4>2
        <4> QED
          BY <3>2, <4>3 DEF Valid
      <3>4. list[p].idx = v
        BY <1>1, <3>1, <3>3, SpanWhole
      <3>5. list[p] \in RowAt(r) /\ IsXor(d, r - 1, list[p])
        BY DEF GoodList, GoodRow
      <3>6. DOMAIN list[p].h = {1}
        <4>1. DOMAIN list[p].h = 1 .. K + 2 - r
          BY <3>5 DEF RowAt
        <4>2. 1 .. K + 2 - r = {1}
          BY <1>1, <2>1
        <4> QED
          BY <4>1, <4>2
      <3>7. list[p].h[1] = XorOfLeaves(d, Range(v), 1 + K)
        BY <2>1, <3>4, <3>5, <3>6 DEF IsXor
      <3>8. 1 + K = K + 1 /\ K + 1 \in 1 .. K + 1
        BY <1>1
      <3>9. list[p].h[1] = {}
        BY <3>2, <3>7, <3>8 DEF Valid
      <3>10. IsZero(list[p].h) /\ IsInjective(list[p].idx)
        BY <3>2, <3>4, <3>6, <3>9 DEF IsZero, Valid
      <3> QED
        BY <1>3, <3>4, <3>10
    <2>2. Range(RootVectors(list)) \subseteq Solutions(d)
      BY RootsSolve
    <2> QED
      BY <1>3, <2>2, <2>3
  <1> QED
    BY <1>6, <1>7

=============================================================================
