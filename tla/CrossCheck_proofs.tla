--------------------------- MODULE CrossCheck_proofs ---------------------------
(***************************************************************************)
(* For every request, solution and digest: the two loops of the codec move *)
(* a stream of bits without losing one, stay inside their buffers and      *)
(* leave exactly the stream regrouped, in the accumulators of both         *)
(* languages.  From that the cross-check passes and fails the files it     *)
(* should, and the ranges of n_bounds are those Params::new accepts.       *)
(***************************************************************************)
EXTENDS CrossCheck, FiniteSets, FiniteSetTheorems, SequenceTheorems, TLAPS

-----------------------------------------------------------------------------
(* Numbers and words.                                                      *)

\* Division with remainder is unique.
LEMMA DivisionUnique ==
  ASSUME NEW W \in Nat \ {0}, NEW q \in Nat, NEW r \in 0 .. W - 1
  PROVE  (q * W + r) \div W = q /\ (q * W + r) % W = r
  <1>1. (q * W + r) \div W = q
    BY SMT
  <1>2. (q * W + r) % W = r
    BY SMT
  <1> QED
    BY <1>1, <1>2

\* What division with remainder is.
LEMMA Division ==
  ASSUME NEW a \in Nat, NEW d \in Nat \ {0}
  PROVE  /\ a \div d \in Nat /\ a % d \in 0 .. d - 1
         /\ a = (a \div d) * d + (a % d)
  BY SMT

\* A multiple that fits below a number is counted in its quotient.
LEMMA QuotientBound ==
  ASSUME NEW a \in Nat, NEW d \in Nat \ {0}, NEW q \in Nat
  PROVE  q * d <= a <=> q <= a \div d
  <1>1. /\ a \div d \in Nat /\ a % d \in 0 .. d - 1
        /\ a = (a \div d) * d + (a % d)
    BY Division
  <1> DEFINE e == a \div d
             r == a % d
  <1> HIDE DEF e, r
  <1>2. e \in Nat /\ r \in 0 .. d - 1 /\ a = e * d + r
    BY <1>1 DEF e, r
  <1>3. ASSUME q <= e
        PROVE  q * d <= a
    <2>1. q * d <= e * d
      BY <1>2, <1>3
    <2> QED
      BY <1>2, <2>1
  <1>4. ASSUME ~(q <= e)
        PROVE  ~(q * d <= a)
    <2>1. (e + 1) * d <= q * d
      BY <1>2, <1>4
    <2>2. (e + 1) * d = e * d + d
      BY <1>2
    <2> QED
      BY <1>2, <2>1, <2>2
  <1> QED
    BY <1>3, <1>4 DEF e

\* The bits of a word shifted up: those that stay below the width.
LEMMA ShlMember ==
  ASSUME NEW word \in SUBSET Nat, NEW s \in Nat, NEW width \in Nat
  PROVE  /\ Shl(word, s, width) \in SUBSET Nat
         /\ \A b \in Int : b \in Shl(word, s, width) <=> b < width /\ b >= s /\ b - s \in word
  <1>1. ASSUME NEW b \in Int, b < width, b >= s, b - s \in word
        PROVE  b \in Shl(word, s, width)
    <2>1. b = (b - s) + s /\ b \in 0 .. width - 1
      BY <1>1
    <2> QED
      BY <1>1, <2>1 DEF Shl
  <1>2. ASSUME NEW b \in Shl(word, s, width)
        PROVE  b \in Nat /\ b < width /\ b >= s /\ b - s \in word
    <2>1. PICK e \in word : b = e + s
      BY DEF Shl
    <2>2. b \in 0 .. width - 1 /\ e \in Nat
      BY DEF Shl
    <2>3. b - s = e
      BY <2>1, <2>2
    <2> QED
      BY <2>1, <2>2, <2>3
  <1> QED
    BY <1>1, <1>2

\* The bits of a word shifted down.
LEMMA ShrMember ==
  ASSUME NEW word \in SUBSET Nat, NEW s \in Nat
  PROVE  /\ Shr(word, s) \in SUBSET Nat
         /\ \A b \in Int : b \in Shr(word, s) <=> b >= 0 /\ b + s \in word
  <1>1. ASSUME NEW b \in Int, b >= 0, b + s \in word
        PROVE  b \in Shr(word, s)
    <2> DEFINE e == b + s
    <2>1. b = e - s /\ e >= s /\ e \in word
      BY <1>1
    <2> HIDE DEF e
    <2> QED
      BY <2>1 DEF Shr
  <1>2. ASSUME NEW b \in Shr(word, s)
        PROVE  b \in Nat /\ b + s \in word
    <2>1. PICK e \in word : e >= s /\ b = e - s
      BY DEF Shr
    <2>2. e \in Nat /\ b + s = e
      BY <2>1
    <2> QED
      BY <2>1, <2>2
  <1> QED
    BY <1>1, <1>2

-----------------------------------------------------------------------------
(* A call, apart from the state it is in.                                  *)

\* Width and Below of a call.
WidthOf(c)    == ByteWidth(c.bitLen) + c.pad
BelowOf(c, x) == 8 * (WidthOf(c) - x - 1)

\* The group of bytes at from, as one number.
GroupOf(c, from) ==
  UNION {Shl(c.input[from + x + 1] \cap Shr(0 .. c.bitLen - 1, BelowOf(c, x)), BelowOf(c, x), 32) :
         x \in c.pad .. WidthOf(c) - 1}

\* Byte x of a group, cut out of the accumulator.
CutOf(c, word, low, x) ==
  IF x < c.pad
  THEN {}
  ELSE Shr(word, low + BelowOf(c, x)) \cap Shr(0 .. c.bitLen - 1, BelowOf(c, x)) \cap LowByte

\* The t-th bit of the stream the call moves.
BitOf(c, t) ==
  IF c.op = "compress"
  THEN c.bitLen - 1 - (t % c.bitLen) \in GroupOf(c, (t \div c.bitLen) * WidthOf(c))
  ELSE 7 - (t % 8) \in c.input[(t \div 8) + 1]

\* They are those of the call under way.
LEMMA OfCall ==
  /\ Width = WidthOf(call)
  /\ \A x : Below(x) = BelowOf(call, x)
  /\ \A from : Group(call.input, from) = GroupOf(call, from)
  /\ \A word, low, x : Cut(word, low, x) = CutOf(call, word, low, x)
  /\ \A t : StreamBit(t) <=> BitOf(call, t)
  <1>1. Width = WidthOf(call)
    BY DEF Width, WidthOf
  <1>2. \A x : Below(x) = BelowOf(call, x)
    BY DEF Below, BelowOf, Width, WidthOf
  <1>3. \A from : Group(call.input, from) = GroupOf(call, from)
    BY DEF Group, GroupOf, Mask, Below, BelowOf, Width, WidthOf
  <1>4. \A word, low, x : Cut(word, low, x) = CutOf(call, word, low, x)
    BY DEF Cut, CutOf, Mask, Below, BelowOf, Width, WidthOf
  <1>5. \A t : StreamBit(t) <=> BitOf(call, t)
    BY <1>1, <1>3 DEF StreamBit, BitOf, Compressing
  <1> QED
    BY <1>1, <1>2, <1>3, <1>4, <1>5

\* The calls that are made: segments and indices of 8 to 26 bits in at most four
\* bytes, a buffer of the length the stream needs.
Shape(c) ==
  /\ c.op \in {"idle", "compress", "expand"}
  /\ c.impl \in Impls
  /\ c.bitLen \in 8 .. 26
  /\ c.pad \in Nat
  /\ WidthOf(c) <= 4
  /\ c.input \in Seq(Byte)
  /\ c.outLen \in Nat
  /\ c.op = "compress" =>
       \E groups \in Nat : Len(c.input) = groups * WidthOf(c) /\ c.outLen = (groups * c.bitLen) \div 8
  /\ c.op = "expand" => c.outLen \div WidthOf(c) = (8 * Len(c.input)) \div c.bitLen

\* Its numbers.
LEMMA ShapeNumbers ==
  ASSUME NEW c, Shape(c)
  PROVE  /\ WidthOf(c) \in 1 .. 4 /\ c.pad \in 0 .. 3 /\ c.bitLen \in 8 .. 26
         /\ WidthOf(c) - c.pad = ByteWidth(c.bitLen)
         /\ c.bitLen <= 8 * ByteWidth(c.bitLen)
         /\ ByteWidth(c.bitLen) \in 1 .. 4
         /\ AccWidth(c.impl) \in Nat /\ AccWidth(c.impl) >= 32
         /\ 0 .. c.bitLen - 1 \in SUBSET Nat
         /\ Len(c.input) \in Nat /\ c.outLen \in Nat
  <1> DEFINE L == c.bitLen
             P == c.pad
             W == WidthOf(c)
             B == ByteWidth(L)
  <1>1. L \in 8 .. 26 /\ P \in Nat /\ W <= 4 /\ c.impl \in Impls
    BY DEF Shape
  <1>2. W = B + P
    BY DEF WidthOf
  <1>3. B = (L + 7) \div 8
    BY DEF ByteWidth
  <1>4. c.outLen \in Nat /\ c.input \in Seq(Byte) /\ Len(c.input) \in Nat
    BY LenProperties DEF Shape
  <1>5. AccWidth(c.impl) \in Nat /\ AccWidth(c.impl) >= 32
    BY <1>1 DEF AccWidth, Impls
  <1> HIDE DEF L, P, W, B
  <1>6. B \in 1 .. 4 /\ L <= 8 * B
    BY <1>1, <1>3
  <1>7. W \in 1 .. 4 /\ P \in 0 .. 3 /\ W - P = B
    BY <1>1, <1>2, <1>6
  <1>8. 0 .. L - 1 \in SUBSET Nat
    BY <1>1
  <1> QED
    BY <1>1, <1>4, <1>5, <1>6, <1>7, <1>8 DEF L, P, W, B

\* The bytes below a byte of a group.
LEMMA BelowNumbers ==
  ASSUME NEW c, Shape(c), NEW x \in 0 .. WidthOf(c) - 1
  PROVE  BelowOf(c, x) \in Nat /\ BelowOf(c, x) <= 24
  BY ShapeNumbers DEF BelowOf

\* A bit of a group is below the length of groups.
LEMMA GroupBits ==
  ASSUME NEW c, Shape(c), NEW from
  PROVE  GroupOf(c, from) \in SUBSET (0 .. c.bitLen - 1)
  <1> SUFFICES ASSUME NEW b \in GroupOf(c, from)
               PROVE  b \in 0 .. c.bitLen - 1
    OBVIOUS
  <1> DEFINE M == 0 .. c.bitLen - 1
             w(x) == c.input[from + x + 1] \cap Shr(M, BelowOf(c, x))
  <1>1. PICK x \in c.pad .. WidthOf(c) - 1 : b \in Shl(w(x), BelowOf(c, x), 32)
    BY DEF GroupOf
  <1>2. M \in SUBSET Nat
    BY ShapeNumbers
  <1>3. BelowOf(c, x) \in Nat
    <2>1. x \in 0 .. WidthOf(c) - 1
      BY ShapeNumbers
    <2> QED
      BY <2>1, BelowNumbers
  <1> DEFINE l == BelowOf(c, x)
  <1> HIDE DEF M, l
  <1>4. Shr(M, l) \in SUBSET Nat /\ \A e \in Int : e \in Shr(M, l) <=> e >= 0 /\ e + l \in M
    BY <1>2, <1>3, ShrMember DEF l
  <1>5. w(x) \in SUBSET Nat /\ w(x) \in SUBSET Shr(M, l)
    BY <1>4 DEF l
  <1> HIDE DEF w
  <1>6. b \in Nat /\ b - l \in w(x)
    BY <1>1, <1>3, <1>5, ShlMember DEF l
  <1>7. (b - l) + l \in M
    BY <1>4, <1>5, <1>6
  <1>8. (b - l) + l = b
    BY <1>3, <1>6 DEF l
  <1> QED
    BY <1>7, <1>8 DEF M

\* Where the bits of a group lie in the stream, and those of a byte.
LEMMA BitOfGroup ==
  ASSUME NEW c, Shape(c), c.op = "compress", NEW g \in Nat, NEW b \in 0 .. c.bitLen - 1
  PROVE  BitOf(c, (g + 1) * c.bitLen - 1 - b) <=> b \in GroupOf(c, g * WidthOf(c))
  <1> DEFINE L == c.bitLen
             r == L - 1 - b
             t == (g + 1) * L - 1 - b
  <1>0. L \in 8 .. 26 /\ b \in 0 .. L - 1
    BY ShapeNumbers
  <1> HIDE DEF L
  <1>1. L \in Nat \ {0} /\ r \in 0 .. L - 1 /\ L - 1 - r = b
    BY <1>0
  <1>2. t = g * L + r
    <2>1. (g + 1) * L = g * L + L /\ g * L \in Int
      BY <1>0
    <2> QED
      BY <1>0, <2>1
  <1> HIDE DEF r, t
  <1>3. t \div L = g /\ t % L = r
    BY <1>1, <1>2, DivisionUnique
  <1>4. BitOf(c, t) <=> L - 1 - r \in GroupOf(c, g * WidthOf(c))
    BY <1>3 DEF BitOf, L
  <1> QED
    BY <1>1, <1>4 DEF t, L

\* Likewise where the bits of a byte read lie.
LEMMA BitOfByte ==
  ASSUME NEW c, c.op # "compress", NEW n \in Nat, NEW b \in 0 .. 7
  PROVE  BitOf(c, 8 * (n + 1) - 1 - b) <=> b \in c.input[n + 1]
  <1> DEFINE t == 8 * (n + 1) - 1 - b
  <1>1. t \div 8 = n /\ 7 - (t % 8) = b
    OBVIOUS
  <1> HIDE DEF t
  <1>2. BitOf(c, t) <=> b \in c.input[n + 1]
    BY <1>1 DEF BitOf
  <1> QED
    BY <1>2 DEF t

-----------------------------------------------------------------------------
(* The loop, between two iterations: n of them done, g groups moved, a     *)
(* bits held in word.                                                      *)

\* Bits read, bits handed out, and the bits the last iteration worked on.
ReadOf(c, n, g)  == IF c.op = "compress" THEN g * c.bitLen ELSE 8 * n
GivenOf(c, n, g) == IF c.op = "compress" THEN 8 * n ELSE g * c.bitLen
HeldOf(c, n, a)  ==
  IF n = 0 THEN 0
  ELSE IF c.op = "compress" THEN a + 8
  ELSE IF a < 8 THEN a + c.bitLen
  ELSE a

\* The lowest h bits of the word are the last h bits before upto in the stream.
Holds(c, word, upto, h) ==
  \A b \in 0 .. h - 1 : b \in word <=> BitOf(c, upto - 1 - b)

\* The t-th byte of the stream.
ByteOf(c, t) == {b \in LowByte : BitOf(c, 8 * t - 1 - b)}

\* Byte x of its m-th group.
CellOf(c, m, x) ==
  IF x < c.pad
  THEN {}
  ELSE {b \in LowByte : /\ b + BelowOf(c, x) \in 0 .. c.bitLen - 1
                        /\ BitOf(c, (m + 1) * c.bitLen - 1 - (b + BelowOf(c, x)))}

\* What is written so far is the stream so far.
Written(c, n, g, buf) ==
  /\ buf \in [1 .. c.outLen -> Byte]
  /\ c.op = "compress" => \A t \in 1 .. n : buf[t] = ByteOf(c, t)
  /\ c.op = "expand" =>
       \A m \in 0 .. g - 1, x \in 0 .. WidthOf(c) - 1 :
         buf[m * WidthOf(c) + x + 1] = CellOf(c, m, x)

\* How far the loop is.
Counts(c, n, g, a) ==
  /\ n \in Nat /\ g \in Nat /\ a \in Nat
  /\ a = ReadOf(c, n, g) - GivenOf(c, n, g)
  /\ a < c.bitLen
  /\ n = 0 => a = 0
  /\ c.op = "idle" => n = 0
  /\ c.op = "compress" => n <= c.outLen
  /\ c.op = "expand" => n <= Len(c.input)

\* The state between two iterations.
LoopAt(c, n, g, a, word, buf) ==
  /\ Counts(c, n, g, a)
  /\ word \in SUBSET Nat
  /\ Holds(c, word, ReadOf(c, n, g), HeldOf(c, n, a))
  /\ Written(c, n, g, buf)

\* The loop invariant.
LoopInv ==
  /\ Shape(call)
  /\ \E g \in Nat : j = g * WidthOf(call) /\ LoopAt(call, i, g, accBits, acc, out)

\* A group loaded: the bits held and those of the group, and no bit shifted out.
LEMMA LoadGroup ==
  ASSUME NEW c, Shape(c), c.op = "compress", NEW word \in SUBSET Nat, NEW g \in Nat,
         NEW a \in Nat, Holds(c, word, g * c.bitLen, a), a + c.bitLen <= 32
  PROVE  LET held == Shl(word, c.bitLen, AccWidth(c.impl)) \cup GroupOf(c, g * WidthOf(c))
         IN  held \in SUBSET Nat /\ Holds(c, held, (g + 1) * c.bitLen, a + c.bitLen)
  <1> DEFINE L == c.bitLen
             A == AccWidth(c.impl)
             S == Shl(word, L, A)
             G == GroupOf(c, g * WidthOf(c))
  <1>1. L \in 8 .. 26 /\ A \in Nat /\ A >= 32
    BY ShapeNumbers
  <1>2. S \in SUBSET Nat /\ \A b \in Int : b \in S <=> b < A /\ b >= L /\ b - L \in word
    <2>1. L \in Nat /\ A \in Nat
      BY <1>1
    <2> HIDE DEF L, A
    <2> QED
      BY <2>1, ShlMember
  <1>3. G \in SUBSET (0 .. L - 1)
    BY GroupBits
  <1>4. \A b \in 0 .. L - 1 : BitOf(c, (g + 1) * L - 1 - b) <=> b \in G
    BY BitOfGroup
  <1>5. \A b \in 0 .. a - 1 : b \in word <=> BitOf(c, g * L - 1 - b)
    BY DEF Holds
  <1> HIDE DEF L, A, S, G
  <1>6. (g + 1) * L = g * L + L /\ g * L \in Int
    BY <1>1
  <1>7. ASSUME NEW b \in 0 .. (a + L) - 1
        PROVE  b \in S \cup G <=> BitOf(c, (g + 1) * L - 1 - b)
    <2>1. CASE b < L
      <3>1. b \in 0 .. L - 1 /\ b \notin S
        BY <1>1, <1>2, <2>1
      <3> QED
        BY <1>4, <3>1
    <2>2. CASE ~(b < L)
      <3> DEFINE e == b - L
      <3>1. e \in 0 .. a - 1 /\ b < A /\ b >= L /\ b \notin G
        BY <1>1, <1>3, <2>2 DEF L
      <3>2. (g + 1) * L - 1 - b = g * L - 1 - e
        BY <1>1, <1>6
      <3> HIDE DEF e
      <3>3. b \in S <=> e \in word
        BY <1>2, <3>1 DEF e
      <3> QED
        BY <1>5, <3>1, <3>2, <3>3
    <2> QED
      BY <2>1, <2>2
  <1>8. S \cup G \in SUBSET Nat
    BY <1>1, <1>2, <1>3
  <1>9. Holds(c, S \cup G, (g + 1) * L, a + L)
    BY <1>7 DEF Holds
  <1> QED
    BY <1>8, <1>9 DEF L, A, S, G

\* A byte pushed: likewise.
LEMMA PushByte ==
  ASSUME NEW c, Shape(c), c.op = "expand", NEW word \in SUBSET Nat, NEW n \in Nat,
         n < Len(c.input), NEW a \in Nat, Holds(c, word, 8 * n, a), a + 8 <= 32
  PROVE  LET held == Shl(word, 8, AccWidth(c.impl)) \cup c.input[n + 1]
         IN  held \in SUBSET Nat /\ Holds(c, held, 8 * (n + 1), a + 8)
  <1> DEFINE A == AccWidth(c.impl)
             S == Shl(word, 8, A)
             B == c.input[n + 1]
  <1>1. A \in Nat /\ A >= 32
    BY ShapeNumbers
  <1>2. S \in SUBSET Nat /\ \A b \in Int : b \in S <=> b < A /\ b >= 8 /\ b - 8 \in word
    BY <1>1, ShlMember
  <1>3. B \in SUBSET (0 .. 7)
    <2>1. c.input \in Seq(Byte) /\ n + 1 \in 1 .. Len(c.input)
      BY ShapeNumbers DEF Shape
    <2> QED
      BY <2>1, ElementOfSeq DEF Byte
  <1>4. \A b \in 0 .. 7 : BitOf(c, 8 * (n + 1) - 1 - b) <=> b \in B
    BY BitOfByte
  <1>5. \A b \in 0 .. a - 1 : b \in word <=> BitOf(c, 8 * n - 1 - b)
    BY DEF Holds
  <1> HIDE DEF A, S, B
  <1>7. ASSUME NEW b \in 0 .. (a + 8) - 1
        PROVE  b \in S \cup B <=> BitOf(c, 8 * (n + 1) - 1 - b)
    <2>1. CASE b < 8
      <3>1. b \in 0 .. 7 /\ b \notin S
        BY <1>2, <2>1
      <3> QED
        BY <1>4, <3>1
    <2>2. CASE ~(b < 8)
      <3> DEFINE e == b - 8
      <3>1. e \in 0 .. a - 1 /\ b < A /\ b >= 8 /\ b \notin B
        BY <1>1, <1>3, <2>2
      <3>2. 8 * (n + 1) - 1 - b = 8 * n - 1 - e
        OBVIOUS
      <3> HIDE DEF e
      <3>3. b \in S <=> e \in word
        BY <1>2, <3>1 DEF e
      <3> QED
        BY <1>5, <3>1, <3>2, <3>3
    <2> QED
      BY <2>1, <2>2
  <1>8. S \cup B \in SUBSET Nat
    BY <1>2, <1>3
  <1>9. Holds(c, S \cup B, 8 * (n + 1), a + 8)
    BY <1>7 DEF Holds
  <1> QED
    BY <1>8, <1>9 DEF A, S, B

\* The highest 8 of the bits held are the next byte of the stream.
LEMMA ByteGiven ==
  ASSUME NEW c, NEW word \in SUBSET Nat, NEW n \in Nat, NEW low \in Nat,
         Holds(c, word, 8 * (n + 1) + low, low + 8)
  PROVE  Shr(word, low) \cap LowByte = ByteOf(c, n + 1)
  <1> DEFINE R == Shr(word, low)
  <1>1. \A b \in Int : b \in R <=> b >= 0 /\ b + low \in word
    BY ShrMember
  <1>2. \A e \in 0 .. (low + 8) - 1 : e \in word <=> BitOf(c, (8 * (n + 1) + low) - 1 - e)
    BY DEF Holds
  <1> HIDE DEF R
  <1>3. ASSUME NEW b \in 0 .. 7
        PROVE  b \in R <=> BitOf(c, 8 * (n + 1) - 1 - b)
    <2> DEFINE e == b + low
    <2>1. e \in 0 .. (low + 8) - 1 /\ (8 * (n + 1) + low) - 1 - e = 8 * (n + 1) - 1 - b
      OBVIOUS
    <2>2. b \in R <=> e \in word
      BY <1>1
    <2> HIDE DEF e
    <2> QED
      BY <1>2, <2>1, <2>2
  <1>4. \A b : b \in R \cap LowByte <=> b \in LowByte /\ BitOf(c, 8 * (n + 1) - 1 - b)
    BY <1>3 DEF LowByte
  <1>5. R \cap LowByte = {b \in LowByte : BitOf(c, 8 * (n + 1) - 1 - b)}
    BY <1>4
  <1> QED
    BY <1>5 DEF R, ByteOf

\* A byte cut out above the bits that stay is that byte of the group.
LEMMA CellGiven ==
  ASSUME NEW c, Shape(c), NEW word \in SUBSET Nat, NEW g \in Nat, NEW low \in Nat,
         Holds(c, word, (g + 1) * c.bitLen + low, low + c.bitLen), NEW x \in 0 .. WidthOf(c) - 1
  PROVE  CutOf(c, word, low, x) = CellOf(c, g, x)
  <1>1. CASE x < c.pad
    BY <1>1 DEF CutOf, CellOf
  <1>2. CASE ~(x < c.pad)
    <2> DEFINE L == c.bitLen
               l == BelowOf(c, x)
               M == 0 .. L - 1
               R == Shr(word, low + l)
               Q == Shr(M, l)
               T == (g + 1) * L
    <2>0. L \in 8 .. 26 /\ l \in Nat /\ M \in SUBSET Nat
      BY ShapeNumbers, BelowNumbers
    <2>1. L \in 8 .. 26 /\ l \in Nat /\ M \in SUBSET Nat /\ T \in Int
      <3> HIDE DEF L, l, M
      <3>1. g + 1 \in Int /\ L \in Int
        BY <2>0
      <3> QED
        BY <2>0, <3>1
    <2>2. \A e \in 0 .. (low + L) - 1 : e \in word <=> BitOf(c, (T + low) - 1 - e)
      BY DEF Holds
    <2> HIDE DEF L, l, T, R, Q
    <2>3. \A b \in Int : b \in R <=> b >= 0 /\ b + (low + l) \in word
      <3> DEFINE s == low + l
      <3>1. s \in Nat
        BY <2>1
      <3> HIDE DEF s
      <3>2. \A b \in Int : b \in Shr(word, s) <=> b >= 0 /\ b + s \in word
        BY <3>1, ShrMember
      <3> QED
        BY <3>2 DEF s, R
    <2>4. \A b \in Int : b \in Q <=> b >= 0 /\ b + l \in M
      BY <2>1, ShrMember DEF Q
    <2>5. ASSUME NEW b \in 0 .. 7
          PROVE  b \in R /\ b \in Q <=> b + l \in M /\ BitOf(c, T - 1 - (b + l))
      <3>1. b \in Q <=> b + l \in M
        BY <2>4
      <3>2. ASSUME b + l \in M
            PROVE  b \in R <=> BitOf(c, T - 1 - (b + l))
        <4> DEFINE e == b + (low + l)
        <4>1. e \in 0 .. (low + L) - 1 /\ (T + low) - 1 - e = T - 1 - (b + l)
          BY <2>1, <3>2
        <4>2. b \in R <=> e \in word
          BY <2>3
        <4> HIDE DEF e
        <4> QED
          BY <2>2, <4>1, <4>2
      <3> QED
        BY <3>1, <3>2
    <2>6. CutOf(c, word, low, x) = R \cap Q \cap LowByte
      BY <1>2 DEF CutOf, R, Q, l, L
    <2>7. CellOf(c, g, x) = {b \in LowByte : b + l \in M /\ BitOf(c, T - 1 - (b + l))}
      BY <1>2 DEF CellOf, l, L, T
    <2>8. R \cap Q \cap LowByte = {b \in LowByte : b + l \in M /\ BitOf(c, T - 1 - (b + l))}
      BY <2>5 DEF LowByte
    <2> QED
      BY <2>6, <2>7, <2>8
  <1> QED
    BY <1>1, <1>2
\* The numbers of an iteration of compress_array: a group is loaded while there are
\* any, and what is held fits 32 bits.
LEMMA CompressNumbers ==
  ASSUME NEW c, Shape(c), c.op = "compress", NEW n, NEW g, NEW a, Counts(c, n, g, a), n < c.outLen
  PROVE  /\ a < 8 => /\ (g + 1) * WidthOf(c) <= Len(c.input)
                     /\ a + c.bitLen <= 32
                     /\ Counts(c, n + 1, g + 1, a + c.bitLen - 8)
         /\ ~(a < 8) => n # 0 /\ Counts(c, n + 1, g, a - 8)
  <1> DEFINE L == c.bitLen
             W == WidthOf(c)
             o == c.outLen
             x == g * L
  <1>1. /\ n \in Nat /\ g \in Nat /\ a \in Nat /\ n < o /\ o \in Nat
        /\ L \in 8 .. 26 /\ W \in 1 .. 4 /\ Len(c.input) \in Nat
    BY ShapeNumbers DEF Counts
  <1>2. a = x - 8 * n /\ a < L /\ (n = 0 => a = 0) /\ x \in Int
    <2>1. a = x - 8 * n /\ a < L /\ (n = 0 => a = 0)
      BY DEF Counts, ReadOf, GivenOf
    <2> HIDE DEF L
    <2>2. x \in Int
      BY <1>1
    <2> QED
      BY <2>1, <2>2
  <1>3. PICK groups \in Nat : Len(c.input) = groups * W /\ o = (groups * L) \div 8
    BY DEF Shape
  <1>4. (g + 1) * L = x + L
    <2> HIDE DEF L
    <2> QED
      BY <1>1
  <1>5. ReadOf(c, n + 1, g + 1) = x + L /\ GivenOf(c, n + 1, g + 1) = 8 * (n + 1)
    BY <1>4 DEF ReadOf, GivenOf
  <1>6. ReadOf(c, n + 1, g) = x /\ GivenOf(c, n + 1, g) = 8 * (n + 1)
    BY DEF ReadOf, GivenOf
  <1> HIDE DEF L, W
  <1> DEFINE y == groups * L
  <1>7. y \in Nat /\ 8 * o <= y
    <2>1. y \in Nat
      BY <1>1
    <2> HIDE DEF y
    <2>2. o = y \div 8
      BY <1>3 DEF y
    <2> QED
      BY <2>1, <2>2
  <1>8. ASSUME a < 8
        PROVE  (g + 1) * W <= Len(c.input)
    <2>1. x < y
      <3> HIDE DEF x, y, o
      <3> QED
        BY <1>1, <1>2, <1>7, <1>8
    <2>2. g < groups
      <3> SUFFICES ASSUME groups <= g
                   PROVE  FALSE
        BY <1>1
      <3>1. groups * L <= g * L
        BY <1>1
      <3> QED
        BY <1>1, <1>2, <1>7, <2>1, <3>1
    <2>3. (g + 1) * W <= groups * W
      BY <1>1, <2>2
    <2> QED
      BY <1>3, <2>3
  <1>9. ASSUME a < 8
        PROVE  a + L <= 32
    <2>1. CASE L <= 25
      BY <1>1, <1>9, <2>1
    <2>2. CASE L = 26
      <3>1. x = 2 * (13 * g)
        BY <1>1, <2>2
      <3> HIDE DEF x
      <3>2. a # 7
        BY <1>1, <1>2, <3>1
      <3> QED
        BY <1>1, <1>9, <2>2, <3>2
    <2> QED
      BY <1>1, <2>1, <2>2
  <1> HIDE DEF o, x
  <1>10. ASSUME a < 8
         PROVE  Counts(c, n + 1, g + 1, a + L - 8)
    <2>1. /\ n + 1 \in Nat /\ g + 1 \in Nat /\ a + L - 8 \in Nat /\ n + 1 # 0
          /\ a + L - 8 = (x + L) - 8 * (n + 1) /\ a + L - 8 < L /\ n + 1 <= o
      BY <1>1, <1>2, <1>10
    <2> QED
      BY <1>5, <2>1 DEF Counts, L, o
  <1>11. ASSUME ~(a < 8)
         PROVE  n # 0 /\ Counts(c, n + 1, g, a - 8)
    <2>1. /\ n + 1 \in Nat /\ a - 8 \in Nat /\ n + 1 # 0 /\ n # 0
          /\ a - 8 = x - 8 * (n + 1) /\ a - 8 < L /\ n + 1 <= o
      BY <1>1, <1>2, <1>11
    <2> QED
      BY <1>1, <1>6, <2>1 DEF Counts, L, o
  <1> QED
    BY <1>8, <1>9, <1>10, <1>11 DEF L, W

\* Those of an iteration of expand_array: what is held fits 32 bits, and a group
\* that is complete has its place in the buffer.
LEMMA ExpandNumbers ==
  ASSUME NEW c, Shape(c), c.op = "expand", NEW n, NEW g, NEW a, Counts(c, n, g, a),
         n < Len(c.input)
  PROVE  /\ a + 8 <= 32
         /\ a + 8 >= c.bitLen => /\ (g + 1) * WidthOf(c) <= c.outLen
                                 /\ a + 8 - c.bitLen \in 0 .. 7
                                 /\ Counts(c, n + 1, g + 1, a + 8 - c.bitLen)
         /\ ~(a + 8 >= c.bitLen) => Counts(c, n + 1, g, a + 8)
  <1> DEFINE L == c.bitLen
             W == WidthOf(c)
             o == c.outLen
             x == g * L
             N == Len(c.input)
  <1>1. /\ n \in Nat /\ g \in Nat /\ a \in Nat /\ n < N /\ o \in Nat
        /\ L \in 8 .. 26 /\ W \in 1 .. 4 /\ N \in Nat
    BY ShapeNumbers DEF Counts
  <1>2. a = 8 * n - x /\ a < L /\ x \in Int
    <2>1. a = 8 * n - x /\ a < L
      BY DEF Counts, ReadOf, GivenOf
    <2> HIDE DEF L
    <2>2. x \in Int
      BY <1>1
    <2> QED
      BY <2>1, <2>2
  <1>3. o \div W = (8 * N) \div L
    BY DEF Shape
  <1>4. (g + 1) * L = x + L
    <2> HIDE DEF L
    <2> QED
      BY <1>1
  <1>5. ReadOf(c, n + 1, g + 1) = 8 * (n + 1) /\ GivenOf(c, n + 1, g + 1) = x + L
    BY <1>4 DEF ReadOf, GivenOf
  <1>6. ReadOf(c, n + 1, g) = 8 * (n + 1) /\ GivenOf(c, n + 1, g) = x
    BY DEF ReadOf, GivenOf
  <1> HIDE DEF L, W
  <1>7. a + 8 <= 32
    <2>1. CASE L <= 25
      BY <1>1, <1>2, <2>1
    <2>2. CASE L = 26
      <3>1. x = 2 * (13 * g)
        BY <1>1, <2>2
      <3> HIDE DEF x
      <3>2. a # 25
        BY <1>1, <1>2, <3>1
      <3> QED
        BY <1>1, <1>2, <2>2, <3>2
    <2> QED
      BY <1>1, <2>1, <2>2
  <1>8. ASSUME a + 8 >= L
        PROVE  (g + 1) * W <= o
    <2> DEFINE h == g + 1
               M == 8 * N
    <2>1. h * L <= M
      <3> HIDE DEF x, N
      <3> QED
        BY <1>1, <1>2, <1>4, <1>8
    <2>2. h \in Nat /\ M \in Nat /\ L \in Nat \ {0} /\ W \in Nat \ {0}
      BY <1>1
    <2> HIDE DEF h, M, o
    <2>3. h <= M \div L
      BY <2>1, <2>2, QuotientBound
    <2>4. h <= o \div W
      BY <1>3, <2>3 DEF M
    <2>5. h * W <= o
      BY <1>1, <2>2, <2>4, QuotientBound
    <2> QED
      BY <2>5 DEF h
  <1> HIDE DEF o, x, N
  <1>9. ASSUME a + 8 >= L
        PROVE  a + 8 - L \in 0 .. 7 /\ Counts(c, n + 1, g + 1, a + 8 - L)
    <2>1. /\ n + 1 \in Nat /\ g + 1 \in Nat /\ a + 8 - L \in Nat /\ n + 1 # 0
          /\ a + 8 - L = 8 * (n + 1) - (x + L) /\ a + 8 - L < L /\ n + 1 <= N
          /\ a + 8 - L \in 0 .. 7
      BY <1>1, <1>2, <1>9
    <2> QED
      BY <1>5, <2>1 DEF Counts, L, N
  <1>10. ASSUME ~(a + 8 >= L)
         PROVE  Counts(c, n + 1, g, a + 8)
    <2>1. /\ n + 1 \in Nat /\ a + 8 \in Nat /\ n + 1 # 0
          /\ a + 8 = 8 * (n + 1) - x /\ a + 8 < L /\ n + 1 <= N
      BY <1>1, <1>2, <1>10
    <2> QED
      BY <1>1, <1>6, <2>1 DEF Counts, L, N
  <1> QED
    BY <1>7, <1>8, <1>9, <1>10 DEF L, W, o

\* A byte of the stream more.
LEMMA WrittenByte ==
  ASSUME NEW c, Shape(c), c.op = "compress", NEW n \in Nat, n < c.outLen, NEW g, NEW h, NEW buf,
         Written(c, n, g, buf)
  PROVE  Written(c, n + 1, h, [buf EXCEPT ![n + 1] = ByteOf(c, n + 1)])
  <1> DEFINE e == ByteOf(c, n + 1)
             new == [buf EXCEPT ![n + 1] = e]
  <1>1. e \in Byte
    BY DEF ByteOf, LowByte, Byte
  <1>2. buf \in [1 .. c.outLen -> Byte] /\ n + 1 \in 1 .. c.outLen
    BY ShapeNumbers DEF Written
  <1>3. new \in [1 .. c.outLen -> Byte]
    BY <1>1, <1>2
  <1>4. ASSUME NEW t \in 1 .. n + 1
        PROVE  new[t] = ByteOf(c, t)
    <2>1. t \in 1 .. c.outLen
      BY ShapeNumbers
    <2>2. CASE t = n + 1
      <3>1. new[n + 1] = e
        BY <1>2
      <3> QED
        BY <2>2, <3>1
    <2>3. CASE t # n + 1
      <3>1. t \in 1 .. n /\ new[t] = buf[t]
        BY <1>2, <2>1, <2>3
      <3> QED
        BY <3>1 DEF Written
    <2> QED
      BY <2>2, <2>3
  <1> HIDE DEF e, new
  <1>5. Written(c, n + 1, h, new)
    BY <1>3, <1>4 DEF Written
  <1> QED
    BY <1>5 DEF new, e

\* A buffer in which the bytes of group g are those of f.
Filled(c, g, buf, f) ==
  [t \in DOMAIN buf |->
     IF t - 1 \in g * WidthOf(c) .. g * WidthOf(c) + WidthOf(c) - 1
     THEN f[t - 1 - g * WidthOf(c)] ELSE buf[t]]

\* A group of the stream more.
LEMMA WrittenGroup ==
  ASSUME NEW c, Shape(c), c.op = "expand", NEW n, NEW g \in Nat, NEW buf, NEW f,
         (g + 1) * WidthOf(c) <= c.outLen, Written(c, n, g, buf),
         \A x \in 0 .. WidthOf(c) - 1 : f[x] = CellOf(c, g, x)
  PROVE  Written(c, n + 1, g + 1, Filled(c, g, buf, f))
  <1> DEFINE W == WidthOf(c)
             k == g * W
             new == [t \in DOMAIN buf |-> IF t - 1 \in k .. k + W - 1 THEN f[t - 1 - k] ELSE buf[t]]
  <1>1. W \in 1 .. 4 /\ k \in Nat /\ c.outLen \in Nat
    BY ShapeNumbers
  <1>2. k + W <= c.outLen
    <2>1. (g + 1) * W = k + W
      BY <1>1
    <2> QED
      BY <2>1
  <1>3. buf \in [1 .. c.outLen -> Byte] /\ DOMAIN buf = 1 .. c.outLen
    BY DEF Written
  <1>4. \A x \in 0 .. W - 1 : f[x] = CellOf(c, g, x) /\ f[x] \in Byte
    BY DEF CellOf, LowByte, Byte
  <1>5. \A m \in 0 .. g - 1, x \in 0 .. W - 1 : buf[m * W + x + 1] = CellOf(c, m, x)
    BY DEF Written
  <1>6. \A m \in 0 .. g - 1 : m * W \in Nat /\ m * W + W <= k
    <2> SUFFICES ASSUME NEW m \in 0 .. g - 1
                 PROVE  m * W \in Nat /\ m * W + W <= k
      OBVIOUS
    <2>1. m * W \in Nat /\ (m + 1) * W = m * W + W
      BY <1>1
    <2>2. (m + 1) * W <= g * W
      BY <1>1
    <2> QED
      BY <2>1, <2>2
  <1> HIDE DEF W, k
  <1>7. new \in [1 .. c.outLen -> Byte]
    <2>1. ASSUME NEW t \in 1 .. c.outLen
          PROVE  (IF t - 1 \in k .. k + W - 1 THEN f[t - 1 - k] ELSE buf[t]) \in Byte
      <3>1. CASE t - 1 \in k .. k + W - 1
        <4>1. t - 1 - k \in 0 .. W - 1
          BY <1>1, <3>1
        <4> QED
          BY <1>4, <3>1, <4>1
      <3>2. CASE t - 1 \notin k .. k + W - 1
        BY <1>3, <3>2
      <3> QED
        BY <3>1, <3>2
    <2> QED
      BY <1>3, <2>1
  <1>8. ASSUME NEW m \in 0 .. (g + 1) - 1, NEW x \in 0 .. W - 1
        PROVE  new[m * W + x + 1] = CellOf(c, m, x)
    <2> DEFINE t == m * W + x + 1
    <2>1. CASE m = g
      <3>1. t - 1 = k + x /\ t \in 1 .. c.outLen /\ t - 1 \in k .. k + W - 1 /\ t - 1 - k = x
        BY <1>1, <1>2, <2>1 DEF k
      <3> HIDE DEF t
      <3>2. new[t] = f[x]
        BY <1>3, <3>1
      <3> QED
        BY <1>4, <2>1, <3>2 DEF t
    <2>2. CASE m # g
      <3>1. m \in 0 .. g - 1
        BY <2>2
      <3>2. m * W \in Nat /\ m * W + W <= k
        BY <1>6, <3>1
      <3>3. t \in 1 .. c.outLen /\ t - 1 \notin k .. k + W - 1
        BY <1>1, <1>2, <3>2
      <3> HIDE DEF t
      <3>4. new[t] = buf[t]
        BY <1>3, <3>3
      <3> QED
        BY <1>5, <3>1, <3>4 DEF t
    <2> QED
      BY <2>1, <2>2
  <1> HIDE DEF new
  <1>9. Written(c, n + 1, g + 1, new)
    BY <1>7, <1>8 DEF Written, W
  <1> QED
    BY <1>9 DEF new, k, W, Filled
\* Of the bits held, the lowest.
LEMMA HoldsFewer ==
  ASSUME NEW c, NEW word, NEW upto, NEW h \in Int, NEW l \in Int, l <= h, Holds(c, word, upto, h)
  PROVE  Holds(c, word, upto, l)
  BY DEF Holds

\* The bits that count as held are held.
LEMMA HoldsBits ==
  ASSUME NEW c, Shape(c), NEW n, NEW g, NEW a, NEW word, NEW buf, LoopAt(c, n, g, a, word, buf)
  PROVE  a \in Nat /\ Holds(c, word, ReadOf(c, n, g), a)
  <1> DEFINE L == c.bitLen
  <1>1. a \in Nat /\ (n = 0 => a = 0) /\ L \in 8 .. 26
    BY ShapeNumbers DEF LoopAt, Counts
  <1>2. HeldOf(c, n, a) = IF n = 0 THEN 0
                         ELSE IF c.op = "compress" THEN a + 8
                         ELSE IF a < 8 THEN a + L
                         ELSE a
    BY DEF HeldOf
  <1> HIDE DEF L
  <1>3. a <= HeldOf(c, n, a) /\ HeldOf(c, n, a) \in Int
    BY <1>1, <1>2
  <1> QED
    BY <1>1, <1>3, HoldsFewer DEF LoopAt

\* An iteration of compress_array that loads a group.
LEMMA CompressLoads ==
  ASSUME NEW c, Shape(c), c.op = "compress", NEW n, NEW g, NEW a, NEW word, NEW buf,
         LoopAt(c, n, g, a, word, buf), n < c.outLen, a < 8
  PROVE  LET held == Shl(word, c.bitLen, AccWidth(c.impl)) \cup GroupOf(c, g * WidthOf(c))
             bits == a + c.bitLen - 8
         IN  LoopAt(c, n + 1, g + 1, bits, held,
                    [buf EXCEPT ![n + 1] = Shr(held, bits) \cap LowByte])
  <1> DEFINE L == c.bitLen
             held == Shl(word, L, AccWidth(c.impl)) \cup GroupOf(c, g * WidthOf(c))
             bits == a + L - 8
             new == [buf EXCEPT ![n + 1] = Shr(held, bits) \cap LowByte]
  <1>1. /\ Counts(c, n, g, a) /\ word \in SUBSET Nat /\ Written(c, n, g, buf)
        /\ n \in Nat /\ g \in Nat /\ a \in Nat /\ L \in 8 .. 26
    BY ShapeNumbers DEF LoopAt, Counts
  <1>2. a + L <= 32 /\ Counts(c, n + 1, g + 1, bits)
    BY <1>1, CompressNumbers
  <1>3. Holds(c, word, g * L, a)
    <2>1. ReadOf(c, n, g) = g * L
      BY DEF ReadOf
    <2> QED
      BY <2>1, HoldsBits
  <1>4. held \in SUBSET Nat /\ Holds(c, held, (g + 1) * L, a + L)
    BY <1>1, <1>2, <1>3, LoadGroup
  <1>5. /\ bits \in Nat /\ bits + 8 = a + L
        /\ (g + 1) * L = 8 * (n + 1) + bits
    <2>1. bits \in Nat /\ bits = (g + 1) * L - 8 * (n + 1)
      BY <1>2 DEF Counts, ReadOf, GivenOf
    <2>2. (g + 1) * L \in Int
      BY <1>1
    <2> QED
      BY <1>1, <2>1, <2>2
  <1> HIDE DEF held, bits
  <1>6. Holds(c, held, 8 * (n + 1) + bits, bits + 8)
    BY <1>4, <1>5
  <1>7. Shr(held, bits) \cap LowByte = ByteOf(c, n + 1)
    BY <1>1, <1>4, <1>5, <1>6, ByteGiven
  <1>8. Written(c, n + 1, g + 1, new)
    BY <1>1, <1>7, WrittenByte
  <1>9. ReadOf(c, n + 1, g + 1) = (g + 1) * L /\ HeldOf(c, n + 1, bits) = bits + 8
    BY <1>1 DEF ReadOf, HeldOf
  <1> HIDE DEF new
  <1>10. LoopAt(c, n + 1, g + 1, bits, held, new)
    BY <1>2, <1>4, <1>5, <1>8, <1>9 DEF LoopAt
  <1> QED
    BY <1>10 DEF new, held, bits, L

\* An iteration of compress_array that hands out bits already held.
LEMMA CompressKeeps ==
  ASSUME NEW c, Shape(c), c.op = "compress", NEW n, NEW g, NEW a, NEW word, NEW buf,
         LoopAt(c, n, g, a, word, buf), n < c.outLen, ~(a < 8)
  PROVE  LoopAt(c, n + 1, g, a - 8, word,
                [buf EXCEPT ![n + 1] = Shr(word, a - 8) \cap LowByte])
  <1> DEFINE L == c.bitLen
             bits == a - 8
             new == [buf EXCEPT ![n + 1] = Shr(word, bits) \cap LowByte]
  <1>1. /\ Counts(c, n, g, a) /\ word \in SUBSET Nat /\ Written(c, n, g, buf)
        /\ n \in Nat /\ g \in Nat /\ a \in Nat /\ L \in 8 .. 26
    BY ShapeNumbers DEF LoopAt, Counts
  <1>2. Counts(c, n + 1, g, bits)
    BY <1>1, CompressNumbers
  <1>3. Holds(c, word, g * L, a)
    <2>1. ReadOf(c, n, g) = g * L
      BY DEF ReadOf
    <2> QED
      BY <2>1, HoldsBits
  <1>5. bits \in Nat /\ bits + 8 = a /\ g * L = 8 * (n + 1) + bits
    <2>1. bits \in Nat /\ bits = g * L - 8 * (n + 1)
      BY <1>2 DEF Counts, ReadOf, GivenOf
    <2>2. g * L \in Int
      BY <1>1
    <2> QED
      BY <1>1, <2>1, <2>2
  <1> HIDE DEF bits
  <1>6. Holds(c, word, 8 * (n + 1) + bits, bits + 8)
    BY <1>3, <1>5
  <1>7. Shr(word, bits) \cap LowByte = ByteOf(c, n + 1)
    BY <1>1, <1>5, <1>6, ByteGiven
  <1>8. Written(c, n + 1, g, new)
    BY <1>1, <1>7, WrittenByte
  <1>9. ReadOf(c, n + 1, g) = g * L /\ HeldOf(c, n + 1, bits) = bits + 8
    BY <1>1 DEF ReadOf, HeldOf
  <1> HIDE DEF new
  <1>10. LoopAt(c, n + 1, g, bits, word, new)
    BY <1>1, <1>2, <1>3, <1>5, <1>8, <1>9 DEF LoopAt
  <1> QED
    BY <1>10 DEF new, bits

\* An iteration of expand_array whose byte does not complete a group.
LEMMA ExpandKeeps ==
  ASSUME NEW c, Shape(c), c.op = "expand", NEW n, NEW g, NEW a, NEW word, NEW buf,
         LoopAt(c, n, g, a, word, buf), n < Len(c.input), ~(a + 8 >= c.bitLen)
  PROVE  LoopAt(c, n + 1, g, a + 8, Shl(word, 8, AccWidth(c.impl)) \cup c.input[n + 1], buf)
  <1> DEFINE held == Shl(word, 8, AccWidth(c.impl)) \cup c.input[n + 1]
  <1>1. /\ Counts(c, n, g, a) /\ word \in SUBSET Nat /\ Written(c, n, g, buf)
        /\ n \in Nat /\ g \in Nat /\ a \in Nat /\ c.bitLen \in 8 .. 26
    BY ShapeNumbers DEF LoopAt, Counts
  <1>2. a + 8 <= 32 /\ Counts(c, n + 1, g, a + 8)
    BY <1>1, ExpandNumbers
  <1>3. Holds(c, word, 8 * n, a)
    <2>1. ReadOf(c, n, g) = 8 * n
      BY DEF ReadOf
    <2> QED
      BY <2>1, HoldsBits
  <1>4. held \in SUBSET Nat /\ Holds(c, held, 8 * (n + 1), a + 8)
    BY <1>1, <1>2, <1>3, PushByte
  <1>5. ReadOf(c, n + 1, g) = 8 * (n + 1) /\ HeldOf(c, n + 1, a + 8) = a + 8
    BY <1>1 DEF ReadOf, HeldOf
  <1>6. Written(c, n + 1, g, buf)
    BY <1>1 DEF Written
  <1> HIDE DEF held
  <1>7. LoopAt(c, n + 1, g, a + 8, held, buf)
    BY <1>2, <1>4, <1>5, <1>6 DEF LoopAt
  <1> QED
    BY <1>7 DEF held

\* A buffer into which group g is cut from above the low bits of a word.
CutInto(c, g, word, low, buf) ==
  [t \in DOMAIN buf |->
     IF t - 1 \in g * WidthOf(c) .. g * WidthOf(c) + WidthOf(c) - 1
     THEN CutOf(c, word, low, t - 1 - g * WidthOf(c)) ELSE buf[t]]

\* An iteration of expand_array whose byte does.
LEMMA ExpandCuts ==
  ASSUME NEW c, Shape(c), c.op = "expand", NEW n, NEW g, NEW a, NEW word, NEW buf,
         LoopAt(c, n, g, a, word, buf), n < Len(c.input), a + 8 >= c.bitLen
  PROVE  LET held == Shl(word, 8, AccWidth(c.impl)) \cup c.input[n + 1]
             bits == a + 8 - c.bitLen
         IN  LoopAt(c, n + 1, g + 1, bits, held, CutInto(c, g, held, bits, buf))
  <1> DEFINE L == c.bitLen
             W == WidthOf(c)
             from == g * W
             held == Shl(word, 8, AccWidth(c.impl)) \cup c.input[n + 1]
             bits == a + 8 - L
             f == [x \in 0 .. W - 1 |-> CutOf(c, held, bits, x)]
             mid == Filled(c, g, buf, f)
             new == CutInto(c, g, held, bits, buf)
  <1>1. /\ Counts(c, n, g, a) /\ word \in SUBSET Nat /\ Written(c, n, g, buf)
        /\ n \in Nat /\ g \in Nat /\ a \in Nat /\ L \in 8 .. 26 /\ W \in 1 .. 4
        /\ c.outLen \in Nat /\ from \in Nat
    BY ShapeNumbers DEF LoopAt, Counts
  <1>2. a + 8 <= 32 /\ Counts(c, n + 1, g + 1, bits) /\ (g + 1) * W <= c.outLen /\ bits \in 0 .. 7
    BY <1>1, ExpandNumbers
  <1>3. Holds(c, word, 8 * n, a)
    <2>1. ReadOf(c, n, g) = 8 * n
      BY DEF ReadOf
    <2> QED
      BY <2>1, HoldsBits
  <1>4. held \in SUBSET Nat /\ Holds(c, held, 8 * (n + 1), a + 8)
    BY <1>1, <1>2, <1>3, PushByte
  <1>5. /\ bits \in Nat /\ bits + L = a + 8
        /\ 8 * (n + 1) = (g + 1) * L + bits
    <2>1. bits = 8 * (n + 1) - (g + 1) * L
      BY <1>2 DEF Counts, ReadOf, GivenOf
    <2> HIDE DEF L
    <2>2. (g + 1) * L \in Int
      BY <1>1
    <2> QED
      BY <1>1, <1>2, <2>1, <2>2
  <1> HIDE DEF held, bits, from
  <1>6. Holds(c, held, (g + 1) * L + bits, bits + L)
    BY <1>4, <1>5
  <1>7. \A x \in 0 .. W - 1 : f[x] = CellOf(c, g, x)
    <2> SUFFICES ASSUME NEW x \in 0 .. W - 1
                 PROVE  f[x] = CellOf(c, g, x)
      OBVIOUS
    <2>1. f[x] = CutOf(c, held, bits, x)
      OBVIOUS
    <2> HIDE DEF f
    <2>2. CutOf(c, held, bits, x) = CellOf(c, g, x)
      BY <1>1, <1>4, <1>5, <1>6, CellGiven
    <2> QED
      BY <2>1, <2>2
  <1>8. mid = new
    <2>1. ASSUME NEW t \in DOMAIN buf, t - 1 \in from .. from + W - 1
          PROVE  f[t - 1 - from] = CutOf(c, held, bits, t - 1 - from)
      <3>1. t \in Nat
        BY <1>1 DEF Written
      <3>2. t - 1 - from \in 0 .. W - 1
        BY <1>1, <2>1, <3>1
      <3> QED
        BY <3>2
    <2> HIDE DEF f
    <2> QED
      BY <2>1 DEF Filled, CutInto, from
  <1> HIDE DEF f
  <1>9. Written(c, n + 1, g + 1, mid)
    BY <1>1, <1>2, <1>7, WrittenGroup
  <1>10. ReadOf(c, n + 1, g + 1) = 8 * (n + 1) /\ HeldOf(c, n + 1, bits) = a + 8
    BY <1>1, <1>2, <1>5 DEF ReadOf, HeldOf
  <1> HIDE DEF mid, new
  <1>11. LoopAt(c, n + 1, g + 1, bits, held, new)
    BY <1>2, <1>4, <1>8, <1>9, <1>10 DEF LoopAt
  <1> QED
    BY <1>11 DEF new, held, bits, from, W, L
\* A call that starts.
LEMMA LoopStarts ==
  ASSUME NEW c, Shape(c), NEW buffer \in [1 .. c.outLen -> Byte], StartInto(c, buffer)
  PROVE  LoopInv'
  <1>1. call' = c /\ i' = 0 /\ j' = 0 /\ accBits' = 0 /\ acc' = {} /\ out' = buffer
    BY DEF StartInto
  <1> DEFINE L == c.bitLen
  <1>2. L \in 8 .. 26 /\ c.outLen \in Nat /\ Len(c.input) \in Nat
    BY ShapeNumbers
  <1>3. Counts(c, 0, 0, 0)
    <2>1. ReadOf(c, 0, 0) = (IF c.op = "compress" THEN 0 * L ELSE 8 * 0)
      BY DEF ReadOf
    <2>2. GivenOf(c, 0, 0) = (IF c.op = "compress" THEN 8 * 0 ELSE 0 * L)
      BY DEF GivenOf
    <2> HIDE DEF L
    <2>3. ReadOf(c, 0, 0) = 0 /\ GivenOf(c, 0, 0) = 0 /\ 0 < L
      BY <1>2, <2>1, <2>2
    <2> QED
      BY <1>2, <2>3 DEF Counts, L
  <1>9. HeldOf(c, 0, 0) = 0
    BY DEF HeldOf
  <1>4. Holds(c, {}, ReadOf(c, 0, 0), HeldOf(c, 0, 0))
    BY <1>9 DEF Holds
  <1>5. Written(c, 0, 0, buffer)
    BY DEF Written
  <1>6. LoopAt(c, 0, 0, 0, {}, buffer)
    BY <1>3, <1>4, <1>5 DEF LoopAt
  <1>7. 0 = 0 * WidthOf(c)
    BY ShapeNumbers
  <1>8. \E g \in Nat : 0 = g * WidthOf(c) /\ LoopAt(c, 0, g, 0, {}, buffer)
    BY <1>6, <1>7
  <1> QED
    BY <1>1, <1>8, Zenon DEF LoopInv

\* A zeroed buffer and a stale one are buffers.
LEMMA Buffers ==
  \A len : Zeroed(len) \in [1 .. len -> Byte] /\ Stale(len) \in [1 .. len -> Byte]
  BY DEF Zeroed, Stale, LowByte, Byte

\* Nothing is asked of the loop before the first call.
LEMMA LoopInitially ==
  ASSUME CodecInit
  PROVE  LoopInv
  <1>1. call = Idle /\ i = 0 /\ j = 0 /\ accBits = 0 /\ acc = {} /\ out = << >>
    BY DEF CodecInit
  <1>2. /\ Idle.op = "idle" /\ Idle.impl = "rust" /\ Idle.input = << >> /\ Idle.outLen = 0
        /\ Idle.bitLen = 8 /\ Idle.pad = 0
    BY DEF Idle
  <1>3. WidthOf(Idle) = 1
    BY <1>2 DEF WidthOf, ByteWidth
  <1>4. Shape(Idle)
    BY <1>2, <1>3 DEF Shape, Impls
  <1>5. Counts(Idle, 0, 0, 0) /\ HeldOf(Idle, 0, 0) = 0
    BY <1>2 DEF Counts, ReadOf, GivenOf, HeldOf
  <1>6. << >> \in [1 .. 0 -> Byte]
    OBVIOUS
  <1>7. Written(Idle, 0, 0, << >>)
    BY <1>2, <1>6 DEF Written
  <1>8. LoopAt(Idle, 0, 0, 0, {}, << >>)
    BY <1>5, <1>7 DEF LoopAt, Holds
  <1>9. 0 = 0 * WidthOf(Idle)
    BY <1>3
  <1>10. \E g \in Nat : 0 = g * WidthOf(Idle) /\ LoopAt(Idle, 0, g, 0, {}, << >>)
    BY <1>8, <1>9
  <1> QED
    BY <1>1, <1>4, <1>10, Zenon DEF LoopInv

\* The loops keep the invariant.
LEMMA LoopSteps ==
  ASSUME LoopInv, CodecStep
  PROVE  LoopInv'
  <1> DEFINE W == WidthOf(call)
             L == call.bitLen
             A == AccWidth(call.impl)
  <1>1. Shape(call)
    BY DEF LoopInv
  <1>2. PICK g \in Nat : j = g * W /\ LoopAt(call, i, g, accBits, acc, out)
    BY DEF LoopInv
  <1>3. W \in 1 .. 4
    BY <1>1, ShapeNumbers
  <1>4. j + W = (g + 1) * W /\ g + 1 \in Nat
    BY <1>2, <1>3
  <1>5. \E h \in Nat : call' = call /\ j' = h * W /\ LoopAt(call, i', h, accBits', acc', out')
    <2>1. CASE CompressByte /\ accBits < 8
      <3> DEFINE held == Shl(acc, L, A) \cup GroupOf(call, g * W)
                 bits == accBits + L - 8
      <3>1. /\ call.op = "compress" /\ i < call.outLen /\ call' = call /\ i' = i + 1
            /\ accBits' = bits /\ acc' = held /\ j' = j + W
            /\ out' = [out EXCEPT ![i + 1] = Shr(held, bits) \cap LowByte]
        BY <1>2, <2>1, OfCall DEF CompressByte
      <3>2. LoopAt(call, i + 1, g + 1, bits, held,
                   [out EXCEPT ![i + 1] = Shr(held, bits) \cap LowByte])
        BY <1>1, <1>2, <2>1, <3>1, CompressLoads
      <3> HIDE DEF held, bits, W
      <3> QED
        BY <1>4, <3>1, <3>2
    <2>2. CASE CompressByte /\ ~(accBits < 8)
      <3>1. /\ call.op = "compress" /\ i < call.outLen /\ call' = call /\ i' = i + 1
            /\ accBits' = accBits - 8 /\ acc' = acc /\ j' = j
            /\ out' = [out EXCEPT ![i + 1] = Shr(acc, accBits - 8) \cap LowByte]
        BY <2>2 DEF CompressByte
      <3>2. LoopAt(call, i + 1, g, accBits - 8, acc,
                   [out EXCEPT ![i + 1] = Shr(acc, accBits - 8) \cap LowByte])
        BY <1>1, <1>2, <2>2, <3>1, CompressKeeps
      <3> HIDE DEF W
      <3> QED
        BY <1>2, <3>1, <3>2
    <2>3. CASE ExpandByte /\ accBits + 8 >= L
      <3> DEFINE held == Shl(acc, 8, A) \cup call.input[i + 1]
                 bits == accBits + 8 - L
                 new  == CutInto(call, g, held, bits, out)
      <3>1. /\ call.op = "expand" /\ i < Len(call.input) /\ call' = call /\ i' = i + 1
            /\ accBits' = bits /\ acc' = held /\ j' = j + W
            /\ out' = [t \in DOMAIN out |->
                         IF t - 1 \in j .. j + W - 1
                         THEN CutOf(call, held, bits, t - 1 - j) ELSE out[t]]
        BY <2>3, OfCall DEF ExpandByte
      <3>2. out' = new
        BY <1>2, <3>1 DEF CutInto
      <3>3. LoopAt(call, i + 1, g + 1, bits, held, new)
        BY <1>1, <1>2, <2>3, <3>1, ExpandCuts
      <3> HIDE DEF held, bits, W, new
      <3> QED
        BY <1>4, <3>1, <3>2, <3>3
    <2>4. CASE ExpandByte /\ ~(accBits + 8 >= L)
      <3> DEFINE held == Shl(acc, 8, A) \cup call.input[i + 1]
      <3>1. /\ call.op = "expand" /\ i < Len(call.input) /\ call' = call /\ i' = i + 1
            /\ accBits' = accBits + 8 /\ acc' = held /\ j' = j
            /\ out' = [t \in DOMAIN out |-> out[t]]
        BY <2>4 DEF ExpandByte
      <3>2. out' = out
        BY <1>2, <3>1 DEF LoopAt, Written
      <3>3. LoopAt(call, i + 1, g, accBits + 8, held, out)
        BY <1>1, <1>2, <2>4, <3>1, ExpandKeeps
      <3> HIDE DEF held, W
      <3> QED
        BY <1>2, <3>1, <3>2, <3>3
    <2> QED
      BY <2>1, <2>2, <2>3, <2>4 DEF CodecStep
  <1>6. PICK h \in Nat : call' = call /\ j' = h * W /\ LoopAt(call, i', h, accBits', acc', out')
    BY <1>5
  <1>7. Shape(call') /\ j' = h * WidthOf(call') /\ LoopAt(call', i', h, accBits', acc', out')
    BY <1>1, <1>6
  <1> QED
    BY <1>7, Zenon DEF LoopInv

\* What the invariant says of a state: no bit is lost.
LEMMA NoBitLostHolds ==
  ASSUME LoopInv
  PROVE  NoBitLost
  <1> DEFINE W == WidthOf(call)
  <1>1. Shape(call) /\ W \in 1 .. 4
    BY ShapeNumbers DEF LoopInv
  <1>2. PICK g \in Nat : j = g * W /\ LoopAt(call, i, g, accBits, acc, out)
    BY DEF LoopInv
  <1>3. j \div W = g
    <2>1. (g * W + 0) \div W = g
      BY <1>1, DivisionUnique
    <2>2. g * W + 0 = g * W
      BY <1>1
    <2> QED
      BY <1>2, <2>1, <2>2
  <1>4. Consumed = ReadOf(call, i, g) /\ Emitted = GivenOf(call, i, g)
    BY <1>3, OfCall DEF Consumed, Emitted, ReadOf, GivenOf, Compressing
  <1>5. Held = HeldOf(call, i, accBits)
    BY DEF Held, HeldOf, Compressing
  <1> DEFINE U == Consumed
             H == Held
  <1>6. \A b \in 0 .. H - 1 : b \in acc <=> BitOf(call, U - 1 - b)
    BY <1>2, <1>4, <1>5 DEF LoopAt, Holds
  <1>7. accBits = U - Emitted
    BY <1>2, <1>4 DEF LoopAt, Counts
  <1> HIDE DEF U, H
  <1>8. \A b \in 0 .. H - 1 : b \in acc <=> StreamBit(U - 1 - b)
    BY <1>6, OfCall
  <1> QED
    BY <1>7, <1>8 DEF NoBitLost, U, H

\* Every index and every shift is in range.
LEMMA NoPanicHolds ==
  ASSUME LoopInv
  PROVE  NoPanic
  <1> DEFINE W == WidthOf(call)
             L == call.bitLen
  <1>1. Shape(call) /\ W \in 1 .. 4 /\ L \in 8 .. 26
    BY ShapeNumbers DEF LoopInv
  <1>2. PICK g \in Nat : j = g * W /\ LoopAt(call, i, g, accBits, acc, out)
    BY DEF LoopInv
  <1>3. Counts(call, i, g, accBits) /\ accBits \in Nat /\ i \in Nat /\ j + W = (g + 1) * W
    BY <1>1, <1>2 DEF LoopAt, Counts
  <1>4. ASSUME call.op = "compress", ~Finished
        PROVE  /\ accBits < 8 => j + Width <= Len(call.input)
               /\ accBits >= 8 \/ accBits + call.bitLen >= 8
    <2>1. i < call.outLen
      BY <1>1, <1>3, <1>4, ShapeNumbers DEF Finished, Counts
    <2>2. accBits < 8 => (g + 1) * W <= Len(call.input)
      BY <1>1, <1>3, <1>4, <2>1, CompressNumbers
    <2>3. Width = W
      BY OfCall
    <2> HIDE DEF W, L
    <2>4. accBits >= 8 \/ accBits + L >= 8
      BY <1>1, <1>3
    <2> QED
      BY <1>3, <2>2, <2>3, <2>4 DEF L
  <1>5. ASSUME call.op = "expand", accBits + 8 >= call.bitLen, ~Finished
        PROVE  /\ j + Width <= call.outLen
               /\ accBits + 8 - call.bitLen + Below(call.pad) < 32
    <2>1. i < Len(call.input)
      BY <1>1, <1>3, <1>5, ShapeNumbers DEF Finished, Counts
    <2>2. (g + 1) * W <= call.outLen /\ accBits + 8 - L \in 0 .. 7
      BY <1>1, <1>3, <1>5, <2>1, ExpandNumbers
    <2>3. Width = W /\ Below(call.pad) = BelowOf(call, call.pad)
      BY OfCall
    <2>4. call.pad \in 0 .. W - 1
      <3> DEFINE P == call.pad
                 B == ByteWidth(L)
      <3>1. P \in 0 .. 3 /\ W - P = B /\ B \in 1 .. 4
        BY <1>1, ShapeNumbers
      <3> HIDE DEF P, B, W
      <3>2. P \in 0 .. W - 1
        BY <1>1, <3>1
      <3> QED
        BY <3>2 DEF P, W
    <2>5. BelowOf(call, call.pad) \in Nat /\ BelowOf(call, call.pad) <= 24
      BY <1>1, <2>4, BelowNumbers
    <2> HIDE DEF W
    <2> QED
      BY <1>1, <1>3, <2>2, <2>3, <2>5
  <1> QED
    BY <1>4, <1>5 DEF NoPanic
\* The number that is the m-th group of the stream.
WordOf(c, m) == {b \in 0 .. c.bitLen - 1 : BitOf(c, (m + 1) * c.bitLen - 1 - b)}

\* The bits of four bytes or fewer that are one group.
LEMMA GroupGiven ==
  ASSUME NEW c, Shape(c), c.op = "expand", NEW n, NEW g, NEW buf, Written(c, n, g, buf),
         NEW m \in 0 .. g - 1, (m + 1) * WidthOf(c) <= c.outLen, g \in Nat
  PROVE  FromBytes(SubSeq(buf, m * WidthOf(c) + 1, (m + 1) * WidthOf(c))) = WordOf(c, m)
  <1> DEFINE L == c.bitLen
             W == WidthOf(c)
             k == m * W
             s == SubSeq(buf, k + 1, k + W)
             T == (m + 1) * L
  <1>0. /\ L \in 8 .. 26 /\ W \in 1 .. 4 /\ c.outLen \in Nat /\ c.pad \in 0 .. 3
        /\ W - c.pad = ByteWidth(L)
    BY ShapeNumbers
  <1>1. /\ L \in 8 .. 26 /\ W \in 1 .. 4 /\ c.outLen \in Nat /\ k \in Nat /\ c.pad \in 0 .. 3
        /\ (m + 1) * W = k + W /\ W - c.pad = ByteWidth(L) /\ T \in Int
    <2> HIDE DEF L, W
    <2>1. k \in Nat /\ (m + 1) * W = k + W /\ T \in Int
      BY <1>0
    <2> QED
      BY <1>0, <2>1
  <1>2. buf \in Seq(Byte) /\ Len(buf) = c.outLen
    <2> DEFINE o == c.outLen
    <2>1. o \in Nat /\ buf \in [1 .. o -> Byte]
      BY <1>1 DEF Written
    <2> HIDE DEF o
    <2>2. buf \in Seq(Byte) /\ Len(buf) = o
      BY <2>1
    <2> QED
      BY <2>2 DEF o
  <1>3. \A x \in 0 .. W - 1 : buf[k + x + 1] = CellOf(c, m, x)
    BY DEF Written
  <1>4. \A x \in 0 .. W - 1 : BelowOf(c, x) = 8 * (W - x - 1)
    BY DEF BelowOf
  <1> HIDE DEF L, W, k, T
  <1>5. /\ s \in Seq(Byte) /\ Len(s) = W
        /\ \A t \in 1 .. W : s[t] = buf[k + t]
    <2>1. k + W <= Len(buf)
      BY <1>1, <1>2 DEF W
    <2> HIDE DEF s
    <2> QED
      BY <1>1, <1>2, <2>1, SubSeqProperties DEF s
  <1> HIDE DEF s
  <1>6. \A b : b \in FromBytes(s) <=> \E t \in 1 .. W : b \in Shl(s[t], 8 * (W - t), 32)
    <2>1. DOMAIN s = 1 .. W
      BY <1>5
    <2> QED
      BY <1>5, <2>1 DEF FromBytes
  <1>7. ASSUME NEW t \in 1 .. W
        PROVE  \A b : b \in Shl(s[t], 8 * (W - t), 32)
                        <=> /\ b \in 0 .. 31 /\ t - 1 >= c.pad /\ b - 8 * (W - t) \in 0 .. 7
                            /\ b \in 0 .. L - 1 /\ BitOf(c, T - 1 - b)
    <2> DEFINE x == t - 1
               l == 8 * (W - t)
               w == s[t]
    <2>1. x \in 0 .. W - 1 /\ k + t = k + x + 1 /\ l = BelowOf(c, x) /\ l \in 0 .. 24
      BY <1>1, <1>4
    <2>2. w = CellOf(c, m, x)
      BY <1>3, <1>5, <2>1
    <2> HIDE DEF x, l, w
    <2>3. \A e : e \in w <=> /\ x >= c.pad /\ e \in 0 .. 7 /\ e + l \in 0 .. L - 1
                             /\ BitOf(c, T - 1 - (e + l))
      <3>1. ~(x < c.pad) <=> x >= c.pad
        BY <1>1, <2>1
      <3> QED
        BY <2>1, <2>2, <3>1 DEF CellOf, LowByte, L, T
    <2>4. w \in SUBSET Nat
      BY <2>3
    <2>5. /\ Shl(w, l, 32) \in SUBSET Nat
          /\ \A b \in Int : b \in Shl(w, l, 32) <=> b < 32 /\ b >= l /\ b - l \in w
      <3> DEFINE width == 32
      <3>1. l \in Nat /\ width \in Nat
        BY <2>1
      <3> HIDE DEF width
      <3>2. /\ Shl(w, l, width) \in SUBSET Nat
            /\ \A b \in Int : b \in Shl(w, l, width) <=> b < width /\ b >= l /\ b - l \in w
        BY <2>4, <3>1, ShlMember
      <3> QED
        BY <3>2 DEF width
    <2>6. ASSUME NEW b \in Nat
          PROVE  b \in Shl(w, l, 32)
                   <=> /\ b \in 0 .. 31 /\ x >= c.pad /\ b - l \in 0 .. 7
                       /\ b \in 0 .. L - 1 /\ BitOf(c, T - 1 - b)
      <3> DEFINE e == b - l
      <3>1. e + l = b /\ e \in Int /\ (e \in 0 .. 7 => b >= l) /\ (b < 32 <=> b \in 0 .. 31)
        BY <2>1
      <3> HIDE DEF e
      <3>2. b \in Shl(w, l, 32) <=> b < 32 /\ b >= l /\ e \in w
        BY <2>5 DEF e
      <3> QED
        BY <2>3, <3>1, <3>2 DEF e
    <2> QED
      BY <2>5, <2>6 DEF l, x, w
  <1>8. ASSUME NEW b \in 0 .. L - 1
        PROVE  /\ b \in 0 .. 31
               /\ \E t \in 1 .. W : t - 1 >= c.pad /\ b - 8 * (W - t) \in 0 .. 7
    <2> DEFINE t == W - (b \div 8)
    <2>1. b \in 0 .. 31 /\ b \div 8 \in 0 .. ByteWidth(L) - 1
      BY <1>1 DEF ByteWidth
    <2>2. t \in 1 .. W /\ t - 1 >= c.pad /\ b - 8 * (W - t) \in 0 .. 7
      BY <1>1, <2>1
    <2> QED
      BY <2>1, <2>2
  <1>9. \A b : b \in FromBytes(s) <=> b \in 0 .. L - 1 /\ BitOf(c, T - 1 - b)
    <2>1. \A b : b \in FromBytes(s)
                    <=> \E t \in 1 .. W :
                          /\ b \in 0 .. 31 /\ t - 1 >= c.pad /\ b - 8 * (W - t) \in 0 .. 7
                          /\ b \in 0 .. L - 1 /\ BitOf(c, T - 1 - b)
      BY <1>6, <1>7
    <2> QED
      BY <1>8, <2>1
  <1>10. FromBytes(s) = {b \in 0 .. L - 1 : BitOf(c, T - 1 - b)}
    BY <1>9
  <1> QED
    BY <1>1, <1>10 DEF s, k, W, L, T, WordOf

\* When a call to expand_array ends, every group that fits is written.
LEMMA AllGroups ==
  ASSUME NEW c, Shape(c), c.op = "expand", NEW g, NEW a, Counts(c, Len(c.input), g, a)
  PROVE  /\ g \in Nat /\ g = (8 * Len(c.input)) \div c.bitLen /\ g = c.outLen \div WidthOf(c)
         /\ \A m \in 0 .. g - 1 : (m + 1) * WidthOf(c) <= c.outLen
  <1> DEFINE L == c.bitLen
             W == WidthOf(c)
             N == Len(c.input)
             o == c.outLen
  <1>1. L \in 8 .. 26 /\ W \in 1 .. 4 /\ N \in Nat /\ o \in Nat
    BY ShapeNumbers
  <1>2. g \in Nat /\ a \in Nat /\ a = 8 * N - g * L /\ a < L
    BY DEF Counts, ReadOf, GivenOf
  <1>3. o \div W = (8 * N) \div L
    BY DEF Shape
  <1> HIDE DEF L, W, N, o
  <1>4. 8 * N = g * L + a
    <2> DEFINE x == g * L
    <2>1. x \in Int
      BY <1>1, <1>2
    <2>2. a = 8 * N - x
      BY <1>2
    <2> HIDE DEF x
    <2>3. 8 * N = x + a
      BY <1>1, <1>2, <2>1, <2>2
    <2> QED
      BY <2>3 DEF x
  <1>5. (g * L + a) \div L = g
    <2>1. L \in Nat \ {0} /\ a \in 0 .. L - 1
      BY <1>1, <1>2
    <2> QED
      BY <1>2, <2>1, DivisionUnique
  <1>6. g = o \div W
    BY <1>3, <1>4, <1>5
  <1>7. ASSUME NEW m \in 0 .. g - 1
        PROVE  (m + 1) * W <= o
    <2> DEFINE h == m + 1
    <2>1. h \in Nat /\ h <= o \div W /\ W \in Nat \ {0}
      BY <1>1, <1>2, <1>6
    <2> HIDE DEF h
    <2>2. h * W <= o
      BY <1>1, <2>1, QuotientBound
    <2> QED
      BY <2>2 DEF h
  <1> QED
    BY <1>2, <1>4, <1>5, <1>6, <1>7 DEF L, W, N, o

\* The bits of the bytes written by compress_array.
LEMMA BytesGiven ==
  ASSUME NEW c, NEW o \in Nat, NEW buf, \A t \in 1 .. o : buf[t] = ByteOf(c, t),
         NEW t \in 0 .. 8 * o - 1
  PROVE  7 - (t % 8) \in buf[(t \div 8) + 1] <=> BitOf(c, t)
  <1> DEFINE q == (t \div 8) + 1
             b == 7 - (t % 8)
  <1>1. q \in 1 .. o /\ b \in LowByte /\ 8 * q - 1 - b = t
    BY DEF LowByte
  <1> HIDE DEF q, b
  <1>2. buf[q] = ByteOf(c, q)
    BY <1>1
  <1>3. b \in buf[q] <=> BitOf(c, t)
    BY <1>1, <1>2 DEF ByteOf
  <1> QED
    BY <1>3 DEF q, b

\* What a finished call leaves.
LEMMA OutputExactHolds ==
  ASSUME LoopInv
  PROVE  OutputExact
  <1> DEFINE W == WidthOf(call)
             L == call.bitLen
  <1>1. Shape(call) /\ W \in 1 .. 4 /\ L \in 8 .. 26 /\ call.outLen \in Nat
    BY ShapeNumbers DEF LoopInv
  <1>2. PICK g \in Nat : j = g * W /\ LoopAt(call, i, g, accBits, acc, out)
    BY DEF LoopInv
  <1>3. Counts(call, i, g, accBits) /\ Written(call, i, g, out)
    BY <1>2 DEF LoopAt
  <1>4. ASSUME Finished, Compressing
        PROVE  \A t \in 0 .. 8 * call.outLen - 1 :
                 7 - (t % 8) \in out[(t \div 8) + 1] <=> StreamBit(t)
    <2>1. call.op = "compress" /\ i = call.outLen
      BY <1>4 DEF Finished, Compressing
    <2>2. \A t \in 1 .. call.outLen : out[t] = ByteOf(call, t)
      BY <1>3, <2>1 DEF Written
    <2> QED
      BY <1>1, <2>2, BytesGiven, OfCall
  <1>5. ASSUME Finished, ~Compressing
        PROVE  LET groups == call.outLen \div Width
               IN  /\ groups = (8 * Len(call.input)) \div call.bitLen
                   /\ \A m \in 0 .. groups - 1 :
                        FromBytes(SubSeq(out, m * Width + 1, (m + 1) * Width))
                          = {b \in Mask : StreamBit((m + 1) * call.bitLen - 1 - b)}
    <2>1. call.op = "expand" /\ i = Len(call.input)
      BY <1>5 DEF Finished, Compressing
    <2>2. Width = W
      BY OfCall
    <2>3. /\ g = (8 * Len(call.input)) \div L /\ g = call.outLen \div W
          /\ \A m \in 0 .. g - 1 : (m + 1) * W <= call.outLen
      BY <1>1, <1>3, <2>1, AllGroups
    <2>4. ASSUME NEW m \in 0 .. g - 1
          PROVE  FromBytes(SubSeq(out, m * W + 1, (m + 1) * W))
                   = {b \in Mask : StreamBit((m + 1) * L - 1 - b)}
      <3>1. FromBytes(SubSeq(out, m * W + 1, (m + 1) * W)) = WordOf(call, m)
        BY <1>1, <1>3, <2>1, <2>3, GroupGiven
      <3>2. WordOf(call, m) = {b \in Mask : StreamBit((m + 1) * L - 1 - b)}
        <4>1. \A t : StreamBit(t) <=> BitOf(call, t)
          BY OfCall
        <4>2. Mask = 0 .. L - 1
          BY DEF Mask
        <4> QED
          BY <4>1, <4>2 DEF WordOf
      <3> QED
        BY <3>1, <3>2
    <2> HIDE DEF W, L
    <2>5. \A m \in 0 .. (call.outLen \div Width) - 1 :
            FromBytes(SubSeq(out, m * Width + 1, (m + 1) * Width))
              = {b \in Mask : StreamBit((m + 1) * L - 1 - b)}
      BY <2>2, <2>3, <2>4
    <2> QED
      BY <2>2, <2>3, <2>5 DEF L
  <1> QED
    BY <1>4, <1>5 DEF OutputExact

-----------------------------------------------------------------------------
(* The calls the tools make.                                               *)

\* Encoding: groups of four bytes, one per index.
BytesOf(s) ==
  [t \in 1 .. (4 * Len(s)) |-> BigEndian(s[((t - 1) \div 4) + 1])[((t - 1) % 4) + 1]]

\* The fields of the call.
LEMMA EncodeFields ==
  ASSUME NEW impl, NEW s, NEW cbl
  PROVE  /\ EncodeCall(impl, s, cbl).op = "compress"
         /\ EncodeCall(impl, s, cbl).impl = impl
         /\ EncodeCall(impl, s, cbl).bitLen = cbl + 1
         /\ EncodeCall(impl, s, cbl).outLen = ((cbl + 1) * Len(s)) \div 8
         /\ EncodeCall(impl, s, cbl).pad = 4 - ByteWidth(cbl + 1)
         /\ EncodeCall(impl, s, cbl).input = BytesOf(s)
  BY DEF EncodeCall, BytesOf

\* Such a call has the shape the loops want.
LEMMA EncodeShape ==
  ASSUME NEW impl \in Impls, NEW cbl \in 8 .. 25, NEW s \in Seq(SUBSET (0 .. cbl))
  PROVE  Shape(EncodeCall(impl, s, cbl)) /\ WidthOf(EncodeCall(impl, s, cbl)) = 4
  <1> DEFINE c == EncodeCall(impl, s, cbl)
             n == Len(s)
             N == 4 * n
             B(t) == BigEndian(s[((t - 1) \div 4) + 1])[((t - 1) % 4) + 1]
  <1>1. /\ c.op = "compress" /\ c.impl = impl /\ c.bitLen = cbl + 1
        /\ c.outLen = ((cbl + 1) * n) \div 8
        /\ c.pad = 4 - ByteWidth(cbl + 1)
        /\ c.input = BytesOf(s)
    BY EncodeFields
  <1>2. n \in Nat /\ N \in Nat
    BY LenProperties
  <1>3. \A t \in 1 .. N : B(t) \in Byte
    <2> SUFFICES ASSUME NEW t \in 1 .. N
                 PROVE  B(t) \in Byte
      OBVIOUS
    <2> DEFINE x == (t - 1) % 4
               word == s[((t - 1) \div 4) + 1]
    <2>1. x + 1 \in 1 .. 4
      OBVIOUS
    <2> HIDE DEF x, word
    <2>2. BigEndian(word)[x + 1] \in Byte
      BY <2>1 DEF BigEndian, LowByte, Byte
    <2> QED
      BY <2>2 DEF x, word
  <1> HIDE DEF c, N, B
  <1>4. c.input \in Seq(Byte) /\ Len(c.input) = N
    <2> DEFINE f == [t \in 1 .. N |-> B(t)]
    <2>1. c.input = f
      BY <1>1 DEF BytesOf, N, B
    <2>2. f \in [1 .. N -> Byte]
      BY <1>3
    <2> HIDE DEF f
    <2> QED
      BY <1>2, <2>1, <2>2
  <1>5. ByteWidth(cbl + 1) \in 1 .. 4
    BY DEF ByteWidth
  <1>6. WidthOf(c) = 4
    BY <1>1, <1>5 DEF WidthOf
  <1> HIDE DEF n
  <1>7. c.outLen = (n * c.bitLen) \div 8 /\ c.outLen \in Nat
    <2> DEFINE y == n * c.bitLen
    <2>1. y \in Nat /\ (cbl + 1) * n = y
      BY <1>1, <1>2
    <2> HIDE DEF y
    <2>2. c.outLen = y \div 8 /\ y \div 8 \in Nat
      BY <1>1, <2>1
    <2> QED
      BY <2>2 DEF y
  <1>8. Len(c.input) = n * WidthOf(c)
    BY <1>2, <1>4, <1>6 DEF N
  <1>9. c.pad \in Nat /\ c.bitLen \in 8 .. 26
    BY <1>1, <1>5
  <1>10. Shape(c)
    BY <1>1, <1>2, <1>4, <1>6, <1>7, <1>8, <1>9 DEF Shape
  <1> QED
    BY <1>6, <1>10 DEF c

\* Its groups are the indices.
LEMMA GroupOfIndex ==
  ASSUME NEW impl \in Impls, NEW cbl \in 8 .. 25, NEW s \in Seq(SUBSET (0 .. cbl)),
         NEW m \in 0 .. Len(s) - 1
  PROVE  GroupOf(EncodeCall(impl, s, cbl), m * 4) = s[m + 1]
  <1> DEFINE c == EncodeCall(impl, s, cbl)
             w == s[m + 1]
             M == 0 .. cbl
  <1>1. Shape(c) /\ WidthOf(c) = 4 /\ c.bitLen = cbl + 1 /\ c.pad = 4 - ByteWidth(cbl + 1)
    <2>1. Shape(c) /\ WidthOf(c) = 4
      BY EncodeShape
    <2>2. c.bitLen = cbl + 1 /\ c.pad = 4 - ByteWidth(cbl + 1)
      BY EncodeFields
    <2> QED
      BY <2>1, <2>2
  <1>2. w \in SUBSET M
    <2>1. Len(s) \in Nat /\ m + 1 \in 1 .. Len(s)
      BY LenProperties
    <2> QED
      BY <2>1, ElementOfSeq
  <1>3. \A x \in 0 .. 3 : c.input[m * 4 + x + 1] = Shr(w, 8 * (3 - x)) \cap LowByte
    <2> SUFFICES ASSUME NEW x \in 0 .. 3
                 PROVE  c.input[m * 4 + x + 1] = Shr(w, 8 * (3 - x)) \cap LowByte
      OBVIOUS
    <2> DEFINE t == m * 4 + x + 1
               y == x + 1
    <2>1. /\ Len(s) \in Nat /\ t \in 1 .. 4 * Len(s)
          /\ ((t - 1) \div 4) + 1 = m + 1 /\ ((t - 1) % 4) + 1 = y
          /\ y \in 1 .. 4 /\ 4 - y = 3 - x
      BY LenProperties
    <2> HIDE DEF t, y
    <2>2. c.input[t] = BigEndian(w)[y]
      <3>1. c.input = BytesOf(s)
        BY EncodeFields
      <3>2. BytesOf(s)[t] = BigEndian(s[((t - 1) \div 4) + 1])[((t - 1) % 4) + 1]
        BY <2>1 DEF BytesOf
      <3> QED
        BY <2>1, <3>1, <3>2
    <2>3. BigEndian(w)[y] = Shr(w, 8 * (4 - y)) \cap LowByte
      BY <2>1 DEF BigEndian
    <2> QED
      BY <2>1, <2>2, <2>3 DEF t
  <1> HIDE DEF c, w
  <1>4. \A x \in 0 .. 3 : BelowOf(c, x) = 8 * (3 - x)
    BY <1>1 DEF BelowOf
  <1>5. 0 .. c.bitLen - 1 = M
    BY <1>1
  <1>6. c.pad .. WidthOf(c) - 1 = c.pad .. 3 /\ c.pad \in 0 .. 3
    BY <1>1 DEF ByteWidth
  <1> DEFINE In(x) == Shr(w, 8 * (3 - x)) \cap LowByte \cap Shr(M, 8 * (3 - x))
  <1>7. GroupOf(c, m * 4) = UNION {Shl(In(x), 8 * (3 - x), 32) : x \in c.pad .. 3}
    <2>1. \A x \in c.pad .. 3 :
            Shl(c.input[m * 4 + x + 1] \cap Shr(0 .. c.bitLen - 1, BelowOf(c, x)), BelowOf(c, x), 32)
              = Shl(In(x), 8 * (3 - x), 32)
      <3> SUFFICES ASSUME NEW x \in c.pad .. 3
                   PROVE  Shl(c.input[m * 4 + x + 1] \cap Shr(0 .. c.bitLen - 1, BelowOf(c, x)),
                              BelowOf(c, x), 32)
                            = Shl(In(x), 8 * (3 - x), 32)
        OBVIOUS
      <3>1. x \in 0 .. 3
        BY <1>6
      <3> QED
        BY <1>3, <1>4, <1>5, <3>1
    <2> HIDE DEF In
    <2> QED
      BY <1>6, <2>1 DEF GroupOf
  <1>8. ASSUME NEW x \in 0 .. 3
        PROVE  \A b \in Int : b \in Shl(In(x), 8 * (3 - x), 32)
                                <=> b < 32 /\ b \in w /\ b - 8 * (3 - x) \in 0 .. 7
    <2> DEFINE l == 8 * (3 - x)
               R == Shr(w, l)
               Q == Shr(M, l)
               I == R \cap LowByte \cap Q
    <2>1. l \in Nat /\ w \in SUBSET Nat /\ M \in SUBSET Nat
      BY <1>2
    <2> HIDE DEF l, M, R, Q
    <2>2. R \in SUBSET Nat /\ \A b \in Int : b \in R <=> b >= 0 /\ b + l \in w
      BY <2>1, ShrMember DEF R
    <2>3. Q \in SUBSET Nat /\ \A b \in Int : b \in Q <=> b >= 0 /\ b + l \in M
      BY <2>1, ShrMember DEF Q
    <2>4. I \in SUBSET Nat /\ \A b \in Int : b \in I <=> b \in 0 .. 7 /\ b + l \in w
      BY <1>2, <2>2, <2>3 DEF LowByte
    <2> HIDE DEF I
    <2>5. \A b \in Int : b \in Shl(I, l, 32) <=> b < 32 /\ b >= l /\ b - l \in I
      BY <2>1, <2>4, ShlMember
    <2>6. ASSUME NEW b \in Int
          PROVE  b \in Shl(I, l, 32) <=> b < 32 /\ b \in w /\ b - l \in 0 .. 7
      <3> DEFINE e == b - l
      <3>1. e \in Int /\ e + l = b /\ (e \in 0 .. 7 => b >= l)
        BY <2>1
      <3> HIDE DEF e
      <3>2. b \in Shl(I, l, 32) <=> b < 32 /\ b >= l /\ e \in I
        BY <2>5 DEF e
      <3> QED
        BY <2>4, <3>1, <3>2 DEF e
    <2> QED
      BY <2>6 DEF I, R, Q, l
  <1>9. ASSUME NEW b \in w
        PROVE  /\ b \in Int /\ b < 32
               /\ \E x \in c.pad .. 3 : b - 8 * (3 - x) \in 0 .. 7
    <2> DEFINE x == 3 - (b \div 8)
    <2>1. b \in 0 .. cbl
      BY <1>2
    <2>2. x \in c.pad .. 3 /\ b - 8 * (3 - x) \in 0 .. 7
      BY <1>1, <2>1 DEF ByteWidth
    <2> QED
      BY <2>1, <2>2
  <1> HIDE DEF In
  <1>10. ASSUME NEW x \in 0 .. 3, NEW b \in Shl(In(x), 8 * (3 - x), 32)
         PROVE  b \in Int
    BY DEF Shl
  <1>11. \A b : b \in GroupOf(c, m * 4) <=> b \in w
    <2>1. \A b : b \in GroupOf(c, m * 4) <=> \E x \in c.pad .. 3 : b \in Shl(In(x), 8 * (3 - x), 32)
      BY <1>7
    <2>2. \A x \in c.pad .. 3 : x \in 0 .. 3
      BY <1>6
    <2> QED
      BY <1>8, <1>9, <1>10, <2>1, <2>2
  <1> QED
    BY <1>11 DEF c, w

\* The t-th bit of a list of indices of L bits each, highest first.
IndexBit(s, L, t) == L - 1 - (t % L) \in s[(t \div L) + 1]

\* It is the t-th bit an encoding reads.
LEMMA BitOfIndex ==
  ASSUME NEW impl \in Impls, NEW cbl \in 8 .. 25, NEW s \in Seq(SUBSET (0 .. cbl)),
         NEW t \in Nat, t < (cbl + 1) * Len(s)
  PROVE  BitOf(EncodeCall(impl, s, cbl), t) <=> IndexBit(s, cbl + 1, t)
  <1> DEFINE c == EncodeCall(impl, s, cbl)
             L == cbl + 1
             n == Len(s)
             m == t \div L
  <1>1. c.op = "compress" /\ c.bitLen = L /\ WidthOf(c) = 4
    <2>1. c.op = "compress" /\ c.bitLen = L
      BY EncodeFields
    <2>2. WidthOf(c) = 4
      BY EncodeShape
    <2> QED
      BY <2>1, <2>2
  <1>2. L \in Nat \ {0} /\ n \in Nat
    BY LenProperties
  <1>3. m \in Nat
    BY <1>2, Division
  <1>4. m < n
    <2> SUFFICES ASSUME n <= m
                 PROVE  FALSE
      BY <1>2, <1>3
    <2> HIDE DEF L, n
    <2>1. n <= t \div L
      OBVIOUS
    <2>2. n * L <= t
      BY <1>2, <2>1, QuotientBound
    <2>3. t < L * n
      BY DEF L, n
    <2> QED
      BY <1>2, <2>2, <2>3
  <1>5. GroupOf(c, m * 4) = s[m + 1]
    <2>1. m \in 0 .. Len(s) - 1
      BY <1>2, <1>3, <1>4
    <2> HIDE DEF m
    <2> QED
      BY <2>1, GroupOfIndex
  <1> HIDE DEF c, L
  <1> QED
    BY <1>1, <1>5 DEF BitOf, IndexBit, c, L

\* The encoding of a list of indices: its bits, eight to a byte.
EncodedByte(s, L, t) == {b \in LowByte : IndexBit(s, L, 8 * t - 1 - b)}

\* All of them.
Encoded(s, cbl) ==
  [t \in 1 .. ((cbl + 1) * Len(s)) \div 8 |-> EncodedByte(s, cbl + 1, t)]

\* It is a sequence of bytes.
LEMMA EncodedProperties ==
  ASSUME NEW cbl \in 8 .. 25, NEW s \in Seq(SUBSET (0 .. cbl))
  PROVE  /\ Encoded(s, cbl) \in Seq(Byte)
         /\ Len(Encoded(s, cbl)) = ((cbl + 1) * Len(s)) \div 8
         /\ ((cbl + 1) * Len(s)) \div 8 \in Nat
         /\ \A t \in 1 .. ((cbl + 1) * Len(s)) \div 8 :
              Encoded(s, cbl)[t] = EncodedByte(s, cbl + 1, t)
  <1> DEFINE x == (cbl + 1) * Len(s)
             o == x \div 8
             L == cbl + 1
             e == [t \in 1 .. o |-> EncodedByte(s, L, t)]
  <1>1. o \in Nat
    <2>1. Len(s) \in Nat
      BY LenProperties
    <2>2. x \in Nat
      BY <2>1
    <2> HIDE DEF x
    <2> QED
      BY <2>2
  <1> HIDE DEF x, o, L
  <1>2. e \in [1 .. o -> Byte]
    BY DEF EncodedByte, LowByte, Byte
  <1>3. e \in Seq(Byte) /\ Len(e) = o
    BY <1>1, <1>2
  <1>4. \A t \in 1 .. o : e[t] = EncodedByte(s, L, t)
    OBVIOUS
  <1>5. Encoded(s, cbl) = e
    BY DEF Encoded, o, x, L
  <1> HIDE DEF e
  <1> QED
    BY <1>1, <1>3, <1>4, <1>5 DEF o, x, L

\* A finished encoding is the encoding, whichever engine made it.
LEMMA EncodeEnds ==
  ASSUME LoopInv, Finished, NEW impl \in Impls, NEW cbl \in 8 .. 25,
         NEW s \in Seq(SUBSET (0 .. cbl)), call = EncodeCall(impl, s, cbl)
  PROVE  out = Encoded(s, cbl)
  <1> DEFINE x == (cbl + 1) * Len(s)
             o == x \div 8
             L == cbl + 1
             c == EncodeCall(impl, s, cbl)
  <1>0. c.op = "compress" /\ c.outLen = o
    BY EncodeFields
  <1>1. call = c /\ L \in Nat /\ x \in Nat /\ o \in Nat /\ 8 * o <= x
    <2>1. Len(s) \in Nat
      BY LenProperties
    <2>2. x \in Nat
      BY <2>1
    <2> HIDE DEF x
    <2> QED
      BY <2>2
  <1> HIDE DEF x, o, L, c
  <1>2. PICK g \in Nat : LoopAt(c, i, g, accBits, acc, out)
    BY <1>1 DEF LoopInv
  <1>3. out \in [1 .. o -> Byte] /\ \A t \in 1 .. o : out[t] = ByteOf(c, t)
    BY <1>0, <1>1, <1>2 DEF LoopAt, Written, Finished
  <1>4. ASSUME NEW t \in 1 .. o
        PROVE  ByteOf(c, t) = EncodedByte(s, L, t)
    <2> SUFFICES ASSUME NEW b \in LowByte
                 PROVE  BitOf(c, 8 * t - 1 - b) <=> IndexBit(s, L, 8 * t - 1 - b)
      BY DEF ByteOf, EncodedByte
    <2> DEFINE u == 8 * t - 1 - b
    <2>1. u \in Nat /\ u < x
      BY <1>1 DEF LowByte
    <2> HIDE DEF u
    <2> QED
      BY <2>1, BitOfIndex DEF u, x, L, c
  <1>5. out = [t \in 1 .. o |-> EncodedByte(s, L, t)]
    BY <1>3, <1>4
  <1> QED
    BY <1>5 DEF Encoded, o, x, L

\* A group of four bytes for every group of bits.
LEMMA FourBytes ==
  ASSUME NEW a \in Nat, NEW L \in Nat \ {0}
  PROVE  ((4 * a) \div L) \div 4 = a \div L /\ (4 * a) \div L \in Nat
  <1> DEFINE q == a \div L
             z == (4 * a) \div L
             f == 4 * a
  <1>1. q \in Nat /\ z \in Nat /\ f \in Nat
    BY Division
  <1>2. 4 * q <= z
    <2>1. q * L <= a
      BY <1>1, QuotientBound
    <2> DEFINE x == q * L
               h == 4 * q
    <2>2. x \in Nat /\ h \in Nat /\ h * L = 4 * x
      BY <1>1
    <2>3. h * L <= f
      <3> HIDE DEF h
      <3> QED
        BY <2>1, <2>2
    <2> HIDE DEF h, f
    <2>4. h <= f \div L
      BY <1>1, <2>2, <2>3, QuotientBound
    <2> QED
      BY <2>4 DEF h, f
  <1>3. z < 4 * q + 4
    <2> DEFINE e == q + 1
               h == 4 * e
               x == e * L
    <2>1. e \in Nat /\ h \in Nat /\ x \in Nat /\ h * L = 4 * x
      BY <1>1
    <2>2. ~(e <= a \div L)
      BY <1>1
    <2>3. ~(x <= a)
      <3> HIDE DEF e
      <3> QED
        BY <2>1, <2>2, QuotientBound
    <2>4. ~(h * L <= f)
      <3> HIDE DEF h, x
      <3> QED
        BY <2>1, <2>3
    <2> HIDE DEF h, f
    <2>5. ~(h <= f \div L)
      BY <1>1, <2>1, <2>4, QuotientBound
    <2> QED
      BY <1>1, <2>5 DEF h, f
  <1> HIDE DEF q, z
  <1>4. z \div 4 = q
    BY <1>1, <1>2, <1>3
  <1> QED
    BY <1>1, <1>4 DEF q, z

\* Decoding: the fields of the call.
LEMMA DecodeFields ==
  ASSUME NEW impl, NEW bytes, NEW cbl
  PROVE  /\ DecodeCall(impl, bytes, cbl).op = "expand"
         /\ DecodeCall(impl, bytes, cbl).impl = impl
         /\ DecodeCall(impl, bytes, cbl).bitLen = cbl + 1
         /\ DecodeCall(impl, bytes, cbl).outLen = (8 * 4 * Len(bytes)) \div (cbl + 1)
         /\ DecodeCall(impl, bytes, cbl).pad = 4 - ByteWidth(cbl + 1)
         /\ DecodeCall(impl, bytes, cbl).input = bytes
  BY DEF DecodeCall

\* Any bytes may be decoded.
LEMMA DecodeShape ==
  ASSUME NEW impl \in Impls, NEW cbl \in 8 .. 25, NEW bytes \in Seq(Byte)
  PROVE  Shape(DecodeCall(impl, bytes, cbl)) /\ WidthOf(DecodeCall(impl, bytes, cbl)) = 4
  <1> DEFINE c == DecodeCall(impl, bytes, cbl)
             N == Len(bytes)
             L == cbl + 1
             a == 8 * N
  <1>1. /\ c.op = "expand" /\ c.impl = impl /\ c.bitLen = L /\ c.input = bytes
        /\ c.outLen = (8 * 4 * N) \div L /\ c.pad = 4 - ByteWidth(L)
    BY DecodeFields
  <1>2. N \in Nat /\ a \in Nat /\ L \in 8 .. 26 /\ L \in Nat \ {0} /\ 8 * 4 * N = 4 * a
    BY LenProperties
  <1>3. ByteWidth(L) \in 1 .. 4
    BY DEF ByteWidth
  <1> HIDE DEF c, L
  <1>4. WidthOf(c) = 4 /\ c.pad \in Nat
    BY <1>1, <1>3 DEF WidthOf
  <1> HIDE DEF a
  <1>5. c.outLen \div 4 = a \div L /\ c.outLen \in Nat
    <2>1. ((4 * a) \div L) \div 4 = a \div L /\ (4 * a) \div L \in Nat
      BY <1>2, FourBytes
    <2>2. c.outLen = (4 * a) \div L
      BY <1>1, <1>2
    <2> QED
      BY <2>1, <2>2
  <1>6. Shape(c)
    BY <1>1, <1>2, <1>4, <1>5 DEF Shape, a, N
  <1> QED
    BY <1>4, <1>6 DEF c

\* Of a row: the numbers the constructors accept are k + 1 segments of whole digests.
LEMMA AcceptedNumbers ==
  ASSUME NEW n \in Nat, NEW k \in Nat, Accepts(n, k)
  PROVE  /\ CollisionBits(n, k) \in 8 .. 25
         /\ n = (k + 1) * CollisionBits(n, k)
         /\ n \div 8 \in Nat /\ 8 * (n \div 8) = n
         /\ k # 0
  <1> DEFINE d == k + 1
  <1>1. n % d = 0 /\ n % 8 = 0 /\ CollisionBits(n, k) = n \div d /\ n \div d \in 8 .. 25 /\ k # 0
    BY DEF Accepts, CollisionBits
  <1>2. d \in Nat \ {0}
    OBVIOUS
  <1> HIDE DEF d
  <1>3. n = (n \div d) * d + (n % d)
    BY <1>2, Division
  <1>4. n \div 8 \in Nat /\ 8 * (n \div 8) = n
    BY <1>1
  <1>5. n = d * (n \div d)
    <2> DEFINE e == n \div d
    <2>1. e \in Int /\ n = e * d + 0
      BY <1>1, <1>3
    <2> HIDE DEF e
    <2>2. n = d * e
      BY <1>2, <2>1
    <2> QED
      BY <2>2 DEF e
  <1> QED
    BY <1>1, <1>4, <1>5 DEF d

\* The row of a leaf may be expanded.
LEMMA RowShape ==
  ASSUME NEW impl \in Impls, NEW n \in Nat, NEW k \in Nat, Accepts(n, k),
         NEW digest \in [1 .. (n \div 8) -> Byte]
  PROVE  Shape(RowCall(impl, digest, n, k))
  <1> DEFINE c == RowCall(impl, digest, n, k)
             N == n \div 8
             L == CollisionBits(n, k)
             W == ByteWidth(L)
             bytes == SubSeq(digest, 1, N)
             d == k + 1
  <1>1. /\ c.op = "expand" /\ c.impl = impl /\ c.bitLen = L /\ c.input = bytes
        /\ c.outLen = d * W /\ c.pad = 0
    BY DEF RowCall, RowBytes
  <1>2. L \in 8 .. 25 /\ n = d * L /\ N \in Nat /\ 8 * N = n /\ d \in Nat
    BY AcceptedNumbers
  <1>3. bytes \in Seq(Byte) /\ Len(bytes) = N
    <2> HIDE DEF N
    <2>1. digest \in Seq(Byte) /\ Len(digest) = N
      BY <1>2 DEF N
    <2> QED
      BY <1>2, <2>1, SubSeqProperties
  <1> HIDE DEF L, N, bytes, d
  <1>4. W \in 1 .. 4
    BY <1>2 DEF ByteWidth
  <1> HIDE DEF c, W
  <1>5. WidthOf(c) = W
    BY <1>1, <1>4 DEF WidthOf, W
  <1>6. (d * W) \div W = d /\ d * W \in Nat
    <2>1. d * W + 0 = d * W /\ W \in Nat \ {0} /\ 0 \in 0 .. W - 1
      BY <1>2, <1>4
    <2>2. (d * W + 0) \div W = d
      BY <1>2, <2>1, DivisionUnique
    <2> QED
      BY <1>2, <1>4, <2>1, <2>2
  <1>7. (8 * N) \div L = d
    <2>1. d * L + 0 = 8 * N /\ L \in Nat \ {0} /\ 0 \in 0 .. L - 1
      BY <1>2
    <2>2. (d * L + 0) \div L = d
      BY <1>2, <2>1, DivisionUnique
    <2> QED
      BY <2>1, <2>2
  <1>8. Shape(c)
    BY <1>1, <1>2, <1>3, <1>4, <1>5, <1>6, <1>7 DEF Shape
  <1> QED
    BY <1>8 DEF c

\* What fills whole bytes decodes to what was encoded.
LEMMA DecodeEnds ==
  ASSUME LoopInv, Finished, NEW cbl \in 8 .. 25, NEW s \in Seq(SUBSET (0 .. cbl)),
         (Len(s) * (cbl + 1)) % 8 = 0, call = DecodeCall("rust", Encoded(s, cbl), cbl)
  PROVE  Decoded = s
  <1> DEFINE L == cbl + 1
             n == Len(s)
             e == Encoded(s, cbl)
             c == DecodeCall("rust", e, cbl)
             o == Len(e)
  <1>1. n \in Nat /\ L \in 9 .. 26 /\ L \in Nat \ {0}
    BY LenProperties
  <1>2. e \in Seq(Byte) /\ o \in Nat /\ 8 * o = n * L
    <2> DEFINE x == L * n
    <2>1. e \in Seq(Byte) /\ o = x \div 8
      BY EncodedProperties
    <2> HIDE DEF L, n, e, o
    <2>2. x \in Nat /\ n * L = x /\ (n * L) % 8 = 0
      BY <1>1 DEF L, n
    <2> HIDE DEF x
    <2>3. o \in Nat /\ 8 * o = x
      BY <2>1, <2>2
    <2> QED
      BY <2>1, <2>2, <2>3
  <1>3. \A t \in 1 .. o : e[t] = EncodedByte(s, L, t)
    BY EncodedProperties
  <1>4. /\ c.op = "expand" /\ c.bitLen = L /\ c.input = e /\ Len(c.input) = o
        /\ c.outLen = (8 * 4 * o) \div L
    BY DecodeFields
  <1>5. Shape(c) /\ WidthOf(c) = 4
    <2>1. "rust" \in Impls
      BY DEF Impls
    <2> HIDE DEF e
    <2> QED
      BY <1>2, <2>1, DecodeShape
  <1>6. call = c
    OBVIOUS
  <1> HIDE DEF c, L, n, e, o
  <1>7. c.outLen = 4 * n
    <2> DEFINE h == 4 * n
    <2>1. 8 * 4 * o = h * L + 0 /\ h \in Nat /\ 0 \in 0 .. L - 1
      <3> DEFINE x == n * L
      <3>1. x \in Nat /\ h * L = 4 * x /\ h \in Nat
        BY <1>1
      <3> HIDE DEF x, h
      <3>2. 8 * o = x
        BY <1>2 DEF x
      <3> QED
        BY <1>1, <1>2, <3>1, <3>2
    <2> HIDE DEF h
    <2>2. (h * L + 0) \div L = h
      BY <1>1, <2>1, DivisionUnique
    <2> QED
      BY <1>4, <2>1, <2>2 DEF h
  <1>8. (8 * o) \div L = n
    <2>1. n * L + 0 = 8 * o /\ 0 \in 0 .. L - 1
      BY <1>1, <1>2
    <2>2. (n * L + 0) \div L = n
      BY <1>1, <2>1, DivisionUnique
    <2> QED
      BY <2>1, <2>2
  <1>9. i = o
    BY <1>4, <1>6 DEF Finished
  <1>10. PICK g \in Nat : LoopAt(c, o, g, accBits, acc, out)
    BY <1>6, <1>9 DEF LoopInv
  <1>11. Counts(c, o, g, accBits) /\ Written(c, o, g, out)
    BY <1>10 DEF LoopAt
  <1>12. g = n /\ \A m \in 0 .. n - 1 : (m + 1) * 4 <= c.outLen
    BY <1>4, <1>5, <1>8, <1>11, AllGroups
  <1>13. Len(out) = 4 * n /\ Len(out) \div 4 = n
    <2> DEFINE l == 4 * n
    <2>1. out \in [1 .. l -> Byte] /\ l \in Nat
      BY <1>1, <1>7, <1>11 DEF Written
    <2> HIDE DEF l
    <2>2. Len(out) = l
      BY <2>1
    <2> QED
      BY <1>1, <2>2 DEF l
  <1>14. \A u \in Nat : u < n * L => (BitOf(c, u) <=> IndexBit(s, L, u))
    <2> SUFFICES ASSUME NEW u \in Nat, u < 8 * o
                 PROVE  BitOf(c, u) <=> IndexBit(s, L, u)
      BY <1>2
    <2> DEFINE q == (u \div 8) + 1
               b == 7 - (u % 8)
    <2>1. q \in 1 .. o /\ b \in LowByte /\ 8 * q - 1 - b = u
      BY <1>2 DEF LowByte
    <2>2. BitOf(c, u) <=> b \in e[q]
      BY <1>4 DEF BitOf
    <2> HIDE DEF q, b
    <2>3. b \in e[q] <=> IndexBit(s, L, u)
      BY <1>3, <2>1 DEF EncodedByte
    <2> QED
      BY <2>2, <2>3
  <1>15. ASSUME NEW t \in 1 .. n
         PROVE  FromBytes(SubSeq(out, (4 * t) - 3, 4 * t)) = s[t]
    <2>0. t - 1 \in 0 .. n - 1
      BY <1>1
    <2>1. PICK m \in 0 .. n - 1 :
            m + 1 = t /\ m * 4 + 1 = (4 * t) - 3 /\ (m + 1) * 4 = 4 * t /\ m \in Nat
      BY <1>1, <2>0
    <2>2. m \in 0 .. g - 1 /\ (m + 1) * WidthOf(c) <= c.outLen
      BY <1>5, <1>12, <2>1
    <2>3. FromBytes(SubSeq(out, m * WidthOf(c) + 1, (m + 1) * WidthOf(c))) = WordOf(c, m)
      BY <1>4, <1>5, <1>11, <2>2, GroupGiven
    <2>4. ASSUME NEW b \in 0 .. L - 1
          PROVE  BitOf(c, (m + 1) * L - 1 - b) <=> b \in s[t]
      <3> DEFINE r == L - 1 - b
                 u == m * L + r
      <3>1. r \in 0 .. L - 1 /\ L - 1 - r = b
        BY <1>1
      <3>2. u \in Nat /\ u = (m + 1) * L - 1 - b /\ u < n * L
        <4> DEFINE x == m * L
        <4>1. x \in Nat /\ (m + 1) * L = x + L /\ n * L \in Nat
          BY <1>1, <2>1
        <4>2. (m + 1) * L <= n * L
          BY <1>1, <2>1
        <4> HIDE DEF x, r
        <4> QED
          BY <1>1, <3>1, <4>1, <4>2 DEF r, x
      <3>3. u \div L = m /\ u % L = r
        <4> HIDE DEF r
        <4> QED
          BY <1>1, <2>1, <3>1, DivisionUnique
      <3> HIDE DEF u, r
      <3>4. IndexBit(s, L, u) <=> b \in s[t]
        BY <2>1, <3>1, <3>3 DEF IndexBit
      <3> QED
        BY <1>14, <3>2, <3>4
    <2>5. s[t] \in SUBSET (0 .. L - 1)
      <3>1. s[t] \in SUBSET (0 .. cbl)
        BY ElementOfSeq DEF n
      <3>2. 0 .. cbl = 0 .. L - 1
        BY DEF L
      <3> QED
        BY <3>1, <3>2
    <2>6. WordOf(c, m) = s[t]
      BY <1>4, <2>4, <2>5 DEF WordOf
    <2> QED
      BY <1>4, <1>5, <2>1, <2>3, <2>6
  <1>16. Decoded = [t \in 1 .. n |-> s[t]]
    <2>1. Decoded = [t \in 1 .. n |-> FromBytes(SubSeq(out, (4 * t) - 3, 4 * t))]
      BY <1>13 DEF Decoded
    <2> QED
      BY <1>15, <2>1
  <1>17. s = [t \in 1 .. n |-> s[t]]
    <2>1. s \in [1 .. n -> SUBSET (0 .. cbl)]
      BY LenProperties DEF n
    <2> QED
      BY <2>1
  <1> QED
    BY <1>16, <1>17

-----------------------------------------------------------------------------
(* The tools.                                                              *)

\* The file is the encoding e, or e damaged.
FileOf(f, e) ==
  \/ f.state = "intact" /\ f.minimal = e
  \/ f.state = "longer" /\ f.minimal = Append(e, {})
  \/ f.state = "shorter" /\ f.minimal = SubSeq(e, 1, Len(e) - 1)
  \/ f.state = "flipped" /\ f.minimal = Flip(e)

\* The indices of a solution found.
Mined == indices \in Seq(SUBSET (0 .. Cbl)) /\ Len(indices) = 2^p.k

\* What holds between the calls: what is under way is the call the stage names, and
\* the file is the encoding of the indices or a damaged copy of it.
CrossInv ==
  /\ p \in Requests
  /\ stage \in {"asked", "refused", "row", "encode", "written", "skipped", "decode",
                "reencode", "passed", "failed"}
  /\ stage \notin {"asked", "refused"} => Accepts(p.n, p.k)
  /\ stage \notin {"asked", "refused", "row"} => Mined
  /\ stage = "encode" => call = EncodeCall("cpp", indices, Cbl)
  /\ stage \in {"written", "skipped", "decode", "reencode", "passed", "failed"}
       => FileOf(file, Encoded(indices, Cbl))
  /\ stage = "decode" => call = DecodeCall("rust", file.minimal, Cbl)
  /\ stage = "reencode" => call = EncodeCall("rust", indices, Cbl)
  /\ stage = "passed" => file.minimal = Encoded(indices, Cbl)
  /\ stage = "failed" => file.state # "intact" \/ ~WholeBytes

\* The number of indices is a natural number, and not zero.
LEMMA PowerPositive == \A n \in Nat : 2^n \in Nat /\ 1 <= 2^n
  <1> SUFFICES ASSUME NEW n \in Nat
               PROVE  2^n \in Nat /\ 1 <= 2^n
    OBVIOUS
  <1>1. IsFiniteSet(1 .. n) /\ Cardinality(1 .. n) = n
    BY FS_Interval
  <1>2. IsFiniteSet(SUBSET (1 .. n)) /\ Cardinality(SUBSET (1 .. n)) = 2^n
    BY <1>1, FS_SUBSET
  <1>3. SUBSET (1 .. n) # {}
    OBVIOUS
  <1>4. 2^n \in Nat /\ 2^n # 0
    BY <1>2, <1>3, FS_EmptySet, FS_CardinalityType
  <1> QED
    BY <1>4

\* The request.
LEMMA Request ==
  ASSUME p \in Requests
  PROVE  /\ p.n \in Nat /\ p.k \in Nat
         /\ Accepts(p.n, p.k) => Cbl \in 8 .. 25
  <1>1. p.n \in Nat /\ p.k \in Nat
    BY RequestsAssumption, ParamWordAssumption
  <1> QED
    BY <1>1, AcceptedNumbers DEF Cbl

\* The encoding of a solution: at least one byte, and of the announced width.
LEMMA MinedEncoding ==
  ASSUME p \in Requests, Accepts(p.n, p.k), Mined
  PROVE  /\ Encoded(indices, Cbl) \in Seq(Byte)
         /\ Len(Encoded(indices, Cbl)) \in Nat /\ 1 <= Len(Encoded(indices, Cbl))
         /\ Len(Encoded(indices, Cbl)) = SolutionWidth(p.n, p.k)
  <1> DEFINE c == Cbl
             m == 2^p.k
             e == Encoded(indices, Cbl)
             x == (c + 1) * m
  <1>1. p.k \in Nat /\ c \in 8 .. 25
    BY Request
  <1>2. m \in Nat /\ 1 <= m
    BY <1>1, PowerPositive
  <1>3. e \in Seq(Byte) /\ Len(e) = x \div 8
    BY <1>1, EncodedProperties DEF Mined
  <1>4. SolutionWidth(p.n, p.k) = (m * (c + 1)) \div 8
    BY DEF SolutionWidth, Cbl
  <1> HIDE DEF c, m, e
  <1>5. x = m * (c + 1) /\ x \in Nat /\ x >= 8
    <2>1. x = m * (c + 1) /\ x \in Nat
      BY <1>1, <1>2
    <2>2. 9 * m <= (c + 1) * m
      BY <1>1, <1>2
    <2> QED
      BY <1>2, <2>1, <2>2
  <1> HIDE DEF x
  <1>6. x \div 8 \in Nat /\ 1 <= x \div 8
    BY <1>5
  <1> QED
    BY <1>3, <1>4, <1>5, <1>6 DEF e

\* The file is bytes; damaged, it is not the encoding.
LEMMA FileBytes ==
  ASSUME NEW e \in Seq(Byte), Len(e) \in Nat, 1 <= Len(e), FileOf(file, e)
  PROVE  /\ file.minimal \in Seq(Byte)
         /\ file.minimal = e => file.state = "intact"
  <1>1. CASE file.state = "intact" /\ file.minimal = e
    BY <1>1
  <1>2. CASE file.state = "longer" /\ file.minimal = Append(e, {})
    <2>1. {} \in Byte
      BY DEF Byte
    <2>2. Append(e, {}) \in Seq(Byte) /\ Len(Append(e, {})) = Len(e) + 1
      BY <2>1, AppendProperties
    <2> QED
      BY <1>2, <2>2
  <1>3. CASE file.state = "shorter" /\ file.minimal = SubSeq(e, 1, Len(e) - 1)
    <2> DEFINE l == Len(e) - 1
    <2>1. l \in Nat /\ l <= Len(e) /\ l # Len(e)
      OBVIOUS
    <2> HIDE DEF l
    <2>2. SubSeq(e, 1, l) \in Seq(Byte) /\ Len(SubSeq(e, 1, l)) = l
      BY <2>1, SubSeqProperties
    <2> QED
      BY <1>3, <2>1, <2>2 DEF l
  <1>4. CASE file.state = "flipped" /\ file.minimal = Flip(e)
    <2> DEFINE f == Flip(e)
    <2>1. 1 \in 1 .. Len(e) /\ DOMAIN e = 1 .. Len(e) /\ e[1] \in Byte
      BY LenProperties, ElementOfSeq
    <2>2. LowByte \ e[1] \in Byte /\ LowByte \ e[1] # e[1]
      <3>1. 0 \in LowByte
        BY DEF LowByte
      <3> QED
        BY <2>1, <3>1 DEF LowByte, Byte
    <2>3. f = [e EXCEPT ![1] = LowByte \ e[1]]
      BY DEF Flip
    <2>4. f[1] = LowByte \ e[1]
      BY <2>1, <2>3
    <2>5. f \in Seq(Byte)
      BY <2>1, <2>2, <2>3, ExceptSeq
    <2> HIDE DEF f
    <2>6. f # e
      BY <2>2, <2>4
    <2> QED
      BY <1>4, <2>5, <2>6 DEF f
  <1> QED
    BY <1>1, <1>2, <1>3, <1>4 DEF FileOf

\* Initially.
LEMMA CrossInitially ==
  ASSUME Init
  PROVE  CrossInv /\ LoopInv
  <1>1. LoopInv
    BY LoopInitially DEF Init
  <1>2. CrossInv
    BY DEF Init, CrossInv
  <1> QED
    BY <1>1, <1>2

\* A row is expanded, over a clean buffer or a stale one.
LEMMA RowStarts ==
  ASSUME CrossInv, ExpandRow
  PROVE  CrossInv' /\ LoopInv'
  <1>1. p \in Requests /\ Accepts(p.n, p.k) /\ stage = "asked"
    BY DEF CrossInv, ExpandRow
  <1>2. p.n \in Nat /\ p.k \in Nat
    BY <1>1, Request
  <1>3. PICK impl \in Impls, digest \in Digests(p.n \div 8) :
          \/ Start(RowCall(impl, digest, p.n, p.k))
          \/ StartInto(RowCall(impl, digest, p.n, p.k), Stale(RowCall(impl, digest, p.n, p.k).outLen))
    BY DEF ExpandRow
  <1> DEFINE c == RowCall(impl, digest, p.n, p.k)
  <1>4. Shape(c)
    <2>1. digest \in [1 .. (p.n \div 8) -> Byte]
      BY <1>1, DigestsAssumption
    <2> DEFINE n == p.n
               k == p.k
    <2>2. n \in Nat /\ k \in Nat /\ Accepts(n, k) /\ digest \in [1 .. (n \div 8) -> Byte]
      BY <1>1, <1>2, <2>1
    <2> HIDE DEF n, k
    <2>3. Shape(RowCall(impl, digest, n, k))
      BY <2>2, RowShape
    <2> QED
      BY <2>3 DEF n, k
  <1> HIDE DEF c
  <1>5. LoopInv'
    <2>1. \E buffer \in [1 .. c.outLen -> Byte] : StartInto(c, buffer)
      <3>1. Zeroed(c.outLen) \in [1 .. c.outLen -> Byte] /\ Stale(c.outLen) \in [1 .. c.outLen -> Byte]
        BY Buffers
      <3>2. StartInto(c, Zeroed(c.outLen)) \/ StartInto(c, Stale(c.outLen))
        BY <1>3 DEF c, Start
      <3> QED
        BY <3>1, <3>2
    <2> QED
      BY <1>4, <2>1, LoopStarts
  <1>6. stage' = "row" /\ UNCHANGED <<p, indices, file>>
    BY DEF ExpandRow
  <1>7. CrossInv'
    BY <1>1, <1>6 DEF CrossInv
  <1> QED
    BY <1>5, <1>7

\* A call started over zeroes.
LEMMA CallStarts ==
  ASSUME NEW c, Shape(c), Start(c)
  PROVE  LoopInv' /\ call' = c
  <1> DEFINE buffer == Zeroed(c.outLen)
  <1>1. buffer \in [1 .. c.outLen -> Byte] /\ StartInto(c, buffer)
    BY Buffers DEF Start
  <1> HIDE DEF buffer
  <1>2. LoopInv'
    BY <1>1, LoopStarts
  <1> QED
    BY <1>1, <1>2 DEF StartInto

\* A solution is found and its encoding begins.
LEMMA MineStarts ==
  ASSUME CrossInv, Mine
  PROVE  CrossInv' /\ LoopInv'
  <1>1. p \in Requests /\ Accepts(p.n, p.k) /\ stage = "asked" /\ stage' = "encode"
        /\ p' = p /\ file' = file
    BY DEF CrossInv, Mine
  <1>2. PICK s \in Solutions(p.n, p.k) : indices' = s /\ Start(EncodeCall("cpp", s, Cbl))
    BY DEF Mine
  <1>3. s \in Seq(SUBSET (0 .. Cbl)) /\ Len(s) = 2^p.k
    BY <1>1, SolutionsAssumption DEF Cbl
  <1> DEFINE b == Cbl
             c == EncodeCall("cpp", s, b)
  <1>4. Shape(c)
    <2>1. b \in 8 .. 25 /\ "cpp" \in Impls /\ s \in Seq(SUBSET (0 .. b))
      BY <1>1, <1>3, Request DEF Impls
    <2> HIDE DEF b
    <2> QED
      BY <2>1, EncodeShape
  <1> HIDE DEF c
  <1>5. LoopInv' /\ call' = c
    BY <1>2, <1>4, CallStarts DEF c
  <1>6. Cbl' = Cbl
    BY <1>1 DEF Cbl
  <1>7. Mined'
    BY <1>1, <1>2, <1>3, <1>6 DEF Mined
  <1>8. CrossInv'
    BY <1>1, <1>2, <1>5, <1>6, <1>7 DEF CrossInv, c
  <1> QED
    BY <1>5, <1>8

\* The file is written.
LEMMA WriteKeeps ==
  ASSUME CrossInv, LoopInv, Write
  PROVE  CrossInv'
  <1>1. /\ p \in Requests /\ Accepts(p.n, p.k) /\ Mined /\ Finished /\ stage' = "written"
        /\ call = EncodeCall("cpp", indices, Cbl) /\ UNCHANGED <<p, indices>>
    BY DEF CrossInv, Write
  <1>2. out = Encoded(indices, Cbl)
    <2> DEFINE b == Cbl
               impl == "cpp"
    <2>1. b \in 8 .. 25 /\ impl \in Impls /\ indices \in Seq(SUBSET (0 .. b))
      BY <1>1, Request DEF Impls, Mined
    <2>2. call = EncodeCall(impl, indices, b)
      BY <1>1
    <2> HIDE DEF b, impl
    <2>3. out = Encoded(indices, b)
      BY <1>1, <2>1, <2>2, EncodeEnds
    <2> QED
      BY <2>3 DEF b
  <1>3. FileOf(file', out)
    BY DEF Write, FileOf
  <1>4. Cbl' = Cbl /\ Encoded(indices, Cbl)' = Encoded(indices, Cbl)
    BY <1>1 DEF Cbl, Encoded
  <1>5. Mined'
    BY <1>1, <1>4 DEF Mined
  <1> QED
    BY <1>1, <1>2, <1>3, <1>4, <1>5 DEF CrossInv

\* The indices and their number do not change once found.
LEMMA SameSolution ==
  ASSUME UNCHANGED <<p, indices>>
  PROVE  /\ Cbl' = Cbl /\ Encoded(indices, Cbl)' = Encoded(indices, Cbl)
         /\ Mined' = Mined /\ WholeBytes' = WholeBytes
  <1>1. Cbl' = Cbl
    BY DEF Cbl
  <1>2. Encoded(indices, Cbl)' = Encoded(indices, Cbl)
    BY <1>1 DEF Encoded
  <1>3. Mined' = Mined
    BY <1>1 DEF Mined
  <1>4. WholeBytes' = WholeBytes
    BY <1>1 DEF WholeBytes
  <1> QED
    BY <1>1, <1>2, <1>3, <1>4

\* The file is decoded.
LEMMA DecodeStarts ==
  ASSUME CrossInv, Decode
  PROVE  CrossInv' /\ LoopInv'
  <1>1. /\ p \in Requests /\ Accepts(p.n, p.k) /\ Mined /\ FileOf(file, Encoded(indices, Cbl))
        /\ stage' = "decode" /\ UNCHANGED <<p, indices, file>>
        /\ Start(DecodeCall("rust", file.minimal, Cbl))
    BY DEF CrossInv, Decode
  <1> DEFINE bytes == file.minimal
             b == Cbl
             impl == "rust"
             c == DecodeCall(impl, bytes, b)
  <1>2. bytes \in Seq(Byte)
    <2> DEFINE e == Encoded(indices, Cbl)
    <2>1. e \in Seq(Byte) /\ Len(e) \in Nat /\ 1 <= Len(e) /\ FileOf(file, e)
      BY <1>1, MinedEncoding
    <2> HIDE DEF e
    <2> QED
      BY <2>1, FileBytes
  <1>3. b \in 8 .. 25 /\ impl \in Impls
    BY <1>1, Request DEF Impls
  <1> HIDE DEF bytes, b, impl
  <1>4. Shape(c)
    BY <1>2, <1>3, DecodeShape
  <1> HIDE DEF c
  <1>5. LoopInv' /\ call' = c
    <2>1. Start(c)
      BY <1>1 DEF c, bytes, b, impl
    <2> QED
      BY <1>4, <2>1, CallStarts
  <1>6. call' = DecodeCall("rust", file.minimal, Cbl)
    BY <1>5 DEF c, bytes, b, impl
  <1>7. CrossInv'
    BY <1>1, <1>6, SameSolution DEF CrossInv
  <1> QED
    BY <1>5, <1>7

\* The indices are compared: those of a file as written, if they fill whole bytes,
\* are the ones encoded.
LEMMA CompareIndicesKeeps ==
  ASSUME CrossInv, LoopInv, CompareIndices
  PROVE  CrossInv' /\ LoopInv'
  <1>1. /\ p \in Requests /\ Accepts(p.n, p.k) /\ Mined /\ FileOf(file, Encoded(indices, Cbl))
        /\ call = DecodeCall("rust", file.minimal, Cbl) /\ Finished
        /\ UNCHANGED <<p, indices, file>>
    BY DEF CrossInv, CompareIndices
  <1> DEFINE b == Cbl
             impl == "rust"
  <1>2. b \in 8 .. 25 /\ impl \in Impls /\ indices \in Seq(SUBSET (0 .. b))
    BY <1>1, Request DEF Impls, Mined
  <1>3. CASE Decoded = indices
    <2> DEFINE c == EncodeCall(impl, indices, b)
    <2>1. Start(c) /\ stage' = "reencode"
      BY <1>3 DEF CompareIndices
    <2> HIDE DEF b, impl
    <2>2. Shape(c)
      BY <1>2, EncodeShape
    <2> HIDE DEF c
    <2>3. LoopInv' /\ call' = c
      BY <2>1, <2>2, CallStarts
    <2>4. call' = EncodeCall("rust", indices, Cbl)
      BY <2>3 DEF c, impl, b
    <2>5. CrossInv'
      BY <1>1, <2>1, <2>4, SameSolution DEF CrossInv
    <2> QED
      BY <2>3, <2>5
  <1>4. CASE Decoded # indices
    <2>1. stage' = "failed" /\ UNCHANGED codecVars
      BY <1>4 DEF CompareIndices
    <2>2. file.state # "intact" \/ ~WholeBytes
      <3> SUFFICES ASSUME file.state = "intact", WholeBytes
                   PROVE  FALSE
        OBVIOUS
      <3>1. file.minimal = Encoded(indices, b)
        BY <1>1 DEF FileOf
      <3>2. (Len(indices) * (b + 1)) % 8 = 0
        BY DEF WholeBytes
      <3>3. call = DecodeCall("rust", Encoded(indices, b), b)
        BY <1>1, <3>1
      <3> HIDE DEF b
      <3>4. Decoded = indices
        BY <1>1, <1>2, <3>2, <3>3, DecodeEnds
      <3> QED
        BY <1>4, <3>4
    <2>3. CrossInv'
      BY <1>1, <2>1, <2>2, SameSolution DEF CrossInv
    <2>4. LoopInv'
      BY <2>1 DEF LoopInv, codecVars
    <2> QED
      BY <2>3, <2>4
  <1> QED
    BY <1>3, <1>4

\* The bytes are compared.
LEMMA CompareMinimalKeeps ==
  ASSUME CrossInv, LoopInv, CompareMinimal
  PROVE  CrossInv'
  <1>1. /\ p \in Requests /\ Accepts(p.n, p.k) /\ Mined /\ FileOf(file, Encoded(indices, Cbl))
        /\ call = EncodeCall("rust", indices, Cbl) /\ Finished
        /\ UNCHANGED <<p, indices, file>>
    BY DEF CrossInv, CompareMinimal
  <1>2. out = Encoded(indices, Cbl)
    <2> DEFINE b == Cbl
               impl == "rust"
    <2>1. b \in 8 .. 25 /\ impl \in Impls /\ indices \in Seq(SUBSET (0 .. b))
      BY <1>1, Request DEF Impls, Mined
    <2>2. call = EncodeCall(impl, indices, b)
      BY <1>1
    <2> HIDE DEF b, impl
    <2>3. out = Encoded(indices, b)
      BY <1>1, <2>1, <2>2, EncodeEnds
    <2> QED
      BY <2>3 DEF b
  <1>3. CASE SameEncoding
    <2>1. stage' = "passed" /\ file.minimal = Encoded(indices, Cbl)
      BY <1>2, <1>3 DEF CompareMinimal, SameEncoding
    <2> QED
      BY <1>1, <2>1, SameSolution DEF CrossInv
  <1>4. CASE ~SameEncoding
    <2>1. stage' = "failed" /\ file.minimal # Encoded(indices, Cbl)
      BY <1>2, <1>4 DEF CompareMinimal, SameEncoding
    <2>2. file.state # "intact"
      BY <1>1, <2>1 DEF FileOf
    <2> QED
      BY <1>1, <2>1, <2>2, SameSolution DEF CrossInv
  <1> QED
    BY <1>3, <1>4

\* Every step keeps both.
LEMMA CrossSteps ==
  ASSUME CrossInv, LoopInv, [Next]_vars
  PROVE  CrossInv' /\ LoopInv'
  <1>1. ASSUME Refuse
        PROVE  CrossInv' /\ LoopInv'
    <2>1. CrossInv'
      BY <1>1 DEF Refuse, CrossInv
    <2>2. LoopInv'
      BY <1>1 DEF Refuse, LoopInv, codecVars
    <2> QED
      BY <2>1, <2>2
  <1>2. ASSUME Iterate
        PROVE  CrossInv' /\ LoopInv'
    <2>1. LoopInv'
      BY <1>2, LoopSteps DEF Iterate
    <2>2. call' = call
      BY <1>2 DEF Iterate, CodecStep, CompressByte, ExpandByte
    <2>3. UNCHANGED <<p, stage, indices, file>>
      BY <1>2 DEF Iterate
    <2>4. CrossInv'
      BY <2>2, <2>3, SameSolution DEF CrossInv
    <2> QED
      BY <2>1, <2>4
  <1>3. ASSUME Write
        PROVE  CrossInv' /\ LoopInv'
    <2>1. LoopInv'
      BY <1>3 DEF Write, LoopInv, codecVars
    <2> QED
      BY <1>3, <2>1, WriteKeeps
  <1>4. ASSUME Skip
        PROVE  CrossInv' /\ LoopInv'
    <2>1. LoopInv'
      BY <1>4 DEF Skip, LoopInv, codecVars
    <2>2. stage = "written" /\ stage' = "skipped" /\ UNCHANGED <<p, indices, file>>
      BY <1>4 DEF Skip
    <2>3. CrossInv'
      BY <2>2, SameSolution DEF CrossInv
    <2> QED
      BY <2>1, <2>3
  <1>5. ASSUME CompareMinimal
        PROVE  CrossInv' /\ LoopInv'
    <2>1. LoopInv'
      BY <1>5 DEF CompareMinimal, LoopInv, codecVars
    <2> QED
      BY <1>5, <2>1, CompareMinimalKeeps
  <1>6. ASSUME UNCHANGED vars
        PROVE  CrossInv' /\ LoopInv'
    <2>1. UNCHANGED <<call, p, stage, indices, file>>
      BY <1>6 DEF vars, codecVars
    <2>2. CrossInv'
      BY <2>1, SameSolution DEF CrossInv
    <2>3. LoopInv'
      BY <1>6 DEF vars, codecVars, LoopInv
    <2> QED
      BY <2>2, <2>3
  <1> QED
    BY <1>1, <1>2, <1>3, <1>4, <1>5, <1>6,
       RowStarts, MineStarts, DecodeStarts, CompareIndicesKeeps DEF Next

\* The tools and the loops keep their invariants.
THEOREM CodecInvariant == Spec => [](CrossInv /\ LoopInv)
  <1>1. Init => CrossInv /\ LoopInv
    BY CrossInitially
  <1>2. (CrossInv /\ LoopInv) /\ [Next]_vars => (CrossInv /\ LoopInv)'
    BY CrossSteps
  <1> QED
    BY <1>1, <1>2, PTL DEF Spec

\* Neither accumulator runs over: what an iteration works on are the last bits read.
THEOREM BitsKept == Spec => []NoBitLost
  <1>1. LoopInv => NoBitLost
    BY NoBitLostHolds
  <1> QED
    BY <1>1, CodecInvariant, PTL

\* No iteration indexes past a buffer or shifts too far.
THEOREM NeverPanics == Spec => []NoPanic
  <1>1. LoopInv => NoPanic
    BY NoPanicHolds
  <1> QED
    BY <1>1, CodecInvariant, PTL

\* What a finished call leaves is the stream regrouped, whatever the buffer held.
THEOREM OutputRegrouped == Spec => []OutputExact
  <1>1. LoopInv => OutputExact
    BY OutputExactHolds
  <1> QED
    BY <1>1, CodecInvariant, PTL

\* The cross-check passes exactly the files it should.
THEOREM CrossChecked == Spec => []CrossCheckExact
  <1>1. CrossInv => CrossCheckExact
    <2> SUFFICES ASSUME CrossInv
                 PROVE  CrossCheckExact
      OBVIOUS
    <2>1. ASSUME stage = "passed"
          PROVE  file.state = "intact" /\ Len(file.minimal) = SolutionWidth(p.n, p.k)
      <3> DEFINE e == Encoded(indices, Cbl)
      <3>1. p \in Requests /\ Accepts(p.n, p.k) /\ Mined /\ FileOf(file, e) /\ file.minimal = e
        BY <2>1 DEF CrossInv
      <3>2. e \in Seq(Byte) /\ Len(e) \in Nat /\ 1 <= Len(e) /\ Len(e) = SolutionWidth(p.n, p.k)
        BY <3>1, MinedEncoding
      <3> HIDE DEF e
      <3>3. file.state = "intact"
        BY <3>1, <3>2, FileBytes
      <3> QED
        BY <3>1, <3>2, <3>3
    <2> QED
      BY <2>1 DEF CrossInv, CrossCheckExact
  <1> QED
    BY <1>1, CodecInvariant, PTL

-----------------------------------------------------------------------------
(* The range of n_bounds.                                                  *)

\* A number divides another.
Divides(d, a) == \E q \in Int : a = q * d

\* The numbers that divide both.
CommonDivisors(a, b) == {d \in Nat \ {0} : Divides(d, a) /\ Divides(d, b)}

\* The largest element of a set.
GreatestOf(D) == CHOOSE d \in D : \A e \in D : e <= d

\* The greatest common divisor.
Greatest(a, b) == IF a = 0 /\ b = 0 THEN 0 ELSE GreatestOf(CommonDivisors(a, b))

\* What divides one term divides the other exactly when it divides the sum.
LEMMA DividesSum ==
  ASSUME NEW d \in Int, NEW x \in Int, NEW y \in Int, NEW z \in Int, NEW e \in Int,
         z = e * x + y, Divides(d, x)
  PROVE  Divides(d, z) <=> Divides(d, y)
  <1>1. PICK q \in Int : x = q * d
    BY DEF Divides
  <1> DEFINE h == e * q
  <1>2. h \in Int /\ e * x = h * d
    BY <1>1
  <1> HIDE DEF h
  <1>3. ASSUME NEW r \in Int
        PROVE  /\ y = r * d => z = (h + r) * d
               /\ z = r * d => y = (r - h) * d
    <2>1. (h + r) * d = h * d + r * d /\ (r - h) * d = r * d - h * d
      BY <1>2
    <2> DEFINE f == h * d
               g == r * d
               t == e * x
    <2>2. f \in Int /\ g \in Int /\ t = f /\ z = t + y
      BY <1>2
    <2> HIDE DEF f, g, t
    <2>3. y = g => z = f + g
      BY <2>2
    <2>4. z = g => y = g - f
      BY <2>2
    <2> QED
      BY <2>1, <2>3, <2>4 DEF f, g
  <1>4. ASSUME Divides(d, y)
        PROVE  Divides(d, z)
    <2>1. PICK r \in Int : y = r * d
      BY <1>4 DEF Divides
    <2>2. h + r \in Int /\ z = (h + r) * d
      BY <1>2, <1>3, <2>1
    <2> QED
      BY <2>2 DEF Divides
  <1>5. ASSUME Divides(d, z)
        PROVE  Divides(d, y)
    <2>1. PICK r \in Int : z = r * d
      BY <1>5 DEF Divides
    <2>2. r - h \in Int /\ y = (r - h) * d
      BY <1>2, <1>3, <2>1
    <2> QED
      BY <2>2 DEF Divides
  <1> QED
    BY <1>4, <1>5

\* A step of the loop keeps the common divisors.
LEMMA SameDivisors ==
  ASSUME NEW a \in Nat, NEW b \in Nat \ {0}
  PROVE  CommonDivisors(a, b) = CommonDivisors(b, a % b)
  <1> DEFINE e == a \div b
             r == a % b
  <1>1. e \in Nat /\ r \in Nat /\ a = e * b + r /\ r = a - e * b
    <2>1. e \in Nat /\ r \in Nat /\ a = e * b + r
      BY Division
    <2> HIDE DEF e, r
    <2> QED
      BY <2>1
  <1> HIDE DEF e, r
  <1>2. ASSUME NEW d \in Nat \ {0}, Divides(d, b)
        PROVE  Divides(d, a) <=> Divides(d, r)
    <2>1. d \in Int /\ b \in Int /\ r \in Int /\ a \in Int /\ e \in Int /\ a = e * b + r
      BY <1>1
    <2> QED
      BY <1>2, <2>1, DividesSum
  <1>3. CommonDivisors(a, b) = CommonDivisors(b, r)
    BY <1>2 DEF CommonDivisors
  <1> QED
    BY <1>3 DEF r

\* When the loop ends it has the greatest.
LEMMA GreatestOfZero ==
  ASSUME NEW a \in Nat
  PROVE  Greatest(a, 0) = a
  <1>1. CASE a = 0
    BY <1>1 DEF Greatest
  <1>2. CASE a # 0
    <2> DEFINE D == CommonDivisors(a, 0)
    <2>1. a \in D
      <3>1. a = 1 * a /\ 0 = 0 * a
        OBVIOUS
      <3> QED
        BY <1>2, <3>1 DEF CommonDivisors, Divides
    <2>2. \A d \in D : d \in Nat /\ d <= a
      <3> SUFFICES ASSUME NEW d \in Nat \ {0}, Divides(d, a)
                   PROVE  d <= a
        BY DEF CommonDivisors
      <3>1. PICK q \in Int : a = q * d
        BY DEF Divides
      <3>2. q >= 1
        <4> SUFFICES ASSUME q <= 0
                     PROVE  FALSE
          OBVIOUS
        <4>1. q * d <= 0
          OBVIOUS
        <4> QED
          BY <1>2, <3>1, <4>1
      <3>3. 1 * d <= q * d
        BY <3>2
      <3> QED
        BY <3>1, <3>3
    <2> HIDE DEF D
    <2>3. \A d \in D : (\A x \in D : x <= d) <=> d = a
      BY <2>1, <2>2
    <2>4. GreatestOf(D) = a
      BY <2>1, <2>3 DEF GreatestOf
    <2> QED
      BY <1>2, <2>4 DEF Greatest, D
  <1> QED
    BY <1>1, <1>2

\* So the recursion has a solution, and gcd is what its recursion says.
LEMMA GcdUnfolds ==
  ASSUME NEW a \in Nat, NEW b \in Nat
  PROVE  Gcd[<<a, b>>] = IF b = 0 THEN a ELSE Gcd[<<b, a % b>>]
  <1> DEFINE F(f) == [x \in Nat \X Nat |-> IF x[2] = 0 THEN x[1] ELSE f[<<x[2], x[1] % x[2]>>]]
             G == [x \in Nat \X Nat |-> Greatest(x[1], x[2])]
  <1>1. G = F(G)
    <2> SUFFICES ASSUME NEW x \in Nat \X Nat
                 PROVE  Greatest(x[1], x[2]) = IF x[2] = 0 THEN x[1] ELSE G[<<x[2], x[1] % x[2]>>]
      OBVIOUS
    <2> DEFINE m == x[1]
               n == x[2]
    <2>0. m \in Nat /\ n \in Nat
      OBVIOUS
    <2> HIDE DEF m, n
    <2>1. CASE n = 0
      <3>1. Greatest(m, 0) = m
        BY <2>0, GreatestOfZero
      <3> QED
        BY <2>1, <3>1 DEF m, n
    <2>2. CASE n # 0
      <3> DEFINE r == m % n
      <3>1. r \in Nat
        BY <2>0, <2>2, Division
      <3>2. Greatest(m, n) = Greatest(n, r)
        BY <2>0, <2>2, SameDivisors DEF Greatest
      <3> HIDE DEF r
      <3>3. G[<<n, r>>] = Greatest(n, r)
        BY <2>0, <3>1
      <3> HIDE DEF G
      <3> QED
        BY <2>2, <3>2, <3>3 DEF m, n, r
    <2> QED
      BY <2>1, <2>2 DEF m, n
  <1>2. Gcd = CHOOSE f : f = F(f)
    BY DEF Gcd
  <1> HIDE DEF G
  <1>3. Gcd = F(Gcd)
    <2> HIDE DEF F
    <2> QED
      BY <1>1, <1>2
  <1> DEFINE q == <<a, b>>
  <1>4. q \in Nat \X Nat /\ q[1] = a /\ q[2] = b
    OBVIOUS
  <1> HIDE DEF q
  <1>5. Gcd[q] = IF q[2] = 0 THEN q[1] ELSE Gcd[<<q[2], q[1] % q[2]>>]
    <2>1. F(Gcd)[q] = IF q[2] = 0 THEN q[1] ELSE Gcd[<<q[2], q[1] % q[2]>>]
      BY <1>4
    <2> HIDE DEF F
    <2> QED
      BY <1>3, <2>1
  <1> QED
    BY <1>4, <1>5 DEF q

\* The greatest common divisor of 8 and m, by the remainder of m.
EightWith(m) ==
  IF m % 8 = 0 THEN 8 ELSE IF m % 8 = 4 THEN 4 ELSE IF m % 8 \in {2, 6} THEN 2 ELSE 1

\* It is gcd(8, m).
LEMMA GcdOfEight ==
  ASSUME NEW m \in Nat \ {0}
  PROVE  Gcd[<<8, m>>] = EightWith(m)
  <1> DEFINE g(a, b) == Gcd[<<a, b>>]
  <1>1. \A a, b \in Nat : g(a, b) = IF b = 0 THEN a ELSE g(b, a % b)
    BY GcdUnfolds
  <1> HIDE DEF g
  <1>2. \A a \in Nat : g(a, 0) = a
    BY <1>1
  <1>3. \A a \in Nat : g(a, 1) = 1
    <2>1. \A a \in Nat : a % 1 = 0
      OBVIOUS
    <2> QED
      BY <1>1, <1>2, <2>1
  <1>4. g(3, 2) = 1 /\ g(6, 2) = 2
    BY <1>1, <1>2, <1>3
  <1>5. g(5, 3) = 1
    BY <1>1, <1>4
  <1>6. ASSUME NEW r \in 0 .. 7
        PROVE  g(8, r) = EightWith(r)
    <2>1. CASE r = 0
      BY <1>2, <2>1 DEF EightWith
    <2>2. CASE r = 1
      BY <1>3, <2>2 DEF EightWith
    <2>3. CASE r = 2
      BY <1>1, <1>2, <2>3 DEF EightWith
    <2>4. CASE r = 3
      BY <1>1, <1>4, <2>4 DEF EightWith
    <2>5. CASE r = 4
      BY <1>1, <1>2, <2>5 DEF EightWith
    <2>6. CASE r = 5
      BY <1>1, <1>5, <2>6 DEF EightWith
    <2>7. CASE r = 6
      BY <1>1, <1>4, <2>7 DEF EightWith
    <2>8. CASE r = 7
      BY <1>1, <1>3, <2>8 DEF EightWith
    <2> QED
      BY <2>1, <2>2, <2>3, <2>4, <2>5, <2>6, <2>7, <2>8
  <1>7. CASE m < 8
    BY <1>6, <1>7 DEF g
  <1>8. CASE m >= 8
    <2> DEFINE r == m % 8
    <2>1. r \in 0 .. 7 /\ r % 8 = m % 8
      OBVIOUS
    <2>2. g(8, m) = g(8, r)
      <3>1. CASE m = 8
        <4>1. g(8, 8) = g(8, 8 % 8)
          BY <1>1
        <4> QED
          BY <3>1, <4>1
      <3>2. CASE m # 8
        <4>1. 8 % m = 8
          BY <1>8, <3>2
        <4>2. g(8, m) = g(m, 8)
          BY <1>1, <4>1
        <4>3. g(m, 8) = g(8, m % 8)
          BY <1>1
        <4> QED
          BY <4>2, <4>3
      <3> QED
        BY <3>1, <3>2
    <2>3. EightWith(r) = EightWith(m)
      BY <2>1 DEF EightWith
    <2> HIDE DEF r
    <2>4. g(8, r) = EightWith(r)
      BY <1>6, <2>1
    <2> QED
      BY <2>2, <2>3, <2>4 DEF g
  <1> QED
    BY <1>7, <1>8

\* A multiple leaves no remainder, and nothing else does.
LEMMA Multiples ==
  ASSUME NEW a \in Nat, NEW d \in Nat \ {0}
  PROVE  a % d = 0 <=> \E q \in Nat : a = q * d
  <1>1. ASSUME a % d = 0
        PROVE  \E q \in Nat : a = q * d
    <2> DEFINE q == a \div d
    <2>1. q \in Nat /\ a = q * d + 0
      BY <1>1, Division
    <2> HIDE DEF q
    <2>2. a = q * d
      BY <2>1
    <2> QED
      BY <2>1, <2>2
  <1>2. ASSUME NEW q \in Nat, a = q * d
        PROVE  a % d = 0
    <2>1. 0 \in 0 .. d - 1 /\ q * d + 0 = a
      BY <1>2
    <2>2. (q * d + 0) % d = 0
      BY <2>1, DivisionUnique
    <2> QED
      BY <2>1, <2>2
  <1> QED
    BY <1>1, <1>2

\* The cofactor of gcd(8, m) in 8.
Cofactor(m) == 8 \div EightWith(m)

\* They are powers of two, and their product is 8.
LEMMA CofactorValues ==
  ASSUME NEW m \in Nat
  PROVE  /\ EightWith(m) \in {1, 2, 4, 8} /\ Cofactor(m) \in {1, 2, 4, 8}
         /\ EightWith(m) * Cofactor(m) = 8
  BY DEF Cofactor, EightWith

\* A multiple of m is one of 8 if its quotient is one of the cofactor.
LEMMA EightDivides ==
  ASSUME NEW m \in Nat, NEW q \in Nat
  PROVE  (q * m) % 8 = 0 <=> q % Cofactor(m) = 0
  <1> DEFINE u == m \div 8
             r == m % 8
             w == q \div 8
             v == q % 8
  <1>1. u \in Nat /\ r \in 0 .. 7 /\ m = 8 * u + r /\ w \in Nat /\ v \in 0 .. 7 /\ q = 8 * w + v
    OBVIOUS
  <1>2. Cofactor(m) = IF r = 0 THEN 1 ELSE IF r = 4 THEN 2 ELSE IF r \in {2, 6} THEN 4 ELSE 8
    BY DEF Cofactor, EightWith
  <1> HIDE DEF u, r, w, v
  <1> DEFINE z == u * q + w * r
  <1>3. z \in Nat /\ q * m = 8 * z + v * r
    <2>1. q * m = q * (8 * u) + q * r
      BY <1>1
    <2>2. q * r = (8 * w) * r + v * r
      BY <1>1
    <2>3. q * (8 * u) = 8 * (u * q) /\ (8 * w) * r = 8 * (w * r)
      BY <1>1
    <2> DEFINE x == u * q
               y == w * r
               t == v * r
    <2>4. x \in Nat /\ y \in Nat /\ t \in Nat
      BY <1>1
    <2> HIDE DEF x, y, t
    <2>5. q * m = 8 * x + (8 * y + t)
      BY <2>1, <2>2, <2>3 DEF x, y, t
    <2>6. q * m = 8 * (x + y) + t /\ x + y \in Nat
      BY <2>4, <2>5
    <2> QED
      BY <2>6 DEF x, y, t
  <1> HIDE DEF z
  <1>4. (q * m) % 8 = (v * r) % 8
    <2> DEFINE t == v * r
    <2>1. t \in Nat
      BY <1>1
    <2> HIDE DEF t
    <2>2. (8 * z + t) % 8 = t % 8
      BY <1>3, <2>1
    <2> QED
      BY <1>3, <2>2 DEF t
  <1>5. \A c \in {1, 2, 4, 8} : q % c = v % c
    BY <1>1
  <1>6. (v * r) % 8 = 0 <=> v % Cofactor(m) = 0
    <2>1. CASE r = 0
      BY <1>1, <1>2, <2>1
    <2>2. CASE r = 1
      BY <1>1, <1>2, <2>2
    <2>3. CASE r = 2
      BY <1>1, <1>2, <2>3
    <2>4. CASE r = 3
      BY <1>1, <1>2, <2>4
    <2>5. CASE r = 4
      BY <1>1, <1>2, <2>5
    <2>6. CASE r = 5
      BY <1>1, <1>2, <2>6
    <2>7. CASE r = 6
      BY <1>1, <1>2, <2>7
    <2>8. CASE r = 7
      BY <1>1, <1>2, <2>8
    <2> QED
      BY <1>1, <2>1, <2>2, <2>3, <2>4, <2>5, <2>6, <2>7, <2>8
  <1>7. Cofactor(m) \in {1, 2, 4, 8}
    BY CofactorValues
  <1> QED
    BY <1>4, <1>5, <1>6, <1>7

\* The step is the least common multiple of 8 and m: it divides what both do.
LEMMA CommonMultiples ==
  ASSUME NEW m \in Nat \ {0}, NEW n \in Nat
  PROVE  n % 8 = 0 /\ n % m = 0 <=> n % (Cofactor(m) * m) = 0
  <1> DEFINE c == Cofactor(m)
             s == c * m
  <1>1. c \in {1, 2, 4, 8}
    BY CofactorValues
  <1>2. c \in Nat \ {0} /\ s \in Nat \ {0}
    <2> HIDE DEF c
    <2> QED
      BY <1>1
  <1> HIDE DEF c
  <1>3. ASSUME n % 8 = 0, n % m = 0
        PROVE  n % s = 0
    <2>1. PICK q \in Nat : n = q * m
      BY <1>3, Multiples
    <2>2. q % c = 0
      BY <1>3, <2>1, EightDivides DEF c
    <2>3. PICK e \in Nat : q = e * c
      BY <1>2, <2>2, Multiples
    <2>4. n = e * s
      BY <1>2, <2>1, <2>3
    <2> HIDE DEF s
    <2> QED
      BY <1>2, <2>4, Multiples
  <1>4. ASSUME n % s = 0
        PROVE  n % 8 = 0 /\ n % m = 0
    <2>1. PICK e \in Nat : n = e * s
      <3> HIDE DEF s
      <3> QED
        BY <1>2, <1>4, Multiples
    <2> DEFINE q == e * c
    <2>2. q \in Nat /\ n = q * m
      BY <1>2, <2>1
    <2>3. q % c = 0
      <3>1. q \in Nat /\ \E x \in Nat : q = x * c
        BY <1>2, <2>2
      <3> HIDE DEF q
      <3> QED
        BY <1>2, <3>1, Multiples
    <2> HIDE DEF q
    <2>4. (q * m) % 8 = 0
      BY <2>2, <2>3, EightDivides DEF c
    <2>5. n % m = 0
      BY <2>2, Multiples
    <2> QED
      BY <2>2, <2>4, <2>5
  <1> QED
    BY <1>3, <1>4 DEF s, c

\* The word is a multiple of 64, so that its eighth is one of 8.
LEMMA WordEighths ==
  \E w \in Nat : ParamWord = 64 * w /\ ParamWord \div 8 = 8 * w /\ 200 < w
  <1>1. ParamWord \in Nat /\ ParamWord > 25 * 512 /\ ParamWord % 64 = 0
    BY ParamWordAssumption
  <1> DEFINE w == ParamWord \div 64
  <1>2. w \in Nat /\ ParamWord = 64 * w
    BY <1>1
  <1> HIDE DEF w
  <1>3. 200 < w /\ ParamWord \div 8 = 8 * w
    BY <1>1, <1>2
  <1> QED
    BY <1>2, <1>3

\* The number of segments, of every k but the last.
LEMMA SegmentsIs ==
  ASSUME NEW k \in Nat, k + 1 < ParamWord
  PROVE  Segments(k) = k + 1
  BY ParamWordAssumption DEF Segments

\* The step of every k but the last: 8 (k + 1) over what 8 has in common with
\* k + 1, as far as it fits the word.
LEMMA StepWraps ==
  ASSUME NEW k \in Nat, k + 1 < ParamWord
  PROVE  Step(k) = (Cofactor(k + 1) * (k + 1)) % ParamWord
  <1> DEFINE m == k + 1
  <1>1. m \in Nat \ {0} /\ Segments(k) = m
    BY SegmentsIs
  <1> HIDE DEF m
  <1>2. Gcd[<<8, m>>] = EightWith(m)
    BY <1>1, GcdOfEight
  <1>3. Step(k) = ((8 \div EightWith(m)) * m) % ParamWord
    BY <1>1, <1>2 DEF Step
  <1> QED
    BY <1>3 DEF Cofactor, m

\* The step, as long as nothing wraps.
LEMMA StepIs ==
  ASSUME NEW k \in Nat, 8 * (k + 1) < ParamWord
  PROVE  /\ Step(k) = Cofactor(k + 1) * (k + 1)
         /\ Step(k) \in Nat \ {0}
         /\ EightWith(k + 1) \in Nat /\ EightWith(k + 1) * Step(k) = 8 * (k + 1)
  <1> DEFINE m == k + 1
             c == Cofactor(m)
             g == EightWith(m)
             s == c * m
  <1>1. m \in Nat \ {0} /\ 8 * m < ParamWord /\ ParamWord \in Nat
    BY ParamWordAssumption
  <1>2. k + 1 < ParamWord
    BY <1>1
  <1>3. Step(k) = s % ParamWord
    BY <1>2, StepWraps
  <1> HIDE DEF m
  <1>4. c \in {1, 2, 4, 8} /\ g \in {1, 2, 4, 8} /\ g * c = 8
    BY <1>1, CofactorValues
  <1> HIDE DEF c, g
  <1>5. s \in Nat \ {0} /\ s <= 8 * m /\ g * s = 8 * m
    <2>1. CASE c = 1 /\ g = 8
      BY <1>1, <2>1
    <2>2. CASE c = 2 /\ g = 4
      BY <1>1, <2>2
    <2>3. CASE c = 4 /\ g = 2
      BY <1>1, <2>3
    <2>4. CASE c = 8 /\ g = 1
      BY <1>1, <2>4
    <2> QED
      BY <1>4, <2>1, <2>2, <2>3, <2>4
  <1> HIDE DEF s
  <1>6. s % ParamWord = s
    BY <1>1, <1>5
  <1>7. Step(k) = s
    BY <1>3, <1>6
  <1> QED
    BY <1>4, <1>5, <1>7 DEF s, c, g, m

\* What Params::new accepts, with the step.
LEMMA AcceptsIs ==
  ASSUME NEW k \in Nat, NEW n \in Nat, 8 * (k + 1) < ParamWord
  PROVE  Accepts(n, k) <=>
           k # 0 /\ n % Step(k) = 0 /\ 8 * (k + 1) <= n /\ n <= 25 * (k + 1) /\ n <= 512
  <1> DEFINE m == k + 1
  <1>1. m \in Nat \ {0}
    OBVIOUS
  <1>2. Accepts(n, k) <=>
          k < n /\ n % 8 = 0 /\ n % m = 0 /\ k # 0 /\ n <= 512 /\ n \div m \in 8 .. 25
    BY DEF Accepts, CollisionBits
  <1>3. Step(k) = Cofactor(m) * m
    BY StepIs
  <1>4. 8 * m <= n => k < n
    OBVIOUS
  <1> HIDE DEF m
  <1>5. n % 8 = 0 /\ n % m = 0 <=> n % Step(k) = 0
    BY <1>1, <1>3, CommonMultiples
  <1>6. ASSUME n % m = 0
        PROVE  n \div m \in 8 .. 25 <=> 8 * m <= n /\ n <= 25 * m
    <2> DEFINE q == n \div m
    <2>1. q \in Nat /\ n = q * m + 0
      BY <1>1, <1>6, Division
    <2> HIDE DEF q
    <2>2. n = q * m
      BY <1>1, <2>1
    <2>3. 8 <= q <=> 8 * m <= q * m
      <3>1. ASSUME 8 <= q PROVE 8 * m <= q * m
        BY <1>1, <2>1, <3>1
      <3>2. ASSUME q <= 7 PROVE ~(8 * m <= q * m)
        <4>1. q * m <= 7 * m /\ q * m \in Nat
          BY <1>1, <2>1, <3>2
        <4> QED
          BY <1>1, <4>1
      <3> QED
        BY <2>1, <3>1, <3>2
    <2>4. q <= 25 <=> q * m <= 25 * m
      <3>1. ASSUME q <= 25 PROVE q * m <= 25 * m
        BY <1>1, <2>1, <3>1
      <3>2. ASSUME 26 <= q PROVE ~(q * m <= 25 * m)
        <4>1. 26 * m <= q * m /\ q * m \in Nat
          BY <1>1, <2>1, <3>2
        <4> QED
          BY <1>1, <4>1
      <3> QED
        BY <2>1, <3>1, <3>2
    <2>5. n \div m = q
      BY DEF q
    <2> QED
      BY <2>1, <2>2, <2>3, <2>4, <2>5
  <1> QED
    BY <1>2, <1>4, <1>5, <1>6 DEF m

\* The upper end of the range before it is rounded down to a step: past the
\* 63rd k it is some number up to 512, the product having wrapped or not.
LEMMA MostIs ==
  ASSUME NEW k \in Nat, 8 * (k + 1) < ParamWord
  PROVE  /\ Most(k) \in Nat /\ Most(k) <= 512
         /\ k <= 63 => Most(k) = IF 25 * (k + 1) < 512 THEN 25 * (k + 1) ELSE 512
  <1>1. ParamWord \in Nat /\ ParamWord > 25 * 512
    BY ParamWordAssumption
  <1>2. k + 1 < ParamWord
    BY <1>1
  <1>3. Segments(k) = k + 1
    BY <1>2, SegmentsIs
  <1> DEFINE wide == (25 * (k + 1)) % ParamWord
  <1>4. wide \in Nat
    BY <1>1
  <1>5. k <= 63 => wide = 25 * (k + 1)
    BY <1>1
  <1>6. Most(k) = IF wide < 512 THEN wide ELSE 512
    BY <1>3 DEF Most
  <1> HIDE DEF wide
  <1> QED
    BY <1>4, <1>5, <1>6

\* Rounding a multiple up leaves it.
LEMMA UpOfMultiple ==
  ASSUME NEW g \in Nat, NEW s \in Nat \ {0}, g * s < ParamWord
  PROVE  Up(g * s, s) = g * s
  <1> DEFINE x == g * s
             r == s - 1
  <1>1. x \in Nat /\ r \in 0 .. s - 1 /\ ParamWord \in Nat
    BY ParamWordAssumption
  <1>2. x + s - 1 = x + r
    <2> HIDE DEF x
    <2> QED
      BY <1>1
  <1>3. (x + r) \div s = g
    <2> HIDE DEF r
    <2> QED
      BY <1>1, DivisionUnique
  <1>4. Up(x, s) = x % ParamWord
    BY <1>2, <1>3 DEF Up
  <1> HIDE DEF x
  <1>5. x % ParamWord = x
    BY <1>1 DEF x
  <1> QED
    BY <1>4, <1>5 DEF x

\* What n_bounds works out, as long as 8 (k + 1) does not wrap.
LEMMA NBoundsIs ==
  ASSUME NEW k \in Nat, 8 * (k + 1) < ParamWord
  PROVE  NBounds(k) = IF k # 0 /\ 8 * (k + 1) <= Down(Most(k), Step(k))
                      THEN <<8 * (k + 1), Down(Most(k), Step(k))>> ELSE NoBounds
  <1> DEFINE s == Step(k)
             g == EightWith(k + 1)
             least == 8 * (k + 1)
  <1>1. least \in Nat /\ least < ParamWord /\ ParamWord \in Nat /\ k + 1 < ParamWord
    BY ParamWordAssumption
  <1>2. s \in Nat \ {0} /\ g \in Nat /\ g * s = least
    BY StepIs
  <1>3. Least(k) = least
    <2>1. Least(k) = least % ParamWord
      BY <1>1, SegmentsIs DEF Least
    <2> HIDE DEF least
    <2> QED
      BY <1>1, <2>1
  <1> HIDE DEF s, g, least
  <1>4. Up(Least(k), s) = least
    BY <1>1, <1>2, <1>3, UpOfMultiple
  <1>5. NBounds(k) = IF k # 0 /\ least <= Down(Most(k), s)
                     THEN <<least, Down(Most(k), s)>> ELSE NoBounds
    BY <1>4 DEF NBounds, s
  <1> QED
    BY <1>5 DEF s, least

\* At the first k whose 8 (k + 1) wraps to 0 the range is (0, 0); at the next,
\* whose 8 (k + 1) is 8 again, all of 8 to 512.
LEMMA FirstWraps ==
  /\ NBounds((ParamWord \div 8) - 1) = <<0, 0>>
  /\ NBounds(ParamWord \div 8) = <<8, 512>>
  <1>1. PICK w \in Nat : ParamWord = 64 * w /\ ParamWord \div 8 = 8 * w /\ 200 < w
    BY WordEighths
  <1>2. NBounds(8 * w - 1) = <<0, 0>>
    <2> DEFINE k == 8 * w - 1
    <2>1. k \in Nat /\ k # 0 /\ k + 1 < ParamWord /\ k + 1 = 8 * w
      BY <1>1
    <2> HIDE DEF k
    <2>2. Segments(k) = 8 * w
      BY <2>1, SegmentsIs
    <2>3. Cofactor(8 * w) = 1
      BY DEF Cofactor, EightWith
    <2>4. Step(k) = 8 * w
      <3>1. Step(k) = (1 * (8 * w)) % ParamWord
        BY <2>1, <2>3, StepWraps
      <3> QED
        BY <1>1, <3>1
    <2>5. Least(k) = 0
      BY <1>1, <2>2 DEF Least
    <2>6. Most(k) = 512
      <3>1. (25 * (8 * w)) % ParamWord = 8 * w
        <4>1. 25 * (8 * w) = 3 * ParamWord + 8 * w /\ 8 * w \in 0 .. ParamWord - 1
          BY <1>1
        <4>2. ParamWord \in Nat \ {0}
          BY <1>1
        <4> QED
          BY <4>1, <4>2, DivisionUnique
      <3> QED
        BY <1>1, <2>2, <3>1 DEF Most
    <2>7. Up(0, 8 * w) = 0
      <3>1. (0 + 8 * w - 1) \div (8 * w) = 0
        BY <1>1
      <3> QED
        BY <1>1, <3>1 DEF Up
    <2>8. Down(512, 8 * w) = 0
      <3>1. 512 \div (8 * w) = 0
        BY <1>1
      <3> QED
        BY <1>1, <3>1 DEF Down
    <2>9. NBounds(k) = <<0, 0>>
      BY <2>1, <2>4, <2>5, <2>6, <2>7, <2>8 DEF NBounds
    <2> QED
      BY <2>9 DEF k
  <1>3. NBounds(8 * w) = <<8, 512>>
    <2> DEFINE k == 8 * w
    <2>1. k \in Nat /\ k # 0 /\ k + 1 < ParamWord /\ k + 1 = 8 * w + 1
      BY <1>1
    <2> HIDE DEF k
    <2>2. Segments(k) = 8 * w + 1
      BY <2>1, SegmentsIs
    <2>3. Cofactor(8 * w + 1) = 8
      BY DEF Cofactor, EightWith
    <2>4. Step(k) = 8
      <3>1. Step(k) = (8 * (8 * w + 1)) % ParamWord
        BY <2>1, <2>3, StepWraps
      <3> QED
        BY <1>1, <3>1
    <2>5. Least(k) = 8
      BY <1>1, <2>2 DEF Least
    <2>6. Most(k) = 512
      <3>1. (25 * (8 * w + 1)) % ParamWord = 8 * w + 25
        <4>1. 25 * (8 * w + 1) = 3 * ParamWord + (8 * w + 25) /\ 8 * w + 25 \in 0 .. ParamWord - 1
          BY <1>1
        <4>2. ParamWord \in Nat \ {0}
          BY <1>1
        <4> QED
          BY <4>1, <4>2, DivisionUnique
      <3> QED
        BY <1>1, <2>2, <3>1 DEF Most
    <2>7. Up(8, 8) = 8
      <3>1. (8 + 8 - 1) \div 8 = 1
        OBVIOUS
      <3>2. 8 % ParamWord = 8
        BY <1>1
      <3> QED
        BY <1>1, <3>1, <3>2 DEF Up
    <2>8. Down(512, 8) = 512
      BY DEF Down
    <2>9. NBounds(k) = <<8, 512>>
      BY <2>1, <2>4, <2>5, <2>6, <2>7, <2>8 DEF NBounds
    <2> QED
      BY <2>9 DEF k
  <1> QED
    BY <1>1, <1>2, <1>3

\* n_bounds divides by a step of zero at the last k of all, and at no other: a
\* product that wraps to zero would be a multiple of 8 with a factor left over.
LEMMA PanicsAtLast ==
  ASSUME NEW k \in 0 .. ParamWord - 1
  PROVE  NBoundsPanics(k) <=> k = ParamWord - 1
  <1>1. PICK w \in Nat : ParamWord = 64 * w /\ 200 < w
    BY WordEighths
  <1>2. k \in Nat /\ ParamWord \in Nat \ {0}
    BY <1>1
  <1>3. ASSUME k = ParamWord - 1
        PROVE  NBoundsPanics(k)
    <2>1. Segments(k) = 0 /\ k # 0
      BY <1>1, <1>3 DEF Segments
    <2>2. Gcd[<<8, 0>>] = 8
      BY GcdUnfolds
    <2>3. Step(k) = 0
      BY <1>1, <2>1, <2>2 DEF Step
    <2> QED
      BY <2>1, <2>3 DEF NBoundsPanics
  <1>4. ASSUME k # ParamWord - 1
        PROVE  Step(k) # 0
    <2> DEFINE m == k + 1
               c == Cofactor(m)
    <2>1. m \in Nat \ {0} /\ m < ParamWord
      BY <1>2, <1>4
    <2>2. Step(k) = (c * m) % ParamWord
      BY <1>2, <2>1, StepWraps
    <2> HIDE DEF m
    <2>3. c \in {1, 2, 4, 8} /\ (c # 1 => m % 8 # 0)
      BY <2>1 DEF Cofactor, EightWith
    <2> HIDE DEF c
    <2> SUFFICES ASSUME (c * m) % ParamWord = 0
                 PROVE  FALSE
      BY <2>2
    <2>4. c * m \in Nat
      BY <2>1, <2>3
    <2>5. PICK q \in Nat : c * m = q * ParamWord
      BY <1>2, <2>4, Multiples
    <2> DEFINE x == q * w
    <2>6. x \in Nat /\ c * m = 64 * x
      BY <1>1, <2>5
    <2>7. CASE c = 1
      <3>1. q = 0 \/ ParamWord <= q * ParamWord
        BY <1>2
      <3> QED
        BY <1>2, <2>1, <2>5, <2>7, <3>1
    <2> HIDE DEF x
    <2>8. CASE c \in {2, 4, 8}
      BY <2>1, <2>3, <2>6, <2>8
    <2> QED
      BY <2>3, <2>7, <2>8
  <1> QED
    BY <1>3, <1>4 DEF NBoundsPanics

\* Between the ends, in steps.
LEMMA BoundsAreExact ==
  ASSUME NEW k \in Nat, NEW n \in Nat, 8 * (k + 1) < ParamWord
  PROVE  /\ Accepts(n, k) <=> n \in ValidN(k)
         /\ NBounds(k) = NoBounds <=> k \notin 1 .. 63
  <1> DEFINE m == k + 1
             s == Step(k)
             g == EightWith(m)
             B == Most(k)
             lo == 8 * m
             hi == Down(Most(k), Step(k))
  <1>1. m \in Nat \ {0} /\ lo \in Nat
    OBVIOUS
  <1>2. s \in Nat \ {0} /\ g \in Nat /\ g * s = lo
    BY StepIs
  <1>3. /\ B \in Nat /\ B <= 512
        /\ m <= 64 => B = IF 25 * m < 512 THEN 25 * m ELSE 512
    BY MostIs
  <1>4. hi = (B \div s) * s
    BY DEF Down
  <1>5. NBounds(k) = IF k # 0 /\ lo <= hi THEN <<lo, hi>> ELSE NoBounds
    BY NBoundsIs
  <1>6. Accepts(n, k) <=> k # 0 /\ n % s = 0 /\ lo <= n /\ n <= B
    <2>1. Accepts(n, k) <=> k # 0 /\ n % s = 0 /\ lo <= n /\ n <= 25 * m /\ n <= 512
      BY AcceptsIs
    <2>2. lo <= n => (n <= B <=> n <= 25 * m /\ n <= 512)
      <3> HIDE DEF B
      <3> QED
        BY <1>1, <1>3
    <2> QED
      BY <2>1, <2>2
  <1> HIDE DEF s, g, B, lo, hi
  <1>0. B \div s \in Nat
    <2>1. B \in Nat /\ s \in Nat \ {0}
      BY <1>2, <1>3
    <2> QED
      BY <2>1, Division
  <1>7. hi \in Nat
    <2> DEFINE q == B \div s
    <2>1. q \in Nat
      BY <1>0
    <2> HIDE DEF q
    <2>2. q * s \in Nat
      BY <1>2, <2>1
    <2> QED
      BY <1>4, <2>2 DEF q
  <1>8. \A e \in Nat : e * s <= B <=> e * s <= hi
    <2> SUFFICES ASSUME NEW e \in Nat
                 PROVE  e * s <= B <=> e * s <= hi
      OBVIOUS
    <2> DEFINE q == B \div s
    <2>1. q \in Nat
      BY <1>0
    <2>2. e * s <= B <=> e <= q
      BY <1>2, <1>3, QuotientBound
    <2>3. q * s <= B
      <3>1. q <= B \div s
        BY <2>1
      <3> HIDE DEF q
      <3> QED
        BY <1>2, <1>3, <2>1, <3>1, QuotientBound
    <2> HIDE DEF q
    <2>4. e <= q => e * s <= q * s
      BY <1>2, <2>1
    <2>5. e * s \in Nat /\ q * s \in Nat
      BY <1>2, <2>1
    <2>6. hi = q * s
      BY <1>4 DEF q
    <2> QED
      BY <1>3, <2>2, <2>3, <2>4, <2>5, <2>6
  <1>9. lo <= B <=> lo <= hi
    BY <1>2, <1>8
  <1>10. n % s = 0 => (n <= B <=> n <= hi)
    <2> SUFFICES ASSUME n % s = 0
                 PROVE  n <= B <=> n <= hi
      OBVIOUS
    <2>1. PICK e \in Nat : n = e * s
      BY <1>2, Multiples
    <2> QED
      BY <1>8, <2>1
  <1>11. ASSUME lo <= n
         PROVE  (n - lo) % s = 0 <=> n % s = 0
    <2> DEFINE d == n - lo
    <2>1. d \in Nat /\ n = lo + d
      BY <1>1, <1>11
    <2> HIDE DEF d
    <2>2. ASSUME d % s = 0
          PROVE  n % s = 0
      <3>1. PICK e \in Nat : d = e * s
        BY <1>2, <2>1, <2>2, Multiples
      <3>2. g + e \in Nat /\ n = (g + e) * s
        <4>1. (g + e) * s = g * s + e * s
          BY <1>2
        <4> QED
          BY <1>2, <2>1, <3>1, <4>1
      <3> QED
        BY <1>2, <3>2, Multiples
    <2>3. ASSUME n % s = 0
          PROVE  d % s = 0
      <3>1. PICK e \in Nat : n = e * s
        BY <1>2, <2>3, Multiples
      <3> DEFINE f == e - g
      <3>2. f \in Int /\ f * s = e * s - g * s
        BY <1>2
      <3>3. d = f * s
        BY <1>1, <1>2, <2>1, <3>1, <3>2
      <3> HIDE DEF f
      <3>4. f \in Nat
        <4> SUFFICES ASSUME f <= 0 - 1
                     PROVE  FALSE
          BY <3>2
        <4>1. f * s <= (0 - 1) * s
          BY <1>2, <3>2
        <4>2. (0 - 1) * s < 0
          BY <1>2
        <4> QED
          BY <1>2, <2>1, <3>2, <3>3, <4>1, <4>2
      <3> QED
        BY <1>2, <2>1, <3>3, <3>4, Multiples
    <2> QED
      BY <2>2, <2>3 DEF d
  <1>12. Accepts(n, k) <=> n \in ValidN(k)
    <2>1. CASE k # 0 /\ lo <= hi
      <3>1. NBounds(k) = <<lo, hi>> /\ NBounds(k) # NoBounds /\ NBounds(k)[1] = lo /\ NBounds(k)[2] = hi
        BY <1>5, <2>1 DEF NoBounds
      <3>2. n \in ValidN(k) <=> n \in lo .. hi /\ (n - lo) % s = 0
        BY <3>1 DEF ValidN, s
      <3>3. n \in lo .. hi <=> lo <= n /\ n <= hi
        BY <1>1, <1>7
      <3> QED
        BY <1>6, <1>10, <1>11, <2>1, <3>2, <3>3
    <2>2. CASE ~(k # 0 /\ lo <= hi)
      <3>1. NBounds(k) = NoBounds
        BY <1>5, <2>2
      <3>2. n \notin ValidN(k)
        BY <3>1 DEF ValidN
      <3>3. ~Accepts(n, k)
        <4> SUFFICES ASSUME k # 0, lo <= n, n <= B
                     PROVE  FALSE
          BY <1>6
        <4>1. lo <= B
          BY <1>1, <1>3
        <4> QED
          BY <1>9, <2>2, <4>1
      <3> QED
        BY <3>2, <3>3
    <2> QED
      BY <2>1, <2>2
  <1>13. NBounds(k) = NoBounds <=> k \notin 1 .. 63
    <2>1. NBounds(k) = NoBounds <=> ~(k # 0 /\ lo <= hi)
      BY <1>5 DEF NoBounds
    <2>2. lo <= B <=> k <= 63
      BY <1>1, <1>3 DEF lo
    <2> QED
      BY <1>9, <2>1, <2>2
  <1> QED
    BY <1>12, <1>13

\* n_bounds and valid_n name exactly the parameters Params::new accepts up to
\* where 8 (k + 1) wraps; what they give at the first two k where it does, and
\* that the last k alone divides by zero.
THEOREM BoundsAgree == Spec => []BoundsExact
  <1>1. CrossInv => BoundsExact
    <2> SUFFICES ASSUME CrossInv
                 PROVE  /\ 8 * (p.k + 1) < ParamWord =>
                             /\ Accepts(p.n, p.k) <=> p.n \in ValidN(p.k)
                             /\ NBounds(p.k) = NoBounds <=> p.k \notin 1 .. 63
                        /\ p.k = (ParamWord \div 8) - 1 => NBounds(p.k) = <<0, 0>>
                        /\ p.k = ParamWord \div 8 => NBounds(p.k) = <<8, 512>>
                        /\ NBoundsPanics(p.k) <=> p.k = ParamWord - 1
      BY DEF BoundsExact
    <2> DEFINE n == p.n
               k == p.k
    <2>1. n \in Nat /\ k \in Nat /\ k \in 0 .. ParamWord - 1
      BY Request, RequestsAssumption DEF CrossInv
    <2> HIDE DEF n, k
    <2>2. ASSUME 8 * (k + 1) < ParamWord
          PROVE  /\ Accepts(n, k) <=> n \in ValidN(k)
                 /\ NBounds(k) = NoBounds <=> k \notin 1 .. 63
      BY <2>1, <2>2, BoundsAreExact
    <2>3. NBoundsPanics(k) <=> k = ParamWord - 1
      BY <2>1, PanicsAtLast
    <2> QED
      BY <2>2, <2>3, FirstWraps DEF n, k
  <1> QED
    BY <1>1, CodecInvariant, PTL

=============================================================================
