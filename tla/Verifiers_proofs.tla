--------------------------- MODULE Verifiers_proofs ---------------------------
(***************************************************************************)
(* All three verifiers decide the rule of a solution, with the error the   *)
(* reference verifier returns, for any number of rounds, any segment width *)
(* any hash function and any vector submitted.                             *)
(***************************************************************************)
EXTENDS Verifiers, Wagner_proofs

\* The cursor, the rows of the round and those of the next one, in the
\* reference verifier's terms.
I  == StandsFor.i
X  == StandsFor.x
XC == StandsFor.xc

NodeRow == [h : Row, idx : Seq(Leaf)]

-----------------------------------------------------------------------------
(* What the reference verifier keeps true, whoever stands for it.          *)

CommonType ==
  /\ verifier \in {"reference", "arena", "early"}
  /\ digest \in [Key -> Row]
  /\ indices \in Seq(Nat)
  /\ pc \in {"screen", "fold", "done"}
  /\ round \in 1 .. K + 1

Screened ==
  /\ Len(indices) = 2^K
  /\ IsInjective(indices)
  /\ indices \in Seq(Leaf)

FreshStart == pc = "screen" => round = 1 /\ I = 1 /\ X = << >> /\ XC = << >>

\* The rows of the round and those of the next one stand for their nodes.
RowsAreNodes ==
  /\ I \in Nat /\ 1 <= I /\ I <= Len(X) + 1
  /\ X \in Seq(NodeRow) /\ XC \in Seq(NodeRow)
  /\ Len(X) = 2^(K - round + 1)
  /\ 2 * Len(XC) = I - 1
  /\ \A j \in 1 .. Len(X) : IsNode(digest, indices, X[j], round - 1, j - 1)
  /\ \A j \in 1 .. Len(XC) : IsNode(digest, indices, XC[j], round, j - 1)

\* A node that has been looked at passed.
Passed ==
  \A r_1 \in Rounds : \A j \in Nodes(r_1) :
    r_1 < round \/ (r_1 = round /\ 2 * j + 1 < I) =>
      NodeCollides(digest, indices, r_1, j) /\ NodeOrdered(indices, r_1, j)

Folding == pc = "fold" => Screened /\ RowsAreNodes /\ Passed

\* The nodes looked at before node j of round e pass.
PassedTo(e, j) ==
  \A f \in Rounds : \A q \in Nodes(f) :
    f < e \/ (f = e /\ q < j) =>
      NodeCollides(digest, indices, f, q) /\ NodeOrdered(indices, f, q)

\* The rule an error names is the first one broken.
ScreenBroken(error) ==
  \/ error = <<"WrongLength", 0>> /\ Len(indices) # 2^K
  \/ error = <<"NotDistinct", 0>> /\ Len(indices) = 2^K /\ ~IsInjective(indices)
  \/ /\ error = <<"IndexOutOfRange", 0>>
     /\ Len(indices) = 2^K /\ IsInjective(indices) /\ ~(Range(indices) \subseteq Leaf)

NodeBroken(error) ==
  \E e \in Rounds : \E j \in Nodes(e) :
    /\ PassedTo(e, j)
    /\ \/ error = <<"CollisionFailed", e>> /\ ~NodeCollides(digest, indices, e, j)
       \/ /\ error = <<"OrderingFailed", e>>
          /\ NodeCollides(digest, indices, e, j) /\ ~NodeOrdered(indices, e, j)

RootBroken(error) ==
  /\ error = <<"NonZeroRoot", 0>>
  /\ PassedTo(K + 1, 0)
  /\ XorOfLeaves(digest, Range(indices), K + 1) # {}

\* The verdict is that of the rule, and an error is the first there is.
Judged ==
  pc = "done" =>
    /\ verdict = <<"Ok", 0>> <=> Valid(digest, indices)
    /\ \/ verdict = <<"Ok", 0>>
       \/ ScreenBroken(verdict)
       \/ Screened /\ (NodeBroken(verdict) \/ RootBroken(verdict))

EInv == CommonType /\ FreshStart /\ Folding /\ Judged

-----------------------------------------------------------------------------
(* The instances of Wagner are all the same.                               *)

\* The operators of the instance Expected are those of this module.
LEMMA ExpectedPrimitives ==
  /\ \A v, u : Expected!LexLess(v, u) <=> LexLess(v, u)
  /\ \A g, h : Expected!Xor(g, h) = Xor(g, h)
  /\ \A g : Expected!IsZero(g) <=> IsZero(g)
  /\ \A d, l : Expected!LeafRow(d, l) = LeafRow(d, l)
  /\ \A v, e, j : Expected!Span(v, e, j) = Span(v, e, j)
  /\ \A d, S, s : Expected!XorOfLeaves(d, S, s) = XorOfLeaves(d, S, s)
  /\ \A d, v, e, j : Expected!NodeCollides(d, v, e, j) <=> NodeCollides(d, v, e, j)
  /\ \A v, e, j : Expected!NodeOrdered(v, e, j) <=> NodeOrdered(v, e, j)
  /\ \A d, v : Expected!Valid(d, v) <=> Valid(d, v)
  /\ Expected!Leaf = Leaf /\ Expected!Rounds = Rounds
  /\ \A e : Expected!Nodes(e) = Nodes(e)
  /\ \A f : Expected!Range(f) = Range(f) /\ (Expected!IsInjective(f) <=> IsInjective(f))
  <1>1. Expected!Leaf = Leaf /\ Expected!Rounds = Rounds /\ Expected!Bit = Bit
    BY DEF Expected!Leaf, Leaf, Expected!Rounds, Rounds, Expected!Bit, Bit,
           Expected!InitSize, InitSize
  <1>2. \A e : Expected!Nodes(e) = Nodes(e)
    BY DEF Expected!Nodes, Nodes
  <1>13. \A f : Expected!Range(f) = Range(f) /\ (Expected!IsInjective(f) <=> IsInjective(f))
    BY DEF Expected!Range, Range, Expected!IsInjective, IsInjective
  <1>3. \A v, u : Expected!LexLess(v, u) <=> LexLess(v, u)
    BY DEF Expected!LexLess, LexLess
  <1>4. \A g, h : Expected!Xor(g, h) = Xor(g, h)
    BY DEF Expected!Xor, Xor, Expected!SymDiff, SymDiff
  <1>5. \A g : Expected!IsZero(g) <=> IsZero(g)
    BY DEF Expected!IsZero, IsZero
  <1>6. \A d, l : Expected!LeafRow(d, l) = LeafRow(d, l)
    BY DEF Expected!LeafRow, LeafRow, Expected!LeafKey, LeafKey
  <1>7. \A v, e, j : Expected!Span(v, e, j) = Span(v, e, j)
    BY DEF Expected!Span, Span
  <1>12. \A S : Expected!Cardinality(S) = Cardinality(S)
    BY DEF Expected!Cardinality, Cardinality
  <1>8. \A d, S, s : Expected!XorOfLeaves(d, S, s) = XorOfLeaves(d, S, s)
    BY <1>1, <1>6, <1>12 DEF Expected!XorOfLeaves, XorOfLeaves
  <1>9. \A d, v, e, j : Expected!NodeCollides(d, v, e, j) <=> NodeCollides(d, v, e, j)
    BY <1>13, <1>7, <1>8 DEF Expected!NodeCollides, NodeCollides
  <1>10. \A v, e, j : Expected!NodeOrdered(v, e, j) <=> NodeOrdered(v, e, j)
    BY <1>3, <1>7 DEF Expected!NodeOrdered, NodeOrdered
  <1>11. \A d, v : Expected!Valid(d, v) <=> Valid(d, v)
    BY <1>13, <1>1, <1>2, <1>8, <1>9, <1>10 DEF Expected!Valid, Valid
  <1> QED
    BY <1>13, <1>1, <1>2, <1>3, <1>4, <1>5, <1>6, <1>7, <1>8, <1>9, <1>10, <1>11

-----------------------------------------------------------------------------
(* A step of the reference verifier, in terms of I, X and XC.              *)

AtPair == pc = "fold" /\ round <= K /\ I <= Len(X)

SameTree == UNCHANGED <<digest, indices, round>> /\ I' = I /\ X' = X /\ XC' = XC

RefReturn(result) == pc' = "done" /\ verdict' = result /\ SameTree

RefScreenReject ==
  /\ pc = "screen"
  /\ \/ Len(indices) # 2^K /\ RefReturn(<<"WrongLength", 0>>)
     \/ Len(indices) = 2^K /\ ~IsInjective(indices) /\ RefReturn(<<"NotDistinct", 0>>)
     \/ /\ Len(indices) = 2^K /\ IsInjective(indices) /\ ~(Range(indices) \subseteq Leaf)
        /\ RefReturn(<<"IndexOutOfRange", 0>>)

RefScreenAccept ==
  /\ pc = "screen"
  /\ Len(indices) = 2^K /\ IsInjective(indices) /\ Range(indices) \subseteq Leaf
  /\ pc' = "fold"
  /\ X' = [p \in DOMAIN indices |->
             [h |-> LeafRow(digest, indices[p]), idx |-> <<indices[p]>>]]
  /\ UNCHANGED <<digest, indices, round, verdict>> /\ I' = I /\ XC' = XC

RefCollide == X[I].h[round] = X[I + 1].h[round]
RefOrdered == LexLess(X[I].idx, X[I + 1].idx)

RefRejectCollision == AtPair /\ ~RefCollide /\ RefReturn(<<"CollisionFailed", round>>)

RefRejectOrdering ==
  AtPair /\ RefCollide /\ ~RefOrdered /\ RefReturn(<<"OrderingFailed", round>>)

RefFolded == [h |-> Xor(X[I].h, X[I + 1].h), idx |-> X[I].idx \o X[I + 1].idx]

RefFoldPair ==
  /\ AtPair /\ RefCollide /\ RefOrdered
  /\ XC' = Append(XC, RefFolded)
  /\ I' = I + 2
  /\ UNCHANGED <<digest, indices, pc, round, verdict>> /\ X' = X

RefEndRound ==
  /\ pc = "fold" /\ round <= K /\ I > Len(X)
  /\ X' = XC /\ XC' = << >> /\ I' = 1
  /\ round' = round + 1
  /\ UNCHANGED <<digest, indices, pc, verdict>>

RefCheckRoot ==
  /\ pc = "fold" /\ round > K /\ Len(X) = 1
  /\ \/ IsZero(X[1].h) /\ RefReturn(<<"Ok", 0>>)
     \/ ~IsZero(X[1].h) /\ RefReturn(<<"NonZeroRoot", 0>>)

RefNext ==
  \/ RefScreenReject
  \/ RefScreenAccept
  \/ RefRejectCollision
  \/ RefRejectOrdering
  \/ RefFoldPair
  \/ RefEndRound
  \/ RefCheckRoot

RefStutter == SameTree /\ UNCHANGED <<pc, verdict>>

\* A step of Expected is one of these.
LEMMA ExpectedStep ==
  [Expected!Next]_(Expected!vars) <=> RefNext \/ RefStutter
  <1> USE DEF Expected!Return, SameTree, RefReturn, AtPair, I, X, XC
  <1>1. Expected!ScreenReject <=> RefScreenReject
    BY ExpectedPrimitives
       DEF Expected!ScreenReject, RefScreenReject, Expected!LengthOk, Expected!DistinctOk,
           Expected!RangeOk
  <1>2. Expected!ScreenAccept <=> RefScreenAccept
    BY ExpectedPrimitives
       DEF Expected!ScreenAccept, RefScreenAccept, Expected!LengthOk, Expected!DistinctOk,
           Expected!RangeOk
  <1>3. Expected!RejectCollision <=> RefRejectCollision
    BY DEF Expected!RejectCollision, RefRejectCollision, Expected!Collides, RefCollide
  <1>4. Expected!RejectOrdering <=> RefRejectOrdering
    BY ExpectedPrimitives
       DEF Expected!RejectOrdering, RefRejectOrdering, Expected!Collides, RefCollide,
           Expected!Ordered, RefOrdered
  <1>5. Expected!FoldPair <=> RefFoldPair
    BY ExpectedPrimitives
       DEF Expected!FoldPair, RefFoldPair, Expected!Collides, RefCollide, Expected!Ordered,
           RefOrdered, Expected!Folded, RefFolded
  <1>6. Expected!EndRound <=> RefEndRound
    BY DEF Expected!EndRound, RefEndRound
  <1>7. Expected!CheckRoot <=> RefCheckRoot
    BY ExpectedPrimitives DEF Expected!CheckRoot, RefCheckRoot, Expected!RootZero, Expected!Ok
  <1>8. UNCHANGED Expected!vars <=> RefStutter
    BY DEF Expected!vars, RefStutter
  <1> QED
    BY <1>1, <1>2, <1>3, <1>4, <1>5, <1>6, <1>7, <1>8 DEF Expected!Next, RefNext

RefInit ==
  /\ digest \in Digests
  /\ indices \in Inputs
  /\ pc = "screen" /\ round = 1 /\ verdict = <<"Pending", 0>>
  /\ I = 1 /\ X = << >> /\ XC = << >>

\* Expected starts like this.
LEMMA ExpectedInit == Expected!Init <=> RefInit
  BY DEF Expected!Init, RefInit, Expected!Pending, I, X, XC

-----------------------------------------------------------------------------
(* Every step of the reference verifier keeps EInv.                        *)

\* The pair under the cursor: two rows that stand for the children of the node
\* whose number is that of the rows built so far.
LEMMA PairNodes ==
  ASSUME CommonType, Screened, RowsAreNodes, AtPair
  PROVE  /\ round \in Rounds /\ Len(XC) \in Nodes(round)
         /\ I = 2 * Len(XC) + 1 /\ (I - 1) \div 2 = Len(XC) /\ I + 1 <= Len(X)
         /\ X[I] \in NodeRow /\ X[I + 1] \in NodeRow
         /\ RefCollide <=> NodeCollides(digest, indices, round, Len(XC))
         /\ RefOrdered <=> NodeOrdered(indices, round, Len(XC))
         /\ RefCollide => IsNode(digest, indices, RefFolded, round, Len(XC))
  <1> DEFINE j == Len(XC)
  <1>1. /\ K \in Nat \ {0} /\ round \in Nat /\ 1 <= round /\ round <= K
        /\ I \in Nat /\ 1 <= I /\ I <= Len(X) /\ Len(X) = 2^(K - round + 1)
        /\ 2 * j = I - 1 /\ j \in Nat
    BY KAssumption, LenProperties DEF CommonType, RowsAreNodes, AtPair
  <1>2. K - round \in Nat /\ 2^(K - round + 1) = 2 * 2^(K - round) /\ 2^(K - round) \in Nat
    BY <1>1, PowerOfTwoDoubles, PowerOfTwoType
  <1>3. round \in Rounds /\ j \in Nodes(round)
    BY <1>1, <1>2 DEF Rounds, Nodes
  <1>4. I = 2 * j + 1 /\ (I - 1) \div 2 = j /\ I + 1 <= Len(X)
    BY <1>1, <1>2
  <1>5. I \in 1 .. Len(X) /\ I + 1 \in 1 .. Len(X) /\ I - 1 = 2 * j /\ I + 1 - 1 = 2 * j + 1
    BY <1>1, <1>4
  <1>6. X[I] \in NodeRow /\ X[I + 1] \in NodeRow
    BY <1>5, ElementOfSeq DEF RowsAreNodes
  <1>7. /\ IsNode(digest, indices, X[I], round - 1, 2 * j)
        /\ IsNode(digest, indices, X[I + 1], round - 1, 2 * j + 1)
    <2>1. \A l \in 1 .. Len(X) : IsNode(digest, indices, X[l], round - 1, l - 1)
      BY DEF RowsAreNodes
    <2> HIDE DEF j
    <2> QED
      BY <1>5, <2>1
  <1> HIDE DEF j
  <1>8. /\ X[I].h[round] = X[I + 1].h[round] <=> NodeCollides(digest, indices, round, j)
        /\ LexLess(X[I].idx, X[I + 1].idx) <=> NodeOrdered(indices, round, j)
        /\ X[I].h[round] = X[I + 1].h[round] => IsNode(digest, indices, RefFolded, round, j)
    <2> DEFINE a_1 == X[I]
               b_1 == X[I + 1]
    <2>1. /\ IsNode(digest, indices, a_1, round - 1, 2 * j)
          /\ IsNode(digest, indices, b_1, round - 1, 2 * j + 1)
          /\ indices \in Seq(Leaf) /\ Len(indices) = 2^K /\ IsInjective(indices)
      BY <1>7 DEF Screened
    <2>2. RefFolded = [h |-> Xor(a_1.h, b_1.h), idx |-> a_1.idx \o b_1.idx]
      BY DEF RefFolded
    <2> HIDE DEF a_1, b_1
    <2>3. /\ a_1.h[round] = b_1.h[round] <=> NodeCollides(digest, indices, round, j)
          /\ LexLess(a_1.idx, b_1.idx) <=> NodeOrdered(indices, round, j)
          /\ a_1.h[round] = b_1.h[round] =>
               IsNode(digest, indices, [h |-> Xor(a_1.h, b_1.h), idx |-> a_1.idx \o b_1.idx],
                      round, j)
      BY <1>3, <2>1, FoldIsNode
    <2> QED
      BY <2>2, <2>3 DEF a_1, b_1
  <1> QED
    BY <1>3, <1>4, <1>6, <1>8 DEF j, RefCollide, RefOrdered

\* The end of the checks before hashing: every leaf row stands for its leaf.
LEMMA AcceptKeeps ==
  ASSUME EInv, RefScreenAccept
  PROVE  Screened' /\ RowsAreNodes' /\ Passed'
  <1>1. /\ digest' = digest /\ indices' = indices /\ round' = round /\ round = 1
        /\ I' = 1 /\ XC' = << >>
        /\ X' = [p \in DOMAIN indices |->
                   [h |-> LeafRow(digest, indices[p]), idx |-> <<indices[p]>>]]
    BY DEF RefScreenAccept, EInv, FreshStart
  <1>2. Len(indices) = 2^K /\ IsInjective(indices) /\ Range(indices) \subseteq Leaf
    BY DEF RefScreenAccept
  <1>3. indices \in Seq(Nat) /\ digest \in [Key -> Row] /\ K \in Nat \ {0}
    BY KAssumption DEF EInv, CommonType
  <1>4. /\ DOMAIN indices = 1 .. 2^K
        /\ 2^K \in Nat
        /\ \A p \in 1 .. 2^K : indices[p] \in Leaf
    BY <1>2, <1>3, PowerOfTwoType, LenProperties DEF Range
  <1>5. indices \in Seq(Leaf)
    BY <1>2, <1>3, <1>4, LenProperties
  <1>6. ASSUME NEW p \in 1 .. 2^K
        PROVE  /\ X'[p] \in NodeRow
               /\ IsNode(digest, indices, X'[p], 0, p - 1)
    <2>1. X'[p] = [h |-> LeafRow(digest, indices[p]), idx |-> <<indices[p]>>]
      BY <1>1, <1>4
    <2>2. indices[p] \in Leaf
      BY <1>4
    <2>3. LeafRow(digest, indices[p]) \in Row /\ <<indices[p]>> \in Seq(Leaf)
      BY <1>3, <2>2 DEF LeafRow, Key
    <2>4. IsNode(digest, indices, X'[p], 0, p - 1)
      BY <1>2, <1>3, <1>4, <1>5, <2>1, LeafIsNode
    <2> QED
      BY <2>1, <2>3, <2>4 DEF NodeRow
  <1>7. X' \in Seq(NodeRow) /\ Len(X') = 2^K
    <2>1. X' \in [1 .. 2^K -> NodeRow]
      BY <1>1, <1>4, <1>6
    <2> QED
      BY <1>4, <2>1
  <1>8. Screened'
    BY <1>1, <1>2, <1>5 DEF Screened
  <1>9. RowsAreNodes'
    <2>1. round' - 1 = 0 /\ K - round' + 1 = K
      BY <1>1, <1>3
    <2>2. XC' \in Seq(NodeRow) /\ Len(XC') = 0
      BY <1>1
    <2>3. \A p \in 1 .. Len(X') : IsNode(digest', indices', X'[p], round' - 1, p - 1)
      BY <1>1, <1>6, <1>7, <2>1
    <2>4. \A p \in 1 .. Len(XC') : IsNode(digest', indices', XC'[p], round', p - 1)
      BY <2>2
    <2>5. I' \in Nat /\ 1 <= I' /\ I' <= Len(X') + 1 /\ 2 * Len(XC') = I' - 1
      BY <1>1, <1>4, <1>7, <2>2
    <2>6. Len(X') = 2^(K - round' + 1)
      BY <1>7, <2>1
    <2> QED
      BY <1>7, <2>2, <2>3, <2>4, <2>5, <2>6 DEF RowsAreNodes
  <1>10. Passed'
    <2>1. \A e \in Rounds : \A j \in Nodes(e) : ~(e < 1) /\ ~(2 * j + 1 < 1)
      <3>1. ASSUME NEW e \in Rounds
            PROVE  \A j \in Nodes(e) : ~(2 * j + 1 < 1)
        <4>1. 2^(K - e) \in Nat
          BY <1>3, PowerOfTwoType DEF Rounds
        <4> QED
          BY <4>1 DEF Nodes
      <3> QED
        BY <3>1 DEF Rounds
    <2> QED
      BY <1>1, <2>1 DEF Passed
  <1> QED
    BY <1>8, <1>9, <1>10

\* A folded pair adds a row that stands for its node, which passed.
LEMMA FoldKeeps ==
  ASSUME EInv, RefFoldPair
  PROVE  Screened' /\ RowsAreNodes' /\ Passed'
  <1>1. CommonType /\ Screened /\ RowsAreNodes /\ Passed /\ AtPair
    BY DEF EInv, Folding, RefFoldPair, AtPair
  <1>2. /\ digest' = digest /\ indices' = indices /\ round' = round
        /\ I' = I + 2 /\ X' = X /\ XC' = Append(XC, RefFolded)
        /\ RefCollide /\ RefOrdered
    BY DEF RefFoldPair
  <1> DEFINE n == Len(XC)
  <1>3. /\ round \in Rounds /\ n \in Nodes(round) /\ I = 2 * n + 1 /\ I + 1 <= Len(X)
        /\ NodeCollides(digest, indices, round, n)
        /\ NodeOrdered(indices, round, n)
        /\ IsNode(digest, indices, RefFolded, round, n)
        /\ X[I] \in NodeRow /\ X[I + 1] \in NodeRow
    BY <1>1, <1>2, PairNodes
  <1>4. /\ XC \in Seq(NodeRow) /\ X \in Seq(NodeRow) /\ I \in Nat
        /\ \A j \in 1 .. Len(XC) : IsNode(digest, indices, XC[j], round, j - 1)
    BY <1>1 DEF RowsAreNodes
  <1>5. n \in Nat /\ Len(X) \in Nat
    BY <1>4, LenProperties
  <1>6. RefFolded \in NodeRow
    <2>1. RefFolded.h \in Row /\ RefFolded.idx = X[I].idx \o X[I + 1].idx
      BY <1>3 DEF IsNode, RefFolded
    <2>2. X[I].idx \in Seq(Leaf) /\ X[I + 1].idx \in Seq(Leaf)
      BY <1>3 DEF NodeRow
    <2>3. RefFolded.idx \in Seq(Leaf)
      BY <2>1, <2>2, ConcatProperties
    <2> QED
      BY <2>1, <2>3 DEF NodeRow, RefFolded
  <1>7. /\ XC' \in Seq(NodeRow) /\ Len(XC') = n + 1
        /\ \A j \in 1 .. n : XC'[j] = XC[j]
        /\ XC'[n + 1] = RefFolded
    BY <1>2, <1>4, <1>6, AppendProperties
  <1>8. \A j \in 1 .. Len(XC') : IsNode(digest, indices, XC'[j], round, j - 1)
    <2> SUFFICES ASSUME NEW j \in 1 .. Len(XC')
                 PROVE  IsNode(digest, indices, XC'[j], round, j - 1)
      OBVIOUS
    <2>1. CASE j \in 1 .. n
      BY <1>4, <1>7, <2>1
    <2>2. CASE j = n + 1
      <3>1. j - 1 = n
        BY <1>5, <2>2
      <3> QED
        BY <1>3, <1>7, <2>2, <3>1
    <2> QED
      BY <1>5, <1>7, <2>1, <2>2
  <1>9. Screened'
    BY <1>1, <1>2 DEF Screened
  <1>10. RowsAreNodes'
    <2>1. I' \in Nat /\ 1 <= I' /\ I' <= Len(X') + 1 /\ 2 * Len(XC') = I' - 1
      BY <1>2, <1>3, <1>4, <1>5, <1>7
    <2>2. Len(X') = 2^(K - round' + 1)
      BY <1>1, <1>2 DEF RowsAreNodes
    <2>3. \A j \in 1 .. Len(X') : IsNode(digest', indices', X'[j], round' - 1, j - 1)
      BY <1>1, <1>2 DEF RowsAreNodes
    <2>4. \A j \in 1 .. Len(XC') : IsNode(digest', indices', XC'[j], round', j - 1)
      BY <1>2, <1>8
    <2> QED
      BY <1>2, <1>4, <1>7, <2>1, <2>2, <2>3, <2>4 DEF RowsAreNodes
  <1>11. Passed'
    <2> SUFFICES ASSUME NEW e \in Rounds, NEW j \in Nodes(e),
                        e < round \/ (e = round /\ 2 * j + 1 < I + 2)
                 PROVE  NodeCollides(digest, indices, e, j) /\ NodeOrdered(indices, e, j)
      BY <1>2 DEF Passed
    <2>1. j \in Nat
      <3>1. K - e \in Nat
        BY KAssumption DEF Rounds
      <3>2. 2^(K - e) \in Nat
        BY <3>1, PowerOfTwoType
      <3> QED
        BY <3>2 DEF Nodes
    <2>2. CASE e < round
      BY <1>1, <2>2 DEF Passed
    <2>3. CASE e = round /\ j = n
      BY <1>3, <2>3
    <2>4. CASE e = round /\ 2 * j + 1 < I
      BY <1>1, <2>4 DEF Passed
    <2>5. e = round /\ 2 * j + 1 < I + 2 => j = n \/ 2 * j + 1 < I
      BY <1>3, <1>5, <2>1
    <2> QED
      BY <2>2, <2>3, <2>4, <2>5
  <1> QED
    BY <1>9, <1>10, <1>11

\* At the end of a round the rows built are one for each of its nodes.
LEMMA RoundKeeps ==
  ASSUME EInv, RefEndRound
  PROVE  round' \in 1 .. K + 1 /\ Screened' /\ RowsAreNodes' /\ Passed'
  <1>1. CommonType /\ Screened /\ RowsAreNodes /\ Passed
    BY DEF EInv, Folding, RefEndRound
  <1>2. /\ digest' = digest /\ indices' = indices /\ round' = round + 1
        /\ I' = 1 /\ X' = XC /\ XC' = << >> /\ round <= K /\ I > Len(X)
    BY DEF RefEndRound
  <1>3. /\ K \in Nat \ {0} /\ round \in Nat /\ 1 <= round
        /\ I \in Nat /\ I <= Len(X) + 1 /\ 2 * Len(XC) = I - 1
        /\ XC \in Seq(NodeRow) /\ X \in Seq(NodeRow)
        /\ Len(X) = 2^(K - round + 1)
    BY <1>1, KAssumption DEF CommonType, RowsAreNodes
  <1>4. /\ K - round \in Nat /\ K - round' + 1 = K - round /\ round' - 1 = round
        /\ 2^(K - round + 1) = 2 * 2^(K - round) /\ 2^(K - round) \in Nat
        /\ 1 <= 2^(K - round)
    BY <1>2, <1>3, PowerOfTwoDoubles, PowerOfTwoPositive
  <1>5. Len(XC) \in Nat /\ Len(X) \in Nat
    BY <1>3, LenProperties
  <1>6. Len(XC) = 2^(K - round) /\ I = 2 * 2^(K - round) + 1
    BY <1>2, <1>3, <1>4, <1>5
  <1>7. round' \in 1 .. K + 1
    BY <1>2, <1>3
  <1>8. Screened'
    BY <1>1, <1>2 DEF Screened
  <1>9. RowsAreNodes'
    <2>1. I' \in Nat /\ 1 <= I' /\ I' <= Len(X') + 1
      BY <1>2, <1>5
    <2>2. Len(X') = 2^(K - round' + 1)
      BY <1>2, <1>4, <1>6
    <2>3. XC' \in Seq(NodeRow) /\ X' \in Seq(NodeRow) /\ Len(XC') = 0
      BY <1>2, <1>3
    <2>4. \A j \in 1 .. Len(X') : IsNode(digest', indices', X'[j], round' - 1, j - 1)
      BY <1>1, <1>2, <1>4 DEF RowsAreNodes
    <2>5. 1 .. 0 = {} /\ 2 * 0 = 1 - 1
      OBVIOUS
    <2> QED
      BY <1>2, <2>1, <2>2, <2>3, <2>4, <2>5 DEF RowsAreNodes
  <1>10. Passed'
    <2> SUFFICES ASSUME NEW e \in Rounds, NEW j \in Nodes(e),
                        e < round + 1 \/ (e = round + 1 /\ 2 * j + 1 < 1)
                 PROVE  NodeCollides(digest, indices, e, j) /\ NodeOrdered(indices, e, j)
      BY <1>2 DEF Passed
    <2>1. 2^(K - e) \in Nat /\ e \in Nat
      <3>1. K - e \in Nat /\ e \in Nat
        BY <1>3 DEF Rounds
      <3> QED
        BY <3>1, PowerOfTwoType
    <2>2. j \in Nat /\ j < 2^(K - e)
      BY <2>1 DEF Nodes
    <2>3. e < round \/ (e = round /\ 2 * j + 1 < I)
      <3>1. e < round \/ e = round
        BY <1>3, <2>1, <2>2
      <3>2. e = round => 2 * j + 1 < I
        BY <1>4, <1>6, <2>2
      <3> QED
        BY <3>1, <3>2
    <2> QED
      BY <1>1, <2>3 DEF Passed
  <1> QED
    BY <1>7, <1>8, <1>9, <1>10

\* Refused before hashing: the vector breaks the rule.
LEMMA ScreenRejectJudges ==
  ASSUME EInv, RefScreenReject
  PROVE  Judged'
  <1>1. digest' = digest /\ indices' = indices
    BY DEF RefScreenReject, RefReturn, SameTree
  <1>2. ScreenBroken(verdict')
    BY DEF RefScreenReject, RefReturn, ScreenBroken
  <1>3. verdict' # <<"Ok", 0>> /\ ~Valid(digest, indices)
    BY <1>2 DEF ScreenBroken, Valid
  <1>4. ScreenBroken(verdict)'
    BY <1>1, <1>2 DEF ScreenBroken
  <1> QED
    BY <1>1, <1>3, <1>4 DEF Judged

\* Refused at a pair: its node is the first that breaks the rule.
LEMMA PairRejectJudges ==
  ASSUME EInv, RefRejectCollision \/ RefRejectOrdering
  PROVE  Judged'
  <1>1. AtPair
    BY DEF RefRejectCollision, RefRejectOrdering
  <1>2. CommonType /\ Screened /\ RowsAreNodes /\ Passed
    BY <1>1 DEF EInv, Folding, AtPair
  <1>3. /\ digest' = digest /\ indices' = indices /\ round' = round /\ I' = I
        /\ \/ verdict' = <<"CollisionFailed", round>> /\ ~RefCollide
           \/ verdict' = <<"OrderingFailed", round>> /\ RefCollide /\ ~RefOrdered
    BY DEF RefRejectCollision, RefRejectOrdering, RefReturn, SameTree
  <1> DEFINE n == Len(XC)
  <1>4. /\ round \in Rounds /\ n \in Nodes(round) /\ (I - 1) \div 2 = n
        /\ RefCollide <=> NodeCollides(digest, indices, round, n)
        /\ RefOrdered <=> NodeOrdered(indices, round, n)
    BY <1>1, <1>2, PairNodes
  <1>5. PassedTo(round, n)
    <2> SUFFICES ASSUME NEW f \in Rounds, NEW q \in Nodes(f), f < round \/ (f = round /\ q < n)
                 PROVE  NodeCollides(digest, indices, f, q) /\ NodeOrdered(indices, f, q)
      BY DEF PassedTo
    <2>1. q \in Nat /\ n \in Nat /\ I \in Nat /\ 2 * n = I - 1
      <3>1. q \in Nat
        BY KAssumption DEF Nodes
      <3>2. n \in Nat
        BY <1>2, LenProperties DEF RowsAreNodes
      <3> QED
        BY <1>2, <3>1, <3>2 DEF RowsAreNodes
    <2>2. f < round \/ (f = round /\ 2 * q + 1 < I)
      BY <2>1
    <2> QED
      BY <1>2, <2>2 DEF Passed
  <1> HIDE DEF n
  <1>6. ~Valid(digest, indices)
    BY <1>3, <1>4 DEF Valid
  <1>7. verdict' # <<"Ok", 0>>
    BY <1>3
  <1>8. NodeBroken(verdict')
    BY <1>3, <1>4, <1>5 DEF NodeBroken
  <1>9. Screened' /\ NodeBroken(verdict)'
    BY <1>2, <1>3, <1>8 DEF Screened, NodeBroken, PassedTo
  <1> QED
    BY <1>3, <1>6, <1>7, <1>9 DEF Judged

\* At the root every node has passed, and the row left is the XOR of all leaves.
LEMMA RootJudges ==
  ASSUME EInv, RefCheckRoot
  PROVE  Judged'
  <1>1. CommonType /\ Screened /\ RowsAreNodes /\ Passed
    BY DEF EInv, Folding, RefCheckRoot
  <1>2. /\ digest' = digest /\ indices' = indices /\ round' = round /\ I' = I
        /\ round > K /\ Len(X) = 1
        /\ \/ verdict' = <<"Ok", 0>> /\ IsZero(X[1].h)
           \/ verdict' = <<"NonZeroRoot", 0>> /\ ~IsZero(X[1].h)
    BY DEF RefCheckRoot, RefReturn, SameTree
  <1>3. K \in Nat \ {0} /\ round = K + 1 /\ round - 1 = K
    BY <1>1, <1>2, KAssumption DEF CommonType
  <1>4. IsNode(digest, indices, X[1], K, 0)
    <2>1. 1 \in 1 .. Len(X) /\ 1 - 1 = 0
      BY <1>2
    <2>2. \A j \in 1 .. Len(X) : IsNode(digest, indices, X[j], round - 1, j - 1)
      BY <1>1 DEF RowsAreNodes
    <2>3. IsNode(digest, indices, X[1], round - 1, 1 - 1)
      BY <2>1, <2>2
    <2> QED
      BY <1>3, <2>1, <2>3
  <1>5. Span(indices, K, 0) = indices
    BY <1>1, <1>3, SpanWhole DEF Screened
  <1>6. /\ DOMAIN X[1].h = 1 .. K + 1
        /\ \A s \in 1 .. K : X[1].h[s] = {}
        /\ \A s \in 1 .. K + 1 : X[1].h[s] = XorOfLeaves(digest, Range(indices), s)
    BY <1>4, <1>5 DEF IsNode, Row
  <1>7. IsZero(X[1].h) <=> \A s \in 1 .. K + 1 : XorOfLeaves(digest, Range(indices), s) = {}
    BY <1>6 DEF IsZero
  <1>8. IsZero(X[1].h) <=> Valid(digest, indices)
    <2>1. \A e \in Rounds : \A j \in Nodes(e) :
            NodeCollides(digest, indices, e, j) /\ NodeOrdered(indices, e, j)
      <3>1. \A e \in Rounds : e < round
        BY <1>3 DEF Rounds
      <3> QED
        BY <1>1, <3>1 DEF Passed
    <2>2. Range(indices) \subseteq Leaf
      BY <1>1, RangeOfVector DEF Screened
    <2> QED
      BY <1>1, <1>7, <2>1, <2>2 DEF Valid, Screened
  <1>9. ~IsZero(X[1].h) => XorOfLeaves(digest, Range(indices), K + 1) # {}
    <2>1. \A s \in 1 .. K + 1 : s \in 1 .. K \/ s = K + 1
      BY <1>3
    <2> QED
      BY <1>6, <2>1 DEF IsZero
  <1>10. PassedTo(K + 1, 0)
    <2>1. \A f \in Rounds : f < round
      BY <1>3 DEF Rounds
    <2> QED
      BY <1>1, <2>1 DEF Passed, PassedTo
  <1>11. CASE verdict' = <<"Ok", 0>> /\ IsZero(X[1].h)
    BY <1>2, <1>8, <1>11 DEF Judged
  <1>12. CASE verdict' = <<"NonZeroRoot", 0>> /\ ~IsZero(X[1].h)
    <2>1. RootBroken(verdict')
      BY <1>9, <1>10, <1>12 DEF RootBroken
    <2>2. Screened' /\ RootBroken(verdict)'
      BY <1>1, <1>2, <2>1 DEF Screened, RootBroken, PassedTo
    <2>3. verdict' # <<"Ok", 0>>
      BY <1>12
    <2> QED
      BY <1>2, <1>8, <1>12, <2>2, <2>3 DEF Judged
  <1> QED
    BY <1>2, <1>11, <1>12

\* Every step of the reference verifier, or of what stands for it, keeps EInv.
LEMMA RefKeepsEInv ==
  ASSUME EInv, RefNext \/ RefStutter, verifier' = verifier
  PROVE  EInv'
  <1>1. CommonType
    BY DEF EInv
  <1>2. ASSUME \E result : RefReturn(result)
        PROVE  CommonType' /\ FreshStart' /\ Folding'
    BY <1>1, <1>2 DEF RefReturn, SameTree, CommonType, FreshStart, Folding
  <1>3. CASE RefScreenReject
    <2>1. \E result : RefReturn(result)
      BY <1>3 DEF RefScreenReject
    <2> QED
      BY <1>2, <1>3, <2>1, ScreenRejectJudges DEF EInv
  <1>4. CASE RefScreenAccept
    <2>1. CommonType'
      BY <1>1, <1>4 DEF RefScreenAccept, CommonType
    <2>2. pc' = "fold"
      BY <1>4 DEF RefScreenAccept
    <2>3. FreshStart' /\ Folding' /\ Judged'
      BY <1>4, <2>2, AcceptKeeps DEF FreshStart, Folding, Judged
    <2> QED
      BY <2>1, <2>3 DEF EInv
  <1>5. CASE RefRejectCollision \/ RefRejectOrdering
    <2>1. \E result : RefReturn(result)
      BY <1>5 DEF RefRejectCollision, RefRejectOrdering
    <2> QED
      BY <1>2, <1>5, <2>1, PairRejectJudges DEF EInv
  <1>6. CASE RefFoldPair
    <2>1. CommonType'
      BY <1>1, <1>6 DEF RefFoldPair, CommonType
    <2>2. pc' = "fold"
      BY <1>6 DEF RefFoldPair, AtPair
    <2>3. FreshStart' /\ Folding' /\ Judged'
      BY <1>6, <2>2, FoldKeeps DEF FreshStart, Folding, Judged
    <2> QED
      BY <2>1, <2>3 DEF EInv
  <1>7. CASE RefEndRound
    <2>1. CommonType'
      <3>1. round' \in 1 .. K + 1
        BY <1>7, RoundKeeps
      <3> QED
        BY <1>1, <1>7, <3>1 DEF RefEndRound, CommonType
    <2>2. pc' = "fold"
      BY <1>7 DEF RefEndRound
    <2>3. FreshStart' /\ Folding' /\ Judged'
      BY <1>7, <2>2, RoundKeeps DEF FreshStart, Folding, Judged
    <2> QED
      BY <2>1, <2>3 DEF EInv
  <1>8. CASE RefCheckRoot
    <2>1. \E result : RefReturn(result)
      BY <1>8 DEF RefCheckRoot
    <2> QED
      BY <1>2, <1>8, <2>1, RootJudges DEF EInv
  <1>9. CASE RefStutter
    <2>1. CommonType' /\ FreshStart'
      BY <1>9 DEF RefStutter, SameTree, EInv, CommonType, FreshStart
    <2>2. Folding'
      BY <1>9 DEF RefStutter, SameTree, EInv, Folding, Screened, RowsAreNodes, Passed
    <2>3. Judged'
      BY <1>9 DEF RefStutter, SameTree, EInv, Judged, Screened,
                  ScreenBroken, NodeBroken, RootBroken, PassedTo
    <2> QED
      BY <2>1, <2>2, <2>3 DEF EInv
  <1> QED
    BY <1>3, <1>4, <1>5, <1>6, <1>7, <1>8, <1>9 DEF RefNext

\* The properties of the reference verifier follow from EInv.
LEMMA EInvImplies == EInv => OkIffValid /\ ErrorIsFirst /\ FoldShape
  <1> SUFFICES ASSUME EInv
               PROVE  OkIffValid /\ ErrorIsFirst /\ FoldShape
    OBVIOUS
  <1>1. OkIffValid
    BY ExpectedPrimitives DEF EInv, Judged, OkIffValid, Expected!OkIffValid, Expected!Ok
  <1>2. ErrorIsFirst
    <2> SUFFICES ASSUME pc = "done", verdict # <<"Ok", 0>>
                 PROVE  Expected!FirstBroken(verdict)
      BY DEF ErrorIsFirst, Expected!ErrorIsFirst, Expected!Ok
    <2>1. /\ Expected!LengthOk <=> Len(indices) = 2^K
          /\ Expected!DistinctOk <=> IsInjective(indices)
          /\ Expected!RangeOk <=> Range(indices) \subseteq Leaf
      BY ExpectedPrimitives DEF Expected!LengthOk, Expected!DistinctOk, Expected!RangeOk
    <2>2. \A e, j : Expected!PassedBefore(e, j) <=> PassedTo(e, j)
      BY ExpectedPrimitives DEF Expected!PassedBefore, Expected!NodePasses, PassedTo
    <2>3. CASE ScreenBroken(verdict)
      BY <2>1, <2>3 DEF ScreenBroken, Expected!FirstBroken
    <2>4. CASE Screened /\ (NodeBroken(verdict) \/ RootBroken(verdict))
      <3>1. Expected!LengthOk /\ Expected!DistinctOk /\ Expected!RangeOk
        <4>1. Range(indices) \subseteq Leaf
          BY <2>4, RangeOfVector DEF Screened
        <4> QED
          BY <2>1, <2>4, <4>1 DEF Screened
      <3>2. CASE NodeBroken(verdict)
        BY <2>2, <3>1, <3>2, ExpectedPrimitives DEF NodeBroken, Expected!FirstBroken
      <3>3. CASE RootBroken(verdict)
        BY <2>2, <3>1, <3>3, ExpectedPrimitives DEF RootBroken, Expected!FirstBroken
      <3> QED
        BY <2>4, <3>2, <3>3
    <2> QED
      BY <2>3, <2>4 DEF EInv, Judged
  <1>3. FoldShape
    <2> SUFFICES ASSUME pc = "fold"
                 PROVE  FoldShape
      BY DEF FoldShape, Expected!FoldShape
    <2>1. RowsAreNodes
      BY DEF EInv, Folding
    <2>2. I % 2 = 1 /\ 2 * Len(XC) = I - 1
      <3>1. Len(XC) \in Nat /\ 2 * Len(XC) = I - 1 /\ I \in Nat
        BY <2>1, LenProperties DEF RowsAreNodes
      <3> QED
        BY <3>1
    <2>3. Len(X) = 2^(K - round + 1)
      BY <2>1 DEF RowsAreNodes
    <2>4. \A j \in 1 .. Len(X) :
            /\ X[j].idx = Span(indices, round - 1, j - 1)
            /\ \A s \in 1 .. K + 1 : X[j].h[s] = XorOfLeaves(digest, Range(X[j].idx), s)
      BY <2>1 DEF RowsAreNodes, IsNode
    <2> QED
      BY <2>2, <2>3, <2>4, ExpectedPrimitives DEF FoldShape, Expected!FoldShape, I, X, XC
  <1> QED
    BY <1>1, <1>2, <1>3

-----------------------------------------------------------------------------
(* The reference verifier stands for itself.                               *)

\* The operators of its instance are those of this module.
LEMMA ReferencePrimitives ==
  /\ \A v, u : Reference!LexLess(v, u) <=> LexLess(v, u)
  /\ \A g, h : Reference!Xor(g, h) = Xor(g, h)
  /\ \A g : Reference!IsZero(g) <=> IsZero(g)
  /\ \A d, l : Reference!LeafRow(d, l) = LeafRow(d, l)
  /\ Reference!Leaf = Leaf
  /\ \A f : Reference!Range(f) = Range(f) /\ (Reference!IsInjective(f) <=> IsInjective(f))
  <1>1. Reference!Leaf = Leaf
    BY DEF Reference!Leaf, Leaf, Reference!InitSize, InitSize
  <1>2. \A v, u : Reference!LexLess(v, u) <=> LexLess(v, u)
    BY DEF Reference!LexLess, LexLess
  <1>3. \A g, h : Reference!Xor(g, h) = Xor(g, h)
    BY DEF Reference!Xor, Xor, Reference!SymDiff, SymDiff
  <1>4. \A g : Reference!IsZero(g) <=> IsZero(g)
    BY DEF Reference!IsZero, IsZero
  <1>5. \A d, l : Reference!LeafRow(d, l) = LeafRow(d, l)
    BY DEF Reference!LeafRow, LeafRow, Reference!LeafKey, LeafKey
  <1>6. \A f : Reference!Range(f) = Range(f) /\ (Reference!IsInjective(f) <=> IsInjective(f))
    BY DEF Reference!Range, Range, Reference!IsInjective, IsInjective
  <1> QED
    BY <1>1, <1>2, <1>3, <1>4, <1>5, <1>6

\* Its locals stand for themselves.
LEMMA ReferenceStands ==
  /\ verifier = "reference" => I = i /\ X = x /\ XC = xc
  /\ verifier' = "reference" => I' = i' /\ X' = x' /\ XC' = xc'
  BY DEF I, X, XC, StandsFor

\* Its first state is that of Expected.
LEMMA ReferenceInit ==
  verifier = "reference" /\ Reference!Init => RefInit
  BY ReferenceStands DEF Reference!Init, RefInit, Reference!Pending

\* Its steps are those of Expected.
LEMMA ReferenceStep ==
  ASSUME verifier = "reference", verifier' = "reference", Reference!Next
  PROVE  RefNext
  <1> USE DEF Reference!Return, SameTree, RefReturn, AtPair
  <1>0. I = i /\ X = x /\ XC = xc /\ I' = i' /\ X' = x' /\ XC' = xc'
    BY ReferenceStands
  <1>1. Reference!ScreenReject => RefScreenReject
    BY <1>0, ReferencePrimitives
       DEF Reference!ScreenReject, RefScreenReject, Reference!LengthOk, Reference!DistinctOk,
           Reference!RangeOk
  <1>2. Reference!ScreenAccept => RefScreenAccept
    BY <1>0, ReferencePrimitives
       DEF Reference!ScreenAccept, RefScreenAccept, Reference!LengthOk, Reference!DistinctOk,
           Reference!RangeOk
  <1>3. Reference!RejectCollision => RefRejectCollision
    BY <1>0 DEF Reference!RejectCollision, RefRejectCollision, Reference!Collides, RefCollide
  <1>4. Reference!RejectOrdering => RefRejectOrdering
    BY <1>0, ReferencePrimitives
       DEF Reference!RejectOrdering, RefRejectOrdering, Reference!Collides, RefCollide,
           Reference!Ordered, RefOrdered
  <1>5. Reference!FoldPair => RefFoldPair
    BY <1>0, ReferencePrimitives
       DEF Reference!FoldPair, RefFoldPair, Reference!Collides, RefCollide, Reference!Ordered,
           RefOrdered, Reference!Folded, RefFolded
  <1>6. Reference!EndRound => RefEndRound
    BY <1>0 DEF Reference!EndRound, RefEndRound
  <1>7. Reference!CheckRoot => RefCheckRoot
    BY <1>0, ReferencePrimitives
       DEF Reference!CheckRoot, RefCheckRoot, Reference!RootZero, Reference!Ok
  <1> QED
    BY <1>1, <1>2, <1>3, <1>4, <1>5, <1>6, <1>7 DEF Reference!Next, RefNext

-----------------------------------------------------------------------------
(* What both the other verifiers do with full rows: the rows they keep     *)
(* stand for rows with zero segments in front.                             *)

\* A row of n segments, those of row from offset on, with zeros put in front.
Widened(n, f, offset) ==
  [s \in 1 .. K + 1 |-> IF s <= K + 1 - n THEN {} ELSE f[offset + (s - (K + 1 - n))]]

\* Widened depends on the segments it shows.
LEMMA WidenedSame ==
  ASSUME NEW n \in 0 .. K + 1, NEW f, NEW g, NEW o_1 \in Nat, NEW o_2 \in Nat,
         \A t \in 1 .. n : f[o_1 + t] = g[o_2 + t]
  PROVE  Widened(n, f, o_1) = Widened(n, g, o_2)
  <1>1. ASSUME NEW s \in 1 .. K + 1, ~(s <= K + 1 - n)
        PROVE  f[o_1 + (s - (K + 1 - n))] = g[o_2 + (s - (K + 1 - n))]
    <2>1. s - (K + 1 - n) \in 1 .. n
      BY <1>1, KAssumption
    <2> QED
      BY <2>1
  <1> QED
    BY <1>1 DEF Widened

\* From their offsets on, f and g agree on the first of n + 1 segments and e is
\* the XOR of the n others.
FoldsTo(n, e, o_3, f, o_1, g, o_2) ==
  /\ f[o_1 + 1] = g[o_2 + 1]
  /\ \A t \in 1 .. n : e[o_3 + t] = SymDiff(f[o_1 + (t + 1)], g[o_2 + (t + 1)])

\* Rows of n + 1 segments that agree on the first fold to a row of n.
LEMMA WidenedFold ==
  ASSUME NEW n \in 0 .. K, NEW f, NEW g, NEW e,
         NEW o_1 \in Nat, NEW o_2 \in Nat, NEW o_3 \in Nat, NEW l \in Nat, l = n + 1,
         FoldsTo(n, e, o_3, f, o_1, g, o_2)
  PROVE  Widened(n, e, o_3) = Xor(Widened(l, f, o_1), Widened(l, g, o_2))
  <1> DEFINE u == Widened(n + 1, f, o_1)
             v == Widened(n + 1, g, o_2)
             y == Widened(n, e, o_3)
  <1>1. /\ K \in Nat /\ n \in Nat /\ n <= K
        /\ f[o_1 + 1] = g[o_2 + 1]
        /\ \A t \in 1 .. n : e[o_3 + t] = SymDiff(f[o_1 + (t + 1)], g[o_2 + (t + 1)])
    BY KAssumption DEF FoldsTo
  <1>2. DOMAIN u = 1 .. K + 1 /\ y = [s \in 1 .. K + 1 |-> y[s]]
    BY DEF Widened
  <1>3. ASSUME NEW s \in 1 .. K + 1
        PROVE  y[s] = SymDiff(u[s], v[s])
    <2>1. CASE s <= K - n
      <3>1. s <= K + 1 - (n + 1) /\ s <= K + 1 - n
        BY <1>1, <2>1
      <3>2. u[s] = {} /\ v[s] = {} /\ y[s] = {}
        BY <3>1 DEF Widened
      <3> QED
        BY <3>2 DEF SymDiff
    <2>2. CASE s = K + 1 - n
      <3>1. /\ ~(s <= K + 1 - (n + 1)) /\ s <= K + 1 - n
            /\ s - (K + 1 - (n + 1)) = 1
        BY <1>1, <2>2
      <3>2. u[s] = f[o_1 + 1] /\ v[s] = g[o_2 + 1] /\ y[s] = {}
        BY <3>1 DEF Widened
      <3> QED
        BY <1>1, <3>2 DEF SymDiff
    <2>3. CASE s > K + 1 - n
      <3> DEFINE t == s - (K + 1 - n)
      <3>1. /\ ~(s <= K + 1 - (n + 1)) /\ ~(s <= K + 1 - n)
            /\ s - (K + 1 - (n + 1)) = t + 1
            /\ t \in 1 .. n
        BY <1>1, <2>3
      <3>2. u[s] = f[o_1 + (t + 1)] /\ v[s] = g[o_2 + (t + 1)] /\ y[s] = e[o_3 + t]
        BY <3>1 DEF Widened
      <3> HIDE DEF t
      <3> QED
        BY <1>1, <3>1, <3>2
    <2> QED
      BY <1>1, <2>1, <2>2, <2>3
  <1> HIDE DEF u, v, y
  <1>4. y = [s \in 1 .. K + 1 |-> SymDiff(u[s], v[s])]
    BY <1>2, <1>3
  <1>5. Xor(u, v) = [s \in 1 .. K + 1 |-> SymDiff(u[s], v[s])]
    BY <1>2 DEF Xor
  <1> QED
    BY <1>4, <1>5 DEF u, v, y

\* A row of which one segment is left is zero when that segment is.
LEMMA LastSegment == \A f : IsZero(Widened(1, f, 0)) <=> f[1] = {}
  <1> TAKE f
  <1> DEFINE g == Widened(1, f, 0)
             k == K + 1
  <1>1. /\ DOMAIN g = 1 .. K + 1
        /\ \A s \in 1 .. K + 1 : g[s] = IF s <= K + 1 - 1 THEN {} ELSE f[0 + (s - (K + 1 - 1))]
    BY DEF Widened
  <1>2. K \in Nat
    BY KAssumption
  <1>3. k \in 1 .. K + 1 /\ ~(k <= K + 1 - 1) /\ 0 + (k - (K + 1 - 1)) = 1
    BY <1>2
  <1>4. \A s \in 1 .. K + 1 : s <= K + 1 - 1 \/ s = k
    BY <1>2
  <1> HIDE DEF g, k
  <1>5. g[k] = f[1]
    <2>1. g[k] = IF k <= K + 1 - 1 THEN {} ELSE f[0 + (k - (K + 1 - 1))]
      BY <1>1, <1>3
    <2> QED
      BY <1>3, <2>1
  <1>6. \A s \in 1 .. K + 1 : g[s] = {} \/ s = k
    BY <1>1, <1>4
  <1> QED
    BY <1>1, <1>3, <1>5, <1>6 DEF IsZero, g

\* A sequence one longer than s that begins with s appends to it.
LEMMA ExtendIsAppend ==
  ASSUME NEW S, NEW s \in Seq(S), NEW T, NEW t \in Seq(T), NEW e,
         Len(t) = Len(s) + 1,
         \A p \in 1 .. Len(s) : t[p] = s[p],
         t[Len(s) + 1] = e
  PROVE  t = Append(s, e)
  <1> DEFINE U == S \cup T \cup {e}
             u == Append(s, e)
  <1>1. s \in Seq(U) /\ t \in Seq(U) /\ e \in U
    BY SeqMonotonic
  <1>2. /\ u \in Seq(U) /\ Len(u) = Len(s) + 1
        /\ \A p \in 1 .. Len(s) : u[p] = s[p]
        /\ u[Len(s) + 1] = e
    BY <1>1, AppendProperties
  <1>3. Len(s) \in Nat
    BY LenProperties
  <1> HIDE DEF u, U
  <1>4. \A p \in 1 .. Len(t) : t[p] = u[p]
    <2>1. \A p \in 1 .. Len(t) : p \in 1 .. Len(s) \/ p = Len(s) + 1
      BY <1>3
    <2> QED
      BY <1>2, <2>1
  <1>5. t = u
    BY <1>1, <1>2, <1>4, SeqEqual
  <1> QED
    BY <1>5 DEF u

\* A function on no index is the empty sequence.
LEMMA EmptyFunction ==
  ASSUME NEW t, t = [p \in 1 .. 0 |-> t[p]]
  PROVE  t = << >>
  OBVIOUS
-----------------------------------------------------------------------------
(* The arena verifier: one flat buffer, and vectors moved into the row     *)
(* that absorbs them.                                                      *)

\* What its locals keep true; their lengths follow from EInv.
ArenaLocals ==
  /\ pc = "screen" => stride = K + 1 /\ r = 0 /\ w = 0 /\ out_idx = << >>
  /\ pc = "fold" =>
       /\ stride = K + 2 - round
       /\ nrows \in Nat /\ r \in Nat /\ w \in Nat
       /\ DOMAIN idx = 1 .. nrows
       /\ \A q \in 1 .. nrows :
            idx[q] = IF q <= r THEN << >> ELSE Span(indices, round - 1, q - 1)
       /\ out_idx \in Seq(Seq(Leaf)) /\ Len(out_idx) = w
       /\ \A q \in 1 .. w : out_idx[q] = Span(indices, round, q - 1)
       /\ round <= K => DOMAIN out_hashes = 1 .. (nrows \div 2) * (stride - 1)

ArenaInv == verifier = "arena" => ArenaLocals

\* Rows 1 to n of a flat buffer with the zero segments put back.
FlatRows(buffer, width, n, v, height) ==
  [q \in 1 .. n |-> [h   |-> Widened(width, buffer, (q - 1) * width),
                     idx |-> Span(v, height, q - 1)]]

\* The operators of its instance are those of this module.
LEMMA ArenaPrimitives ==
  /\ \A v, u : Arena!LexLess(v, u) <=> LexLess(v, u)
  /\ \A d, l : Arena!LeafRow(d, l) = LeafRow(d, l)
  /\ \A v, e, j : Arena!Span(v, e, j) = Span(v, e, j)
  /\ \A s, t : Arena!SymDiff(s, t) = SymDiff(s, t)
  /\ Arena!Leaf = Leaf
  /\ \A f : Arena!Range(f) = Range(f) /\ (Arena!IsInjective(f) <=> IsInjective(f))
  <1>1. Arena!Leaf = Leaf
    BY DEF Arena!Leaf, Leaf, Arena!InitSize, InitSize
  <1>2. \A v, u : Arena!LexLess(v, u) <=> LexLess(v, u)
    BY DEF Arena!LexLess, LexLess
  <1>3. \A d, l : Arena!LeafRow(d, l) = LeafRow(d, l)
    BY DEF Arena!LeafRow, LeafRow, Arena!LeafKey, LeafKey
  <1>4. \A v, e, j : Arena!Span(v, e, j) = Span(v, e, j)
    BY DEF Arena!Span, Span
  <1>5. \A s, t : Arena!SymDiff(s, t) = SymDiff(s, t)
    BY DEF Arena!SymDiff, SymDiff
  <1>6. \A f : Arena!Range(f) = Range(f) /\ (Arena!IsInjective(f) <=> IsInjective(f))
    BY DEF Arena!Range, Range, Arena!IsInjective, IsInjective
  <1> QED
    BY <1>1, <1>2, <1>3, <1>4, <1>5, <1>6

\* Its buffers stand for flat rows.
LEMMA ArenaUnpacks ==
  \A buffer, width, n, v, height :
    Arena!Unpack(buffer, width, n, v, height) = FlatRows(buffer, width, n, v, height)
  BY ArenaPrimitives DEF Arena!Unpack, FlatRows, Widened, Arena!Cell

\* What its locals stand for, before and after a step.
LEMMA ArenaStands ==
  /\ verifier = "arena" =>
       /\ I = r + 1
       /\ X = FlatRows(hashes, stride, nrows, indices, round - 1)
       /\ XC = FlatRows(out_hashes, stride - 1, w, indices, round)
  /\ verifier' = "arena" =>
       /\ I' = r' + 1
       /\ X' = FlatRows(hashes', stride', nrows', indices', round' - 1)
       /\ XC' = FlatRows(out_hashes', stride' - 1, w', indices', round')
  BY ArenaUnpacks DEF I, X, XC, StandsFor

\* The shape of flat rows.
LEMMA FlatRowsShape ==
  \A n \in Nat : \A buffer, width, v, height :
    /\ Len(FlatRows(buffer, width, n, v, height)) = n
    /\ \A q \in 1 .. n :
         FlatRows(buffer, width, n, v, height)[q]
           = [h |-> Widened(width, buffer, (q - 1) * width), idx |-> Span(v, height, q - 1)]
  <1> TAKE n \in Nat
  <1> TAKE buffer, width, v, height
  <1> DEFINE e == FlatRows(buffer, width, n, v, height)
  <1>1. DOMAIN e = 1 .. n
    BY DEF FlatRows
  <1>2. Len(e) = n
    BY <1>1
  <1> QED
    BY <1>2 DEF FlatRows

\* Position (q - 1) * m + s of a flat buffer is segment s of row q.
LEMMA FlatPosition ==
  ASSUME NEW m \in Nat, NEW n \in Nat, NEW q \in 1 .. n, NEW s \in 1 .. m, NEW c,
         c = (q - 1) * m + s
  PROVE  /\ (c - 1) \div m = q - 1
         /\ (c - 1) % m = s - 1
         /\ c \in 1 .. n * m
  <1> DEFINE l == q - 1
             b == l * m
             e == s - 1
  <1>1. l \in Nat /\ e \in Nat /\ e < m /\ q = l + 1 /\ s = e + 1 /\ l + 1 <= n
    OBVIOUS
  <1>2. b \in Nat /\ (l + 1) * m = b + m /\ (l + 1) * m <= n * m /\ n * m \in Nat
    BY <1>1, ProductMonotone
  <1>3. (b + e) \div m = l /\ (b + e) % m = e
    BY <1>1
  <1>4. c = b + s
    OBVIOUS
  <1> HIDE DEF l, b, e
  <1>5. c - 1 = b + e
    BY <1>1, <1>2, <1>4
  <1>6. 1 <= c /\ c <= n * m /\ c \in Int
    BY <1>1, <1>2, <1>4
  <1> QED
    BY <1>2, <1>3, <1>5, <1>6 DEF l, e
\* Writing row n + 1 of a flat buffer leaves rows 1 to n alone.
LEMMA FlatWrite ==
  ASSUME NEW m \in Nat, NEW n \in Nat, NEW k \in Nat, n + 1 <= k,
         NEW f, NEW g, NEW e, NEW lo, lo = n * m,
         g = [c \in 1 .. k * m |-> IF c - lo \in 1 .. m THEN e[c - lo] ELSE f[c]]
  PROVE  /\ \A t \in 1 .. m : g[lo + t] = e[t]
         /\ \A q \in 1 .. n : \A t \in 1 .. m : g[(q - 1) * m + t] = f[(q - 1) * m + t]
  <1>1. lo \in Nat /\ (n + 1) * m = lo + m /\ (n + 1) * m <= k * m /\ k * m \in Nat
    BY ProductMonotone
  <1>2. ASSUME NEW t \in 1 .. m
        PROVE  g[lo + t] = e[t]
    <2>1. lo + t \in 1 .. k * m /\ lo + t - lo = t
      BY <1>1
    <2> QED
      BY <2>1
  <1>3. ASSUME NEW q \in 1 .. n, NEW t \in 1 .. m
        PROVE  g[(q - 1) * m + t] = f[(q - 1) * m + t]
    <2> DEFINE l == q - 1
               c == l * m + t
    <2>1. l \in Nat /\ l + 1 <= n
      OBVIOUS
    <2> HIDE DEF l
    <2>2. l * m \in Nat /\ (l + 1) * m = l * m + m /\ (l + 1) * m <= n * m
      BY <2>1, ProductMonotone
    <2>3. c \in Nat /\ 1 <= c /\ c <= lo
      BY <2>2
    <2> HIDE DEF c
    <2>4. c \in 1 .. k * m /\ c - lo \notin 1 .. m
      BY <1>1, <2>3
    <2>5. g[c] = f[c]
      BY <2>4
    <2> QED
      BY <2>5 DEF c, l
  <1> QED
    BY <1>2, <1>3

\* It starts as the reference verifier does.
LEMMA ArenaStarts ==
  ASSUME verifier = "arena", Arena!Init
  PROVE  RefInit /\ ArenaLocals
  <1>1. nrows = 0 /\ w = 0 /\ r = 0
    BY DEF Arena!Init
  <1>2. \A b, n, v, e : FlatRows(b, n, 0, v, e) = << >>
    BY EmptyFunction DEF FlatRows
  <1>3. I = 1 /\ X = << >> /\ XC = << >>
    BY <1>1, <1>2, ArenaStands
  <1>4. RefInit
    BY <1>3 DEF Arena!Init, RefInit
  <1> QED
    BY <1>4 DEF Arena!Init, ArenaLocals

\* A return leaves every row alone.
LEMMA ArenaReturns ==
  ASSUME verifier = "arena", verifier' = "arena", ArenaLocals, NEW result, Arena!Return(result)
  PROVE  RefReturn(result) /\ ArenaLocals'
  <1>1. /\ UNCHANGED <<digest, indices, round, stride, nrows, hashes, r, w, out_hashes>>
        /\ pc' = "done" /\ verdict' = result
    BY DEF Arena!Return, Arena!input, Arena!fold
  <1>2. I' = I /\ X' = X /\ XC' = XC
    BY <1>1, ArenaStands
  <1>3. ArenaLocals'
    BY <1>1 DEF ArenaLocals
  <1> QED
    BY <1>1, <1>2, <1>3 DEF RefReturn, SameTree

\* The flat buffer filled with leaf rows stands for them.
LEMMA ArenaAccepts ==
  ASSUME verifier = "arena", verifier' = "arena", EInv, ArenaLocals, Arena!ScreenAccept
  PROVE  RefScreenAccept /\ ArenaLocals'
  <1>1. /\ pc = "screen" /\ pc' = "fold" /\ round = 1
        /\ stride = K + 1 /\ r = 0 /\ w = 0 /\ out_idx = << >>
        /\ K \in Nat \ {0} /\ digest \in [Key -> Row] /\ indices \in Seq(Nat)
        /\ UNCHANGED <<digest, indices, verdict, round, stride, r, w, out_idx>>
    BY KAssumption DEF Arena!ScreenAccept, Arena!input, ArenaLocals, EInv, FreshStart, CommonType
  <1>2. Len(indices) = 2^K /\ IsInjective(indices) /\ Range(indices) \subseteq Leaf
    BY ArenaPrimitives DEF Arena!ScreenAccept, Arena!LengthOk, Arena!DistinctOk, Arena!RangeOk
  <1> DEFINE n == 2^K
  <1>3. /\ n \in Nat
        /\ hashes' = [c \in 1 .. n * (K + 1) |->
                        LeafRow(digest, indices[(c - 1) \div (K + 1) + 1])
                          [((c - 1) % (K + 1)) + 1]]
        /\ idx' = [p \in DOMAIN indices |-> <<indices[p]>>]
        /\ nrows' = n
        /\ out_hashes' = Arena!Blank(n, K + 1)
    BY <1>1, <1>2, ArenaPrimitives, PowerOfTwoType DEF Arena!ScreenAccept
  <1>4. /\ DOMAIN indices = 1 .. n /\ indices \in Seq(Leaf)
        /\ \A p \in 1 .. n : indices[p] \in Leaf
    <2>1. DOMAIN indices = 1 .. n
      BY <1>1, <1>2, LenProperties
    <2>2. \A p \in 1 .. n : indices[p] \in Leaf
      BY <1>2, <2>1 DEF Range
    <2> QED
      BY <1>1, <1>2, <2>1, <2>2, LenProperties
  <1> HIDE DEF n
  <1>5. ASSUME NEW p \in 1 .. n
        PROVE  /\ Span(indices, 0, p - 1) = <<indices[p]>>
               /\ Widened(K + 1, hashes', (p - 1) * (K + 1)) = LeafRow(digest, indices[p])
    <2>1. Span(indices, 0, p - 1) = <<indices[p]>>
      BY <1>1, <1>2, <1>4, LeafIsNode
    <2> DEFINE h == LeafRow(digest, indices[p])
               m == K + 1
    <2>2. h = [s \in 1 .. K + 1 |-> h[s]]
      <3>1. indices[p] \in Leaf
        BY <1>4
      <3>2. h \in Row
        BY <1>1, <3>1 DEF LeafRow, Key
      <3> QED
        BY <3>2 DEF Row
    <2>3. ASSUME NEW s \in 1 .. K + 1
          PROVE  hashes'[(p - 1) * (K + 1) + s] = h[s]
      <3> DEFINE c == (p - 1) * m + s
      <3>1. m \in Nat /\ s \in 1 .. m /\ c = (p - 1) * m + s
        BY <1>1
      <3> HIDE DEF c
      <3>2. (c - 1) \div m = p - 1 /\ (c - 1) % m = s - 1 /\ c \in 1 .. n * m
        <4> HIDE DEF m
        <4> QED
          BY <1>3, <3>1, FlatPosition
      <3>3. c \in 1 .. n * (K + 1)
        BY <3>2
      <3>4. hashes'[c] = LeafRow(digest, indices[(c - 1) \div m + 1])[((c - 1) % m) + 1]
        BY <1>3, <3>3
      <3>5. p - 1 + 1 = p /\ s - 1 + 1 = s
        BY <1>1, <1>3
      <3>6. hashes'[c] = h[s]
        BY <3>2, <3>4, <3>5
      <3> QED
        BY <3>6 DEF c
    <2> HIDE DEF h
    <2>4. ASSUME NEW s \in 1 .. K + 1
          PROVE  Widened(K + 1, hashes', (p - 1) * (K + 1))[s] = h[s]
      <3>1. ~(s <= K + 1 - (K + 1)) /\ s - (K + 1 - (K + 1)) = s
        BY <1>1
      <3> QED
        BY <2>3, <3>1 DEF Widened
    <2>5. Widened(K + 1, hashes', (p - 1) * (K + 1)) = h
      BY <2>2, <2>4 DEF Widened
    <2> QED
      BY <2>1, <2>5 DEF h
  <1>6. X' = [p \in DOMAIN indices |->
                [h |-> LeafRow(digest, indices[p]), idx |-> <<indices[p]>>]]
    <2>1. X' = FlatRows(hashes', K + 1, n, indices, 0)
      BY <1>1, <1>3, ArenaStands
    <2> QED
      BY <1>4, <1>5, <2>1 DEF FlatRows
  <1>7. I' = I /\ XC' = XC
    <2>1. \A b, l, v, e : FlatRows(b, l, 0, v, e) = << >>
      BY EmptyFunction DEF FlatRows
    <2> QED
      BY <1>1, <2>1, ArenaStands
  <1>8. ArenaLocals'
    <2>1. stride' = K + 2 - round' /\ nrows' \in Nat /\ r' \in Nat /\ w' \in Nat
      BY <1>1, <1>3
    <2>2. DOMAIN idx' = 1 .. nrows'
      BY <1>3, <1>4
    <2>3. \A q \in 1 .. nrows' :
            idx'[q] = IF q <= r' THEN << >> ELSE Span(indices', round' - 1, q - 1)
      <3>1. round' - 1 = 0 /\ r' = 0 /\ indices' = indices
        BY <1>1
      <3>2. \A q \in 1 .. n : ~(q <= 0) /\ idx'[q] = Span(indices, 0, q - 1)
        BY <1>3, <1>4, <1>5
      <3> QED
        BY <1>3, <3>1, <3>2
    <2>4. out_idx' \in Seq(Seq(Leaf)) /\ Len(out_idx') = w' /\ 1 .. w' = {}
      BY <1>1
    <2>5. DOMAIN out_hashes' = 1 .. (nrows' \div 2) * (stride' - 1)
      BY <1>1, <1>3 DEF Arena!Blank
    <2> QED
      BY <1>1, <2>1, <2>2, <2>3, <2>4, <2>5 DEF ArenaLocals
  <1> QED
    BY <1>1, <1>2, <1>6, <1>7, <1>8 DEF RefScreenAccept

\* The pair under the cursor, in the flat buffer.
LEMMA ArenaPair ==
  ASSUME verifier = "arena", EInv, ArenaLocals, pc = "fold"
  PROVE  /\ Arena!Folding <=> AtPair
         /\ Arena!Folding =>
              /\ Arena!Collides <=> RefCollide
              /\ Arena!Ordered <=> RefOrdered
              /\ X[I] = [h   |-> Widened(stride, hashes, r * stride),
                         idx |-> Span(indices, round - 1, r)]
              /\ X[I + 1] = [h   |-> Widened(stride, hashes, (r + 1) * stride),
                             idx |-> Span(indices, round - 1, r + 1)]
              /\ idx[r + 1] = X[I].idx /\ idx[r + 2] = X[I + 1].idx
              /\ r = 2 * w /\ r + 2 <= nrows /\ Len(XC) = w
              /\ stride \in 1 .. K + 1 /\ stride - 1 \in Nat
  <1>1. /\ CommonType /\ Screened /\ RowsAreNodes
        /\ K \in Nat \ {0}
    BY KAssumption DEF EInv, Folding
  <1>2. /\ nrows \in Nat /\ r \in Nat /\ w \in Nat /\ stride = K + 2 - round
        /\ \A q \in 1 .. nrows :
             idx[q] = IF q <= r THEN << >> ELSE Span(indices, round - 1, q - 1)
    BY DEF ArenaLocals
  <1>3. /\ I = r + 1
        /\ X = FlatRows(hashes, stride, nrows, indices, round - 1)
        /\ XC = FlatRows(out_hashes, stride - 1, w, indices, round)
    BY ArenaStands
  <1>4. /\ Len(X) = nrows /\ Len(XC) = w
        /\ \A q \in 1 .. nrows :
             X[q] = [h   |-> Widened(stride, hashes, (q - 1) * stride),
                     idx |-> Span(indices, round - 1, q - 1)]
    <2> DEFINE l == stride - 1
               e == round - 1
    <2>1. X = FlatRows(hashes, stride, nrows, indices, e) /\ XC = FlatRows(out_hashes, l, w, indices, round)
      BY <1>3
    <2> HIDE DEF l, e
    <2>5. w \in Nat /\ nrows \in Nat
      BY <1>2
    <2>2. Len(FlatRows(out_hashes, l, w, indices, round)) = w
      BY <2>5, FlatRowsShape
    <2>3. /\ Len(FlatRows(hashes, stride, nrows, indices, e)) = nrows
          /\ \A q \in 1 .. nrows :
               FlatRows(hashes, stride, nrows, indices, e)[q]
                 = [h   |-> Widened(stride, hashes, (q - 1) * stride),
                    idx |-> Span(indices, e, q - 1)]
      BY <2>5, FlatRowsShape
    <2> QED
      BY <2>1, <2>2, <2>3 DEF e
  <1>5. Arena!Folding <=> AtPair
    BY <1>2, <1>3, <1>4 DEF Arena!Folding, AtPair
  <1> SUFFICES ASSUME AtPair
               PROVE  /\ Arena!Collides <=> RefCollide
                      /\ Arena!Ordered <=> RefOrdered
                      /\ X[I] = [h   |-> Widened(stride, hashes, r * stride),
                                 idx |-> Span(indices, round - 1, r)]
                      /\ X[I + 1] = [h   |-> Widened(stride, hashes, (r + 1) * stride),
                                     idx |-> Span(indices, round - 1, r + 1)]
                      /\ idx[r + 1] = X[I].idx /\ idx[r + 2] = X[I + 1].idx
                      /\ r = 2 * w /\ r + 2 <= nrows
                      /\ stride \in 1 .. K + 1 /\ stride - 1 \in Nat
    BY <1>4, <1>5
  <1>6. I = 2 * w + 1 /\ I + 1 <= nrows /\ round \in 1 .. K
    BY <1>1, <1>4, PairNodes DEF Rounds
  <1>7. /\ r = 2 * w /\ r + 2 <= nrows
        /\ r + 1 \in 1 .. nrows /\ r + 2 \in 1 .. nrows
        /\ r + 1 - 1 = r /\ r + 2 - 1 = r + 1 /\ I + 1 = r + 2
        /\ ~(r + 1 <= r) /\ ~(r + 2 <= r)
        /\ stride \in 1 .. K + 1 /\ stride - 1 \in Nat
        /\ K + 1 - stride = round - 1
    <2>1. r + 1 = 2 * w + 1 /\ r + 1 + 1 <= nrows /\ I + 1 = r + 1 + 1
      BY <1>3, <1>6
    <2>2. stride = K + 2 - round /\ K \in Nat /\ round \in 1 .. K
      BY <1>1, <1>2, <1>6
    <2>3. stride \in 1 .. K + 1 /\ stride - 1 \in Nat /\ K + 1 - stride = round - 1
      BY <2>2
    <2>4. r \in Nat /\ w \in Nat /\ nrows \in Nat
      BY <1>2
    <2>5. /\ r = 2 * w /\ r + 2 <= nrows
          /\ r + 1 \in 1 .. nrows /\ r + 2 \in 1 .. nrows
          /\ r + 1 - 1 = r /\ r + 2 - 1 = r + 1 /\ r + 1 + 1 = r + 2
          /\ ~(r + 1 <= r) /\ ~(r + 2 <= r)
      BY <2>1, <2>4
    <2> QED
      BY <2>1, <2>3, <2>5
  <1>8. /\ X[I] = [h   |-> Widened(stride, hashes, r * stride),
                   idx |-> Span(indices, round - 1, r)]
        /\ X[I + 1] = [h   |-> Widened(stride, hashes, (r + 1) * stride),
                       idx |-> Span(indices, round - 1, r + 1)]
        /\ idx[r + 1] = Span(indices, round - 1, r)
        /\ idx[r + 2] = Span(indices, round - 1, r + 1)
    <2> DEFINE p_1 == r + 1
               p_2 == r + 2
               e   == round - 1
    <2>1. /\ p_1 \in 1 .. nrows /\ p_2 \in 1 .. nrows
          /\ p_1 - 1 = r /\ p_2 - 1 = r + 1 /\ I = p_1 /\ I + 1 = p_2
      BY <1>3, <1>7
    <2>2. /\ \A q \in 1 .. nrows : X[q] = [h   |-> Widened(stride, hashes, (q - 1) * stride),
                                         idx |-> Span(indices, e, q - 1)]
          /\ \A q \in 1 .. nrows :
               idx[q] = IF q <= r THEN << >> ELSE Span(indices, e, q - 1)
      BY <1>2, <1>4
    <2>3. ~(p_1 <= r) /\ ~(p_2 <= r)
      BY <1>7
    <2> HIDE DEF p_1, p_2, e
    <2>4. /\ X[p_1] = [h |-> Widened(stride, hashes, r * stride), idx |-> Span(indices, e, r)]
          /\ idx[p_1] = Span(indices, e, r)
      BY <2>1, <2>2, <2>3
    <2>5. /\ X[p_2] = [h   |-> Widened(stride, hashes, (r + 1) * stride),
                       idx |-> Span(indices, e, r + 1)]
          /\ idx[p_2] = Span(indices, e, r + 1)
      BY <2>1, <2>2, <2>3
    <2>6. X[I] = X[p_1] /\ X[I + 1] = X[p_2]
      BY <2>1
    <2>7. idx[p_1] = idx[r + 1] /\ idx[p_2] = idx[r + 2]
      BY DEF p_1, p_2
    <2> QED
      BY <2>4, <2>5, <2>6, <2>7 DEF e
  <1>9. \A o : Widened(stride, hashes, o)[round] = hashes[o + 1]
    <2>1. ~(round <= K + 1 - stride) /\ round - (K + 1 - stride) = 1 /\ round \in 1 .. K + 1
      BY <1>1, <1>6, <1>7
    <2> QED
      BY <2>1 DEF Widened
  <1>10. Arena!Collides <=> RefCollide
    BY <1>8, <1>9 DEF Arena!Collides, Arena!Cell, RefCollide
  <1>11. Arena!Ordered <=> RefOrdered
    BY <1>8, ArenaPrimitives DEF Arena!Ordered, RefOrdered
  <1> QED
    BY <1>7, <1>8, <1>10, <1>11

\* The row written by a fold stands for the folded pair; the rows written
\* before it are not touched.
LEMMA ArenaFolds ==
  ASSUME verifier = "arena", verifier' = "arena", EInv, ArenaLocals, Arena!FoldPair
  PROVE  RefFoldPair /\ ArenaLocals'
  <1> DEFINE m == stride - 1
             lo == w * m
             parent == FlatRows(out_hashes, m, w, indices, round)
             parent_1 == FlatRows(out_hashes', m, w + 1, indices, round)
             half == nrows \div 2
  <1>1. /\ pc = "fold" /\ Arena!Folding /\ Arena!Collides /\ Arena!Ordered
        /\ UNCHANGED <<digest, indices, pc, verdict, round, stride, hashes, nrows>>
        /\ r' = r + 2 /\ w' = w + 1
        /\ out_idx' = Append(out_idx, idx[r + 1] \o idx[r + 2])
        /\ idx' = [idx EXCEPT ![r + 1] = << >>, ![r + 2] = << >>]
    BY DEF Arena!FoldPair, Arena!Folding, Arena!input, Arena!Absorbed
  <1>2. /\ AtPair /\ RefCollide /\ RefOrdered
        /\ X[I] = [h   |-> Widened(stride, hashes, r * stride),
                   idx |-> Span(indices, round - 1, r)]
        /\ X[I + 1] = [h   |-> Widened(stride, hashes, (r + 1) * stride),
                       idx |-> Span(indices, round - 1, r + 1)]
        /\ idx[r + 1] = X[I].idx /\ idx[r + 2] = X[I + 1].idx
        /\ r = 2 * w /\ r + 2 <= nrows /\ Len(XC) = w
        /\ m \in Nat /\ stride \in Nat /\ m + 1 = stride /\ m \in 0 .. K
    BY <1>1, ArenaPair, KAssumption
  <1>3. /\ CommonType /\ Screened /\ RowsAreNodes /\ K \in Nat \ {0}
        /\ nrows \in Nat /\ r \in Nat /\ w \in Nat
    BY <1>1, KAssumption DEF EInv, Folding, ArenaLocals
  <1>4. IsNode(digest, indices, RefFolded, round, w) /\ round \in 1 .. K
    BY <1>2, <1>3, PairNodes DEF Rounds
  <1>5. /\ RefFolded.idx = Span(indices, round, w)
        /\ idx[r + 1] \o idx[r + 2] = Span(indices, round, w)
    BY <1>2, <1>4 DEF IsNode, RefFolded
  <1>6. DOMAIN out_hashes = 1 .. half * m /\ half \in Nat /\ w + 1 <= half
    <2>1. half \in Nat /\ w + 1 <= half
      <3>1. nrows \in Nat /\ w \in Nat /\ 2 * w + 2 <= nrows
        BY <1>2, <1>3
      <3> QED
        BY <3>1
    <2>2. round <= K /\ pc = "fold"
      BY <1>1, <1>3, <1>4
    <2> QED
      BY <2>1, <2>2 DEF ArenaLocals
  <1> DEFINE cells == [t \in 1 .. m |-> SymDiff(hashes[r * stride + (t + 1)],
                                               hashes[(r + 1) * stride + (t + 1)])]
  <1>7. out_hashes' = [c \in 1 .. half * m |->
                         IF c - lo \in 1 .. m THEN cells[c - lo] ELSE out_hashes[c]]
    <2>1. out_hashes' = [c \in DOMAIN out_hashes |->
                           IF c - w * (stride - 1) \in 1 .. stride - 1
                           THEN SymDiff(hashes[r * stride + (c - w * (stride - 1) + 1)],
                                        hashes[(r + 1) * stride + (c - w * (stride - 1) + 1)])
                           ELSE out_hashes[c]]
      BY ArenaPrimitives DEF Arena!FoldPair, Arena!FoldedCell, Arena!Cell
    <2> QED
      BY <1>6, <2>1
  <1>8. /\ \A t \in 1 .. m : out_hashes'[lo + t] = cells[t]
        /\ \A q \in 1 .. w : \A t \in 1 .. m :
             out_hashes'[(q - 1) * m + t] = out_hashes[(q - 1) * m + t]
    <2>1. m \in Nat /\ w \in Nat /\ half \in Nat /\ w + 1 <= half /\ lo = w * m
      BY <1>2, <1>3, <1>6
    <2> DEFINE f == out_hashes
               g == out_hashes'
    <2>2. g = [c \in 1 .. half * m |-> IF c - lo \in 1 .. m THEN cells[c - lo] ELSE f[c]]
      BY <1>7
    <2> HIDE DEF f, g, m, half, lo, cells
    <2>3. /\ \A t \in 1 .. m : g[lo + t] = cells[t]
          /\ \A q \in 1 .. w : \A t \in 1 .. m : g[(q - 1) * m + t] = f[(q - 1) * m + t]
      BY <2>1, <2>2, FlatWrite
    <2> QED
      BY <2>3 DEF f, g
  <1>9. \A q \in 1 .. w : Widened(m, out_hashes', (q - 1) * m) = Widened(m, out_hashes, (q - 1) * m)
    <2> SUFFICES ASSUME NEW q \in 1 .. w
                 PROVE  Widened(m, out_hashes', (q - 1) * m)
                          = Widened(m, out_hashes, (q - 1) * m)
      OBVIOUS
    <2> DEFINE l == q - 1
               o == l * m
               f == out_hashes'
               g == out_hashes
    <2>1. m \in 0 .. K + 1
      BY <1>2, <1>3
    <2>2. o \in Nat
      <3>1. l \in Nat /\ m \in Nat
        BY <1>2, <1>3
      <3> HIDE DEF m, l
      <3> QED
        BY <3>1
    <2>3. \A t \in 1 .. m : f[o + t] = g[o + t]
      BY <1>8
    <2> HIDE DEF o, m, l, f, g
    <2>4. Widened(m, f, o) = Widened(m, g, o)
      BY <2>1, <2>2, <2>3, WidenedSame
    <2> QED
      BY <2>4 DEF o, l, f, g
  <1>10. Widened(m, out_hashes', lo)
           = Xor(Widened(stride, hashes, r * stride), Widened(stride, hashes, (r + 1) * stride))
    <2> DEFINE o_1 == r * stride
               o_2 == (r + 1) * stride
               e == out_hashes'
               f == hashes
               n == stride
    <2>2. o_1 \in Nat /\ o_2 \in Nat /\ lo \in Nat
      <3>1. r \in Nat /\ r + 1 \in Nat /\ stride \in Nat /\ m \in Nat /\ w \in Nat
        BY <1>2, <1>3
      <3> HIDE DEF m
      <3> QED
        BY <3>1
    <2>3. FoldsTo(m, e, lo, f, o_1, f, o_2)
      <3>1. f[o_1 + 1] = f[o_2 + 1]
        BY <1>1 DEF Arena!Collides, Arena!Cell
      <3>2. \A t \in 1 .. m : e[lo + t] = SymDiff(f[o_1 + (t + 1)], f[o_2 + (t + 1)])
        BY <1>8
      <3> HIDE DEF o_1, o_2, m, lo, e, f
      <3> QED
        BY <3>1, <3>2 DEF FoldsTo
    <2>4. m \in 0 .. K /\ n = m + 1 /\ n \in Nat
      BY <1>2, <1>3
    <2> HIDE DEF o_1, o_2, m, lo, e, f, n
    <2>5. Widened(m, e, lo) = Xor(Widened(n, f, o_1), Widened(n, f, o_2))
      BY <2>2, <2>3, <2>4, WidenedFold
    <2> QED
      BY <2>5 DEF o_1, o_2, e, f, n
  <1>11. XC = parent /\ XC' = parent_1 /\ I' = I + 2 /\ X' = X
    BY <1>1, <1>3, ArenaStands
  <1>12. XC' = Append(XC, RefFolded)
    <2>1. parent \in Seq(NodeRow) /\ Len(parent) = w
      BY <1>2, <1>3, <1>11 DEF RowsAreNodes
    <2>2. parent_1 = [p \in 1 .. w + 1 |-> [h   |-> Widened(m, out_hashes', (p - 1) * m),
                                           idx |-> Span(indices, round, p - 1)]]
      BY DEF FlatRows
    <2> DEFINE T == {parent_1[p] : p \in 1 .. w + 1}
    <2>3. parent_1 \in Seq(T) /\ Len(parent_1) = Len(parent) + 1
      <3>1. parent_1 \in [1 .. w + 1 -> T]
        BY <2>2
      <3>2. w + 1 \in Nat
        BY <1>3
      <3> HIDE DEF parent_1, T, parent
      <3> QED
        BY <2>1, <3>1, <3>2
    <2>4. \A p \in 1 .. Len(parent) : parent_1[p] = parent[p]
      <3>1. \A p \in 1 .. w : p \in 1 .. w + 1
        BY <1>3
      <3> QED
        BY <1>9, <2>1, <3>1 DEF FlatRows
    <2>5. parent_1[Len(parent) + 1] = RefFolded
      <3> DEFINE p == w + 1
      <3>1. p \in 1 .. w + 1 /\ p - 1 = w
        BY <1>3
      <3> HIDE DEF p
      <3>2. parent_1[p] = [h |-> Widened(m, out_hashes', (p - 1) * m), idx |-> Span(indices, round, p - 1)]
        BY <2>2, <3>1
      <3>3. parent_1[p] = [h |-> Widened(m, out_hashes', lo), idx |-> Span(indices, round, w)]
        BY <3>1, <3>2
      <3> HIDE DEF parent_1, parent, lo, m
      <3>4. RefFolded = [h |-> Widened(m, out_hashes', lo), idx |-> Span(indices, round, w)]
        <4>1. RefFolded.h = Xor(X[I].h, X[I + 1].h)
          BY DEF RefFolded
        <4>2. RefFolded.h = Widened(m, out_hashes', lo)
          BY <1>2, <1>10, <4>1
        <4>3. RefFolded = [h |-> RefFolded.h, idx |-> RefFolded.idx]
          BY DEF RefFolded
        <4> QED
          BY <1>5, <4>2, <4>3
      <3> QED
        BY <2>1, <3>3, <3>4 DEF p
    <2> HIDE DEF parent, parent_1, T
    <2>6. parent_1 = Append(parent, RefFolded)
      BY <2>1, <2>3, <2>4, <2>5, ExtendIsAppend
    <2> QED
      BY <1>11, <2>6
  <1>13. ArenaLocals'
    <2>1. /\ stride' = K + 2 - round' /\ nrows' \in Nat /\ r' \in Nat /\ w' \in Nat
          /\ DOMAIN idx = 1 .. nrows /\ DOMAIN idx' = 1 .. nrows'
          /\ \A q \in 1 .. nrows :
               idx[q] = IF q <= r THEN << >> ELSE Span(indices, round - 1, q - 1)
          /\ out_idx \in Seq(Seq(Leaf)) /\ Len(out_idx) = w
          /\ \A q \in 1 .. w : out_idx[q] = Span(indices, round, q - 1)
      BY <1>1, <1>3 DEF ArenaLocals
    <2>2. \A q \in 1 .. nrows' :
            idx'[q] = IF q <= r' THEN << >> ELSE Span(indices', round' - 1, q - 1)
      <3> SUFFICES ASSUME NEW q \in 1 .. nrows
                   PROVE  idx'[q] = IF q <= r + 2 THEN << >> ELSE Span(indices, round - 1, q - 1)
        BY <1>1
      <3>1. CASE q = r + 1 \/ q = r + 2
        <4>1. q <= r + 2
          BY <1>3, <3>1
        <4> QED
          BY <1>1, <2>1, <3>1, <4>1
      <3>2. CASE q # r + 1 /\ q # r + 2
        <4>1. idx'[q] = idx[q]
          BY <1>1, <2>1, <3>2
        <4>2. r \in Nat /\ q \in Nat
          BY <1>3
        <4>3. q <= r + 2 <=> q <= r
          BY <3>2, <4>2
        <4> QED
          BY <2>1, <4>1, <4>3
      <3> QED
        BY <3>1, <3>2
    <2> DEFINE absorbed == Span(indices, round, w)
    <2>3. absorbed \in Seq(Leaf)
      <3>1. w \in Nodes(round)
        BY <1>2, <1>3, PairNodes
      <3>2. round \in 0 .. K /\ w \in 0 .. 2^(K - round) - 1
        BY <1>3, <1>4, <3>1 DEF Nodes
      <3> QED
        BY <1>3, <3>2, SpanType DEF Screened
    <2>4. out_idx' = Append(out_idx, absorbed)
      BY <1>1, <1>5
    <2> HIDE DEF absorbed
    <2>5. /\ out_idx' \in Seq(Seq(Leaf)) /\ Len(out_idx') = w + 1
          /\ \A q \in 1 .. w : out_idx'[q] = out_idx[q]
          /\ out_idx'[w + 1] = absorbed
      BY <2>1, <2>3, <2>4, AppendProperties
    <2>6. \A q \in 1 .. w' : out_idx'[q] = Span(indices', round', q - 1)
      <3>1. \A q \in 1 .. w' : q \in 1 .. w \/ (q = w + 1 /\ q - 1 = w)
        BY <1>1, <1>3
      <3> QED
        BY <1>1, <2>1, <2>5, <3>1 DEF absorbed
    <2>7. DOMAIN out_hashes' = 1 .. (nrows' \div 2) * (stride' - 1)
      BY <1>1, <1>7
    <2>8. pc' = "fold"
      BY <1>1
    <2> QED
      BY <1>1, <2>1, <2>2, <2>5, <2>6, <2>7, <2>8 DEF ArenaLocals
  <1> QED
    BY <1>1, <1>2, <1>11, <1>12, <1>13 DEF RefFoldPair

\* The buffers change hands at the end of a round.
LEMMA ArenaEnds ==
  ASSUME verifier = "arena", verifier' = "arena", EInv, ArenaLocals, Arena!EndRound
  PROVE  RefEndRound /\ ArenaLocals'
  <1>1. /\ pc = "fold" /\ round <= K /\ r >= nrows
        /\ hashes' = out_hashes /\ idx' = out_idx /\ stride' = stride - 1 /\ nrows' = w
        /\ round' = round + 1 /\ r' = 0 /\ w' = 0 /\ out_idx' = << >>
        /\ out_hashes' = IF round < K THEN Arena!Blank(w, stride - 1) ELSE << >>
        /\ UNCHANGED <<digest, indices, pc, verdict>>
    BY DEF Arena!EndRound, Arena!input
  <1>2. /\ round \in Nat /\ K \in Nat
        /\ nrows \in Nat /\ r \in Nat /\ w \in Nat /\ stride = K + 2 - round
        /\ out_idx \in Seq(Seq(Leaf)) /\ Len(out_idx) = w
        /\ \A q \in 1 .. w : out_idx[q] = Span(indices, round, q - 1)
    BY <1>1, KAssumption DEF EInv, CommonType, ArenaLocals
  <1>3. I = r + 1 /\ Len(X) = nrows
    <2> DEFINE e == round - 1
    <2>1. I = r + 1 /\ X = FlatRows(hashes, stride, nrows, indices, e)
      BY ArenaStands
    <2> HIDE DEF e
    <2>2. nrows \in Nat
      BY <1>2
    <2>3. Len(FlatRows(hashes, stride, nrows, indices, e)) = nrows
      BY <2>2, FlatRowsShape
    <2> QED
      BY <2>1, <2>3
  <1>4. round' - 1 = round /\ stride' = K + 2 - round'
    BY <1>1, <1>2
  <1>5. X' = XC /\ I' = 1 /\ XC' = << >>
    <2>1. XC = FlatRows(out_hashes, stride - 1, w, indices, round)
      BY ArenaStands
    <2>2. X' = FlatRows(out_hashes, stride - 1, w, indices, round)
      BY <1>1, <1>4, ArenaStands
    <2>3. \A b, l, v, e : FlatRows(b, l, 0, v, e) = << >>
      BY EmptyFunction DEF FlatRows
    <2> QED
      BY <1>1, <2>1, <2>2, <2>3, ArenaStands
  <1>6. RefEndRound
    BY <1>1, <1>2, <1>3, <1>5 DEF RefEndRound
  <1>7. ArenaLocals'
    <2>1. nrows' \in Nat /\ r' \in Nat /\ w' \in Nat /\ DOMAIN idx' = 1 .. nrows'
      BY <1>1, <1>2, LenProperties
    <2>2. \A q \in 1 .. nrows' :
            idx'[q] = IF q <= r' THEN << >> ELSE Span(indices', round' - 1, q - 1)
      <3>1. \A q \in 1 .. w : ~(q <= 0)
        OBVIOUS
      <3> QED
        BY <1>1, <1>2, <1>4, <3>1
    <2>3. out_idx' \in Seq(Seq(Leaf)) /\ Len(out_idx') = w' /\ 1 .. w' = {}
      BY <1>1
    <2>4. round' <= K => DOMAIN out_hashes' = 1 .. (nrows' \div 2) * (stride' - 1)
      BY <1>1, <1>2 DEF Arena!Blank
    <2> QED
      BY <1>1, <1>4, <2>1, <2>2, <2>3, <2>4 DEF ArenaLocals
  <1> QED
    BY <1>6, <1>7

\* The last segment tells whether the whole root row is zero.
LEMMA ArenaRoot ==
  ASSUME verifier = "arena", verifier' = "arena", EInv, ArenaLocals, Arena!CheckRoot
  PROVE  RefCheckRoot /\ ArenaLocals'
  <1>1. pc = "fold" /\ round = K + 1 /\ nrows = 1 /\ stride = 1 /\ K \in Nat \ {0}
    <2>1. pc = "fold" /\ round > K /\ nrows = 1
      BY DEF Arena!CheckRoot
    <2>2. K \in Nat \ {0} /\ round \in 1 .. K + 1 /\ stride = K + 2 - round
      BY <2>1, KAssumption DEF EInv, CommonType, ArenaLocals
    <2> QED
      BY <2>1, <2>2
  <1>2. X[1].h = Widened(1, hashes, 0) /\ Len(X) = 1
    <2> DEFINE e == round - 1
               n == 1
    <2>1. X = FlatRows(hashes, n, n, indices, e)
      BY <1>1, ArenaStands
    <2>2. n \in Nat /\ n \in 1 .. n
      OBVIOUS
    <2>3. n = 1 /\ (n - 1) * n = 0
      OBVIOUS
    <2> DEFINE g == FlatRows(hashes, n, n, indices, e)
    <2> HIDE DEF e, n
    <2>4. /\ Len(g) = n
          /\ \A q \in 1 .. n :
               g[q] = [h |-> Widened(n, hashes, (q - 1) * n), idx |-> Span(indices, e, q - 1)]
      BY <2>2, FlatRowsShape
    <2> HIDE DEF g
    <2>5. g[n].h = Widened(n, hashes, (n - 1) * n)
      BY <2>2, <2>4
    <2> QED
      BY <2>1, <2>3, <2>4, <2>5 DEF g
  <1>3. IsZero(X[1].h) <=> hashes[1] = {}
    BY <1>2, LastSegment
  <1>4. (\A s \in 1 .. stride : Arena!Cell(hashes, stride, 0, s) = {}) <=> hashes[1] = {}
    <2>1. \A s : s \in 1 .. 1 <=> s = 1
      OBVIOUS
    <2>2. 0 * 1 + 1 = 1
      OBVIOUS
    <2> QED
      BY <1>1, <2>1, <2>2 DEF Arena!Cell
  <1>5. CASE hashes[1] = {} /\ Arena!Return(<<"Ok", 0>>)
    BY <1>1, <1>2, <1>3, <1>5, ArenaReturns DEF RefCheckRoot
  <1>6. CASE hashes[1] # {} /\ Arena!Return(<<"NonZeroRoot", 0>>)
    BY <1>1, <1>2, <1>3, <1>6, ArenaReturns DEF RefCheckRoot
  <1> QED
    BY <1>4, <1>5, <1>6 DEF Arena!CheckRoot

\* Every step of the arena verifier is one of the reference verifier.
LEMMA ArenaStep ==
  ASSUME verifier = "arena", verifier' = "arena", EInv, ArenaLocals, Arena!Next
  PROVE  RefNext /\ ArenaLocals'
  <1>1. CASE Arena!ScreenReject
    <2>1. /\ pc = "screen"
          /\ \/ Len(indices) # 2^K /\ Arena!Return(<<"WrongLength", 0>>)
             \/ Len(indices) = 2^K /\ ~IsInjective(indices) /\ Arena!Return(<<"NotDistinct", 0>>)
             \/ /\ Len(indices) = 2^K /\ IsInjective(indices) /\ ~(Range(indices) \subseteq Leaf)
                /\ Arena!Return(<<"IndexOutOfRange", 0>>)
      BY <1>1, ArenaPrimitives
         DEF Arena!ScreenReject, Arena!LengthOk, Arena!DistinctOk, Arena!RangeOk
    <2>2. ArenaLocals' /\ RefScreenReject
      BY <2>1, ArenaReturns DEF RefScreenReject
    <2> QED
      BY <2>2 DEF RefNext
  <1>2. CASE Arena!ScreenAccept
    BY <1>2, ArenaAccepts DEF RefNext
  <1>3. CASE Arena!RejectCollision
    <2>1. pc = "fold" /\ Arena!Folding /\ ~Arena!Collides /\ Arena!Return(<<"CollisionFailed", round>>)
      BY <1>3 DEF Arena!RejectCollision, Arena!Folding
    <2>2. AtPair /\ ~RefCollide
      BY <2>1, ArenaPair
    <2> QED
      BY <2>1, <2>2, ArenaReturns DEF RefNext, RefRejectCollision
  <1>4. CASE Arena!RejectOrdering
    <2>1. /\ pc = "fold" /\ Arena!Folding /\ Arena!Collides /\ ~Arena!Ordered
          /\ Arena!Return(<<"OrderingFailed", round>>)
      BY <1>4 DEF Arena!RejectOrdering, Arena!Folding
    <2>2. AtPair /\ RefCollide /\ ~RefOrdered
      BY <2>1, ArenaPair
    <2> QED
      BY <2>1, <2>2, ArenaReturns DEF RefNext, RefRejectOrdering
  <1>5. CASE Arena!FoldPair
    BY <1>5, ArenaFolds DEF RefNext
  <1>6. CASE Arena!EndRound
    BY <1>6, ArenaEnds DEF RefNext
  <1>7. CASE Arena!CheckRoot
    BY <1>7, ArenaRoot DEF RefNext
  <1> QED
    BY <1>1, <1>2, <1>3, <1>4, <1>5, <1>6, <1>7 DEF Arena!Next
-----------------------------------------------------------------------------
(* The early-reject verifier: rows as vectors of their own, no index       *)
(* vectors, a node's leaves located in the input by its number.            *)

\* A row of n segments.
RowOf(n) == [1 .. n -> Segment]

\* What its locals keep true; their lengths follow from EInv.
EarlyLocals ==
  /\ pc = "screen" =>
       stride = K + 1 /\ level = << >> /\ next = << >> /\ span = 1 /\ a = 0 /\ nrows = 2^K
  /\ pc = "fold" =>
       /\ stride = K + 2 - round
       /\ span = 2^(round - 1)
       /\ a \in Nat
       /\ level \in Seq(RowOf(stride)) /\ nrows = Len(level)
       /\ next \in Seq(RowOf(stride - 1))

EarlyInv == verifier = "early" => EarlyLocals

\* Rows with the zero segments put back, and the slices of the input.
SlicedRows(rows, width, v, leaves) ==
  [q \in DOMAIN rows |->
     [h |-> [s \in 1 .. K + 1 |->
               IF s <= K + 1 - width THEN {} ELSE rows[q][s - (K + 1 - width)]],
      idx |-> SubSeq(v, (q - 1) * leaves + 1, q * leaves)]]

\* The same with spans.
TreeRows(rows, width, v, height) ==
  [q \in DOMAIN rows |-> [h |-> Widened(width, rows[q], 0), idx |-> Span(v, height, q - 1)]]

\* The operators of its instance are those of this module.
LEMMA EarlyPrimitives ==
  /\ \A v, u : Early!LexLess(v, u) <=> LexLess(v, u)
  /\ \A g, h : Early!Xor(g, h) = Xor(g, h)
  /\ \A d, l : Early!LeafRow(d, l) = LeafRow(d, l)
  /\ Early!Leaf = Leaf
  /\ \A f : Early!Range(f) = Range(f) /\ (Early!IsInjective(f) <=> IsInjective(f))
  <1>1. Early!Leaf = Leaf
    BY DEF Early!Leaf, Leaf, Early!InitSize, InitSize
  <1>2. \A v, u : Early!LexLess(v, u) <=> LexLess(v, u)
    BY DEF Early!LexLess, LexLess
  <1>3. \A g, h : Early!Xor(g, h) = Xor(g, h)
    BY DEF Early!Xor, Xor, Early!SymDiff, SymDiff
  <1>4. \A d, l : Early!LeafRow(d, l) = LeafRow(d, l)
    BY DEF Early!LeafRow, LeafRow, Early!LeafKey, LeafKey
  <1>5. \A f : Early!Range(f) = Range(f) /\ (Early!IsInjective(f) <=> IsInjective(f))
    BY DEF Early!Range, Range, Early!IsInjective, IsInjective
  <1> QED
    BY <1>1, <1>2, <1>3, <1>4, <1>5

\* The slices of 2^height leaves are the spans of that height.
LEMMA SliceIsSpan ==
  ASSUME NEW S, NEW rows \in Seq(S), NEW width \in Nat, NEW v, NEW height \in Nat,
         NEW leaves, leaves = 2^height
  PROVE  SlicedRows(rows, width, v, leaves) = TreeRows(rows, width, v, height)
  <1>1. DOMAIN rows = 1 .. Len(rows) /\ K \in Nat
    BY LenProperties, KAssumption
  <1>2. ASSUME NEW q \in DOMAIN rows
        PROVE  SubSeq(v, (q - 1) * leaves + 1, q * leaves) = Span(v, height, q - 1)
    <2>1. q - 1 + 1 = q
      BY <1>1
    <2> QED
      BY <2>1 DEF Span
  <1>3. ASSUME NEW q \in DOMAIN rows
        PROVE  [s \in 1 .. K + 1 |->
                  IF s <= K + 1 - width THEN {} ELSE rows[q][s - (K + 1 - width)]]
                 = Widened(width, rows[q], 0)
    <2>1. \A s \in 1 .. K + 1 : 0 + (s - (K + 1 - width)) = s - (K + 1 - width)
      BY <1>1
    <2> QED
      BY <2>1 DEF Widened
  <1> QED
    BY <1>2, <1>3 DEF TreeRows, SlicedRows

\* What its locals stand for, before and after a step.
LEMMA EarlyStands ==
  /\ verifier = "early" =>
       /\ I = a + 1
       /\ X = SlicedRows(level, stride, indices, span)
       /\ XC = SlicedRows(next, stride - 1, indices, 2 * span)
  /\ verifier' = "early" =>
       /\ I' = a' + 1
       /\ X' = SlicedRows(level', stride', indices', span')
       /\ XC' = SlicedRows(next', stride' - 1, indices', 2 * span')
  BY DEF I, X, XC, StandsFor, Early!Explicit, Early!Slice, SlicedRows
\* No rows.
LEMMA NoRowsSliced == \A n, v, e : SlicedRows(<< >>, n, v, e) = << >>
  <1> TAKE n, v, e
  <1>1. DOMAIN << >> = 1 .. 0
    OBVIOUS
  <1> QED
    BY <1>1, EmptyFunction DEF SlicedRows

\* The shape of tree rows.
LEMMA TreeRowsShape ==
  ASSUME NEW S, NEW rows \in Seq(S), NEW width, NEW v, NEW height
  PROVE  /\ DOMAIN TreeRows(rows, width, v, height) = 1 .. Len(rows)
         /\ Len(TreeRows(rows, width, v, height)) = Len(rows)
         /\ \A q \in 1 .. Len(rows) :
              TreeRows(rows, width, v, height)[q]
                = [h |-> Widened(width, rows[q], 0), idx |-> Span(v, height, q - 1)]
  <1> DEFINE e == TreeRows(rows, width, v, height)
  <1>1. DOMAIN rows = 1 .. Len(rows) /\ Len(rows) \in Nat
    BY LenProperties
  <1>2. DOMAIN e = 1 .. Len(rows)
    BY <1>1 DEF TreeRows
  <1>3. Len(e) = Len(rows)
    BY <1>1, <1>2
  <1> QED
    BY <1>1, <1>2, <1>3 DEF TreeRows

\* It starts as the reference verifier does.
LEMMA EarlyStarts ==
  ASSUME verifier = "early", Early!Init
  PROVE  RefInit /\ EarlyLocals
  <1>1. a = 0 /\ level = << >> /\ next = << >>
    BY DEF Early!Init
  <1>2. I = 1 /\ X = << >> /\ XC = << >>
    BY <1>1, EarlyStands, NoRowsSliced
  <1>3. RefInit
    BY <1>2 DEF Early!Init, RefInit
  <1> QED
    BY <1>3 DEF Early!Init, EarlyLocals

\* A return leaves every row alone.
LEMMA EarlyReturns ==
  ASSUME verifier = "early", verifier' = "early", EarlyLocals, NEW result, Early!Return(result)
  PROVE  RefReturn(result) /\ EarlyLocals'
  <1>1. /\ UNCHANGED <<digest, indices, round, stride, level, next, nrows, span, a>>
        /\ pc' = "done" /\ verdict' = result
    BY DEF Early!Return, Early!input, Early!fold
  <1>2. I' = I /\ X' = X /\ XC' = XC
    BY <1>1, EarlyStands
  <1>3. EarlyLocals'
    BY <1>1 DEF EarlyLocals
  <1> QED
    BY <1>1, <1>2, <1>3 DEF RefReturn, SameTree

\* What the rows of a round and those of the next one stand for.
LEMMA EarlyFolding ==
  ASSUME verifier = "early", EInv, EarlyLocals, pc = "fold"
  PROVE  /\ K \in Nat \ {0} /\ round \in 1 .. K + 1 /\ stride = K + 2 - round
         /\ stride \in Nat /\ stride - 1 \in Nat /\ a \in Nat
         /\ I = a + 1
         /\ X = TreeRows(level, stride, indices, round - 1)
         /\ XC = TreeRows(next, stride - 1, indices, round)
         /\ Len(X) = nrows /\ Len(XC) = Len(next) /\ nrows \in Nat /\ Len(next) \in Nat
         /\ \A q \in 1 .. nrows :
              X[q] = [h |-> Widened(stride, level[q], 0), idx |-> Span(indices, round - 1, q - 1)]
  <1>1. /\ K \in Nat \ {0} /\ round \in 1 .. K + 1 /\ stride = K + 2 - round
        /\ span = 2^(round - 1) /\ a \in Nat
        /\ level \in Seq(RowOf(stride)) /\ nrows = Len(level)
        /\ next \in Seq(RowOf(stride - 1))
    BY KAssumption DEF EInv, CommonType, EarlyLocals
  <1>2. stride \in Nat /\ stride - 1 \in Nat /\ nrows \in Nat /\ Len(next) \in Nat
    <2>1. nrows \in Nat /\ Len(next) \in Nat
      BY <1>1, LenProperties
    <2> QED
      BY <1>1, <2>1
  <1> DEFINE S == RowOf(stride)
             l == stride - 1
             T == RowOf(l)
             e == round - 1
             span_2 == 2 * span
  <1>3. level \in Seq(S) /\ next \in Seq(T) /\ e \in Nat /\ l \in Nat /\ round \in Nat
    BY <1>1, <1>2
  <1>4. /\ SlicedRows(level, stride, indices, span) = TreeRows(level, stride, indices, e)
        /\ SlicedRows(next, l, indices, span_2) = TreeRows(next, l, indices, round)
    <2>1. span = 2^e /\ span_2 = 2^round
      <3>1. e + 1 = round /\ 2^(e + 1) = 2 * 2^e
        BY <1>1, <1>3, PowerOfTwoDoubles
      <3> QED
        BY <1>1, <3>1
    <2> HIDE DEF S, T, l, e, span_2
    <2>2. SlicedRows(level, stride, indices, span) = TreeRows(level, stride, indices, e)
      BY <1>2, <1>3, <2>1, SliceIsSpan
    <2>3. SlicedRows(next, l, indices, span_2) = TreeRows(next, l, indices, round)
      BY <1>3, <2>1, SliceIsSpan
    <2> QED
      BY <2>2, <2>3
  <1> HIDE DEF S, T
  <1>5. /\ I = a + 1 /\ X = TreeRows(level, stride, indices, e)
        /\ XC = TreeRows(next, l, indices, round)
    BY <1>4, EarlyStands
  <1> HIDE DEF l, e
  <1>6. /\ Len(TreeRows(level, stride, indices, e)) = Len(level)
        /\ \A q \in 1 .. Len(level) :
             TreeRows(level, stride, indices, e)[q]
               = [h |-> Widened(stride, level[q], 0), idx |-> Span(indices, e, q - 1)]
    BY <1>3, TreeRowsShape
  <1>7. Len(TreeRows(next, l, indices, round)) = Len(next)
    BY <1>3, TreeRowsShape
  <1> QED
    BY <1>1, <1>2, <1>5, <1>6, <1>7 DEF l, e
\* The leaf rows stand for the leaves.
LEMMA EarlyAccepts ==
  ASSUME verifier = "early", verifier' = "early", EInv, EarlyLocals, Early!ScreenAccept
  PROVE  RefScreenAccept /\ EarlyLocals'
  <1>1. /\ pc = "screen" /\ pc' = "fold" /\ round = 1
        /\ stride = K + 1 /\ level = << >> /\ next = << >> /\ span = 1 /\ a = 0 /\ nrows = 2^K
        /\ K \in Nat \ {0} /\ digest \in [Key -> Row] /\ indices \in Seq(Nat)
        /\ UNCHANGED <<digest, indices, verdict, round, stride, next, nrows, span, a>>
    BY KAssumption DEF Early!ScreenAccept, Early!input, EarlyLocals, EInv, FreshStart, CommonType
  <1>2. /\ Len(indices) = 2^K /\ IsInjective(indices) /\ Range(indices) \subseteq Leaf
        /\ level' = [p \in DOMAIN indices |-> LeafRow(digest, indices[p])]
    BY EarlyPrimitives DEF Early!ScreenAccept, Early!LengthOk, Early!DistinctOk, Early!RangeOk
  <1> DEFINE n == 2^K
             S == RowOf(K + 1)
             m == K + 1
             z == 0
  <1>3. n \in Nat /\ S = Row /\ m \in Nat /\ z \in Nat /\ 2^0 = 1
    BY <1>1, PowerOfTwoType DEF RowOf, Row
  <1>4. /\ DOMAIN indices = 1 .. n /\ indices \in Seq(Leaf)
        /\ \A p \in 1 .. n : indices[p] \in Leaf
    <2>1. DOMAIN indices = 1 .. n
      BY <1>1, <1>2, LenProperties
    <2>2. \A p \in 1 .. n : indices[p] \in Leaf
      BY <1>2, <2>1 DEF Range
    <2> QED
      BY <1>1, <1>2, <2>1, <2>2, LenProperties
  <1>5. level' \in Seq(S) /\ Len(level') = n
    <2>1. \A p \in 1 .. n : LeafRow(digest, indices[p]) \in S
      BY <1>1, <1>3, <1>4 DEF LeafRow, Key
    <2> HIDE DEF n, S
    <2>2. level' \in [1 .. n -> S]
      BY <1>2, <1>4, <2>1
    <2> QED
      BY <1>3, <2>2
  <1>6. ASSUME NEW p \in 1 .. n
        PROVE  /\ Span(indices, 0, p - 1) = <<indices[p]>>
               /\ Widened(K + 1, LeafRow(digest, indices[p]), 0) = LeafRow(digest, indices[p])
    <2>1. Span(indices, 0, p - 1) = <<indices[p]>>
      BY <1>1, <1>2, <1>4, LeafIsNode
    <2> DEFINE h == LeafRow(digest, indices[p])
    <2>2. h = [s \in 1 .. K + 1 |-> h[s]]
      <3>1. indices[p] \in Leaf
        BY <1>4
      <3>2. h \in Row
        BY <1>1, <3>1 DEF LeafRow, Key
      <3> QED
        BY <3>2 DEF Row
    <2> HIDE DEF h
    <2>3. ASSUME NEW s \in 1 .. K + 1
          PROVE  Widened(K + 1, h, 0)[s] = h[s]
      <3>1. ~(s <= K + 1 - (K + 1)) /\ 0 + (s - (K + 1 - (K + 1))) = s
        BY <1>1
      <3> QED
        BY <3>1 DEF Widened
    <2>4. Widened(K + 1, h, 0) = h
      BY <2>2, <2>3 DEF Widened
    <2> QED
      BY <2>1, <2>4 DEF h
  <1>7. X' = [p \in DOMAIN indices |->
                [h |-> LeafRow(digest, indices[p]), idx |-> <<indices[p]>>]]
    <2> DEFINE rows == level'
    <2>1. X' = SlicedRows(rows, m, indices, 1)
      BY <1>1, EarlyStands
    <2>2. rows \in Seq(S) /\ 1 = 2^z
      BY <1>3, <1>5
    <2> HIDE DEF m, z, rows, S
    <2>3. SlicedRows(rows, m, indices, 1) = TreeRows(rows, m, indices, z)
      BY <1>3, <2>2, SliceIsSpan
    <2>4. X' = TreeRows(rows, m, indices, z)
      BY <2>1, <2>3
    <2> QED
      BY <1>2, <1>4, <1>6, <2>4 DEF TreeRows, m, z, rows
  <1>8. I' = I /\ XC' = XC
    BY <1>1, EarlyStands
  <1>9. EarlyLocals'
    <2>1. stride' = K + 2 - round' /\ a' \in Nat /\ stride' = K + 1
      BY <1>1
    <2>2. span' = 2^(round' - 1)
      BY <1>1, <1>3
    <2>3. level' \in Seq(RowOf(stride')) /\ nrows' = Len(level')
      BY <1>1, <1>5
    <2>4. next' \in Seq(RowOf(stride' - 1))
      BY <1>1
    <2> QED
      BY <1>1, <2>1, <2>2, <2>3, <2>4 DEF EarlyLocals
  <1> QED
    BY <1>1, <1>2, <1>7, <1>8, <1>9 DEF RefScreenAccept

\* The pair under the cursor.
LEMMA EarlyPair ==
  ASSUME verifier = "early", EInv, EarlyLocals, pc = "fold"
  PROVE  /\ Early!Folding <=> AtPair
         /\ Early!Folding =>
              /\ Early!Collides <=> RefCollide
              /\ Early!Ordered <=> RefOrdered
              /\ X[I] = [h |-> Widened(stride, level[a + 1], 0), idx |-> Span(indices, round - 1, a)]
              /\ X[I + 1] = [h   |-> Widened(stride, level[a + 2], 0),
                             idx |-> Span(indices, round - 1, a + 1)]
              /\ a + 1 \in 1 .. nrows /\ a + 2 \in 1 .. nrows /\ Len(XC) \in Nodes(round)
              /\ round \in 1 .. K /\ stride \in 1 .. K + 1
  <1>1. /\ K \in Nat \ {0} /\ round \in 1 .. K + 1 /\ stride = K + 2 - round
        /\ a \in Nat /\ I = a + 1 /\ nrows \in Nat
        /\ Len(X) = nrows /\ Len(XC) = Len(next) /\ Len(next) \in Nat
        /\ \A q \in 1 .. nrows :
             X[q] = [h |-> Widened(stride, level[q], 0), idx |-> Span(indices, round - 1, q - 1)]
    BY EarlyFolding
  <1>2. CommonType /\ Screened /\ RowsAreNodes /\ span = 2^(round - 1)
    BY DEF EInv, Folding, EarlyLocals
  <1>3. Early!Folding <=> AtPair
    BY <1>1 DEF Early!Folding, AtPair
  <1> SUFFICES ASSUME AtPair
               PROVE  /\ Early!Collides <=> RefCollide
                      /\ Early!Ordered <=> RefOrdered
                      /\ X[I] = [h   |-> Widened(stride, level[a + 1], 0),
                                 idx |-> Span(indices, round - 1, a)]
                      /\ X[I + 1] = [h   |-> Widened(stride, level[a + 2], 0),
                                     idx |-> Span(indices, round - 1, a + 1)]
                      /\ a + 1 \in 1 .. nrows /\ a + 2 \in 1 .. nrows /\ Len(XC) \in Nodes(round)
                      /\ round \in 1 .. K /\ stride \in 1 .. K + 1
    BY <1>3
  <1>4. round \in 1 .. K /\ I + 1 <= nrows /\ Len(XC) \in Nodes(round)
    BY <1>1, <1>2, PairNodes DEF Rounds
  <1>5. /\ a + 1 \in 1 .. nrows /\ a + 2 \in 1 .. nrows /\ I + 1 = a + 2
        /\ a + 1 - 1 = a /\ a + 2 - 1 = a + 1
    BY <1>1, <1>4
  <1>6. stride \in 1 .. K + 1 /\ K + 1 - stride = round - 1
    BY <1>1
  <1>7. /\ X[a + 1] = [h |-> Widened(stride, level[a + 1], 0), idx |-> Span(indices, round - 1, a)]
        /\ X[a + 2] = [h   |-> Widened(stride, level[a + 2], 0),
                       idx |-> Span(indices, round - 1, a + 1)]
    <2>1. /\ X[a + 1] = [h   |-> Widened(stride, level[a + 1], 0),
                         idx |-> Span(indices, round - 1, a + 1 - 1)]
          /\ X[a + 2] = [h   |-> Widened(stride, level[a + 2], 0),
                         idx |-> Span(indices, round - 1, a + 2 - 1)]
      BY <1>1, <1>5
    <2> QED
      BY <1>5, <2>1
  <1>8. /\ X[I].h = Widened(stride, level[a + 1], 0) /\ X[I].idx = Span(indices, round - 1, a)
        /\ X[I + 1].h = Widened(stride, level[a + 2], 0)
        /\ X[I + 1].idx = Span(indices, round - 1, a + 1)
    BY <1>1, <1>5, <1>7
  <1>9. \A row : Widened(stride, row, 0)[round] = row[1]
    <2>1. /\ ~(round <= K + 1 - stride) /\ 0 + (round - (K + 1 - stride)) = 1
          /\ round \in 1 .. K + 1
      BY <1>1, <1>4, <1>6
    <2> QED
      BY <2>1 DEF Widened
  <1>10. Early!Collides <=> RefCollide
    BY <1>8, <1>9 DEF Early!Collides, Early!Left, Early!Right, RefCollide
  <1>11. Early!Ordered <=> RefOrdered
    <2> DEFINE lo == a * span
               mid == lo + span
               hi == mid + span
    <2>1. Early!Ordered <=> LexLess(SubSeq(indices, lo + 1, mid), SubSeq(indices, mid + 1, hi))
      BY EarlyPrimitives DEF Early!Ordered, Early!Slice
    <2>2. (a + 1) * span = mid /\ (a + 1 + 1) * span = hi
      <3>1. span \in Nat
        BY <1>1, <1>2, PowerOfTwoType
      <3> QED
        BY <1>1, <3>1
    <2> HIDE DEF lo, mid, hi
    <2>3. /\ Span(indices, round - 1, a) = SubSeq(indices, lo + 1, mid)
          /\ Span(indices, round - 1, a + 1) = SubSeq(indices, mid + 1, hi)
      BY <1>2, <2>2 DEF Span, lo
    <2> QED
      BY <1>8, <2>1, <2>3 DEF RefOrdered
  <1> QED
    BY <1>1, <1>4, <1>5, <1>6, <1>7, <1>10, <1>11

\* The row a fold appends stands for the folded pair.
LEMMA EarlyFolds ==
  ASSUME verifier = "early", verifier' = "early", EInv, EarlyLocals, Early!FoldPair
  PROVE  RefFoldPair /\ EarlyLocals'
  <1> DEFINE m == stride - 1
             f == level[a + 1]
             g == level[a + 2]
             e == Tail(Xor(f, g))
             S == RowOf(m)
             w_1 == Len(next)
             parent == TreeRows(next, m, indices, round)
             rows == next'
             parent_1 == TreeRows(rows, m, indices, round)
  <1>1. /\ pc = "fold" /\ Early!Folding /\ Early!Collides /\ Early!Ordered
        /\ UNCHANGED <<digest, indices, pc, verdict, round, stride, level, nrows, span>>
        /\ a' = a + 2 /\ rows = Append(next, e)
    BY EarlyPrimitives DEF Early!FoldPair, Early!Folding, Early!input, Early!Left, Early!Right
  <1>2. /\ AtPair /\ RefCollide /\ RefOrdered
        /\ X[I] = [h |-> Widened(stride, f, 0), idx |-> Span(indices, round - 1, a)]
        /\ X[I + 1] = [h |-> Widened(stride, g, 0), idx |-> Span(indices, round - 1, a + 1)]
        /\ a + 1 \in 1 .. nrows /\ a + 2 \in 1 .. nrows
        /\ round \in 1 .. K /\ stride \in 1 .. K + 1
    BY <1>1, EarlyPair
  <1>3. /\ K \in Nat \ {0} /\ stride \in Nat /\ m \in Nat /\ a \in Nat /\ I = a + 1
        /\ XC = parent /\ Len(XC) = w_1 /\ w_1 \in Nat
        /\ CommonType /\ Screened /\ RowsAreNodes
        /\ level \in Seq(RowOf(stride)) /\ nrows = Len(level) /\ next \in Seq(S)
        /\ span = 2^(round - 1)
    BY <1>1, EarlyFolding DEF EInv, Folding, EarlyLocals
  <1>4. IsNode(digest, indices, RefFolded, round, w_1)
    BY <1>2, <1>3, PairNodes
  <1>5. f \in RowOf(stride) /\ g \in RowOf(stride)
    BY <1>2, <1>3, ElementOfSeq
  <1>6. /\ e \in S
        /\ \A t \in 1 .. m : e[0 + t] = SymDiff(f[0 + (t + 1)], g[0 + (t + 1)])
    <2> DEFINE y == Xor(f, g)
    <2>1. /\ y \in [1 .. stride -> Segment]
          /\ \A t \in 1 .. stride : y[t] = SymDiff(f[t], g[t])
      BY <1>5 DEF RowOf, Xor, SymDiff, Segment
    <2> HIDE DEF y, f, g
    <2>2. y \in Seq(Segment) /\ Len(y) = stride /\ stride # 0
      BY <1>2, <1>3, <2>1
    <2>3. y # << >>
      BY <2>2
    <2>4. Tail(y) \in Seq(Segment) /\ Len(Tail(y)) = m /\ \A t \in 1 .. m : Tail(y)[t] = y[t + 1]
      BY <2>2, <2>3, HeadTailProperties
    <2>5. \A t \in 1 .. m : t + 1 \in 1 .. stride /\ 0 + t = t /\ 0 + (t + 1) = t + 1
      BY <1>2, <1>3
    <2>6. e \in S
      <3>1. Tail(y) \in [1 .. m -> Segment]
        BY <2>4, LenProperties, ElementOfSeq
      <3> QED
        BY <3>1 DEF RowOf, y
    <2>7. \A t \in 1 .. m : e[t] = SymDiff(f[t + 1], g[t + 1])
      BY <2>1, <2>4, <2>5 DEF y
    <2> HIDE DEF e
    <2> QED
      BY <2>5, <2>6, <2>7
  <1>7. f[0 + 1] = g[0 + 1]
    BY <1>1 DEF Early!Collides, Early!Left, Early!Right
  <1>8. Widened(m, e, 0) = Xor(Widened(stride, f, 0), Widened(stride, g, 0))
    <2> DEFINE z == 0
    <2>1. m \in 0 .. K /\ stride = m + 1 /\ z \in Nat
      BY <1>2, <1>3
    <2> HIDE DEF e, f, g, m, z
    <2>2. FoldsTo(m, e, z, f, z, g, z)
      BY <1>6, <1>7 DEF FoldsTo, z
    <2>3. Widened(m, e, z) = Xor(Widened(stride, f, z), Widened(stride, g, z))
      BY <1>3, <2>1, <2>2, WidenedFold
    <2> QED
      BY <2>3 DEF z
  <1>9. /\ rows \in Seq(S) /\ Len(rows) = w_1 + 1
        /\ \A p \in 1 .. w_1 : rows[p] = next[p]
        /\ rows[w_1 + 1] = e
    <2> HIDE DEF S, e, rows
    <2> QED
      BY <1>1, <1>3, <1>6, AppendProperties
  <1>10. XC' = parent_1 /\ I' = I + 2 /\ X' = X
    <2>1. I' = I + 2 /\ X' = X
      BY <1>1, <1>3, EarlyStands
    <2> DEFINE span_2 == 2 * span
    <2>2. XC' = SlicedRows(rows, m, indices, span_2)
      BY <1>1, EarlyStands
    <2>3. round \in Nat /\ span_2 = 2^round
      <3>1. round - 1 \in Nat /\ (round - 1) + 1 = round /\ round \in Nat
        BY <1>2
      <3> QED
        BY <1>3, <3>1, PowerOfTwoDoubles
    <2> HIDE DEF S, rows, m, span_2
    <2>4. SlicedRows(rows, m, indices, span_2) = TreeRows(rows, m, indices, round)
      BY <1>3, <1>9, <2>3, SliceIsSpan
    <2> QED
      BY <2>1, <2>2, <2>4
  <1>11. XC' = Append(XC, RefFolded)
    <2> HIDE DEF m, S, rows, e
    <2>1. /\ Len(parent) = w_1
          /\ \A q \in 1 .. w_1 : parent[q] = [h |-> Widened(m, next[q], 0), idx |-> Span(indices, round, q - 1)]
      BY <1>3, TreeRowsShape
    <2>2. /\ DOMAIN parent_1 = 1 .. w_1 + 1 /\ Len(parent_1) = w_1 + 1
          /\ \A q \in 1 .. w_1 + 1 :
               parent_1[q] = [h |-> Widened(m, rows[q], 0), idx |-> Span(indices, round, q - 1)]
      BY <1>9, TreeRowsShape
    <2> DEFINE T == {parent_1[p] : p \in 1 .. w_1 + 1}
    <2>3. parent \in Seq(NodeRow)
      BY <1>3 DEF RowsAreNodes
    <2>4. parent_1 \in Seq(T)
      <3>1. parent_1 = [q \in 1 .. w_1 + 1 |-> parent_1[q]]
        BY <2>2 DEF TreeRows
      <3>2. parent_1 \in [1 .. w_1 + 1 -> T]
        BY <3>1
      <3>3. w_1 + 1 \in Nat
        BY <1>3
      <3> HIDE DEF parent_1, T, w_1
      <3> QED
        BY <3>2, <3>3
    <2>5. \A p \in 1 .. w_1 : parent_1[p] = parent[p]
      <3>1. \A p \in 1 .. w_1 : p \in 1 .. w_1 + 1
        BY <1>3
      <3> HIDE DEF parent, parent_1, w_1
      <3> QED
        BY <1>9, <2>1, <2>2, <3>1
    <2>6. parent_1[w_1 + 1] = RefFolded
      <3> DEFINE p == w_1 + 1
      <3>1. p \in 1 .. w_1 + 1 /\ p - 1 = w_1
        BY <1>3
      <3> HIDE DEF p, parent_1, w_1, f, g
      <3>2. parent_1[p] = [h |-> Widened(m, rows[p], 0), idx |-> Span(indices, round, p - 1)]
        BY <2>2, <3>1
      <3>3. rows[p] = e
        BY <1>9 DEF p
      <3>4. RefFolded.h = Xor(X[I].h, X[I + 1].h) /\ RefFolded = [h |-> RefFolded.h, idx |-> RefFolded.idx]
        BY DEF RefFolded
      <3>5. RefFolded.h = Widened(m, e, 0)
        BY <1>2, <1>8, <3>4
      <3>6. RefFolded.idx = Span(indices, round, w_1)
        BY <1>4 DEF IsNode
      <3>7. parent_1[p] = RefFolded
        BY <3>1, <3>2, <3>3, <3>4, <3>5, <3>6
      <3> QED
        BY <3>7 DEF p
    <2> HIDE DEF parent, parent_1, T, w_1
    <2>7. parent_1 = Append(parent, RefFolded)
      BY <2>1, <2>2, <2>3, <2>4, <2>5, <2>6, ExtendIsAppend
    <2> QED
      BY <1>3, <1>10, <2>7
  <1>12. EarlyLocals'
    <2>1. next' \in Seq(RowOf(stride' - 1))
      BY <1>1, <1>9
    <2> HIDE DEF rows, e, f, g
    <2> QED
      BY <1>1, <1>3, <2>1 DEF EarlyLocals
  <1> QED
    BY <1>1, <1>2, <1>10, <1>11, <1>12 DEF RefFoldPair
\* The rows built become the round's, half as many with twice the leaves each.
LEMMA EarlyEnds ==
  ASSUME verifier = "early", verifier' = "early", EInv, EarlyLocals, Early!EndRound
  PROVE  RefEndRound /\ EarlyLocals'
  <1>1. /\ pc = "fold" /\ round <= K /\ a >= nrows
        /\ level' = next /\ next' = << >> /\ stride' = stride - 1 /\ nrows' = nrows \div 2
        /\ span' = span * 2 /\ round' = round + 1 /\ a' = 0
        /\ UNCHANGED <<digest, indices, pc, verdict>>
    BY DEF Early!EndRound, Early!input
  <1>2. /\ K \in Nat \ {0} /\ round \in 1 .. K + 1 /\ stride = K + 2 - round
        /\ stride \in Nat /\ stride - 1 \in Nat /\ a \in Nat /\ I = a + 1
        /\ XC = TreeRows(next, stride - 1, indices, round)
        /\ Len(X) = nrows /\ Len(XC) = Len(next) /\ nrows \in Nat /\ Len(next) \in Nat
    BY <1>1, EarlyFolding
  <1>3. RowsAreNodes /\ span = 2^(round - 1) /\ next \in Seq(RowOf(stride - 1))
    BY <1>1 DEF EInv, Folding, EarlyLocals
  <1>4. a <= nrows /\ 2 * Len(next) = a
    <2>1. I <= Len(X) + 1 /\ 2 * Len(XC) = I - 1
      BY <1>3 DEF RowsAreNodes
    <2>2. a + 1 <= nrows + 1 /\ 2 * Len(next) = a + 1 - 1
      BY <1>2, <2>1
    <2> QED
      BY <1>2, <2>2
  <1>5. nrows' = Len(next) /\ I > Len(X)
    BY <1>1, <1>2, <1>4
  <1>6. span * 2 = 2^round /\ round \in Nat /\ stride' = K + 2 - round' /\ round' - 1 = round
    <2>1. round - 1 \in Nat /\ (round - 1) + 1 = round /\ round \in Nat
      BY <1>2
    <2>2. 2^round = 2 * span /\ span \in Nat
      BY <1>3, <2>1, PowerOfTwoDoubles, PowerOfTwoType
    <2> QED
      BY <1>1, <1>2, <2>1, <2>2
  <1>7. X' = XC /\ XC' = << >> /\ I' = 1
    <2> DEFINE m == stride - 1
               S == RowOf(m)
               leaves == span * 2
    <2>1. X' = SlicedRows(next, m, indices, leaves)
      BY <1>1, EarlyStands
    <2>2. next \in Seq(S) /\ m \in Nat /\ leaves = 2^round /\ XC = TreeRows(next, m, indices, round)
      BY <1>2, <1>3, <1>6
    <2> HIDE DEF S, m, leaves
    <2>3. X' = XC
      BY <1>6, <2>1, <2>2, SliceIsSpan
    <2> QED
      BY <1>1, <2>3, EarlyStands, NoRowsSliced
  <1>8. EarlyLocals'
    <2>1. level' \in Seq(RowOf(stride')) /\ nrows' = Len(level') /\ a' \in Nat
      BY <1>1, <1>3, <1>5
    <2>2. next' \in Seq(RowOf(stride' - 1))
      BY <1>1
    <2>3. span' = 2^(round' - 1)
      BY <1>1, <1>6
    <2> QED
      BY <1>1, <1>6, <2>1, <2>2, <2>3 DEF EarlyLocals
  <1> QED
    BY <1>1, <1>5, <1>7, <1>8 DEF RefEndRound

\* The last segment tells whether the whole root row is zero.
LEMMA EarlyRoot ==
  ASSUME verifier = "early", verifier' = "early", EInv, EarlyLocals, Early!CheckRoot
  PROVE  RefCheckRoot /\ EarlyLocals'
  <1>1. /\ pc = "fold" /\ round = K + 1 /\ round > K /\ nrows = 1 /\ stride = 1
        /\ K \in Nat \ {0} /\ Len(X) = 1
        /\ \A q \in 1 .. nrows :
             X[q] = [h |-> Widened(stride, level[q], 0), idx |-> Span(indices, round - 1, q - 1)]
    <2>1. pc = "fold" /\ round > K /\ nrows = 1
      BY DEF Early!CheckRoot
    <2>2. /\ K \in Nat \ {0} /\ round \in 1 .. K + 1 /\ stride = K + 2 - round /\ Len(X) = nrows
          /\ \A q \in 1 .. nrows :
               X[q] = [h |-> Widened(stride, level[q], 0), idx |-> Span(indices, round - 1, q - 1)]
      BY <2>1, EarlyFolding
    <2>3. round = K + 1 /\ stride = 1
      BY <2>1, <2>2
    <2> QED
      BY <2>1, <2>2, <2>3
  <1>2. X[1].h = Widened(1, level[1], 0)
    <2> DEFINE q == 1
    <2>1. q \in 1 .. nrows
      BY <1>1
    <2> HIDE DEF q
    <2>2. X[q].h = Widened(stride, level[q], 0)
      BY <1>1, <2>1
    <2> QED
      BY <1>1, <2>2 DEF q
  <1>3. IsZero(X[1].h) <=> level[1][1] = {}
    BY <1>1, <1>2, LastSegment
  <1>4. (\A s \in 1 .. stride : level[1][s] = {}) <=> level[1][1] = {}
    <2>1. \A s : s \in 1 .. 1 <=> s = 1
      OBVIOUS
    <2> QED
      BY <1>1, <2>1
  <1>5. CASE level[1][1] = {} /\ Early!Return(<<"Ok", 0>>)
    BY <1>1, <1>3, <1>5, EarlyReturns DEF RefCheckRoot
  <1>6. CASE level[1][1] # {} /\ Early!Return(<<"NonZeroRoot", 0>>)
    BY <1>1, <1>3, <1>6, EarlyReturns DEF RefCheckRoot
  <1> QED
    BY <1>4, <1>5, <1>6 DEF Early!CheckRoot

\* Every step of the early-reject verifier is one of the reference verifier.
LEMMA EarlyStep ==
  ASSUME verifier = "early", verifier' = "early", EInv, EarlyLocals, Early!Next
  PROVE  RefNext /\ EarlyLocals'
  <1>1. CASE Early!ScreenReject
    <2>1. /\ pc = "screen"
          /\ \/ Len(indices) # 2^K /\ Early!Return(<<"WrongLength", 0>>)
             \/ Len(indices) = 2^K /\ ~IsInjective(indices) /\ Early!Return(<<"NotDistinct", 0>>)
             \/ /\ Len(indices) = 2^K /\ IsInjective(indices) /\ ~(Range(indices) \subseteq Leaf)
                /\ Early!Return(<<"IndexOutOfRange", 0>>)
      BY <1>1, EarlyPrimitives
         DEF Early!ScreenReject, Early!LengthOk, Early!DistinctOk, Early!RangeOk
    <2>2. EarlyLocals' /\ RefScreenReject
      BY <2>1, EarlyReturns DEF RefScreenReject
    <2> QED
      BY <2>2 DEF RefNext
  <1>2. CASE Early!ScreenAccept
    BY <1>2, EarlyAccepts DEF RefNext
  <1>3. CASE Early!RejectCollision
    <2>1. pc = "fold" /\ Early!Folding /\ ~Early!Collides /\ Early!Return(<<"CollisionFailed", round>>)
      BY <1>3 DEF Early!RejectCollision, Early!Folding
    <2>2. AtPair /\ ~RefCollide
      BY <2>1, EarlyPair
    <2> QED
      BY <2>1, <2>2, EarlyReturns DEF RefNext, RefRejectCollision
  <1>4. CASE Early!RejectOrdering
    <2>1. /\ pc = "fold" /\ Early!Folding /\ Early!Collides /\ ~Early!Ordered
          /\ Early!Return(<<"OrderingFailed", round>>)
      BY <1>4 DEF Early!RejectOrdering, Early!Folding
    <2>2. AtPair /\ RefCollide /\ ~RefOrdered
      BY <2>1, EarlyPair
    <2> QED
      BY <2>1, <2>2, EarlyReturns DEF RefNext, RefRejectOrdering
  <1>5. CASE Early!FoldPair
    BY <1>5, EarlyFolds DEF RefNext
  <1>6. CASE Early!EndRound
    BY <1>6, EarlyEnds DEF RefNext
  <1>7. CASE Early!CheckRoot
    BY <1>7, EarlyRoot DEF RefNext
  <1> QED
    BY <1>1, <1>2, <1>3, <1>4, <1>5, <1>6, <1>7 DEF Early!Next

-----------------------------------------------------------------------------
(* The seam.                                                               *)

\* The invariant of a call, whichever verifier is called.
IInv == EInv /\ ArenaInv /\ EarlyInv

\* A call starts as one of the reference verifier, and with the invariant.
LEMMA Starts == Init => RefInit /\ IInv
  <1> SUFFICES ASSUME Init
               PROVE  RefInit /\ IInv
    OBVIOUS
  <1>1. RefInit /\ ArenaInv /\ EarlyInv /\ verifier \in {"reference", "arena", "early"}
    BY ReferenceInit, ArenaStarts, EarlyStarts DEF Init, ArenaInv, EarlyInv
  <1>2. CommonType
    BY <1>1, DigestsAssumption, InputsAssumption, KAssumption DEF RefInit, CommonType
  <1>3. EInv
    BY <1>1, <1>2 DEF RefInit, EInv, FreshStart, Folding, Judged
  <1> QED
    BY <1>1, <1>3 DEF IInv

\* A step of a call is one of the reference verifier, and keeps the invariant.
LEMMA Steps ==
  ASSUME IInv, [Next]_vars
  PROVE  IInv' /\ (RefNext \/ RefStutter) /\ verifier' = verifier
  <1>1. CASE Next
    <2>1. verifier' = verifier
      BY <1>1 DEF Next
    <2>2. CASE verifier = "reference" /\ Reference!Next
      <3>1. RefNext
        BY <2>1, <2>2, ReferenceStep
      <3>2. EInv'
        BY <2>1, <3>1, RefKeepsEInv DEF IInv
      <3> QED
        BY <2>1, <2>2, <3>1, <3>2 DEF IInv, ArenaInv, EarlyInv
    <2>3. CASE verifier = "arena" /\ Arena!Next
      <3>1. RefNext /\ ArenaLocals'
        BY <2>1, <2>3, ArenaStep DEF IInv, ArenaInv
      <3>2. EInv'
        BY <2>1, <3>1, RefKeepsEInv DEF IInv
      <3> QED
        BY <2>1, <2>3, <3>1, <3>2 DEF IInv, ArenaInv, EarlyInv
    <2>4. CASE verifier = "early" /\ Early!Next
      <3>1. RefNext /\ EarlyLocals'
        BY <2>1, <2>4, EarlyStep DEF IInv, EarlyInv
      <3>2. EInv'
        BY <2>1, <3>1, RefKeepsEInv DEF IInv
      <3> QED
        BY <2>1, <2>4, <3>1, <3>2 DEF IInv, ArenaInv, EarlyInv
    <2> QED
      BY <1>1, <2>2, <2>3, <2>4 DEF Next
  <1>2. CASE UNCHANGED vars
    <2>1. /\ UNCHANGED <<verifier, digest, indices, pc, round, verdict, i, x, xc>>
          /\ UNCHANGED <<stride, nrows, hashes, idx, r, w, out_hashes, out_idx>>
          /\ UNCHANGED <<level, next, span, a>>
      BY <1>2 DEF vars, common, treeVars, rowVars, flatVars, spanVars
    <2>2. I' = I /\ X' = X /\ XC' = XC
      BY <2>1 DEF I, X, XC, StandsFor, Arena!Unpack, Arena!Cell, Early!Explicit, Early!Slice
    <2>3. RefStutter
      BY <2>1, <2>2 DEF RefStutter, SameTree
    <2>4. EInv'
      BY <2>1, <2>3, RefKeepsEInv DEF IInv
    <2>5. ArenaInv' /\ EarlyInv'
      BY <2>1 DEF IInv, ArenaInv, ArenaLocals, EarlyInv, EarlyLocals
    <2> QED
      BY <2>1, <2>3, <2>4, <2>5 DEF IInv
  <1> QED
    BY <1>1, <1>2

\* The invariant of every call: the rows a verifier keeps, or those it stands
\* for, are the nodes of the tree over the vector submitted, and what has been
\* looked at passed.
THEOREM CallsKeepIInv == Spec => []IInv
  <1>1. Init => IInv
    BY Starts
  <1>2. IInv /\ [Next]_vars => IInv'
    BY Steps
  <1> QED
    BY <1>1, <1>2, PTL DEF Spec

\* The consensus contract of verify/mod.rs: whichever verifier is called, it
\* returns Ok exactly for the solutions.
THEOREM VerifiersDecide == Spec => []OkIffValid
  <1>1. IInv => OkIffValid
    BY EInvImplies DEF IInv
  <1> QED
    BY <1>1, CallsKeepIInv, PTL

\* Whichever error a verifier returns, before hashing or in the fold, it names
\* the first rule the vector breaks, in the order of the early returns all share.
THEOREM ErrorsComeFirst == Spec => []ErrorIsFirst
  <1>1. IInv => ErrorIsFirst
    BY EInvImplies DEF IInv
  <1> QED
    BY <1>1, CallsKeepIInv, PTL

\* Pairs never straddle the end of a round, and every row is the XOR and the
\* concatenation of its span: the unchecked x[i + 1] and the last assert hold.
THEOREM RowsFold == Spec => []FoldShape
  <1>1. IInv => FoldShape
    BY EInvImplies DEF IInv
  <1> QED
    BY <1>1, CallsKeepIInv, PTL

\* The arena verifier never reads a vector it has moved out (mem::take).
THEOREM MovedOutOnce == Spec => []TakenOnce
  <1>1. IInv => TakenOnce
    BY ArenaPrimitives DEF IInv, ArenaInv, ArenaLocals, TakenOnce, Arena!TakenOnce
  <1> QED
    BY <1>1, CallsKeepIInv, PTL

\* The arena and the early-reject verifier are, step for step, the reference
\* verifier, and return what it returns.
THEOREM VerifiersAgree == Spec => SameAsReference
  <1>1. Init => Expected!Init
    BY Starts, ExpectedInit
  <1>2. IInv /\ [Next]_vars => [Expected!Next]_(Expected!vars)
    BY Steps, ExpectedStep
  <1> QED
    BY <1>1, <1>2, CallsKeepIInv, PTL DEF Spec, SameAsReference, Expected!Spec

=============================================================================
