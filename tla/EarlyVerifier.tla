---------------------------- MODULE EarlyVerifier ----------------------------
(***************************************************************************)
(* verify/early.rs: the fold without index vectors.  A node's vector is    *)
(* implicit, the span of the input it covers, so ordering compares two     *)
(* adjacent slices of the input, located by the number of leaves a node of *)
(* this round spans.                                                       *)
(***************************************************************************)
EXTENDS Wagner

CONSTANTS Digests, Inputs

VARIABLES
  digest, indices, pc, verdict,
  round,
  stride,  \* segments per row this round
  level,   \* rows of this round, each a sequence of stride segments
  next,    \* rows written for the next round
  nrows,
  span,    \* leaves per node at the start of this round
  a        \* left node of the pair looked at next, from 0

vars == <<digest, indices, pc, verdict, round, stride, level, next, nrows, span, a>>

input == <<digest, indices>>
fold  == <<round, stride, level, next, nrows, span, a>>

\* The half-open slice indices[lo..hi].
Slice(lo, hi) == SubSeq(indices, lo + 1, hi)

Init ==
  /\ digest \in Digests
  /\ indices \in Inputs
  /\ pc = "screen"
  /\ verdict = <<"Pending", 0>>
  /\ round = 1
  /\ stride = K + 1
  /\ level = << >>
  /\ next = << >>
  /\ nrows = 2^K
  /\ span = 1
  /\ a = 0

Return(result) ==
  /\ pc' = "done"
  /\ verdict' = result
  /\ UNCHANGED <<input, fold>>

LengthOk   == Len(indices) = 2^K
DistinctOk == IsInjective(indices)
RangeOk    == Range(indices) \subseteq Leaf

ScreenReject ==
  /\ pc = "screen"
  /\ \/ ~LengthOk /\ Return(<<"WrongLength", 0>>)
     \/ LengthOk /\ ~DistinctOk /\ Return(<<"NotDistinct", 0>>)
     \/ LengthOk /\ DistinctOk /\ ~RangeOk /\ Return(<<"IndexOutOfRange", 0>>)

ScreenAccept ==
  /\ pc = "screen"
  /\ LengthOk
  /\ DistinctOk
  /\ RangeOk
  /\ pc' = "fold"
  /\ level' = [p \in DOMAIN indices |-> LeafRow(digest, indices[p])]
  /\ UNCHANGED <<input, verdict, round, stride, next, nrows, span, a>>

-----------------------------------------------------------------------------

Folding == pc = "fold" /\ round <= K /\ a < nrows

Left  == level[a + 1]
Right == level[a + 2]

Collides == Left[1] = Right[1]

\* Slip: the node number taken for its first leaf.
Ordered_Unscaled ==
  LexLess(Slice(a, a + span), Slice(a + span, a + 2 * span))

Ordered ==
  LET lo  == a * span
      mid == lo + span
      hi  == mid + span
  IN  LexLess(Slice(lo, mid), Slice(mid, hi))

RejectCollision ==
  Folding /\ ~Collides /\ Return(<<"CollisionFailed", round>>)

RejectOrdering ==
  Folding /\ Collides /\ ~Ordered /\ Return(<<"OrderingFailed", round>>)

FoldPair ==
  /\ Folding
  /\ Collides
  /\ Ordered
  /\ next' = Append(next, Tail(Xor(Left, Right)))
  /\ a' = a + 2
  /\ UNCHANGED <<input, pc, verdict, round, stride, level, nrows, span>>

EndRound ==
  /\ pc = "fold" /\ round <= K /\ a >= nrows
  /\ level' = next
  /\ next' = << >>
  /\ stride' = stride - 1
  /\ nrows' = nrows \div 2
  /\ span' = span * 2
  /\ round' = round + 1
  /\ a' = 0
  /\ UNCHANGED <<input, pc, verdict>>

CheckRoot ==
  /\ pc = "fold" /\ round > K
  /\ nrows = 1
  /\ LET zero == \A s \in 1 .. stride : level[1][s] = {} IN
     \/ zero /\ Return(<<"Ok", 0>>)
     \/ ~zero /\ Return(<<"NonZeroRoot", 0>>)

Next ==
  \/ ScreenReject
  \/ ScreenAccept
  \/ RejectCollision
  \/ RejectOrdering
  \/ FoldPair
  \/ EndRound
  \/ CheckRoot

Spec == Init /\ [][Next]_vars

-----------------------------------------------------------------------------

\* Rows with the dropped zero segments restored and the implicit index vectors
\* made explicit.
Explicit(rows, width, leaves) ==
  [q \in DOMAIN rows |->
     [h |-> [s \in 1 .. K + 1 |->
               IF s <= K + 1 - width THEN {} ELSE rows[q][s - (K + 1 - width)]],
      idx |-> Slice((q - 1) * leaves, q * leaves)]]

=============================================================================
