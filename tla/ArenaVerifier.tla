---------------------------- MODULE ArenaVerifier ----------------------------
(***************************************************************************)
(* verify/arena.rs: the same checks over one flat buffer whose rows shrink *)
(* by a segment per round, with index vectors moved (mem::take), not       *)
(* copied, into the row that absorbs them.  The buffer is a sequence of    *)
(* segments; row r (from 0) of a round holds segments r*stride + 1 to      *)
(* (r + 1)*stride.                                                         *)
(***************************************************************************)
EXTENDS Wagner

CONSTANTS Digests, Inputs

VARIABLES
  digest, indices, pc, verdict,
  round,
  stride,      \* segments per row this round
  hashes,      \* flat rows of this round
  idx,         \* index vector of each row; << >> once taken
  nrows,
  r,           \* left row of the pair looked at next, from 0
  w,           \* rows written for the next round
  out_hashes,
  out_idx

vars == <<digest, indices, pc, verdict, round, stride, hashes, idx, nrows,
          r, w, out_hashes, out_idx>>

input == <<digest, indices>>
fold  == <<round, stride, hashes, idx, nrows, r, w, out_hashes, out_idx>>

\* Segment s (from 1) of row q in a buffer of rows of the given stride.
Cell(buffer, width, q, s) == buffer[q * width + s]

\* A zeroed output buffer for half the rows, one segment narrower.
Blank(rows, width) == [c \in 1 .. (rows \div 2) * (width - 1) |-> {}]

Init ==
  /\ digest \in Digests
  /\ indices \in Inputs
  /\ pc = "screen"
  /\ verdict = <<"Pending", 0>>
  /\ round = 1
  /\ stride = K + 1
  /\ hashes = << >>
  /\ idx = << >>
  /\ nrows = 0
  /\ r = 0
  /\ w = 0
  /\ out_hashes = << >>
  /\ out_idx = << >>

Return(result) ==
  /\ pc' = "done"
  /\ verdict' = result
  /\ UNCHANGED <<input, fold>>

LengthOk   == Len(indices) = 2^K
DistinctOk == IsInjective(indices)
RangeOk    == Range(indices) \subseteq Leaf

ScreenReject ==
  /\ pc = "screen"
  /\ \/ ~LengthOk /\ Return(<<"WrongLength", 0>>)
     \/ LengthOk /\ ~DistinctOk /\ Return(<<"NotDistinct", 0>>)
     \/ LengthOk /\ DistinctOk /\ ~RangeOk /\ Return(<<"IndexOutOfRange", 0>>)

ScreenAccept ==
  /\ pc = "screen"
  /\ LengthOk
  /\ DistinctOk
  /\ RangeOk
  /\ pc' = "fold"
  /\ hashes' = [c \in 1 .. Len(indices) * stride |->
                  LeafRow(digest, indices[(c - 1) \div stride + 1])[((c - 1) % stride) + 1]]
  /\ idx' = [p \in DOMAIN indices |-> <<indices[p]>>]
  /\ nrows' = Len(indices)
  /\ out_hashes' = Blank(Len(indices), stride)
  /\ UNCHANGED <<input, verdict, round, stride, r, w, out_idx>>

-----------------------------------------------------------------------------

Folding == pc = "fold" /\ round <= K /\ r < nrows

Collides == Cell(hashes, stride, r, 1) = Cell(hashes, stride, r + 1, 1)
Ordered  == LexLess(idx[r + 1], idx[r + 2])

RejectCollision ==
  Folding /\ ~Collides /\ Return(<<"CollisionFailed", round>>)

RejectOrdering ==
  Folding /\ Collides /\ ~Ordered /\ Return(<<"OrderingFailed", round>>)

\* Slip: the right vector is forgotten.
Absorbed_LeftOnly  == idx[r + 1]

\* Segment s of the parent row, and the vector of the left row extended by the
\* one taken from the right row.
FoldedCell(s) == SymDiff(Cell(hashes, stride, r, s + 1), Cell(hashes, stride, r + 1, s + 1))
Absorbed      == idx[r + 1] \o idx[r + 2]

FoldPair ==
  /\ Folding
  /\ Collides
  /\ Ordered
  /\ out_hashes' = [c \in DOMAIN out_hashes |->
       LET t == c - w * (stride - 1) IN
       IF t \in 1 .. stride - 1 THEN FoldedCell(t) ELSE out_hashes[c]]
  /\ out_idx' = Append(out_idx, Absorbed)
  /\ idx' = [idx EXCEPT ![r + 1] = << >>, ![r + 2] = << >>]
  /\ r' = r + 2
  /\ w' = w + 1
  /\ UNCHANGED <<input, pc, verdict, round, stride, hashes, nrows>>

EndRound ==
  /\ pc = "fold" /\ round <= K /\ r >= nrows
  /\ hashes' = out_hashes
  /\ idx' = out_idx
  /\ stride' = stride - 1
  /\ nrows' = w
  /\ round' = round + 1
  /\ r' = 0
  /\ w' = 0
  /\ out_hashes' = IF round < K THEN Blank(w, stride - 1) ELSE << >>
  /\ out_idx' = << >>
  /\ UNCHANGED <<input, pc, verdict>>

\* Only the surviving last segment is left to inspect.
CheckRoot ==
  /\ pc = "fold" /\ round > K
  /\ nrows = 1
  /\ LET zero == \A s \in 1 .. stride : Cell(hashes, stride, 0, s) = {} IN
     \/ zero /\ Return(<<"Ok", 0>>)
     \/ ~zero /\ Return(<<"NonZeroRoot", 0>>)

Next ==
  \/ ScreenReject
  \/ ScreenAccept
  \/ RejectCollision
  \/ RejectOrdering
  \/ FoldPair
  \/ EndRound
  \/ CheckRoot

Spec == Init /\ [][Next]_vars

-----------------------------------------------------------------------------
(* The flat buffer stands for the reference verifier's rows with the       *)
(* segments that have collided, and therefore are zero, put back in front. *)

\* The n rows of a flat buffer, dropped zero segments restored.
Unpack(buffer, width, n, v, height) ==
  [q \in 1 .. n |->
     [h |-> [s \in 1 .. K + 1 |->
               IF s <= K + 1 - width THEN {}
               ELSE Cell(buffer, width, q - 1, s - (K + 1 - width))],
      idx |-> Span(v, height, q - 1)]]

\* A moved-out index vector is never read again: what the fold has yet to look
\* at is whole, what it has absorbed is empty, and the output holds the spans.
TakenOnce ==
  pc = "fold" =>
    /\ \A q \in 1 .. nrows :
         idx[q] = IF q <= r THEN << >> ELSE Span(indices, round - 1, q - 1)
    /\ \A q \in 1 .. w : out_idx[q] = Span(indices, round, q - 1)

=============================================================================
