------------------------------ MODULE Verifier ------------------------------
(***************************************************************************)
(* The reference verifier, Requihash::is_valid_solution: refuse malformed  *)
(* vectors, then fold the 2^K leaf rows pair by pair for K rounds on       *)
(* full-width rows with a moving offset, then look at the root.            *)
(***************************************************************************)
EXTENDS Wagner

CONSTANTS
  Digests,  \* the hash functions considered
  Inputs    \* the index vectors submitted

VARIABLES
  digest,   \* the instance: BLAKE2b personalised, prefixed and expanded
  indices,  \* the vector under verification
  pc,       \* "screen", "fold" or "done"
  round,    \* current round of the fold
  i,        \* left row of the pair looked at next
  x,        \* rows of this round, [h, idx]
  xc,       \* rows built for the next round
  verdict   \* <<name, round>>: Ok(()) or the Error returned

vars == <<digest, indices, pc, round, i, x, xc, verdict>>

Pending == <<"Pending", 0>>
Ok      == <<"Ok", 0>>

Init ==
  /\ digest \in Digests
  /\ indices \in Inputs
  /\ pc = "screen"
  /\ round = 1
  /\ i = 1
  /\ x = << >>
  /\ xc = << >>
  /\ verdict = Pending

\* Return: the fold's locals are gone.
Return(result) ==
  /\ pc' = "done"
  /\ verdict' = result
  /\ UNCHANGED <<digest, indices, round, i, x, xc>>

-----------------------------------------------------------------------------
(* The checks before any hashing, in the order of the code.                *)

LengthOk   == Len(indices) = 2^K
DistinctOk == IsInjective(indices)
RangeOk    == Range(indices) \subseteq Leaf

\* Slip: the range is looked at before the repetitions.
ScreenReject_RangeFirst ==
  /\ pc = "screen"
  /\ \/ ~LengthOk /\ Return(<<"WrongLength", 0>>)
     \/ LengthOk /\ ~RangeOk /\ Return(<<"IndexOutOfRange", 0>>)
     \/ LengthOk /\ RangeOk /\ ~DistinctOk /\ Return(<<"NotDistinct", 0>>)

ScreenReject ==
  /\ pc = "screen"
  /\ \/ ~LengthOk /\ Return(<<"WrongLength", 0>>)
     \/ LengthOk /\ ~DistinctOk /\ Return(<<"NotDistinct", 0>>)
     \/ LengthOk /\ DistinctOk /\ ~RangeOk /\ Return(<<"IndexOutOfRange", 0>>)

ScreenAccept ==
  /\ pc = "screen"
  /\ LengthOk
  /\ DistinctOk
  /\ RangeOk
  /\ pc' = "fold"
  /\ x' = [p \in DOMAIN indices |->
             [h |-> LeafRow(digest, indices[p]), idx |-> <<indices[p]>>]]
  /\ UNCHANGED <<digest, indices, round, i, xc, verdict>>

-----------------------------------------------------------------------------
(* The fold.                                                               *)

\* Slips: the offset never moves; the right child goes left.
Collides_FixedOffset(a, b) == a.h[1] = b.h[1]
Folded_Swapped(a, b) == [h |-> Xor(a.h, b.h), idx |-> b.idx \o a.idx]

Collides(a, b) == a.h[round] = b.h[round]
Ordered(a, b)  == LexLess(a.idx, b.idx)
Folded(a, b)   == [h |-> Xor(a.h, b.h), idx |-> a.idx \o b.idx]

RejectCollision ==
  /\ pc = "fold" /\ round <= K /\ i <= Len(x)
  /\ ~Collides(x[i], x[i + 1])
  /\ Return(<<"CollisionFailed", round>>)

RejectOrdering ==
  /\ pc = "fold" /\ round <= K /\ i <= Len(x)
  /\ Collides(x[i], x[i + 1])
  /\ ~Ordered(x[i], x[i + 1])
  /\ Return(<<"OrderingFailed", round>>)

FoldPair ==
  /\ pc = "fold" /\ round <= K /\ i <= Len(x)
  /\ Collides(x[i], x[i + 1])
  /\ Ordered(x[i], x[i + 1])
  /\ xc' = Append(xc, Folded(x[i], x[i + 1]))
  /\ i' = i + 2
  /\ UNCHANGED <<digest, indices, pc, round, x, verdict>>

\* Slip: the round ends one pair too late.
EndRound_Late ==
  /\ pc = "fold" /\ round <= K /\ i > Len(x) + 1
  /\ x' = xc
  /\ xc' = << >>
  /\ i' = 1
  /\ round' = round + 1
  /\ UNCHANGED <<digest, indices, pc, verdict>>

EndRound ==
  /\ pc = "fold" /\ round <= K /\ i > Len(x)
  /\ x' = xc
  /\ xc' = << >>
  /\ i' = 1
  /\ round' = round + 1
  /\ UNCHANGED <<digest, indices, pc, verdict>>

RootZero(row) == IsZero(row.h)

\* The assert: the fold leaves exactly one row.
CheckRoot ==
  /\ pc = "fold" /\ round > K
  /\ Len(x) = 1
  /\ \/ RootZero(x[1]) /\ Return(Ok)
     \/ ~RootZero(x[1]) /\ Return(<<"NonZeroRoot", 0>>)

Next ==
  \/ ScreenReject
  \/ ScreenAccept
  \/ RejectCollision
  \/ RejectOrdering
  \/ FoldPair
  \/ EndRound
  \/ CheckRoot

Spec == Init /\ [][Next]_vars

-----------------------------------------------------------------------------
(* Properties.                                                             *)

\* Consensus contract of verify/mod.rs: a call returns Ok exactly for the
\* solutions, where a solution is stated on the leaves without any fold.
OkIffValid ==
  pc = "done" => (verdict = Ok <=> Valid(digest, indices))

NodePasses(r, j) == NodeCollides(digest, indices, r, j) /\ NodeOrdered(indices, r, j)

\* The nodes looked at before node j of round r: those of earlier rounds, and
\* those left of it.
PassedBefore(r, j) ==
  \A e \in Rounds : \A q \in Nodes(e) : e < r \/ (e = r /\ q < j) => NodePasses(e, q)

\* The rule that error names is broken, and every rule looked at before it holds.
FirstBroken(error) ==
  \/ error = <<"WrongLength", 0>> /\ ~LengthOk
  \/ error = <<"NotDistinct", 0>> /\ LengthOk /\ ~DistinctOk
  \/ error = <<"IndexOutOfRange", 0>> /\ LengthOk /\ DistinctOk /\ ~RangeOk
  \/ /\ LengthOk /\ DistinctOk /\ RangeOk
     /\ \/ \E r \in Rounds : \E j \in Nodes(r) :
             /\ PassedBefore(r, j)
             /\ \/ error = <<"CollisionFailed", r>> /\ ~NodeCollides(digest, indices, r, j)
                \/ /\ error = <<"OrderingFailed", r>>
                   /\ NodeCollides(digest, indices, r, j) /\ ~NodeOrdered(indices, r, j)
        \/ /\ error = <<"NonZeroRoot", 0>>
           /\ PassedBefore(K + 1, 0)
           /\ XorOfLeaves(digest, Range(indices), K + 1) # {}

\* Whichever error is returned names the first rule the vector breaks, in the
\* order length, distinctness, range, then round by round and pair by pair
\* collision before ordering, and the root last: the order of
\* is_valid_solution's early returns, which all verifiers share.
ErrorIsFirst == pc = "done" => verdict = Ok \/ FirstBroken(verdict)

\* What makes the code's unchecked x[i + 1] and its final assert safe: every
\* round starts with 2^(K - round + 1) rows, so pairs never straddle the end,
\* and row j of a round is the XOR and the concatenation of its span.
FoldShape ==
  pc = "fold" =>
    /\ Len(x) = 2^(K - round + 1)
    /\ i % 2 = 1 /\ 2 * Len(xc) = i - 1
    /\ \A j \in 1 .. Len(x) :
         /\ x[j].idx = Span(indices, round - 1, j - 1)
         /\ \A s \in 1 .. K + 1 :
              x[j].h[s] = XorOfLeaves(digest, Range(x[j].idx), s)

=============================================================================
