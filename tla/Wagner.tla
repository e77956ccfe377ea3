------------------------------- MODULE Wagner -------------------------------
(***************************************************************************)
(* The data of Requihash: leaves, hash rows, index vectors, the merge of   *)
(* two rows and of a list of them, and what it means for an index vector   *)
(* to be a solution.                                                       *)
(*                                                                         *)
(* A row is a sequence of segments of CollisionBits bits each.  A segment  *)
(* is the set of its one-bits, so XOR is symmetric difference and the zero *)
(* segment is {}.  Byte packing of a segment is left to the codec modules. *)
(***************************************************************************)
EXTENDS Naturals, Sequences, FiniteSets, FiniteSetsExt, Functions

CONSTANTS
  K,             \* rounds of the generalised birthday search (Params.k)
  CollisionBits  \* bits per segment (Params.collision_bit_length)

ASSUME KAssumption == K \in Nat \ {0}
ASSUME BitsAssumption == CollisionBits \in Nat \ {0}

-----------------------------------------------------------------------------
(* Rows and segments.                                                      *)

Bit     == 0 .. CollisionBits - 1
Segment == SUBSET Bit
Rounds  == 1 .. K
Row     == [1 .. K + 1 -> Segment]

\* Byte-wise XOR of two equally long rows.
Xor(g, h) == [s \in DOMAIN g |-> SymDiff(g[s], h[s])]

IsZero(h) == \A s \in DOMAIN h : h[s] = {}

\* Big-endian order of two segments: the highest bit they differ in decides.
SegmentLess(s, t) == \E m \in t \ s : \A b \in SymDiff(s, t) : b <= m

-----------------------------------------------------------------------------
(* Leaves.                                                                 *)

InitSize == 2 ^ (CollisionBits + 1)
Leaf     == 0 .. InitSize - 1

\* The regularity binding: a leaf is hashed as (list class, counter).
LeafKey(leaf) == <<leaf % K, leaf \div K>>
Key           == {LeafKey(leaf) : leaf \in Leaf}

\* BLAKE2b is any function from keys to rows.
LeafRow(digest, leaf) == digest[LeafKey(leaf)]

-----------------------------------------------------------------------------
(* Index vectors.                                                          *)

\* Lexicographic order of Rust slices and C++ vectors.
LexLess(v, w) ==
  \/ \E p \in DOMAIN v \cap DOMAIN w :
       /\ v[p] < w[p]
       /\ \A q \in 1 .. p - 1 : v[q] = w[q]
  \/ Len(v) < Len(w) /\ \A p \in DOMAIN v : v[p] = w[p]

SlicesDistinct(v, w) == Range(v) \cap Range(w) = {}

\* Slip: the larger vector is on the left.
Canonical_LargerLeft(v, w) == IF LexLess(v, w) THEN w \o v ELSE v \o w

\* The canonical concatenation: the smaller vector is the left child.
Canonical(v, w) == IF LexLess(v, w) THEN v \o w ELSE w \o v

\* Slip: the leading segment is kept.
Merge_KeepsLead(a, b) == [h |-> Xor(a.h, b.h), idx |-> Canonical(a.idx, b.idx)]

\* Rows a and b merged: the collided leading segment is dropped.
Merge(a, b) ==
  [h |-> Tail(Xor(a.h, b.h)), idx |-> Canonical(a.idx, b.idx)]

\* Slip: any two rows of a bucket are merged.
Mergeable_Uncompared(a, b) == SlicesDistinct(a.idx, b.idx)

\* Two rows may merge when they agree on the leading segment and share no leaf.
Mergeable(a, b) == a.h[1] = b.h[1] /\ SlicesDistinct(a.idx, b.idx)

-----------------------------------------------------------------------------
(* One round of the merge on a list of [h, idx] rows, given the order in   *)
(* which the backend scans it, and the selection of solutions at the end.  *)

\* The elements of the sequence s that are in T, in the order they have in s.
Kept(s, T) ==
  LET at == {m \in DOMAIN s : s[m] \in T}
  IN  << >> \o [p \in 1 .. Cardinality(at) |->
                  s[CHOOSE m \in at : Cardinality(at \cap (1 .. m)) = p]]

\* All pairs of positions of a list of n rows, row by row.
PairGrid(n) == [m \in 1 .. n * n |-> <<((m - 1) \div n) + 1, ((m - 1) % n) + 1>>]

\* Positions sorted by key; ties keep their order.  (<< >> \o f is f, built once.)
StableOrder(keys) ==
  LET place == << >> \o
        [p \in DOMAIN keys |-> Cardinality({q \in DOMAIN keys :
           SegmentLess(keys[q], keys[p]) \/ (keys[q] = keys[p] /\ q <= p)})]
  IN  << >> \o [m \in DOMAIN keys |-> CHOOSE p \in DOMAIN keys : place[p] = m]

\* Positions of the list sorted by leading segment.
SortOrder(list) == StableOrder([p \in DOMAIN list |-> list[p].h[1]])

\* The scan i, j finds the maximal runs of equal leading segments: p and q are
\* in one run when no position between them differs.
SameRun(list, order, p, q) ==
  \A t \in p .. q : list[order[t]].h[1] = list[order[p]].h[1]

\* Slips: the last row of the list lost; both orders of a pair; no check for a
\* shared leaf.
Emits_LastLost(list, order, p, q) ==
  /\ p < q
  /\ q < Len(order)
  /\ SameRun(list, order, p, q)
  /\ SlicesDistinct(list[order[p]].idx, list[order[q]].idx)

Emits_BothOrders(list, order, p, q) ==
  /\ p # q
  /\ SameRun(list, order, Min({p, q}), Max({p, q}))
  /\ SlicesDistinct(list[order[p]].idx, list[order[q]].idx)

Emits_Sharing(list, order, p, q) == p < q /\ SameRun(list, order, p, q)

\* The two inner loops emit the pairs of a run that share no leaf.
Emits(list, order, p, q) ==
  /\ p < q
  /\ SameRun(list, order, p, q)
  /\ SlicesDistinct(list[order[p]].idx, list[order[q]].idx)

EmittedPairs(list, order) ==
  Kept(PairGrid(Len(order)),
       {pq \in (DOMAIN order) \X (DOMAIN order) : Emits(list, order, pq[1], pq[2])})

Emitted(list, order) ==
  LET pairs == EmittedPairs(list, order)
  IN  [m \in DOMAIN pairs |->
         Merge(list[order[pairs[m][1]]], list[order[pairs[m][2]]])]

\* Zero rows without a repeated index, in list order.
RootVectors(list) ==
  LET roots == Kept([p \in DOMAIN list |-> p],
        {p \in DOMAIN list : IsZero(list[p].h) /\ IsInjective(list[p].idx)})
  IN  [m \in DOMAIN roots |-> list[roots[m]].idx]

\* The initial list: one row per leaf, in leaf order.
LeafRows(digest) ==
  [p \in 1 .. InitSize |-> [h |-> LeafRow(digest, p - 1), idx |-> <<p - 1>>]]

-----------------------------------------------------------------------------
(* Solutions, stated on the leaves alone and without reference to how any  *)
(* solver or verifier folds them.                                          *)

\* Segment s of the XOR of the rows of the leaves in S: the parity of each bit.
XorOfLeaves(digest, S, s) ==
  {b \in Bit : Cardinality({i \in S : b \in LeafRow(digest, i)[s]}) % 2 = 1}

\* The j-th node (from 0) of height r spans 2^r consecutive indices.
Span(v, r, j) == SubSeq(v, j * 2^r + 1, (j + 1) * 2^r)

\* At round r the children of a node agree on segment r and are in order.
NodeCollides(digest, v, r, j) ==
  XorOfLeaves(digest, Range(Span(v, r - 1, 2 * j)), r)
    = XorOfLeaves(digest, Range(Span(v, r - 1, 2 * j + 1)), r)

NodeOrdered(v, r, j) ==
  LexLess(Span(v, r - 1, 2 * j), Span(v, r - 1, 2 * j + 1))

Nodes(r) == 0 .. 2^(K - r) - 1

\* The rule a solution obeys: 2^K distinct leaves, every node collides and is
\* ordered, and the whole XORs to zero.
Valid(digest, v) ==
  /\ Len(v) = 2^K
  /\ Range(v) \subseteq Leaf
  /\ IsInjective(v)
  /\ \A r \in Rounds : \A j \in Nodes(r) :
       NodeCollides(digest, v, r, j) /\ NodeOrdered(v, r, j)
  /\ \A s \in 1 .. K + 1 : XorOfLeaves(digest, Range(v), s) = {}

\* The vectors in canonical order, whatever their rows.
CanonicalVectors ==
  {v \in [1 .. 2^K -> Leaf] :
     IsInjective(v) /\ \A r \in Rounds : \A j \in Nodes(r) : NodeOrdered(v, r, j)}

\* All solutions of an instance.
Solutions(digest) == {v \in CanonicalVectors : Valid(digest, v)}

=============================================================================
