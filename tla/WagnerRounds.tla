---------------------------- MODULE WagnerRounds ----------------------------
(***************************************************************************)
(* What every solver backend promises about its working list, whatever its *)
(* memory layout and whatever it drops: after each round the list holds    *)
(* only merges of two rows of the previous list, and only rows that are    *)
(* zero and free of repeated leaves are returned.  The sequence a backend  *)
(* keeps is abstracted to the set of its rows.                             *)
(***************************************************************************)
EXTENDS Wagner

CONSTANT Digests  \* the hash functions considered

ASSUME DigestsAssumption == Digests \subseteq [Key -> Row]

VARIABLES
  digest,  \* the instance
  pc,      \* "generate", "merge" or "done"
  round,   \* rounds completed, plus one
  rows,    \* the working list
  found    \* the vectors returned

vars == <<digest, pc, round, rows, found>>

LeafRowOf(leaf) == [h |-> LeafRow(digest, leaf), idx |-> <<leaf>>]

Merges(list) ==
  {Merge(p[1], p[2]) : p \in {q \in list \X list : Mergeable(q[1], q[2])}}

\* A row is returned when what is left of it is zero and no leaf repeats.
IsRoot(row) == IsZero(row.h) /\ IsInjective(row.idx)

Init ==
  /\ digest \in Digests
  /\ pc = "generate"
  /\ round = 1
  /\ rows = {}
  /\ found = {}

Generate ==
  /\ pc = "generate"
  /\ pc' = "merge"
  /\ rows' = {LeafRowOf(leaf) : leaf \in Leaf}
  /\ UNCHANGED <<digest, round, found>>

MergeRound ==
  /\ pc = "merge"
  /\ round <= K
  /\ rows # {}
  /\ rows' \in SUBSET Merges(rows)
  /\ round' = round + 1
  /\ UNCHANGED <<digest, pc, found>>

Collect ==
  /\ pc = "merge"
  /\ round > K \/ rows = {}
  /\ pc' = "done"
  /\ found' = {row.idx : row \in {q \in rows : IsRoot(q)}}
  /\ UNCHANGED <<digest, round, rows>>

Next == Generate \/ MergeRound \/ Collect

Spec == Init /\ [][Next]_vars

-----------------------------------------------------------------------------

TypeOK ==
  /\ digest \in [Key -> Row]
  /\ pc \in {"generate", "merge", "done"}
  /\ round \in 1 .. K + 1
  /\ rows \subseteq [h : [1 .. K + 2 - round -> Segment], idx : Seq(Leaf)]
  /\ pc = "generate" => round = 1

\* The leading segments that have collided cancel, and what is left of a row is
\* the XOR of the rows of its leaves: no backend may lose or alias a leaf, or
\* drop a segment that did not collide.
RowsAreXors ==
  \A row \in rows :
    /\ Len(row.idx) = 2^(round - 1)
    /\ IsInjective(row.idx)
    /\ \A s \in 1 .. round - 1 : XorOfLeaves(digest, Range(row.idx), s) = {}
    /\ \A s \in DOMAIN row.h :
         row.h[s] = XorOfLeaves(digest, Range(row.idx), s + (round - 1))

\* Whatever a backend returns satisfies the whole solution rule, collisions and
\* canonical order at every node included, so every verifier accepts it.
FoundValid == \A v \in found : Valid(digest, v)

=============================================================================
