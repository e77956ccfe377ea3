---------------------------- MODULE BucketSolver ----------------------------
(***************************************************************************)
(* solve/bucket.rs: instead of sorting on the whole leading segment, rows  *)
(* are scattered by a counting sort on its leading bytes, two at most, and *)
(* each bucket is scanned for runs of rows equal on the whole segment.     *)
(***************************************************************************)
EXTENDS Wagner

CONSTANTS
  Digests,
  BucketBits  \* the bits of a segment that lie in its leading two bytes

VARIABLES digest, pc, round, x, sols

vars == <<digest, pc, round, x, sols>>

Bucket(row) == row.h[1] \cap BucketBits

\* Slip: the scatter goes through the rows from the last to the first.
BucketOrder_Backwards(list) ==
  LET n     == Len(list)
      order == StableOrder([p \in DOMAIN list |-> Bucket(list[n + 1 - p])])
  IN  [slot \in DOMAIN order |-> n + 1 - order[slot]]

\* The scatter puts a row after the rows of smaller buckets and the earlier rows
\* of its own.
BucketOrder(list) == StableOrder([p \in DOMAIN list |-> Bucket(list[p])])

Init ==
  /\ digest \in Digests
  /\ pc = "generate"
  /\ round = 1
  /\ x = << >>
  /\ sols = << >>

Generate ==
  /\ pc = "generate"
  /\ pc' = "merge"
  /\ x' = LeafRows(digest)
  /\ UNCHANGED <<digest, round, sols>>

MergeRound ==
  /\ pc = "merge"
  /\ round <= K
  /\ x # << >>
  /\ x' = Emitted(x, BucketOrder(x))
  /\ round' = round + 1
  /\ UNCHANGED <<digest, pc, sols>>

Collect ==
  /\ pc = "merge"
  /\ round > K \/ x = << >>
  /\ pc' = "done"
  /\ sols' = RootVectors(x)
  /\ UNCHANGED <<digest, round, x>>

Next == Generate \/ MergeRound \/ Collect

Spec == Init /\ [][Next]_vars

=============================================================================
