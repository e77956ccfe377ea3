------------------------------- MODULE Solver -------------------------------
(***************************************************************************)
(* Requihash::solve_reference: generate one row per leaf, then K rounds of *)
(* stable sort on the leading segment, pair every two rows of a run of     *)
(* equal segments, and return the zero rows.  The list is a sequence: its  *)
(* order decides the order of the next list and of the solutions.          *)
(***************************************************************************)
EXTENDS Wagner

CONSTANT Digests

VARIABLES digest, pc, round, x, sols

vars == <<digest, pc, round, x, sols>>

-----------------------------------------------------------------------------

Init ==
  /\ digest \in Digests
  /\ pc = "generate"
  /\ round = 1
  /\ x = << >>
  /\ sols = << >>

Generate ==
  /\ pc = "generate"
  /\ pc' = "merge"
  /\ x' = LeafRows(digest)
  /\ UNCHANGED <<digest, round, sols>>

MergeRound ==
  /\ pc = "merge"
  /\ round <= K
  /\ x # << >>
  /\ x' = Emitted(x, SortOrder(x))
  /\ round' = round + 1
  /\ UNCHANGED <<digest, pc, sols>>

\* The list ran empty, or all rounds are done.
Collect ==
  /\ pc = "merge"
  /\ round > K \/ x = << >>
  /\ pc' = "done"
  /\ sols' = RootVectors(x)
  /\ UNCHANGED <<digest, round, x>>

Next == Generate \/ MergeRound \/ Collect

Spec == Init /\ [][Next]_vars

-----------------------------------------------------------------------------

=============================================================================
