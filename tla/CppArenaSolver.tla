--------------------------- MODULE CppArenaSolver ---------------------------
(***************************************************************************)
(* SolveArena of the C++ twin (cpp/solver.h).  Its buffers are those of    *)
(* ArenaSolver, read here as rows; what differs is the sort of the row     *)
(* ids: std::sort leaves rows with equal segments in an order of the       *)
(* library's choosing.                                                     *)
(***************************************************************************)
EXTENDS Wagner

CONSTANT Digests

VARIABLES digest, pc, round, x, sols

vars == <<digest, pc, round, x, sols>>

-----------------------------------------------------------------------------
\* Rows not among those placed before which no other such row must come.
Least(list, placed) ==
  LET left == DOMAIN list \ Range(placed)
  IN  {p \in left : \A q \in left : ~SegmentLess(list[q].h[1], list[p].h[1])}

\* Every order that is sorted by leading segment: each place takes any of the
\* rows that are least among those left.
SortedOrders(list) ==
  LET orders[n \in 0 .. Len(list)] ==
        IF n = 0 THEN {<< >>}
        ELSE UNION {{Append(placed, p) : p \in Least(list, placed)} : placed \in orders[n - 1]}
  IN  orders[Len(list)]

Init ==
  /\ digest \in Digests
  /\ pc = "generate"
  /\ round = 1
  /\ x = << >>
  /\ sols = << >>

Generate ==
  /\ pc = "generate"
  /\ pc' = "merge"
  /\ x' = LeafRows(digest)
  /\ UNCHANGED <<digest, round, sols>>

MergeRound ==
  /\ pc = "merge"
  /\ round <= K
  /\ x # << >>
  /\ \E order \in SortedOrders(x) : x' = Emitted(x, order)
  /\ round' = round + 1
  /\ UNCHANGED <<digest, pc, sols>>

Collect ==
  /\ pc = "merge"
  /\ round > K \/ x = << >>
  /\ pc' = "done"
  /\ sols' = RootVectors(x)
  /\ UNCHANGED <<digest, round, x>>

Next == Generate \/ MergeRound \/ Collect

Spec == Init /\ [][Next]_vars

=============================================================================
