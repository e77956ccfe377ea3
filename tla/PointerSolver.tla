---------------------------- MODULE PointerSolver ----------------------------
(***************************************************************************)
(* solve/pointer.rs: a row keeps no index vector, only a pointer: its leaf *)
(* or the positions of its two parents in the previous round's list.       *)
(* Every list stays resident, and vectors are rebuilt by walking pointers, *)
(* for the duplicate check of a merge and for the solutions.               *)
(***************************************************************************)
EXTENDS Wagner

CONSTANT Digests

VARIABLES
  digest,
  pc,       \* "generate", "merge", "push" or "done"
  history,  \* the lists of all rounds, each a sequence of [hash, ptr]
  next,     \* the list under construction
  sols

vars == <<digest, pc, history, next, sols>>

PtrLeaf(leaf) == <<leaf>>
PtrPair(a, b) == <<a, b>>

\* The vectors of the rows of every list, rebuilt bottom up; at each node the
\* smaller child goes left.  reconstruct(history, r, p) is Vectors(h)[r + 1][p].
Vectors(lists) ==
  LET vec[r \in 1 .. Len(lists)] ==
        [p \in DOMAIN lists[r] |->
           LET ptr == lists[r][p].ptr IN
           IF r = 1 THEN ptr
           ELSE LET left  == vec[r - 1][ptr[1]]
                    right == vec[r - 1][ptr[2]]
                IN  IF LexLess(right, left) THEN right \o left ELSE left \o right]
  IN vec

\* The last list with its vectors made explicit, as [h, idx] rows.
Explicit(lists) ==
  LET last == Len(lists) IN
  IF last = 0 THEN << >>
  ELSE LET vec == Vectors(lists)[last] IN
       [p \in DOMAIN lists[last] |-> [h |-> lists[last][p].hash, idx |-> vec[p]]]

-----------------------------------------------------------------------------

Init ==
  /\ digest \in Digests
  /\ pc = "generate"
  /\ history = << >>
  /\ next = << >>
  /\ sols = << >>

Generate ==
  /\ pc = "generate"
  /\ pc' = "merge"
  /\ history' = <<[p \in 1 .. InitSize |->
                     [hash |-> LeafRow(digest, p - 1), ptr |-> PtrLeaf(p - 1)]]>>
  /\ UNCHANGED <<digest, next, sols>>

\* Slip: a pointer to a place in the sorted order instead of the list.
Child_SortedPlace(prev, order, pq) ==
  [hash |-> Tail(Xor(prev[order[pq[1]]].h, prev[order[pq[2]]].h)),
   ptr  |-> PtrPair(pq[1], pq[2])]

\* The row emitted for a pair of places in the sorted order.
Child(prev, order, pq) ==
  [hash |-> Tail(Xor(prev[order[pq[1]]].h, prev[order[pq[2]]].h)),
   ptr  |-> PtrPair(order[pq[1]], order[pq[2]])]

\* Every pair of a run that shares no leaf becomes a pair of row positions.
MergeRound ==
  /\ pc = "merge"
  /\ Len(history) <= K
  /\ pc' = "push"
  /\ LET prev  == Explicit(history)
         order == SortOrder(prev)
         pairs == EmittedPairs(prev, order)
     IN  next' = [m \in DOMAIN pairs |-> Child(prev, order, pairs[m])]
  /\ UNCHANGED <<digest, history, sols>>

Push ==
  /\ pc = "push"
  /\ next # << >>
  /\ pc' = "merge"
  /\ history' = Append(history, next)
  /\ next' = << >>
  /\ UNCHANGED <<digest, sols>>

\* An empty round ends the search with no solution.
ReturnEmpty ==
  /\ pc = "push"
  /\ next = << >>
  /\ pc' = "done"
  /\ UNCHANGED <<digest, history, next, sols>>

Collect ==
  /\ pc = "merge"
  /\ Len(history) = K + 1
  /\ pc' = "done"
  /\ sols' = RootVectors(Explicit(history))
  /\ UNCHANGED <<digest, history, next>>

Next == Generate \/ MergeRound \/ Push \/ ReturnEmpty \/ Collect

Spec == Init /\ [][Next]_vars

-----------------------------------------------------------------------------

\* A list counts as current from the moment it is built.
Lists == IF pc = "push" \/ (pc = "done" /\ Len(history) <= K)
         THEN Append(history, next) ELSE history

\* Pointers never dangle and lists are never rewritten: a pair names two
\* different rows of the previous list that agreed on its leading segment.
PointersSound ==
  \A r \in 1 .. Len(Lists) : \A p \in DOMAIN Lists[r] :
    LET row == Lists[r][p] IN
    IF r = 1 THEN row.ptr = PtrLeaf(p - 1)
    ELSE /\ row.ptr[1] \in DOMAIN Lists[r - 1] /\ row.ptr[2] \in DOMAIN Lists[r - 1]
         /\ row.ptr[1] # row.ptr[2]
         /\ Lists[r - 1][row.ptr[1]].hash[1] = Lists[r - 1][row.ptr[2]].hash[1]

=============================================================================
