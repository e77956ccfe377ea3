--------------------------- MODULE Backends_proofs ---------------------------
(***************************************************************************)
(* Whichever backend is called, its steps are steps on the list it stands  *)
(* for, scanned in some order.  Those steps keep the list good, complete   *)
(* if equal segments are kept together, and leave the solutions at the     *)
(* end; so every backend keeps the promise of WagnerRounds, returns the    *)
(* solutions and nothing twice, and those written in Rust do what the      *)
(* reference solver does.                                                  *)
(***************************************************************************)
EXTENDS Backends, Wagner_proofs

-----------------------------------------------------------------------------
(* The backends share the operators on lists.                              *)

\* The reference solver's.
LEMMA ReferenceOperators ==
  /\ \A list, order : Reference!Emitted(list, order) = Emitted(list, order)
  /\ \A list : Reference!SortOrder(list) = SortOrder(list)
  /\ \A list : Reference!RootVectors(list) = RootVectors(list)
  /\ \A d : Reference!LeafRows(d) = LeafRows(d)
  <1>1. ASSUME NEW list, NEW order
        PROVE  Reference!Emitted(list, order) = Emitted(list, order)
    BY DEF Reference!Emitted, Emitted, Reference!EmittedPairs, EmittedPairs,
           Reference!PairGrid, PairGrid, Reference!Kept, Kept,
           Reference!Cardinality, Cardinality, Reference!Emits, Emits,
           Reference!SameRun, SameRun, Reference!SlicesDistinct, SlicesDistinct,
           Reference!Range, Range, Reference!Merge, Merge, Reference!Xor, Xor,
           Reference!SymDiff, SymDiff, Reference!Canonical, Canonical,
           Reference!LexLess, LexLess
  <1>2. ASSUME NEW list
        PROVE  Reference!SortOrder(list) = SortOrder(list)
    BY DEF Reference!SortOrder, SortOrder, Reference!StableOrder, StableOrder,
           Reference!Cardinality, Cardinality, Reference!SegmentLess, SegmentLess,
           Reference!SymDiff, SymDiff
  <1>3. ASSUME NEW list
        PROVE  Reference!RootVectors(list) = RootVectors(list)
    BY DEF Reference!RootVectors, RootVectors, Reference!Kept, Kept,
           Reference!Cardinality, Cardinality, Reference!IsZero, IsZero,
           Reference!IsInjective, IsInjective
  <1>4. ASSUME NEW d
        PROVE  Reference!LeafRows(d) = LeafRows(d)
    BY DEF Reference!LeafRows, LeafRows, Reference!LeafRow, LeafRow,
           Reference!LeafKey, LeafKey, Reference!InitSize, InitSize
  <1> QED
    BY <1>1, <1>2, <1>3, <1>4

\* The bucket solver's; it has an order of its own.
LEMMA BucketOperators ==
  /\ \A list, order : Bucket!Emitted(list, order) = Emitted(list, order)
  /\ \A keys : Bucket!StableOrder(keys) = StableOrder(keys)
  /\ \A list : Bucket!RootVectors(list) = RootVectors(list)
  /\ \A d : Bucket!LeafRows(d) = LeafRows(d)
  <1>1. ASSUME NEW list, NEW order
        PROVE  Bucket!Emitted(list, order) = Emitted(list, order)
    BY DEF Bucket!Emitted, Emitted, Bucket!EmittedPairs, EmittedPairs,
           Bucket!PairGrid, PairGrid, Bucket!Kept, Kept,
           Bucket!Cardinality, Cardinality, Bucket!Emits, Emits,
           Bucket!SameRun, SameRun, Bucket!SlicesDistinct, SlicesDistinct, Bucket!Range, Range,
           Bucket!Merge, Merge, Bucket!Xor, Xor, Bucket!SymDiff, SymDiff,
           Bucket!Canonical, Canonical, Bucket!LexLess, LexLess
  <1>2. ASSUME NEW keys
        PROVE  Bucket!StableOrder(keys) = StableOrder(keys)
    BY DEF Bucket!StableOrder, StableOrder, Bucket!Cardinality, Cardinality,
           Bucket!SegmentLess, SegmentLess, Bucket!SymDiff, SymDiff
  <1>3. ASSUME NEW list
        PROVE  Bucket!RootVectors(list) = RootVectors(list)
    BY DEF Bucket!RootVectors, RootVectors, Bucket!Kept, Kept,
           Bucket!Cardinality, Cardinality, Bucket!IsZero, IsZero,
           Bucket!IsInjective, IsInjective
  <1>4. ASSUME NEW d
        PROVE  Bucket!LeafRows(d) = LeafRows(d)
    BY DEF Bucket!LeafRows, LeafRows, Bucket!LeafRow, LeafRow, Bucket!LeafKey, LeafKey,
           Bucket!InitSize, InitSize
  <1> QED
    BY <1>1, <1>2, <1>3, <1>4

\* The C++ solver's; it has orders of its own.
LEMMA CppOperators ==
  /\ \A list, order : Cpp!Emitted(list, order) = Emitted(list, order)
  /\ \A list : Cpp!RootVectors(list) = RootVectors(list)
  /\ \A d : Cpp!LeafRows(d) = LeafRows(d)
  <1>1. ASSUME NEW list, NEW order
        PROVE  Cpp!Emitted(list, order) = Emitted(list, order)
    BY DEF Cpp!Emitted, Emitted, Cpp!EmittedPairs, EmittedPairs, Cpp!PairGrid, PairGrid,
           Cpp!Kept, Kept,
           Cpp!Cardinality, Cardinality, Cpp!Emits, Emits, Cpp!SameRun, SameRun,
           Cpp!SlicesDistinct, SlicesDistinct, Cpp!Range, Range, Cpp!Merge, Merge,
           Cpp!Xor, Xor, Cpp!SymDiff, SymDiff, Cpp!Canonical, Canonical, Cpp!LexLess, LexLess
  <1>2. ASSUME NEW list
        PROVE  Cpp!RootVectors(list) = RootVectors(list)
    BY DEF Cpp!RootVectors, RootVectors, Cpp!Kept, Kept,
           Cpp!Cardinality, Cardinality, Cpp!IsZero, IsZero,
           Cpp!IsInjective, IsInjective
  <1>3. ASSUME NEW d
        PROVE  Cpp!LeafRows(d) = LeafRows(d)
    BY DEF Cpp!LeafRows, LeafRows, Cpp!LeafRow, LeafRow, Cpp!LeafKey, LeafKey,
           Cpp!InitSize, InitSize
  <1> QED
    BY <1>1, <1>2, <1>3

\* Those of the solver that SameAsReference compares with.
LEMMA ExpectedOperators ==
  /\ \A list, order : Expected!Emitted(list, order) = Emitted(list, order)
  /\ \A list : Expected!SortOrder(list) = SortOrder(list)
  /\ \A list : Expected!RootVectors(list) = RootVectors(list)
  /\ \A d : Expected!LeafRows(d) = LeafRows(d)
  <1>1. ASSUME NEW list, NEW order
        PROVE  Expected!Emitted(list, order) = Emitted(list, order)
    BY DEF Expected!Emitted, Emitted, Expected!EmittedPairs, EmittedPairs,
           Expected!PairGrid, PairGrid, Expected!Kept, Kept,
           Expected!Cardinality, Cardinality, Expected!Emits, Emits,
           Expected!SameRun, SameRun, Expected!SlicesDistinct, SlicesDistinct,
           Expected!Range, Range, Expected!Merge, Merge, Expected!Xor, Xor,
           Expected!SymDiff, SymDiff, Expected!Canonical, Canonical, Expected!LexLess, LexLess
  <1>2. ASSUME NEW list
        PROVE  Expected!SortOrder(list) = SortOrder(list)
    BY DEF Expected!SortOrder, SortOrder, Expected!StableOrder, StableOrder,
           Expected!Cardinality, Cardinality, Expected!SegmentLess, SegmentLess,
           Expected!SymDiff, SymDiff
  <1>3. ASSUME NEW list
        PROVE  Expected!RootVectors(list) = RootVectors(list)
    BY DEF Expected!RootVectors, RootVectors, Expected!Kept, Kept,
           Expected!Cardinality, Cardinality, Expected!IsZero, IsZero,
           Expected!IsInjective, IsInjective
  <1>4. ASSUME NEW d
        PROVE  Expected!LeafRows(d) = LeafRows(d)
    BY DEF Expected!LeafRows, LeafRows, Expected!LeafRow, LeafRow, Expected!LeafKey, LeafKey,
           Expected!InitSize, InitSize
  <1> QED
    BY <1>1, <1>2, <1>3, <1>4

-----------------------------------------------------------------------------
(* What every backend does to the list it stands for.                      *)

\* The backend called sorts on the whole leading segment.
Sorting == backend = "bucket" => BucketBits = Bit

\* It scans its list in an order that is a permutation, that keeps equal leading
\* segments together if it sorts, and that is the stable one in the Rust solvers.
Scans(list, order) ==
  /\ Permutes(order, Len(list))
  /\ Sorting => Contiguous(Leads(list), order)
  /\ Sorting /\ backend # "cpp" => order = SortOrder(list)

\* A step on the list: the leaf rows,
GenerateStep ==
  /\ StandsFor.pc = "generate"
  /\ StandsFor'.pc = "merge"
  /\ StandsFor'.round = StandsFor.round
  /\ StandsFor'.x = LeafRows(digest)
  /\ UNCHANGED <<digest, sols>>

\* a round of the merge,
RoundStep ==
  /\ StandsFor.pc = "merge"
  /\ StandsFor.round <= K
  /\ StandsFor.x # << >>
  /\ StandsFor'.pc = "merge"
  /\ StandsFor'.round = StandsFor.round + 1
  /\ \E order : Scans(StandsFor.x, order) /\ StandsFor'.x = Emitted(StandsFor.x, order)
  /\ UNCHANGED <<digest, sols>>

\* the selection of the solutions,
CollectStep ==
  /\ StandsFor.pc = "merge"
  /\ StandsFor.round > K \/ StandsFor.x = << >>
  /\ StandsFor'.pc = "done"
  /\ StandsFor'.round = StandsFor.round
  /\ StandsFor'.x = StandsFor.x
  /\ sols' = RootVectors(StandsFor.x)
  /\ UNCHANGED digest

\* or nothing: the backend is in the middle of one of these.
IdleStep ==
  /\ StandsFor'.pc = StandsFor.pc
  /\ StandsFor'.round = StandsFor.round
  /\ StandsFor'.x = StandsFor.x
  /\ UNCHANGED <<digest, sols>>

\* Whichever backend is called, its steps are of these kinds.
ListStep ==
  /\ UNCHANGED backend
  /\ GenerateStep \/ RoundStep \/ CollectStep \/ IdleStep

\* Before the first of them.
ListInit ==
  /\ digest \in Engine
  /\ StandsFor.pc = "generate"
  /\ StandsFor.round = 1
  /\ StandsFor.x = << >>
  /\ sols = << >>

\* The invariant of the list: it is good, complete if the backend sorts, and what
\* is returned are its roots.
ListInv ==
  /\ digest \in Engine
  /\ StandsFor.pc \in {"generate", "merge", "done"}
  /\ StandsFor.round \in 1 .. K + 1
  /\ StandsFor.pc = "generate" => StandsFor.x = << >> /\ StandsFor.round = 1
  /\ StandsFor.pc # "done" => sols = << >>
  /\ StandsFor.pc # "generate" =>
       /\ GoodList(digest, StandsFor.round, StandsFor.x)
       /\ Sorting => Complete(digest, StandsFor.round, StandsFor.x)
  /\ StandsFor.pc = "done" =>
       /\ StandsFor.round > K \/ StandsFor.x = << >>
       /\ sols = RootVectors(StandsFor.x)

\* Every engine gives each leaf a row.
LEMMA EngineType == digest \in Engine => digest \in [Key -> Row]
  BY DigestsAssumption DEF Engine

\* It holds at first and every step on the list keeps it.
LEMMA ListInvInit == ListInit => ListInv
  BY KAssumption DEF ListInit, ListInv

\* Leaf rows are good and complete, a round keeps them so, and only roots are taken.
LEMMA ListInvNext == ListInv /\ ListStep => ListInv'
  <1> SUFFICES ASSUME ListInv, ListStep
               PROVE  ListInv'
    OBVIOUS
  <1> DEFINE S == StandsFor
             T == StandsFor'
             ok == Sorting
  <1>1. /\ digest \in Engine /\ digest \in [Key -> Row]
        /\ S.pc \in {"generate", "merge", "done"}
        /\ S.round \in 1 .. K + 1
        /\ S.pc = "generate" => S.x = << >> /\ S.round = 1
        /\ S.pc # "done" => sols = << >>
        /\ S.pc # "generate" =>
             /\ GoodList(digest, S.round, S.x)
             /\ ok => Complete(digest, S.round, S.x)
        /\ S.pc = "done" =>
             /\ S.round > K \/ S.x = << >>
             /\ sols = RootVectors(S.x)
    BY EngineType DEF ListInv
  <1>2. digest' = digest
    BY DEF ListStep, GenerateStep, RoundStep, CollectStep, IdleStep
  <1>3. Sorting' = ok
    BY DEF ListStep, Sorting
  <1>4. SUFFICES /\ T.pc \in {"generate", "merge", "done"}
                 /\ T.round \in 1 .. K + 1
                 /\ T.pc = "generate" => T.x = << >> /\ T.round = 1
                 /\ T.pc # "done" => sols' = << >>
                 /\ T.pc # "generate" =>
                      /\ GoodList(digest, T.round, T.x)
                      /\ ok => Complete(digest, T.round, T.x)
                 /\ T.pc = "done" =>
                      /\ T.round > K \/ T.x = << >>
                      /\ sols' = RootVectors(T.x)
    <2> HIDE DEF S, T, ok
    <2>1. /\ digest' \in Engine
          /\ T.pc \in {"generate", "merge", "done"}
          /\ T.round \in 1 .. K + 1
          /\ T.pc = "generate" => T.x = << >> /\ T.round = 1
          /\ T.pc # "done" => sols' = << >>
          /\ T.pc # "generate" =>
               /\ GoodList(digest', T.round, T.x)
               /\ Sorting' => Complete(digest', T.round, T.x)
          /\ T.pc = "done" =>
               /\ T.round > K \/ T.x = << >>
               /\ sols' = RootVectors(T.x)
      BY <1>1, <1>2, <1>3, <1>4
    <2> QED
      BY <2>1 DEF ListInv, T, Engine
  <1>5. K \in Nat
    BY KAssumption
  <1>6. CASE GenerateStep
    <2>1. /\ S.pc = "generate" /\ T.pc = "merge" /\ T.round = S.round
          /\ T.x = LeafRows(digest) /\ sols' = sols
      BY <1>6 DEF GenerateStep
    <2> HIDE DEF S, T, ok
    <2>2. GoodList(digest, 1, LeafRows(digest)) /\ Complete(digest, 1, LeafRows(digest))
      BY <1>1, LeafRowsGood
    <2> QED
      BY <1>1, <1>5, <2>1, <2>2
  <1>7. CASE RoundStep
    <2>1. /\ S.pc = "merge" /\ S.round <= K /\ T.pc = "merge" /\ T.round = S.round + 1
          /\ sols' = sols
      BY <1>7 DEF RoundStep
    <2>2. PICK order : /\ Permutes(order, Len(S.x))
                       /\ ok => Contiguous(Leads(S.x), order)
                       /\ T.x = Emitted(S.x, order)
      BY <1>7 DEF RoundStep, Scans
    <2> HIDE DEF S, T, ok
    <2>3. S.round \in Rounds
      BY <1>1, <1>5, <2>1 DEF Rounds
    <2>4. GoodList(digest, S.round + 1, T.x)
      BY <1>1, <2>1, <2>2, <2>3, GoodListNext
    <2>5. ok => Complete(digest, S.round + 1, T.x)
      BY <1>1, <2>1, <2>2, <2>3, CompleteNext
    <2>6. S.round + 1 \in 1 .. K + 1
      BY <1>1, <1>5, <2>1
    <2> QED
      BY <1>1, <2>1, <2>4, <2>5, <2>6
  <1>8. CASE CollectStep
    <2>1. /\ S.pc = "merge"
          /\ S.round > K \/ S.x = << >>
          /\ T.pc = "done" /\ T.round = S.round /\ T.x = S.x /\ sols' = RootVectors(S.x)
      BY <1>8 DEF CollectStep
    <2> HIDE DEF S, T, ok
    <2> QED
      BY <1>1, <2>1
  <1>9. CASE IdleStep
    <2>1. T.pc = S.pc /\ T.round = S.round /\ T.x = S.x /\ sols' = sols
      BY <1>9 DEF IdleStep
    <2> HIDE DEF S, T, ok
    <2> QED
      BY <1>1, <2>1
  <1> QED
    BY <1>6, <1>7, <1>8, <1>9 DEF ListStep
-----------------------------------------------------------------------------
(* The backends that keep a list of rows.                                  *)

\* The leading segments of a good list are segments.
LEMMA LeadsType ==
  ASSUME NEW d, NEW r \in 1 .. K + 1, NEW list, GoodList(d, r, list)
  PROVE  /\ Len(list) \in Nat /\ DOMAIN list = 1 .. Len(list)
         /\ Leads(list) \in [1 .. Len(list) -> Segment]
  <1>1. list \in Seq(RowAt(r)) /\ Len(list) \in Nat /\ DOMAIN list = 1 .. Len(list)
    BY LenProperties DEF GoodList
  <1>2. \A p \in DOMAIN list : list[p].h[1] \in Segment
    <2> TAKE p \in DOMAIN list
    <2>1. list[p] \in RowAt(r)
      BY <1>1
    <2>2. list[p].h \in [1 .. K + 2 - r -> Segment]
      BY <2>1 DEF RowAt
    <2>3. 1 \in 1 .. K + 2 - r
      BY KAssumption
    <2> QED
      BY <2>2, <2>3
  <1> QED
    BY <1>1, <1>2 DEF Leads

\* The order of the reference solver scans a good list as it should.
LEMMA SortOrderScans ==
  ASSUME NEW d, NEW r \in 1 .. K + 1, NEW list, GoodList(d, r, list)
  PROVE  Scans(list, SortOrder(list))
  <1>1. Len(list) \in Nat /\ Leads(list) \in [1 .. Len(list) -> Segment]
    BY LeadsType
  <1>2. SortOrder(list) = StableOrder(Leads(list))
    BY DEF SortOrder, Leads
  <1>3. Permutes(SortOrder(list), Len(list)) /\ Contiguous(Leads(list), SortOrder(list))
    BY <1>1, <1>2, StableOrderProperties
  <1> QED
    BY <1>3 DEF Scans

\* A scatter by leading bytes is a permutation, and the order of the reference
\* solver if the leading bytes hold the whole segment.
LEMMA BucketOrderScans ==
  ASSUME NEW d, NEW r \in 1 .. K + 1, NEW list, GoodList(d, r, list), backend = "bucket"
  PROVE  Scans(list, Bucket!BucketOrder(list))
  <1> DEFINE keys == [p \in DOMAIN list |-> list[p].h[1] \cap BucketBits]
  <1>1. Len(list) \in Nat /\ DOMAIN list = 1 .. Len(list) /\ Leads(list) \in [1 .. Len(list) -> Segment]
    BY LeadsType
  <1>2. \A p \in DOMAIN list : Leads(list)[p] = list[p].h[1]
    BY DEF Leads
  <1>3. keys \in [1 .. Len(list) -> Segment]
    BY <1>1, <1>2, BucketBitsAssumption DEF Segment
  <1>4. Bucket!BucketOrder(list) = StableOrder(keys)
    <2>1. Bucket!BucketOrder(list) = Bucket!StableOrder(keys)
      BY DEF Bucket!BucketOrder, Bucket!Bucket
    <2> QED
      BY <2>1, BucketOperators
  <1>5. Permutes(StableOrder(keys), Len(list))
    <2> HIDE DEF keys
    <2> QED
      BY <1>1, <1>3, StableOrderProperties
  <1>6. CASE Sorting
    <2>1. BucketBits = Bit
      BY <1>6 DEF Sorting
    <2>2. \A p \in DOMAIN list : list[p].h[1] \cap BucketBits = list[p].h[1]
      BY <1>1, <1>2, <2>1 DEF Segment
    <2>3. keys = [p \in DOMAIN list |-> list[p].h[1]]
      BY <2>2, Zenon
    <2>4. Bucket!BucketOrder(list) = SortOrder(list)
      BY <1>4, <2>3 DEF SortOrder
    <2> QED
      BY <2>4, SortOrderScans
  <1>7. CASE ~Sorting
    BY <1>4, <1>5, <1>7 DEF Scans
  <1> QED
    BY <1>6, <1>7

\* One step of the recursion of SortedOrders.
OrdersStep(list, g, m) ==
  IF m = 0 THEN {<< >>}
  ELSE UNION {{Append(placed, p) : p \in Cpp!Least(list, placed)} : placed \in g[m - 1]}

\* The recursion of SortedOrders has a solution.
LEMMA OrdersExist ==
  ASSUME NEW list, Len(list) \in Nat
  PROVE  \E g : g = [m \in 0 .. Len(list) |-> OrdersStep(list, g, m)]
  <1> DEFINE P(n) == \E g : g = [m \in 0 .. n |-> OrdersStep(list, g, m)]
             Bad == {n \in Nat : ~P(n)}
  <1>1. P(0)
    <2> DEFINE g == [m \in 0 .. 0 |-> {<< >>}]
    <2>1. g = [m \in 0 .. 0 |-> OrdersStep(list, g, m)]
      BY DEF OrdersStep
    <2> QED
      BY <2>1, Zenon
  <1>2. ASSUME NEW n \in Nat, P(n)
        PROVE  P(n + 1)
    <2>1. PICK g : g = [m \in 0 .. n |-> OrdersStep(list, g, m)]
      BY <1>2, Zenon
    <2> DEFINE f == [m \in 0 .. n + 1 |-> IF m = n + 1 THEN OrdersStep(list, g, m) ELSE g[m]]
    <2>2. ASSUME NEW m \in 0 .. n + 1
          PROVE  f[m] = OrdersStep(list, f, m)
      <3>1. f[m] = OrdersStep(list, g, m)
        <4>1. CASE m = n + 1
          BY <4>1
        <4>2. CASE m # n + 1
          <5>1. m \in 0 .. n
            BY <4>2
          <5>2. g[m] = OrdersStep(list, g, m)
            BY <2>1, <5>1
          <5> QED
            BY <4>2, <5>2
        <4> QED
          BY <4>1, <4>2
      <3>2. CASE m = 0
        BY <3>1, <3>2 DEF OrdersStep
      <3>3. CASE m # 0
        <4>1. m - 1 \in 0 .. n + 1 /\ m - 1 # n + 1
          BY <3>3
        <4>2. f[m - 1] = g[m - 1]
          BY <4>1
        <4> HIDE DEF f
        <4>3. OrdersStep(list, f, m) = OrdersStep(list, g, m)
          BY <4>2 DEF OrdersStep
        <4> QED
          BY <3>1, <4>3
      <3> QED
        BY <3>2, <3>3
    <2> HIDE DEF f
    <2>3. f = [m \in 0 .. n + 1 |-> f[m]]
      BY DEF f
    <2>4. f = [m \in 0 .. n + 1 |-> OrdersStep(list, f, m)]
      BY <2>2, <2>3, Zenon
    <2> QED
      BY <2>4, Zenon
  <1> HIDE DEF P
  <1>3. Bad = {}
    <2> SUFFICES ASSUME Bad # {}
                 PROVE  FALSE
      OBVIOUS
    <2>1. PICK n \in Bad : \A m \in Bad : n <= m
      BY LeastNatural
    <2>2. n # 0 /\ n - 1 \in Nat /\ n - 1 + 1 = n
      BY <1>1, <2>1
    <2>3. P(n - 1)
      BY <2>1, <2>2
    <2>4. P(n - 1 + 1)
      BY <1>2, <2>2, <2>3
    <2> QED
      BY <2>1, <2>2, <2>4
  <1>4. P(Len(list))
    BY <1>3
  <1> QED
    BY <1>4, Zenon DEF P

\* The places filled so far hold different rows in order, before all rows left.
PlacedInOrder(list, n, m, placed) ==
  /\ placed \in [1 .. m -> 1 .. n]
  /\ \A i, j \in 1 .. m : i < j => placed[i] # placed[j]
  /\ \A i, j \in 1 .. m : i < j => ~SegmentLess(Leads(list)[placed[j]], Leads(list)[placed[i]])
  /\ \A i \in 1 .. m, q \in 1 .. n :
       (\A l \in 1 .. m : placed[l] # q) => ~SegmentLess(Leads(list)[q], Leads(list)[placed[i]])

\* An order the C++ solver may take places every row, in order.
LEMMA OrdersProperties ==
  ASSUME NEW n \in Nat, NEW list, Len(list) = n, DOMAIN list = 1 .. n,
         NEW order \in Cpp!SortedOrders(list)
  PROVE  PlacedInOrder(list, n, n, order)
  <1> DEFINE h == CHOOSE g : g = [m \in 0 .. Len(list) |-> OrdersStep(list, g, m)]
  <1>1. h = [m \in 0 .. n |-> OrdersStep(list, h, m)]
    BY OrdersExist, Zenon
  <1>2. Cpp!SortedOrders(list) = h[n]
    BY Zenon DEF Cpp!SortedOrders, OrdersStep
  <1> HIDE DEF h
  <1> DEFINE P(m) == \A o \in h[m] : PlacedInOrder(list, n, m, o)
             Bad == {m \in 0 .. n : ~P(m)}
  <1>3. P(0)
    <2>1. h[0] = {<< >>}
      BY <1>1 DEF OrdersStep
    <2>2. PlacedInOrder(list, n, 0, << >>)
      BY DEF PlacedInOrder
    <2> QED
      BY <2>1, <2>2
  <1>4. ASSUME NEW m \in 1 .. n, P(m - 1)
        PROVE  P(m)
    <2>1. m - 1 \in 0 .. n /\ m \in 0 .. n /\ m # 0 /\ m - 1 \in Nat /\ m - 1 + 1 = m
      OBVIOUS
    <2>2. h[m] = UNION {{Append(placed, p) : p \in Cpp!Least(list, placed)} : placed \in h[m - 1]}
      BY <1>1, <2>1 DEF OrdersStep
    <2> SUFFICES ASSUME NEW placed \in h[m - 1], NEW p \in Cpp!Least(list, placed)
                 PROVE  PlacedInOrder(list, n, m, Append(placed, p))
      BY <2>2
    <2> DEFINE l == m - 1
               o == Append(placed, p)
               L == Leads(list)
    <2>3. PlacedInOrder(list, n, l, placed)
      BY <1>4
    <2>4. l \in Nat /\ m = l + 1
      BY <2>1
    <2> HIDE DEF l
    <2>5. placed \in Seq(1 .. n) /\ Len(placed) = l /\ DOMAIN placed = 1 .. l
      <3>1. placed \in [1 .. l -> 1 .. n]
        BY <2>3 DEF PlacedInOrder
      <3> QED
        BY <2>4, <3>1
    <2>6. /\ p \in 1 .. n
          /\ \A i \in 1 .. l : placed[i] # p
          /\ \A q \in 1 .. n : (\A i \in 1 .. l : placed[i] # q) => ~SegmentLess(L[q], L[p])
      <3>1. \A q \in DOMAIN list : L[q] = list[q].h[1]
        BY DEF Leads
      <3>2. Cpp!Range(placed) = {placed[i] : i \in 1 .. l}
        BY <2>5 DEF Cpp!Range
      <3>3. Cpp!Least(list, placed) =
              {t \in DOMAIN list \ Cpp!Range(placed) : \A q \in DOMAIN list \ Cpp!Range(placed) :
                 ~Cpp!SegmentLess(list[q].h[1], list[t].h[1])}
        BY DEF Cpp!Least
      <3>4. \A s, t : Cpp!SegmentLess(s, t) = SegmentLess(s, t)
        BY DEF Cpp!SegmentLess, SegmentLess, Cpp!SymDiff, SymDiff
      <3> HIDE DEF L
      <3> QED
        BY <3>1, <3>2, <3>3, <3>4
    <2>7. /\ o \in [1 .. m -> 1 .. n] /\ o[m] = p
          /\ \A i \in 1 .. l : o[i] = placed[i]
      <3>1. o \in Seq(1 .. n) /\ Len(o) = m
        BY <2>4, <2>5, <2>6, AppendProperties
      <3>2. o[m] = p /\ \A i \in 1 .. l : o[i] = placed[i]
        BY <2>4, <2>5, <2>6, AppendProperties
      <3> HIDE DEF o
      <3> QED
        BY <3>1, <3>2
    <2> HIDE DEF o, L
    <2>8. \A i \in 1 .. m : i \in 1 .. l \/ i = m
      BY <2>4
    <2>9. \A i, j \in 1 .. m : i < j => o[i] # o[j]
      <3> SUFFICES ASSUME NEW i \in 1 .. m, NEW j \in 1 .. m, i < j
                   PROVE  o[i] # o[j]
        OBVIOUS
      <3>1. i \in 1 .. l
        BY <2>4
      <3>2. CASE j = m
        BY <2>6, <2>7, <3>1, <3>2
      <3>3. CASE j \in 1 .. l
        BY <2>3, <2>7, <3>1, <3>3 DEF PlacedInOrder
      <3> QED
        BY <2>8, <3>2, <3>3
    <2>10. \A i, j \in 1 .. m : i < j => ~SegmentLess(L[o[j]], L[o[i]])
      <3> SUFFICES ASSUME NEW i \in 1 .. m, NEW j \in 1 .. m, i < j
                   PROVE  ~SegmentLess(L[o[j]], L[o[i]])
        OBVIOUS
      <3>1. i \in 1 .. l
        BY <2>4
      <3>2. CASE j = m
        BY <2>3, <2>6, <2>7, <3>1, <3>2 DEF PlacedInOrder, L
      <3>3. CASE j \in 1 .. l
        BY <2>3, <2>7, <3>1, <3>3 DEF PlacedInOrder, L
      <3> QED
        BY <2>8, <3>2, <3>3
    <2>11. ASSUME NEW i \in 1 .. m, NEW q \in 1 .. n, \A t \in 1 .. m : o[t] # q
           PROVE  ~SegmentLess(L[q], L[o[i]])
      <3>1. \A t \in 1 .. l : t \in 1 .. m /\ placed[t] # q
        BY <2>4, <2>7, <2>11
      <3>2. CASE i = m
        BY <2>6, <2>7, <3>1, <3>2
      <3>3. CASE i \in 1 .. l
        BY <2>3, <2>7, <3>1, <3>3 DEF PlacedInOrder, L
      <3> QED
        BY <2>8, <3>2, <3>3
    <2> QED
      BY <2>7, <2>9, <2>10, <2>11 DEF PlacedInOrder, o, L
  <1> HIDE DEF P
  <1>5. Bad = {}
    <2> SUFFICES ASSUME Bad # {}
                 PROVE  FALSE
      OBVIOUS
    <2>0. Bad \in SUBSET Nat
      OBVIOUS
    <2>1. PICK m \in Bad : \A l \in Bad : m <= l
      BY <2>0, LeastNatural
    <2>2. m \in 1 .. n /\ m - 1 \in 0 .. n /\ ~(m <= m - 1)
      BY <1>3, <2>1
    <2>3. P(m - 1)
      BY <2>1, <2>2
    <2>4. P(m)
      BY <1>4, <2>2, <2>3
    <2> QED
      BY <2>1, <2>4
  <1>6. P(n)
    BY <1>5
  <1> QED
    BY <1>2, <1>6 DEF P

\* Every order std::sort may leave the rows in scans a good list as it should.
LEMMA SortedOrderScans ==
  ASSUME NEW d, NEW r \in 1 .. K + 1, NEW list, GoodList(d, r, list),
         NEW order \in Cpp!SortedOrders(list), backend = "cpp"
  PROVE  Scans(list, order)
  <1> DEFINE n == Len(list)
             N == 1 .. n
             L == Leads(list)
  <1>1. n \in Nat /\ DOMAIN list = N /\ L \in [N -> Segment]
    BY LeadsType
  <1>2. PlacedInOrder(list, n, n, order)
    BY <1>1, OrdersProperties
  <1>3. /\ order \in [N -> N]
        /\ \A i, j \in N : i < j => order[i] # order[j]
        /\ \A i, j \in N : i < j => ~SegmentLess(L[order[j]], L[order[i]])
    BY <1>2 DEF PlacedInOrder
  <1>4. Permutes(order, n)
    <2>1. \A i, j \in N : order[i] = order[j] => i = j
      <3> SUFFICES ASSUME NEW i \in N, NEW j \in N, order[i] = order[j], i # j
                   PROVE  FALSE
        OBVIOUS
      <3>1. i < j \/ j < i
        BY <1>1
      <3> QED
        BY <1>3, <3>1
    <2>2. IsFiniteSet(N)
      BY <1>1, FS_Interval
    <2> HIDE DEF N
    <2>3. order \in Injection(N, N)
      BY <1>3, <2>1 DEF Injection, IsInjective
    <2>4. order \in Surjection(N, N)
      BY <2>2, <2>3, FS_Injection
    <2> QED
      BY <1>3, <2>1, <2>4 DEF Permutes, Surjection, N
  <1>5. Contiguous(L, order)
    <2> SUFFICES ASSUME NEW p \in N, NEW q \in N, NEW t \in N,
                        p <= t, t <= q, L[order[p]] = L[order[q]]
                 PROVE  L[order[t]] = L[order[p]]
      BY <1>3 DEF Contiguous
    <2> DEFINE kp == L[order[p]]
               kt == L[order[t]]
               kq == L[order[q]]
    <2>1. p = t \/ ~SegmentLess(kt, kp)
      <3>1. p = t \/ p < t
        BY <1>1
      <3> QED
        BY <1>3, <3>1
    <2>2. t = q \/ ~SegmentLess(kq, kt)
      <3>1. t = q \/ t < q
        BY <1>1
      <3> QED
        BY <1>3, <3>1
    <2>3. kp \in Segment /\ kt \in Segment /\ kq = kp
      BY <1>1, <1>3
    <2>4. (p = t => kt = kp) /\ (t = q => kt = kq)
      OBVIOUS
    <2> HIDE DEF kp, kt, kq, L
    <2>5. SegmentLess(kp, kt) \/ kp = kt \/ SegmentLess(kt, kp)
      BY <2>3, SegmentOrder
    <2>6. kt = kp
      BY <2>1, <2>2, <2>3, <2>4, <2>5
    <2> QED
      BY <2>6 DEF kp, kt
  <1> QED
    BY <1>4, <1>5 DEF Scans

\* The backends that keep a list of rows stand for themselves.
Listing == backend \in {"reference", "bucket", "cpp"}

\* They start with no list.
LEMMA ListingInit ==
  ASSUME Init, Listing
  PROVE  ListInit
  <1>1. StandsFor = [pc |-> pc, round |-> round, x |-> x]
    BY DEF Listing, StandsFor, Flat
  <1>2. /\ digest \in Digests \/ digest \in CppDigests
        /\ pc = "generate" /\ round = 1 /\ x = << >> /\ sols = << >>
    BY DEF Init, Listing, Reference!Init, Bucket!Init, Cpp!Init
  <1> QED
    BY <1>1, <1>2 DEF ListInit, Engine

\* Each of their actions is a step on the list, in the backend's own order.
LEMMA ListingNext ==
  ASSUME ListInv, Next, Listing
  PROVE  ListStep
  <1>0. backend' = backend
    BY DEF Next
  <1>1. /\ StandsFor = [pc |-> pc, round |-> round, x |-> x]
        /\ StandsFor' = [pc |-> pc', round |-> round', x |-> x']
    BY <1>0 DEF Listing, StandsFor, Flat
  <1>2. ASSUME pc = "generate", pc' = "merge", x' = LeafRows(digest), UNCHANGED <<digest, round, sols>>
        PROVE  ListStep
    BY <1>0, <1>1, <1>2 DEF ListStep, GenerateStep
  <1>3. ASSUME pc = "merge", round <= K, x # << >>, NEW order, Scans(x, order),
               x' = Emitted(x, order), round' = round + 1, UNCHANGED <<digest, pc, sols>>
        PROVE  ListStep
    BY <1>0, <1>1, <1>3 DEF ListStep, RoundStep
  <1>4. ASSUME pc = "merge", round > K \/ x = << >>, pc' = "done", sols' = RootVectors(x),
               UNCHANGED <<digest, round, x>>
        PROVE  ListStep
    BY <1>0, <1>1, <1>4 DEF ListStep, CollectStep
  <1>5. pc = "merge" => GoodList(digest, round, x) /\ round \in 1 .. K + 1
    BY <1>1 DEF ListInv
  <1>6. CASE backend = "reference" /\ Reference!Next
    <2>1. CASE Reference!Generate
      BY <1>2, <2>1, ReferenceOperators DEF Reference!Generate
    <2>2. CASE Reference!MergeRound
      <3>1. Scans(x, SortOrder(x))
        BY <1>5, <2>2, SortOrderScans DEF Reference!MergeRound
      <3>2. x' = Emitted(x, SortOrder(x))
        BY <2>2, ReferenceOperators DEF Reference!MergeRound
      <3> QED
        BY <1>3, <2>2, <3>1, <3>2 DEF Reference!MergeRound
    <2>3. CASE Reference!Collect
      BY <1>4, <2>3, ReferenceOperators DEF Reference!Collect
    <2> QED
      BY <1>6, <2>1, <2>2, <2>3 DEF Reference!Next
  <1>7. CASE backend = "bucket" /\ Bucket!Next
    <2>1. CASE Bucket!Generate
      BY <1>2, <2>1, BucketOperators DEF Bucket!Generate
    <2>2. CASE Bucket!MergeRound
      <3>1. Scans(x, Bucket!BucketOrder(x))
        BY <1>5, <1>7, <2>2, BucketOrderScans DEF Bucket!MergeRound
      <3>2. x' = Emitted(x, Bucket!BucketOrder(x))
        BY <2>2, BucketOperators DEF Bucket!MergeRound
      <3> QED
        BY <1>3, <2>2, <3>1, <3>2 DEF Bucket!MergeRound
    <2>3. CASE Bucket!Collect
      BY <1>4, <2>3, BucketOperators DEF Bucket!Collect
    <2> QED
      BY <1>7, <2>1, <2>2, <2>3 DEF Bucket!Next
  <1>8. CASE backend = "cpp" /\ Cpp!Next
    <2>1. CASE Cpp!Generate
      BY <1>2, <2>1, CppOperators DEF Cpp!Generate
    <2>2. CASE Cpp!MergeRound
      <3>1. PICK order \in Cpp!SortedOrders(x) : x' = Cpp!Emitted(x, order)
        BY <2>2 DEF Cpp!MergeRound
      <3>2. Scans(x, order)
        BY <1>5, <1>8, <2>2, <3>1, SortedOrderScans DEF Cpp!MergeRound
      <3>3. x' = Emitted(x, order)
        BY <3>1, CppOperators
      <3> QED
        BY <1>3, <2>2, <3>2, <3>3 DEF Cpp!MergeRound
    <2>3. CASE Cpp!Collect
      BY <1>4, <2>3, CppOperators DEF Cpp!Collect
    <2> QED
      BY <1>8, <2>1, <2>2, <2>3 DEF Cpp!Next
  <1> QED
    BY <1>6, <1>7, <1>8 DEF Next, Listing
-----------------------------------------------------------------------------
(* The backends that keep flat buffers.                                    *)

\* A function on an initial segment of the numbers is a sequence.
LEMMA FunctionIsSequence ==
  ASSUME NEW n \in Nat, NEW f, f = [c \in 1 .. n |-> f[c]]
  PROVE  f \in Seq(Range(f)) /\ Len(f) = n /\ DOMAIN f = 1 .. n
  <1> DEFINE S == Range(f)
  <1>1. DOMAIN f = 1 .. n
    OBVIOUS
  <1>2. \A c \in 1 .. n : f[c] \in S
    BY <1>1 DEF Range
  <1> HIDE DEF S
  <1>3. f \in [1 .. n -> S]
    BY <1>2
  <1>4. f \in Seq(S) /\ Len(f) = n
    BY <1>3
  <1> QED
    BY <1>1, <1>4 DEF S

\* The rows that two buffers of given strides hold.
Slice(buffer, width, q) == SubSeq(buffer, (q - 1) * width + 1, q * width)

\* That many rows, read out of both.
RowsOf(hs, is, width, count, rows) ==
  [q \in 1 .. rows |->
     [h |-> [s \in 1 .. width |-> hs[(q - 1) * width + s]], idx |-> Slice(is, count, q)]]

\* A buffer of so many rows of one width.
Holds(buffer, S, rows, width) == buffer \in Seq(S) /\ Len(buffer) = rows * width

\* A slice of a buffer, element by element.
LEMMA SliceProperties ==
  ASSUME NEW width \in Nat \ {0}, NEW rows \in Nat, NEW S, NEW buffer,
         Holds(buffer, S, rows, width), NEW q \in 1 .. rows
  PROVE  /\ Slice(buffer, width, q) \in Seq(S)
         /\ Len(Slice(buffer, width, q)) = width
         /\ \A i \in 1 .. width : Slice(buffer, width, q)[i] = buffer[(q - 1) * width + i]
  <1> DEFINE m == q - 1
             lo == m * width
             hi == q * width
             n == rows * width
  <1>0. buffer \in Seq(S) /\ Len(buffer) = n
    BY DEF Holds
  <1>1. m \in Nat /\ m + 1 = q /\ q \in Nat /\ q <= rows
    OBVIOUS
  <1>2. lo \in Nat /\ hi \in Nat /\ n \in Nat
    BY <1>1
  <1>3. hi = lo + width
    <2> HIDE DEF m
    <2>1. (m + 1) * width = m * width + width
      BY <1>1
    <2> QED
      BY <1>1, <2>1
  <1>4. hi <= n
    BY <1>1, ProductMonotone
  <1>5. \A i \in 1 .. width : buffer[(q - 1) * width + i] = buffer[lo + i]
    OBVIOUS
  <1>6. Slice(buffer, width, q) = SubSeq(buffer, lo + 1, hi)
    BY DEF Slice
  <1> HIDE DEF lo, hi, n, m
  <1>8. \A i \in lo + 1 .. hi : buffer[i] \in S
    BY <1>0, <1>2, <1>4
  <1>9. SubSeq(buffer, lo + 1, hi) \in Seq(S)
    BY <1>0, <1>2, <1>3, <1>8
  <1>10. Len(SubSeq(buffer, lo + 1, hi)) = width
    BY <1>0, <1>2, <1>3
  <1>11. \A i \in 1 .. width : SubSeq(buffer, lo + 1, hi)[i] = buffer[lo + i]
    <2> TAKE i \in 1 .. width
    <2>1. i \in 1 .. hi - (lo + 1) + 1 /\ (lo + 1) + i - 1 = lo + i
      BY <1>2, <1>3
    <2> QED
      BY <1>2, <1>3, <2>1
  <1> QED
    BY <1>5, <1>6, <1>9, <1>10, <1>11

\* A slice of width one is an element.
LEMMA UnitSlice ==
  ASSUME NEW n \in Nat, NEW S, NEW buffer \in Seq(S), Len(buffer) = n, NEW q \in 1 .. n
  PROVE  Slice(buffer, 1, q) = <<buffer[q]>>
  <1> DEFINE one == 1
             slice == Slice(buffer, one, q)
  <1>1. one \in Nat \ {0} /\ Holds(buffer, S, n, one) /\ (q - 1) * one + 1 = q /\ 1 \in 1 .. one
    BY DEF Holds
  <1> HIDE DEF one
  <1>2. /\ slice \in Seq(S) /\ Len(slice) = one
        /\ \A i \in 1 .. one : slice[i] = buffer[(q - 1) * one + i]
    BY <1>1, SliceProperties
  <1> HIDE DEF slice
  <1>3. slice[1] = buffer[q]
    BY <1>1, <1>2
  <1>4. slice = <<buffer[q]>>
    BY <1>2, <1>3 DEF one
  <1> QED
    BY <1>4 DEF slice, one

\* Both instances of the solver read the buffers as the same rows.
LEMMA UnpackedIsRows ==
  /\ Arena!Unpacked = RowsOf(hashes, idxs, hstride, icount, nrows)
  /\ Arena!Unpacked' = RowsOf(hashes', idxs', hstride', icount', nrows')
  BY DEF Arena!Unpacked, Arena!Cell, Arena!IndexSlice, RowsOf, Slice

\* The threads that fill the buffers of the backend called.
Pool == IF backend = "arena" THEN {Main} ELSE Worker

\* The cells of a leaf hold its row.
Filled(hs, leaf) == \A s \in 1 .. K + 1 : hs[leaf * (K + 1) + s] = LeafRow(digest, leaf)[s]

\* While the rows are filled, every leaf is still to be taken, held or written;
\* afterwards the strides are those of the round and both buffers full.
FlatInv ==
  Flat =>
    /\ pc \in {"fill", "merge", "done"}
    /\ round \in 1 .. K + 1
    /\ hstride = K + 2 - round
    /\ icount = 2^(round - 1)
    /\ nrows \in Nat
    /\ hashes = [c \in 1 .. nrows * hstride |-> hashes[c]]
    /\ idxs = [c \in 1 .. nrows * icount |-> idxs[c]]
    /\ chunk \in [Pool -> Leaf \cup {Idle}]
    /\ pc # "fill" => \A wk \in Pool : chunk[wk] = Idle
    /\ pc = "fill" =>
         /\ round = 1
         /\ nrows = InitSize
         /\ todo \subseteq Leaf
         /\ \A leaf \in Leaf :
              leaf \in todo \/ (\E wk \in Pool : chunk[wk] = leaf) \/ Filled(hashes, leaf)

\* All leaves are to be taken at first, and no list is there.
LEMMA FlatInit ==
  ASSUME Init, Flat
  PROVE  FlatInv /\ ListInit
  <1>1. /\ digest \in Digests \/ digest \in ParallelDigests
        /\ pc = "fill" /\ round = 1 /\ todo = Leaf
        /\ chunk = [wk \in Pool |-> Idle]
        /\ hstride = K + 1 /\ icount = 1 /\ nrows = InitSize
        /\ hashes = [c \in 1 .. InitSize * (K + 1) |-> {}]
        /\ idxs = [q \in 1 .. InitSize |-> 0]
        /\ sols = << >>
    <2>1. Arena!InitSize = InitSize /\ Parallel!InitSize = InitSize
      BY DEF Arena!InitSize, Parallel!InitSize, InitSize
    <2>2. Arena!Leaf = Leaf /\ Parallel!Leaf = Leaf
      BY <2>1 DEF Arena!Leaf, Parallel!Leaf, Leaf
    <2>3. CASE backend = "arena"
      BY <2>1, <2>2, <2>3 DEF Init, Arena!Init, Pool
    <2>4. CASE backend = "parallel"
      BY <2>1, <2>2, <2>4 DEF Init, Parallel!Init, Pool
    <2> QED
      BY <2>3, <2>4 DEF Flat
  <1>2. StandsFor = [pc |-> "generate", round |-> round, x |-> << >>]
    BY <1>1 DEF StandsFor, Flat
  <1>3. ListInit
    BY <1>1, <1>2 DEF ListInit, Engine
  <1>4. K \in Nat /\ K + 2 - 1 = K + 1 /\ 1 - 1 = 0 /\ 2^0 = 1 /\ 1 \in 1 .. K + 1
    BY KAssumption
  <1>5. InitSize \in Nat /\ InitSize * 1 = InitSize
    BY InitSizeType
  <1>6. /\ hashes = [c \in 1 .. nrows * hstride |-> hashes[c]]
        /\ idxs = [c \in 1 .. nrows * icount |-> idxs[c]]
    BY <1>1, <1>5
  <1>7. chunk \in [Pool -> Leaf \cup {Idle}]
    BY <1>1
  <1> QED
    BY <1>1, <1>3, <1>4, <1>5, <1>6, <1>7 DEF FlatInv

\* A cell of another row is not one of this row.
LEMMA CellsApart ==
  ASSUME NEW w \in Nat \ {0}, NEW l \in Nat, NEW m \in Nat, NEW s \in 1 .. w,
         (l * w + s) - m * w \in 1 .. w
  PROVE  l = m
  <1> DEFINE lw == l * w
             mw == m * w
  <1>1. lw \in Nat /\ mw \in Nat
    OBVIOUS
  <1>2. ASSUME NEW a \in Nat, NEW b \in Nat, a < b
        PROVE  a * w + w <= b * w
    <2>1. a + 1 <= b /\ a + 1 \in Nat
      BY <1>2
    <2>2. (a + 1) * w <= b * w
      BY <2>1, ProductMonotone
    <2>3. (a + 1) * w = a * w + w
      OBVIOUS
    <2> QED
      BY <2>2, <2>3
  <1>3. l < m => lw + w <= mw
    BY <1>2
  <1>4. m < l => mw + w <= lw
    BY <1>2
  <1>5. (lw + s) - mw \in 1 .. w
    OBVIOUS
  <1> HIDE DEF lw, mw
  <1>6. ~(l < m) /\ ~(m < l)
    BY <1>1, <1>3, <1>4, <1>5
  <1> QED
    BY <1>6

\* The filled buffers hold the rows of the leaves.
LEMMA FilledRows ==
  ASSUME NEW hs, NEW is, digest \in [Key -> Row], \A leaf \in Leaf : Filled(hs, leaf),
         is = [q \in 1 .. InitSize |-> q - 1]
  PROVE  RowsOf(hs, is, K + 1, 1, InitSize) = LeafRows(digest)
  <1> DEFINE row(q) == [h |-> [s \in 1 .. K + 1 |-> hs[(q - 1) * (K + 1) + s]], idx |-> Slice(is, 1, q)]
             leafrow(q) == [h |-> LeafRow(digest, q - 1), idx |-> <<q - 1>>]
  <1>1. InitSize \in Nat /\ K \in Nat /\ InitSize * 1 = InitSize
    BY InitSizeType, KAssumption
  <1>2. ASSUME NEW q \in 1 .. InitSize
        PROVE  row(q) = leafrow(q)
    <2>1. q - 1 \in Leaf /\ q - 1 \in Nat /\ q \in Nat
      BY <1>1 DEF Leaf
    <2>2. LeafRow(digest, q - 1) \in [1 .. K + 1 -> Segment]
      BY <2>1 DEF LeafRow, Key, Row
    <2>3. \A s \in 1 .. K + 1 : hs[(q - 1) * (K + 1) + s] = LeafRow(digest, q - 1)[s]
      BY <2>1 DEF Filled
    <2> DEFINE g == LeafRow(digest, q - 1)
               e(s) == hs[(q - 1) * (K + 1) + s]
    <2>4. [s \in 1 .. K + 1 |-> e(s)] = g
      <3>1. \A s \in 1 .. K + 1 : e(s) = g[s]
        BY <2>3
      <3>2. g = [s \in 1 .. K + 1 |-> g[s]]
        BY <2>2
      <3> HIDE DEF g, e
      <3>3. [s \in 1 .. K + 1 |-> e(s)] = [s \in 1 .. K + 1 |-> g[s]]
        BY <3>1, Zenon
      <3> QED
        BY <3>2, <3>3
    <2>5. Slice(is, 1, q) = <<q - 1>>
      <3>1. is = [c \in 1 .. InitSize |-> is[c]]
        OBVIOUS
      <3>2. is \in Seq(Range(is)) /\ Len(is) = InitSize
        BY <1>1, <3>1, FunctionIsSequence
      <3> DEFINE N == InitSize
                 S == Range(is)
      <3>3. is \in Seq(S) /\ Len(is) = N /\ N \in Nat /\ q \in 1 .. N
        BY <1>1, <3>2
      <3>4. is[q] = q - 1
        OBVIOUS
      <3> HIDE DEF N, S
      <3>5. Slice(is, 1, q) = <<is[q]>>
        BY <3>3, UnitSlice
      <3> QED
        BY <3>4, <3>5
    <2> QED
      BY <2>4, <2>5
  <1>3. RowsOf(hs, is, K + 1, 1, InitSize) = [q \in 1 .. InitSize |-> row(q)]
    BY DEF RowsOf
  <1>4. LeafRows(digest) = [q \in 1 .. InitSize |-> leafrow(q)]
    BY DEF LeafRows
  <1> HIDE DEF row, leafrow
  <1>5. [q \in 1 .. InitSize |-> row(q)] = [q \in 1 .. InitSize |-> leafrow(q)]
    BY <1>2, Zenon
  <1> QED
    BY <1>3, <1>4, <1>5

\* The steps of one worker, whichever pool it is of.
FillStep(wk) ==
  \/ /\ pc = "fill"
     /\ chunk[wk] = Idle
     /\ \E leaf \in todo :
          chunk' = [chunk EXCEPT ![wk] = leaf] /\ todo' = todo \ {leaf}
     /\ UNCHANGED hashes
  \/ /\ chunk[wk] # Idle
     /\ hashes' = [c \in DOMAIN hashes |->
          IF c - chunk[wk] * hstride \in 1 .. hstride
            THEN LeafRow(digest, chunk[wk])[c - chunk[wk] * hstride] ELSE hashes[c]]
     /\ chunk' = [chunk EXCEPT ![wk] = Idle]
     /\ UNCHANGED todo

\* A worker's step keeps the invariant: what it held it has written.
LEMMA FillStepKeeps ==
  ASSUME FlatInv, Flat, pc = "fill", NEW wk \in Pool, FillStep(wk),
         UNCHANGED <<backend, digest, pc, round, idxs, hstride, icount, nrows>>
  PROVE  FlatInv'
  <1>1. /\ round = 1 /\ hstride = K + 2 - round /\ nrows = InitSize
        /\ todo \subseteq Leaf
        /\ hashes = [c \in 1 .. nrows * hstride |-> hashes[c]]
        /\ chunk \in [Pool -> Leaf \cup {Idle}]
        /\ \A leaf \in Leaf :
             leaf \in todo \/ (\E v \in Pool : chunk[v] = leaf) \/ Filled(hashes, leaf)
    BY DEF FlatInv
  <1>2. hstride = K + 1 /\ K \in Nat
    BY <1>1, KAssumption
  <1>3. Idle \notin Leaf
    BY ThreadsAssumption
  <1>4. Pool' = Pool
    BY DEF Pool
  <1>5. /\ hashes' = [c \in 1 .. nrows * hstride |-> hashes'[c]]
        /\ todo' \subseteq Leaf
        /\ chunk' \in [Pool -> Leaf \cup {Idle}]
        /\ \A leaf \in Leaf :
             leaf \in todo' \/ (\E v \in Pool : chunk'[v] = leaf) \/ Filled(hashes', leaf)
    <2>1. CASE /\ chunk[wk] = Idle
               /\ \E leaf \in todo :
                    chunk' = [chunk EXCEPT ![wk] = leaf] /\ todo' = todo \ {leaf}
               /\ UNCHANGED hashes
      <3>1. PICK l \in todo : chunk' = [chunk EXCEPT ![wk] = l] /\ todo' = todo \ {l}
        BY <2>1
      <3>2. chunk' \in [Pool -> Leaf \cup {Idle}] /\ chunk'[wk] = l
        BY <1>1, <3>1
      <3>3. ASSUME NEW leaf \in Leaf
            PROVE  leaf \in todo' \/ (\E v \in Pool : chunk'[v] = leaf) \/ Filled(hashes', leaf)
        <4>1. CASE leaf \in todo
          BY <3>1, <3>2, <4>1
        <4>2. CASE \E v \in Pool : chunk[v] = leaf
          <5>1. PICK v \in Pool : chunk[v] = leaf
            BY <4>2
          <5>2. v # wk
            BY <1>3, <2>1, <5>1
          <5>3. chunk'[v] = leaf
            BY <1>1, <3>1, <5>1, <5>2
          <5> QED
            BY <5>3
        <4>3. CASE Filled(hashes, leaf)
          <5>1. hashes' = hashes
            BY <2>1
          <5>2. Filled(hashes', leaf)
            BY <4>3, <5>1
          <5> QED
            BY <5>2
        <4> QED
          BY <1>1, <4>1, <4>2, <4>3
      <3>4. hashes' = [c \in 1 .. nrows * hstride |-> hashes'[c]]
        BY <1>1, <2>1
      <3> QED
        BY <1>1, <3>1, <3>2, <3>3, <3>4
    <2>2. CASE /\ chunk[wk] # Idle
               /\ hashes' = [c \in DOMAIN hashes |->
                    IF c - chunk[wk] * hstride \in 1 .. hstride
                      THEN LeafRow(digest, chunk[wk])[c - chunk[wk] * hstride] ELSE hashes[c]]
               /\ chunk' = [chunk EXCEPT ![wk] = Idle]
               /\ UNCHANGED todo
      <3> DEFINE l == chunk[wk]
                 w == K + 1
                 N == InitSize * w
      <3>1. l \in Leaf /\ w \in Nat \ {0} /\ hstride = w /\ DOMAIN hashes = 1 .. N
        BY <1>1, <1>2, <2>2
      <3>2. l \in Nat /\ InitSize \in Nat /\ Leaf \subseteq Nat
        BY <3>1, InitSizeType DEF Leaf
      <3>3. chunk' \in [Pool -> Leaf \cup {Idle}] /\ \A v \in Pool : v # wk => chunk'[v] = chunk[v]
        BY <1>1, <2>2
      <3>4. hashes' = [c \in 1 .. N |->
                IF c - l * w \in 1 .. w THEN LeafRow(digest, l)[c - l * w] ELSE hashes[c]]
        BY <2>2, <3>1
      <3>5. ASSUME NEW leaf \in Leaf, NEW s \in 1 .. w
            PROVE  leaf * w + s \in 1 .. N
        <4> DEFINE q == leaf + 1
        <4>1. q \in 1 .. InitSize /\ q - 1 = leaf
          BY <3>2 DEF Leaf
        <4> HIDE DEF q, w
        <4>2. (q - 1) * w + s \in 1 .. InitSize * w
          BY <3>1, <3>2, <4>1, CellJoin
        <4> QED
          BY <4>1, <4>2
      <3>6. Filled(hashes', l)
        <4> SUFFICES ASSUME NEW s \in 1 .. w
                     PROVE  hashes'[l * w + s] = LeafRow(digest, l)[s]
          BY DEF Filled
        <4> DEFINE c == l * w + s
        <4>1. c \in 1 .. N
          BY <3>1, <3>5
        <4>2. c - l * w = s
          <5> DEFINE lw == l * w
          <5>1. lw \in Nat
            BY <3>1, <3>2
          <5> HIDE DEF lw
          <5>2. (lw + s) - lw = s
            BY <3>1, <5>1
          <5> QED
            BY <5>2 DEF lw
        <4> HIDE DEF c, N, l, w
        <4>3. hashes'[c] = IF c - l * w \in 1 .. w THEN LeafRow(digest, l)[c - l * w] ELSE hashes[c]
          BY <3>4, <4>1
        <4>4. hashes'[c] = LeafRow(digest, l)[s]
          BY <4>2, <4>3
        <4> QED
          BY <4>4 DEF c
      <3>7. ASSUME NEW leaf \in Leaf, leaf # l, Filled(hashes, leaf)
            PROVE  Filled(hashes', leaf)
        <4> SUFFICES ASSUME NEW s \in 1 .. w
                     PROVE  hashes'[leaf * w + s] = LeafRow(digest, leaf)[s]
          BY DEF Filled
        <4> DEFINE c == leaf * w + s
        <4>1. c \in 1 .. N
          BY <3>5
        <4>2. c - l * w \notin 1 .. w
          <5> HIDE DEF l, w
          <5> QED
            BY <3>1, <3>2, <3>7, CellsApart
        <4>3. hashes[c] = LeafRow(digest, leaf)[s]
          BY <3>7 DEF Filled
        <4> HIDE DEF c, N, l, w
        <4>4. hashes'[c] = IF c - l * w \in 1 .. w THEN LeafRow(digest, l)[c - l * w] ELSE hashes[c]
          BY <3>4, <4>1
        <4>5. hashes'[c] = LeafRow(digest, leaf)[s]
          BY <4>2, <4>3, <4>4
        <4> QED
          BY <4>5 DEF c
      <3>8. ASSUME NEW leaf \in Leaf
            PROVE  leaf \in todo' \/ (\E v \in Pool : chunk'[v] = leaf) \/ Filled(hashes', leaf)
        <4>1. CASE leaf = l
          BY <3>6, <4>1
        <4>2. CASE leaf # l /\ \E v \in Pool : chunk[v] = leaf
          BY <3>3, <4>2
        <4>3. CASE leaf # l /\ Filled(hashes, leaf)
          BY <3>7, <4>3
        <4>4. CASE leaf \in todo
          BY <2>2, <4>4
        <4> QED
          BY <1>1, <4>1, <4>2, <4>3, <4>4
      <3>9. hashes' = [c \in 1 .. nrows * hstride |-> hashes'[c]]
        <4>1. hashes' = [c \in 1 .. N |-> hashes'[c]]
          <5> HIDE DEF N, l, w
          <5> QED
            BY <3>4
        <4>2. nrows * hstride = N
          BY <1>1, <3>1
        <4> QED
          BY <4>1, <4>2
      <3>10. todo' \subseteq Leaf
        BY <1>1, <2>2
      <3> QED
        BY <3>3, <3>8, <3>9, <3>10
    <2> QED
      BY <2>1, <2>2 DEF FillStep
  <1>6. UNCHANGED <<pc, round, hstride, icount, nrows, idxs, digest>>
    OBVIOUS
  <1>7. /\ pc' \in {"fill", "merge", "done"}
        /\ round' \in 1 .. K + 1
        /\ hstride' = K + 2 - round'
        /\ icount' = 2^(round' - 1)
        /\ nrows' \in Nat
        /\ idxs' = [c \in 1 .. nrows' * icount' |-> idxs'[c]]
    BY <1>6 DEF FlatInv
  <1>8. hashes' = [c \in 1 .. nrows' * hstride' |-> hashes'[c]]
    BY <1>5
  <1>9. \A leaf \in Leaf : Filled(hashes', leaf) => Filled(hashes, leaf)'
    BY <1>6 DEF Filled
  <1>10. /\ round' = 1 /\ nrows' = InitSize /\ todo' \subseteq Leaf /\ pc' = "fill"
         /\ chunk' \in [Pool' -> Leaf \cup {Idle}]
         /\ \A leaf \in Leaf :
              leaf \in todo' \/ (\E v \in Pool' : chunk'[v] = leaf) \/ Filled(hashes, leaf)'
    BY <1>1, <1>4, <1>5, <1>6, <1>9
  <1> QED
    BY <1>7, <1>8, <1>10 DEF FlatInv

\* The rows of a list written one after another into two flat buffers.
PackedHashes(list, width) ==
  [c \in 1 .. Len(list) * width |-> list[CellRow(c, width)].h[CellPlace(c, width)]]

\* The vectors go into the second.
PackedIdxs(list, count) ==
  [c \in 1 .. Len(list) * count |-> list[CellRow(c, count)].idx[CellPlace(c, count)]]

\* Rows that all have the widths of round r.
Widths(list, r, width, count) ==
  /\ list \in Seq(RowAt(r))
  /\ width \in Nat \ {0} /\ width = K + 2 - r
  /\ count \in Nat \ {0}
  /\ \A p \in DOMAIN list : Len(list[p].idx) = count

\* Reading the buffers back gives the list.
LEMMA PackedRows ==
  ASSUME NEW r, NEW list, NEW width, NEW count, Widths(list, r, width, count)
  PROVE  RowsOf(PackedHashes(list, width), PackedIdxs(list, count), width, count, Len(list)) = list
  <1> DEFINE n == Len(list)
             hs == PackedHashes(list, width)
             is == PackedIdxs(list, count)
             row(q) == [h |-> [s \in 1 .. width |-> hs[(q - 1) * width + s]], idx |-> Slice(is, count, q)]
  <1>1. /\ list \in Seq(RowAt(r)) /\ width = K + 2 - r
        /\ width \in Nat \ {0} /\ count \in Nat \ {0}
        /\ \A p \in DOMAIN list : Len(list[p].idx) = count
    BY DEF Widths
  <1>2. n \in Nat /\ DOMAIN list = 1 .. n /\ list = [q \in 1 .. n |-> list[q]]
    BY <1>1, LenProperties
  <1>3. ASSUME NEW q \in 1 .. n
        PROVE  list[q] = [h |-> list[q].h, idx |-> list[q].idx] /\ list[q].idx \in Seq(Leaf)
               /\ list[q].h \in [1 .. width -> Segment]
    <2>1. list[q] \in RowAt(r)
      BY <1>1, <1>2
    <2> QED
      BY <1>1, <2>1 DEF RowAt
  <1>4. ASSUME NEW q \in 1 .. n, NEW s \in 1 .. width
        PROVE  hs[(q - 1) * width + s] = list[q].h[s]
    <2> DEFINE c == (q - 1) * width + s
    <2>0. width \in Nat \ {0} /\ n \in Nat
      BY <1>1, <1>2
    <2>1. c \in 1 .. n * width /\ CellRow(c, width) = q /\ CellPlace(c, width) = s
      <3> HIDE DEF n
      <3> QED
        BY <2>0, CellJoin
    <2> HIDE DEF c
    <2>2. hs[c] = list[q].h[s]
      BY <2>1 DEF PackedHashes
    <2> QED
      BY <2>2 DEF c
  <1>5. ASSUME NEW q \in 1 .. n, NEW s \in 1 .. count
        PROVE  is[(q - 1) * count + s] = list[q].idx[s]
    <2> DEFINE c == (q - 1) * count + s
    <2>0. count \in Nat \ {0} /\ n \in Nat
      BY <1>1, <1>2
    <2>1. c \in 1 .. n * count /\ CellRow(c, count) = q /\ CellPlace(c, count) = s
      <3> HIDE DEF n
      <3> QED
        BY <2>0, CellJoin
    <2> HIDE DEF c
    <2>2. is[c] = list[q].idx[s]
      BY <2>1 DEF PackedIdxs
    <2> QED
      BY <2>2 DEF c
  <1>6. Holds(is, Leaf, n, count)
    <2> DEFINE N == n * count
    <2>1. N \in Nat
      BY <1>1, <1>2
    <2>2. ASSUME NEW c \in 1 .. N
          PROVE  is[c] \in Leaf
      <3>1. CellRow(c, count) \in 1 .. n /\ CellPlace(c, count) \in 1 .. count
        BY <1>1, <1>2, CellSplit
      <3>2. is[c] = list[CellRow(c, count)].idx[CellPlace(c, count)]
        BY DEF PackedIdxs
      <3> HIDE DEF is, n
      <3> DEFINE v == list[CellRow(c, count)].idx
      <3>3. v \in Seq(Leaf) /\ Len(v) = count
        BY <1>1, <1>2, <1>3, <3>1
      <3> HIDE DEF v
      <3>4. v[CellPlace(c, count)] \in Leaf
        BY <3>1, <3>3
      <3> QED
        BY <3>2, <3>4 DEF v
    <2>3. is = [c \in 1 .. N |-> is[c]]
      BY DEF PackedIdxs
    <2> HIDE DEF is, N
    <2>4. is \in [1 .. N -> Leaf]
      BY <2>2, <2>3
    <2>5. is \in Seq(Leaf) /\ Len(is) = N
      BY <2>1, <2>4
    <2> QED
      BY <2>5 DEF Holds, N
  <1> HIDE DEF hs, is, n
  <1>7. ASSUME NEW q \in 1 .. n
        PROVE  row(q) = list[q]
    <2> DEFINE slice == Slice(is, count, q)
               v == list[q].idx
               g == list[q].h
               e(s) == hs[(q - 1) * width + s]
    <2>1. /\ slice \in Seq(Leaf) /\ Len(slice) = count
          /\ \A i \in 1 .. count : slice[i] = is[(q - 1) * count + i]
      BY <1>1, <1>2, <1>6, SliceProperties
    <2>2. v \in Seq(Leaf) /\ Len(v) = count /\ \A i \in 1 .. count : is[(q - 1) * count + i] = v[i]
      BY <1>1, <1>2, <1>3, <1>5
    <2>3. g = [s \in 1 .. width |-> g[s]] /\ \A s \in 1 .. width : e(s) = g[s]
      BY <1>3, <1>4
    <2>4. list[q] = [h |-> g, idx |-> v]
      BY <1>3
    <2>5. row(q) = [h |-> [s \in 1 .. width |-> e(s)], idx |-> slice]
      OBVIOUS
    <2> HIDE DEF slice, v, g, e, row
    <2>6. slice = v
      BY <2>1, <2>2
    <2>7. [s \in 1 .. width |-> e(s)] = [s \in 1 .. width |-> g[s]]
      BY <2>3, Zenon
    <2> QED
      BY <2>3, <2>4, <2>5, <2>6, <2>7
  <1>8. RowsOf(hs, is, width, count, n) = [q \in 1 .. n |-> row(q)]
    BY DEF RowsOf
  <1> HIDE DEF row
  <1>9. [q \in 1 .. n |-> row(q)] = [q \in 1 .. n |-> list[q]]
    BY <1>7, Zenon
  <1> QED
    BY <1>2, <1>8, <1>9 DEF hs, is, n

\* A good list has the widths of its round.
LEMMA GoodWidths ==
  ASSUME NEW d, NEW r \in 1 .. K + 1, NEW list, GoodList(d, r, list)
  PROVE  Widths(list, r, K + 2 - r, 2^(r - 1))
  <1>1. list \in Seq(RowAt(r))
    BY DEF GoodList
  <1>2. \A p \in DOMAIN list : Len(list[p].idx) = 2^(r - 1)
    BY DEF GoodList, GoodRow, IsXor
  <1>3. K + 2 - r \in Nat \ {0} /\ r - 1 \in Nat
    BY KAssumption
  <1>4. 2^(r - 1) \in Nat \ {0}
    BY <1>3, PowerOfTwoPositive
  <1> QED
    BY <1>1, <1>2, <1>3, <1>4 DEF Widths

\* Both instances of the arena solver take the same merge and the same roots.
LEMMA ArenaOperators ==
  /\ \A s, T : Arena!Kept(s, T) = Kept(s, T)
  /\ \A n : Arena!PairGrid(n) = PairGrid(n)
  /\ \A keys : Arena!StableOrder(keys) = StableOrder(keys)
  /\ \A v, w : Arena!SlicesDistinct(v, w) = SlicesDistinct(v, w)
  /\ \A v, w : Arena!Canonical(v, w) = Canonical(v, w)
  /\ \A s, t : Arena!SymDiff(s, t) = SymDiff(s, t)
  /\ \A f : Arena!IsInjective(f) = IsInjective(f)
  /\ \A d, leaf : Arena!LeafRow(d, leaf) = LeafRow(d, leaf)
  /\ Arena!Leaf = Leaf /\ Arena!InitSize = InitSize
  <1>1. \A s, T : Arena!Kept(s, T) = Kept(s, T)
    BY DEF Arena!Kept, Kept, Arena!Cardinality, Cardinality
  <1>2. \A n : Arena!PairGrid(n) = PairGrid(n)
    BY DEF Arena!PairGrid, PairGrid
  <1>3. \A keys : Arena!StableOrder(keys) = StableOrder(keys)
    BY DEF Arena!StableOrder, StableOrder, Arena!Cardinality, Cardinality,
           Arena!SegmentLess, SegmentLess, Arena!SymDiff, SymDiff
  <1>4. \A v, w : Arena!SlicesDistinct(v, w) = SlicesDistinct(v, w)
    BY DEF Arena!SlicesDistinct, SlicesDistinct, Arena!Range, Range
  <1>5. \A v, w : Arena!Canonical(v, w) = Canonical(v, w)
    BY DEF Arena!Canonical, Canonical, Arena!LexLess, LexLess
  <1>6. \A s, t : Arena!SymDiff(s, t) = SymDiff(s, t)
    BY DEF Arena!SymDiff, SymDiff
  <1>7. \A f : Arena!IsInjective(f) = IsInjective(f)
    BY DEF Arena!IsInjective, IsInjective
  <1>8. \A d, leaf : Arena!LeafRow(d, leaf) = LeafRow(d, leaf)
    BY DEF Arena!LeafRow, LeafRow, Arena!LeafKey, LeafKey
  <1>9. Arena!Leaf = Leaf /\ Arena!InitSize = InitSize
    BY DEF Arena!Leaf, Leaf, Arena!InitSize, InitSize
  <1> QED
    BY <1>1, <1>2, <1>3, <1>4, <1>5, <1>6, <1>7, <1>8, <1>9

\* The flat buffers hold the rows of a list.
Holding(list, r) ==
  /\ list = RowsOf(hashes, idxs, hstride, icount, nrows)
  /\ nrows \in Nat
  /\ Widths(list, r, hstride, icount)

\* Then a cell of the buffers is a segment of a row, and a slice its vector.
LEMMA HoldingProperties ==
  ASSUME NEW r, NEW list, Holding(list, r)
  PROVE  /\ Len(list) = nrows /\ DOMAIN list = 1 .. nrows
         /\ \A q \in 1 .. nrows :
              /\ list[q] \in RowAt(r)
              /\ list[q].idx = Arena!IndexSlice(q)
              /\ \A s \in 1 .. hstride : list[q].h[s] = Arena!Cell(q, s)
         /\ 1 \in 1 .. hstride
  <1>1. /\ list = RowsOf(hashes, idxs, hstride, icount, nrows) /\ nrows \in Nat
        /\ list \in Seq(RowAt(r)) /\ hstride \in Nat \ {0}
    BY DEF Holding, Widths
  <1>2. DOMAIN list = 1 .. nrows
    BY <1>1 DEF RowsOf
  <1>3. Len(list) = nrows
    BY <1>1, <1>2, LenProperties
  <1>4. ASSUME NEW q \in 1 .. nrows
        PROVE  /\ list[q] \in RowAt(r)
               /\ list[q].idx = Arena!IndexSlice(q)
               /\ \A s \in 1 .. hstride : list[q].h[s] = Arena!Cell(q, s)
    <2>1. list[q] \in RowAt(r)
      BY <1>1, <1>2
    <2>2. list[q] = [h |-> [s \in 1 .. hstride |-> hashes[(q - 1) * hstride + s]],
                     idx |-> Slice(idxs, icount, q)]
      BY <1>1 DEF RowsOf
    <2> DEFINE e(s) == hashes[(q - 1) * hstride + s]
               slice == Slice(idxs, icount, q)
    <2>3. slice = Arena!IndexSlice(q) /\ \A s \in 1 .. hstride : e(s) = Arena!Cell(q, s)
      BY DEF Arena!IndexSlice, Slice, Arena!Cell
    <2>4. list[q] = [h |-> [s \in 1 .. hstride |-> e(s)], idx |-> slice]
      BY <2>2
    <2> HIDE DEF e, slice
    <2>5. list[q].idx = slice /\ \A s \in 1 .. hstride : list[q].h[s] = e(s)
      BY <2>4
    <2> QED
      BY <2>1, <2>3, <2>5
  <1> QED
    BY <1>1, <1>2, <1>3, <1>4

\* The row ids are sorted and paired as the rows of the list are.
LEMMA FlatPairs ==
  ASSUME NEW r \in 1 .. K + 1, NEW list, Holding(list, r), Permutes(SortOrder(list), nrows)
  PROVE  Arena!RunPairs(Arena!Order) =
           [m \in DOMAIN EmittedPairs(list, SortOrder(list)) |->
              <<SortOrder(list)[EmittedPairs(list, SortOrder(list))[m][1]],
                SortOrder(list)[EmittedPairs(list, SortOrder(list))[m][2]]>>]
  <1> DEFINE N == 1 .. nrows
             order == SortOrder(list)
             pairs == EmittedPairs(list, order)
  <1>1. /\ Len(list) = nrows /\ DOMAIN list = N
        /\ \A q \in N :
              /\ list[q].idx = Arena!IndexSlice(q)
              /\ \A s \in 1 .. hstride : list[q].h[s] = Arena!Cell(q, s)
        /\ 1 \in 1 .. hstride
    BY HoldingProperties
  <1>2. Arena!Order = order
    <2> DEFINE f(q) == list[q].h[1]
               g(q) == Arena!Cell(q, 1)
    <2>1. \A q \in N : f(q) = g(q)
      BY <1>1
    <2>2. Arena!Order = StableOrder([q \in N |-> g(q)])
      BY ArenaOperators DEF Arena!Order
    <2>3. order = StableOrder([q \in N |-> f(q)])
      BY <1>1 DEF SortOrder
    <2> HIDE DEF f, g, N, order
    <2>4. [q \in N |-> f(q)] = [q \in N |-> g(q)]
      BY <2>1, Zenon
    <2> QED
      BY <2>2, <2>3, <2>4
  <1>3. /\ order \in [N -> N] /\ nrows \in Nat
    BY DEF Permutes, Holding
  <1> HIDE DEF order
  <1>4. DOMAIN order = N /\ Len(order) = nrows
    <2>1. order \in Seq(N)
      BY <1>3
    <2> QED
      BY <1>3, <2>1, LenProperties
  <1> DEFINE T == {pq \in N \X N :
                     /\ pq[1] < pq[2]
                     /\ \A t \in pq[1] .. pq[2] : Arena!Cell(order[t], 1) = Arena!Cell(order[pq[1]], 1)
                     /\ SlicesDistinct(Arena!IndexSlice(order[pq[1]]), Arena!IndexSlice(order[pq[2]]))}
             U == {pq \in N \X N : Emits(list, order, pq[1], pq[2])}
  <1>5. T = U
    <2>1. ASSUME NEW p \in N, NEW q \in N
          PROVE  Emits(list, order, p, q) <=>
                   /\ p < q
                   /\ \A t \in p .. q : Arena!Cell(order[t], 1) = Arena!Cell(order[p], 1)
                   /\ SlicesDistinct(Arena!IndexSlice(order[p]), Arena!IndexSlice(order[q]))
      <3>1. \A t \in p .. q : t \in N /\ order[t] \in N
        BY <1>3
      <3>2. \A t \in p .. q : list[order[t]].h[1] = Arena!Cell(order[t], 1)
        BY <1>1, <3>1
      <3>3. order[p] \in N /\ order[q] \in N
        BY <1>3
      <3>4. list[order[p]].h[1] = Arena!Cell(order[p], 1)
            /\ list[order[p]].idx = Arena!IndexSlice(order[p])
            /\ list[order[q]].idx = Arena!IndexSlice(order[q])
        BY <1>1, <3>3
      <3> QED
        BY <3>2, <3>4 DEF Emits, SameRun
    <2> HIDE DEF N
    <2>2. \A pq \in N \X N : pq \in T <=> pq \in U
      <3> TAKE pq \in N \X N
      <3>1. pq[1] \in N /\ pq[2] \in N
        OBVIOUS
      <3> QED
        BY <2>1, <3>1
    <2> QED
      BY <2>2
  <1>6. pairs = Kept(PairGrid(nrows), U)
    <2> DEFINE V(l, D) == Kept(PairGrid(l), {pq \in D \X D : Emits(list, order, pq[1], pq[2])})
    <2>1. pairs = V(Len(order), DOMAIN order)
      BY DEF EmittedPairs
    <2>2. V(nrows, N) = Kept(PairGrid(nrows), U)
      OBVIOUS
    <2> HIDE DEF V, U, N, pairs
    <2> QED
      BY <1>4, <2>1, <2>2
  <1>7. Arena!RunPairs(order) = [m \in DOMAIN Kept(PairGrid(nrows), T) |->
          <<order[Kept(PairGrid(nrows), T)[m][1]], order[Kept(PairGrid(nrows), T)[m][2]]>>]
    <2> DEFINE P(k) == [m \in DOMAIN k |-> <<order[k[m][1]], order[k[m][2]]>>]
               A == {pq \in (1 .. nrows) \X (1 .. nrows) :
                     /\ pq[1] < pq[2]
                     /\ \A t \in pq[1] .. pq[2] : Arena!Cell(order[t], 1) = Arena!Cell(order[pq[1]], 1)
                     /\ Arena!SlicesDistinct(Arena!IndexSlice(order[pq[1]]), Arena!IndexSlice(order[pq[2]]))}
    <2>1. Arena!RunPairs(order) = P(Arena!Kept(Arena!PairGrid(nrows), A))
      BY DEF Arena!RunPairs
    <2>2. A = T
      BY ArenaOperators
    <2> HIDE DEF P, A, T
    <2>3. Arena!Kept(Arena!PairGrid(nrows), A) = Kept(PairGrid(nrows), T)
      BY <2>2, ArenaOperators
    <2>4. Arena!RunPairs(order) = P(Kept(PairGrid(nrows), T))
      BY <2>1, <2>3
    <2> QED
      BY <2>4 DEF P
  <1> HIDE DEF T, U
  <1>8. Arena!RunPairs(order) = [m \in DOMAIN pairs |-> <<order[pairs[m][1]], order[pairs[m][2]]>>]
    <2> HIDE DEF pairs
    <2> QED
      BY <1>5, <1>6, <1>7
  <1> QED
    BY <1>2, <1>8 DEF order

\* A round writes the next list into the buffers, row after row.
LEMMA FlatMerge ==
  ASSUME NEW d \in [Key -> Row], NEW r \in Rounds, NEW list, Holding(list, r), GoodList(d, r, list),
         icount = 2^(r - 1), Permutes(SortOrder(list), nrows), Arena!MergeRound
  PROVE  /\ RowsOf(hashes', idxs', hstride', icount', nrows') = Emitted(list, SortOrder(list))
         /\ hstride' = hstride - 1 /\ icount' = 2^r
         /\ nrows' \in Nat
         /\ hashes' = [c \in 1 .. nrows' * hstride' |-> hashes'[c]]
         /\ idxs' = [c \in 1 .. nrows' * icount' |-> idxs'[c]]
  <1> DEFINE order == SortOrder(list)
             pairs == EmittedPairs(list, order)
             out == Emitted(list, order)
             M == Len(pairs)
             N == 1 .. nrows
             w == hstride - 1
             n == 2 * icount
             ids == [m \in DOMAIN pairs |-> <<order[pairs[m][1]], order[pairs[m][2]]>>]
  <1>1. /\ Len(list) = nrows /\ DOMAIN list = N
        /\ \A q \in N :
              /\ list[q] \in RowAt(r)
              /\ list[q].idx = Arena!IndexSlice(q)
              /\ \A s \in 1 .. hstride : list[q].h[s] = Arena!Cell(q, s)
    BY HoldingProperties
  <1>2. list \in Seq(RowAt(r)) /\ hstride = K + 2 - r /\ icount \in Nat \ {0}
    BY DEF Holding, Widths
  <1>3. /\ M \in Nat /\ DOMAIN out = 1 .. M /\ DOMAIN pairs = 1 .. M
        /\ \A m \in 1 .. M : \E p, q \in N :
              /\ pairs[m] = <<p, q>>
              /\ order[p] \in N /\ order[q] \in N
              /\ out[m] = Merge(list[order[p]], list[order[q]])
              /\ Mergeable(list[order[p]], list[order[q]])
    BY <1>1, <1>2, EmittedProperties
  <1>4. w \in Nat \ {0} /\ w = K + 1 - r /\ w = K + 2 - (r + 1) /\ r + 1 \in 1 .. K + 1 /\ r \in Nat
        /\ K \in Nat /\ r + 1 - 1 = r /\ r \in 1 .. K + 1
    BY <1>2, KAssumption DEF Rounds
  <1>5. n = 2^r /\ n \in Nat \ {0}
    <2>1. r - 1 \in Nat /\ (r - 1) + 1 = r
      BY <1>4 DEF Rounds
    <2>2. 2^((r - 1) + 1) = 2 * 2^(r - 1)
      BY <2>1, PowerOfTwoDoubles
    <2> QED
      BY <1>2, <2>1, <2>2
  <1>6. GoodList(d, r + 1, out)
    BY <1>1, GoodListNext
  <1>7. Len(out) = M
    <2>1. out \in Seq(RowAt(r + 1))
      BY <1>6 DEF GoodList
    <2> HIDE DEF out, M
    <2> QED
      BY <1>3, <2>1, LenProperties
  <1>8. Arena!RunPairs(Arena!Order) = ids
    BY <1>4, FlatPairs
  <1>9. Len(ids) = M
    <2> HIDE DEF pairs, M, order
    <2>1. ids = [m \in 1 .. M |-> <<order[pairs[m][1]], order[pairs[m][2]]>>]
      BY <1>3
    <2>2. ids \in Seq(Range(ids)) /\ Len(ids) = M
      <3>1. ids = [m \in 1 .. M |-> ids[m]]
        BY <2>1
      <3> HIDE DEF ids
      <3> QED
        BY <1>3, <3>1, FunctionIsSequence
    <2> QED
      BY <2>2
  <1>10. ASSUME NEW m \in 1 .. M
         PROVE  /\ ids[m][1] \in N /\ ids[m][2] \in N
                /\ out[m] = Merge(list[ids[m][1]], list[ids[m][2]])
    <2>1. PICK p \in N, q \in N :
              /\ pairs[m] = <<p, q>>
              /\ order[p] \in N /\ order[q] \in N
              /\ out[m] = Merge(list[order[p]], list[order[q]])
      BY <1>3
    <2>2. pairs[m][1] = p /\ pairs[m][2] = q
      BY <2>1
    <2>3. ids[m] = <<order[p], order[q]>>
      <3> HIDE DEF pairs, order
      <3> QED
        BY <1>3, <2>2
    <2> QED
      BY <2>1, <2>3
  <1>11. /\ hashes' = [c \in 1 .. M * w |->
              SymDiff(Arena!Cell(ids[CellRow(c, w)][1], CellPlace(c, w) + 1),
                      Arena!Cell(ids[CellRow(c, w)][2], CellPlace(c, w) + 1))]
         /\ idxs' = [c \in 1 .. M * n |->
              Canonical(Arena!IndexSlice(ids[CellRow(c, n)][1]),
                        Arena!IndexSlice(ids[CellRow(c, n)][2]))[CellPlace(c, n)]]
         /\ hstride' = w /\ icount' = n
         /\ nrows' = Arena!RowCount(Len(hashes'), Len(idxs'))
    <2> DEFINE A == Arena!RunPairs(Arena!Order)
               H(P) == [c \in 1 .. Len(P) * w |->
                          SymDiff(Arena!Cell(P[CellRow(c, w)][1], CellPlace(c, w) + 1),
                                  Arena!Cell(P[CellRow(c, w)][2], CellPlace(c, w) + 1))]
               I(P) == [c \in 1 .. Len(P) * n |->
                          Canonical(Arena!IndexSlice(P[CellRow(c, n)][1]),
                                    Arena!IndexSlice(P[CellRow(c, n)][2]))[CellPlace(c, n)]]
    <2>1. hashes' = H(A)
      BY DEF Arena!MergeRound, CellRow, CellPlace, Arena!SymDiff, SymDiff
    <2>2. idxs' = I(A)
      BY DEF Arena!MergeRound, CellRow, CellPlace, Arena!Canonical, Canonical, Arena!LexLess, LexLess
    <2>3. hstride' = w /\ icount' = n
      BY DEF Arena!MergeRound
    <2>4. nrows' = Arena!RowCount(Len(hashes'), Len(idxs'))
      BY DEF Arena!MergeRound
    <2>5. H(ids) = [c \in 1 .. Len(ids) * w |->
              SymDiff(Arena!Cell(ids[CellRow(c, w)][1], CellPlace(c, w) + 1),
                      Arena!Cell(ids[CellRow(c, w)][2], CellPlace(c, w) + 1))]
      OBVIOUS
    <2>6. I(ids) = [c \in 1 .. Len(ids) * n |->
              Canonical(Arena!IndexSlice(ids[CellRow(c, n)][1]),
                        Arena!IndexSlice(ids[CellRow(c, n)][2]))[CellPlace(c, n)]]
      OBVIOUS
    <2> HIDE DEF A, H, I, ids, M, w, n
    <2>7. hashes' = H(ids) /\ idxs' = I(ids)
      BY <1>8, <2>1, <2>2 DEF A
    <2> QED
      BY <1>9, <2>3, <2>4, <2>5, <2>6, <2>7
  <1> HIDE DEF ids, pairs, order, out, M, w, n
  <1>12. hashes' = PackedHashes(out, w)
    <2> DEFINE e(c) == SymDiff(Arena!Cell(ids[CellRow(c, w)][1], CellPlace(c, w) + 1),
                               Arena!Cell(ids[CellRow(c, w)][2], CellPlace(c, w) + 1))
               f(c) == out[CellRow(c, w)].h[CellPlace(c, w)]
    <2>1. ASSUME NEW c \in 1 .. M * w
          PROVE  e(c) = f(c)
      <3> DEFINE m == CellRow(c, w)
                 s == CellPlace(c, w)
                 a == ids[m][1]
                 b == ids[m][2]
      <3>1. m \in 1 .. M /\ s \in 1 .. w
        BY <1>3, <1>4, CellSplit
      <3> HIDE DEF m, s
      <3>2. a \in N /\ b \in N /\ out[m] = Merge(list[a], list[b])
        BY <1>10, <3>1
      <3> HIDE DEF a, b
      <3>3. list[a] \in RowAt(r) /\ list[b] \in RowAt(r)
        BY <1>1, <3>2
      <3>4. s \in 1 .. K + 1 - r /\ s + 1 \in 1 .. hstride
        BY <1>2, <1>4, <3>1 DEF w
      <3>5. Merge(list[a], list[b]).h[s] = SymDiff(list[a].h[s + 1], list[b].h[s + 1])
        BY <3>3, <3>4, MergeType
      <3>6. list[a].h[s + 1] = Arena!Cell(a, s + 1) /\ list[b].h[s + 1] = Arena!Cell(b, s + 1)
        BY <1>1, <3>2, <3>4
      <3>7. out[m].h[s] = SymDiff(Arena!Cell(a, s + 1), Arena!Cell(b, s + 1))
        BY <3>2, <3>5, <3>6
      <3> QED
        BY <3>7 DEF m, s, a, b
    <2>2. hashes' = [c \in 1 .. M * w |-> e(c)]
      BY <1>11
    <2>3. PackedHashes(out, w) = [c \in 1 .. M * w |-> f(c)]
      BY <1>7 DEF PackedHashes
    <2> HIDE DEF e, f
    <2>4. [c \in 1 .. M * w |-> e(c)] = [c \in 1 .. M * w |-> f(c)]
      BY <2>1, Zenon
    <2> QED
      BY <2>2, <2>3, <2>4
  <1>13. idxs' = PackedIdxs(out, n)
    <2> DEFINE e(c) == Canonical(Arena!IndexSlice(ids[CellRow(c, n)][1]),
                                 Arena!IndexSlice(ids[CellRow(c, n)][2]))[CellPlace(c, n)]
               f(c) == out[CellRow(c, n)].idx[CellPlace(c, n)]
    <2>1. ASSUME NEW c \in 1 .. M * n
          PROVE  e(c) = f(c)
      <3> DEFINE m == CellRow(c, n)
                 s == CellPlace(c, n)
                 a == ids[m][1]
                 b == ids[m][2]
      <3>1. m \in 1 .. M /\ s \in 1 .. n
        BY <1>3, <1>5, CellSplit
      <3> HIDE DEF m, s
      <3>2. a \in N /\ b \in N /\ out[m] = Merge(list[a], list[b])
        BY <1>10, <3>1
      <3> HIDE DEF a, b
      <3>3. out[m].idx = Canonical(list[a].idx, list[b].idx)
        BY <3>2 DEF Merge
      <3>4. list[a].idx = Arena!IndexSlice(a) /\ list[b].idx = Arena!IndexSlice(b)
        BY <1>1, <3>2
      <3>5. out[m].idx[s] = Canonical(Arena!IndexSlice(a), Arena!IndexSlice(b))[s]
        BY <3>3, <3>4
      <3> QED
        BY <3>5 DEF m, s, a, b
    <2>2. idxs' = [c \in 1 .. M * n |-> e(c)]
      BY <1>11
    <2>3. PackedIdxs(out, n) = [c \in 1 .. M * n |-> f(c)]
      BY <1>7 DEF PackedIdxs
    <2> HIDE DEF e, f
    <2>4. [c \in 1 .. M * n |-> e(c)] = [c \in 1 .. M * n |-> f(c)]
      BY <2>1, Zenon
    <2> QED
      BY <2>2, <2>3, <2>4
  <1>14. /\ hashes' = [c \in 1 .. M * w |-> hashes'[c]]
         /\ idxs' = [c \in 1 .. M * n |-> idxs'[c]]
    BY <1>7, <1>12, <1>13 DEF PackedHashes, PackedIdxs
  <1>15. nrows' = M
    <2> DEFINE len == M * w
    <2>1. len \in Nat /\ (len + 0) \div w = M
      <3>1. 0 \in 0 .. w - 1
        BY <1>4
      <3> QED
        BY <1>3, <1>4, <3>1, DivisionUnique
    <2>2. hashes' = [c \in 1 .. len |-> hashes'[c]]
      BY <1>14
    <2> HIDE DEF len
    <2>3. Len(hashes') = len
      <3> DEFINE g == hashes'
      <3>1. g = [c \in 1 .. len |-> g[c]]
        BY <2>2
      <3> HIDE DEF g
      <3>2. Len(g) = len
        BY <2>1, <3>1, FunctionIsSequence
      <3> QED
        BY <3>2 DEF g
    <2>4. nrows' = len \div w
      BY <1>4, <1>11, <2>3 DEF Arena!RowCount, w
    <2> QED
      BY <2>1, <2>4
  <1>16. Widths(out, r + 1, w, n)
    <2> DEFINE p == r + 1
    <2>1. p \in 1 .. K + 1 /\ GoodList(d, p, out) /\ K + 2 - p = w /\ p - 1 = r
      BY <1>4, <1>6
    <2> HIDE DEF p
    <2>2. Widths(out, p, K + 2 - p, 2^(p - 1))
      BY <2>1, GoodWidths
    <2> QED
      BY <1>5, <2>1, <2>2 DEF p
  <1>17. RowsOf(PackedHashes(out, w), PackedIdxs(out, n), w, n, M) = out
    <2> DEFINE p == r + 1
    <2>1. Widths(out, p, w, n)
      BY <1>16
    <2> HIDE DEF p
    <2> QED
      BY <1>7, <2>1, PackedRows
  <1> QED
    BY <1>3, <1>5, <1>11, <1>12, <1>13, <1>14, <1>15, <1>17 DEF w, out, order

\* The zero rows of the buffers are those of the list.
LEMMA FlatRoots ==
  ASSUME NEW r, NEW list, Holding(list, r), Arena!Collect
  PROVE  sols' = RootVectors(list)
  <1> DEFINE N == 1 .. nrows
             id == [q \in N |-> q]
             T == {q \in N : /\ \A s \in 1 .. hstride : Arena!Cell(q, s) = {}
                             /\ IsInjective(Arena!IndexSlice(q))}
             U == {q \in N : IsZero(list[q].h) /\ IsInjective(list[q].idx)}
             roots == Kept(id, T)
  <1>1. /\ DOMAIN list = N
        /\ \A q \in N :
              /\ list[q] \in RowAt(r)
              /\ list[q].idx = Arena!IndexSlice(q)
              /\ \A s \in 1 .. hstride : list[q].h[s] = Arena!Cell(q, s)
    BY HoldingProperties
  <1>2. hstride = K + 2 - r /\ nrows \in Nat
    BY DEF Holding, Widths
  <1>3. T = U
    <2>1. ASSUME NEW q \in N
          PROVE  q \in T <=> q \in U
      <3>1. DOMAIN list[q].h = 1 .. hstride
        BY <1>1, <1>2 DEF RowAt
      <3>2. IsZero(list[q].h) <=> \A s \in 1 .. hstride : Arena!Cell(q, s) = {}
        BY <1>1, <3>1 DEF IsZero
      <3> QED
        BY <1>1, <3>2
    <2> HIDE DEF N
    <2> QED
      BY <2>1
  <1>4. sols' = [m \in DOMAIN roots |-> Arena!IndexSlice(roots[m])]
    <2> DEFINE P(k) == [m \in DOMAIN k |-> Arena!IndexSlice(k[m])]
               A == {q \in N : /\ \A s \in 1 .. hstride : Arena!Cell(q, s) = {}
                               /\ Arena!IsInjective(Arena!IndexSlice(q))}
    <2>1. sols' = P(Arena!Kept(id, A))
      BY DEF Arena!Collect
    <2>2. A = T
      BY ArenaOperators
    <2> HIDE DEF P, A, T, id
    <2>3. sols' = P(Kept(id, T))
      BY <2>1, <2>2, ArenaOperators
    <2> QED
      BY <2>3 DEF P
  <1>5. RootVectors(list) = [m \in DOMAIN roots |-> list[roots[m]].idx]
    <2> DEFINE P(k) == [m \in DOMAIN k |-> list[k[m]].idx]
               R(D) == Kept([q \in D |-> q], {q \in D : IsZero(list[q].h) /\ IsInjective(list[q].idx)})
    <2>1. RootVectors(list) = P(R(DOMAIN list))
      BY DEF RootVectors
    <2>2. R(N) = Kept(id, U)
      OBVIOUS
    <2> HIDE DEF P, R, T, U, N, id
    <2>3. RootVectors(list) = P(Kept(id, T))
      BY <1>1, <1>3, <2>1, <2>2
    <2> QED
      BY <2>3 DEF P
  <1>6. \A m \in DOMAIN roots : roots[m] \in N
    <2>1. id \in [N -> N]
      OBVIOUS
    <2>2. id \in Seq(N)
      BY <1>2, <2>1
    <2> HIDE DEF id, T, N
    <2>3. roots \in Seq(N)
      BY <2>2, KeptProperties
    <2> HIDE DEF roots
    <2> QED
      BY <2>3
  <1> DEFINE e(m) == Arena!IndexSlice(roots[m])
             f(m) == list[roots[m]].idx
  <1>7. \A m \in DOMAIN roots : e(m) = f(m)
    BY <1>1, <1>6
  <1>8. sols' = [m \in DOMAIN roots |-> e(m)]
    BY <1>4
  <1>9. RootVectors(list) = [m \in DOMAIN roots |-> f(m)]
    BY <1>5
  <1> HIDE DEF e, f, roots
  <1>10. [m \in DOMAIN roots |-> e(m)] = [m \in DOMAIN roots |-> f(m)]
    BY <1>7, Zenon
  <1> QED
    BY <1>8, <1>9, <1>10

\* The workers are done and the leaf ids are set.
JoinStep ==
  /\ pc = "fill"
  /\ todo = {}
  /\ \A wk \in Pool : chunk[wk] = Idle
  /\ pc' = "merge"
  /\ idxs' = [q \in 1 .. nrows |-> q - 1]
  /\ UNCHANGED <<digest, round, todo, chunk, hashes, hstride, icount, nrows, sols>>

\* Both backends take the same steps, each with its pool.
LEMMA FlatSteps ==
  ASSUME Next, Flat
  PROVE  /\ UNCHANGED backend
         /\ \/ /\ \E wk \in Pool : FillStep(wk)
               /\ UNCHANGED <<digest, pc, round, idxs, hstride, icount, nrows, sols>>
            \/ JoinStep
            \/ Arena!MergeRound
            \/ Arena!Collect
  <1>1. UNCHANGED backend
    BY DEF Next
  <1>2. CASE backend = "arena" /\ Arena!Next
    <2>1. Pool = {Main}
      BY <1>2 DEF Pool
    <2>2. CASE Arena!Join
      BY <1>1, <2>1, <2>2 DEF Arena!Join, JoinStep
    <2>3. ASSUME NEW wk \in {Main}, Arena!TakeChunk(wk) \/ Arena!FillChunk(wk)
          PROVE  FillStep(wk) /\ UNCHANGED <<digest, pc, round, idxs, hstride, icount, nrows, sols>>
      BY <2>3 DEF Arena!TakeChunk, Arena!FillChunk, FillStep, Arena!LeafRow, LeafRow,
                  Arena!LeafKey, LeafKey
    <2> QED
      BY <1>1, <1>2, <2>1, <2>2, <2>3 DEF Arena!Next, Arena!Fill
  <1>3. CASE backend = "parallel" /\ Parallel!Next
    <2>1. Pool = Worker
      BY <1>3 DEF Pool
    <2>2. CASE Parallel!Join
      BY <1>1, <2>1, <2>2 DEF Parallel!Join, JoinStep
    <2>3. ASSUME NEW wk \in Worker, Parallel!TakeChunk(wk) \/ Parallel!FillChunk(wk)
          PROVE  FillStep(wk) /\ UNCHANGED <<digest, pc, round, idxs, hstride, icount, nrows, sols>>
      BY <2>3 DEF Parallel!TakeChunk, Parallel!FillChunk, FillStep, Parallel!LeafRow, LeafRow,
                  Parallel!LeafKey, LeafKey
    <2>4. Parallel!MergeRound <=> Arena!MergeRound
      <3> DEFINE Same(P) ==
            /\ pc = "merge" /\ round <= K /\ nrows > 0
            /\ hashes' = [c \in 1 .. Len(P) * (hstride - 1) |->
                 SymDiff(Arena!Cell(P[((c - 1) \div (hstride - 1)) + 1][1],
                                    ((c - 1) % (hstride - 1)) + 1 + 1),
                         Arena!Cell(P[((c - 1) \div (hstride - 1)) + 1][2],
                                    ((c - 1) % (hstride - 1)) + 1 + 1))]
            /\ idxs' = [c \in 1 .. Len(P) * (2 * icount) |->
                 Canonical(Arena!IndexSlice(P[((c - 1) \div (2 * icount)) + 1][1]),
                           Arena!IndexSlice(P[((c - 1) \div (2 * icount)) + 1][2]))
                   [((c - 1) % (2 * icount)) + 1]]
            /\ hstride' = hstride - 1 /\ icount' = 2 * icount
            /\ nrows' = Arena!RowCount(Len(hashes'), Len(idxs'))
            /\ round' = round + 1
            /\ UNCHANGED <<digest, pc, todo, chunk, sols>>
      <3>1. Arena!MergeRound <=> Same(Arena!RunPairs(Arena!Order))
        BY DEF Arena!MergeRound, Arena!SymDiff, SymDiff, Arena!Canonical, Canonical,
               Arena!LexLess, LexLess
      <3>2. Parallel!MergeRound <=> Same(Parallel!RunPairs(Parallel!Order))
        BY DEF Parallel!MergeRound, Parallel!SymDiff, SymDiff, Parallel!Canonical, Canonical,
               Parallel!LexLess, LexLess, Parallel!Cell, Arena!Cell, Parallel!IndexSlice,
               Arena!IndexSlice, Parallel!RowCount, Arena!RowCount
      <3>3. Parallel!Order = Arena!Order
        BY DEF Parallel!Order, Arena!Order, Parallel!StableOrder, Arena!StableOrder,
               Parallel!Cell, Arena!Cell, Parallel!Cardinality, Arena!Cardinality,
               Parallel!SegmentLess, Arena!SegmentLess, Parallel!SymDiff, Arena!SymDiff
      <3>4. ASSUME NEW order
            PROVE  Parallel!RunPairs(order) = Arena!RunPairs(order)
        BY DEF Parallel!RunPairs, Arena!RunPairs, Parallel!Cell, Arena!Cell,
               Parallel!IndexSlice, Arena!IndexSlice, Parallel!Kept, Arena!Kept,
               Parallel!Cardinality, Arena!Cardinality,
               Parallel!PairGrid, Arena!PairGrid, Parallel!SlicesDistinct,
               Arena!SlicesDistinct, Parallel!Range, Arena!Range
      <3> HIDE DEF Same
      <3> QED
        BY <3>1, <3>2, <3>3, <3>4
    <2>5. Parallel!Collect <=> Arena!Collect
      BY DEF Parallel!Collect, Arena!Collect, Parallel!Kept, Arena!Kept,
             Parallel!Cardinality, Arena!Cardinality,
             Parallel!Cell, Arena!Cell, Parallel!IndexSlice, Arena!IndexSlice,
             Parallel!IsInjective, Arena!IsInjective
    <2> QED
      BY <1>1, <1>3, <2>1, <2>2, <2>3, <2>4, <2>5 DEF Parallel!Next, Parallel!Fill
  <1> QED
    BY <1>1, <1>2, <1>3 DEF Next, Flat

\* Every step of the flat backends is a step on the list, and keeps the buffers
\* in the shape of their round.
LEMMA FlatNext ==
  ASSUME ListInv, FlatInv, Next, Flat
  PROVE  FlatInv' /\ ListStep
  <1> DEFINE list == RowsOf(hashes, idxs, hstride, icount, nrows)
             list1 == RowsOf(hashes', idxs', hstride', icount', nrows')
  <1>1. /\ pc \in {"fill", "merge", "done"}
        /\ round \in 1 .. K + 1
        /\ hstride = K + 2 - round
        /\ icount = 2^(round - 1)
        /\ nrows \in Nat
        /\ hashes = [c \in 1 .. nrows * hstride |-> hashes[c]]
        /\ idxs = [c \in 1 .. nrows * icount |-> idxs[c]]
        /\ chunk \in [Pool -> Leaf \cup {Idle}]
        /\ pc # "fill" => \A wk \in Pool : chunk[wk] = Idle
        /\ pc = "fill" =>
             /\ round = 1
             /\ nrows = InitSize
             /\ \A leaf \in Leaf :
                  leaf \in todo \/ (\E wk \in Pool : chunk[wk] = leaf) \/ Filled(hashes, leaf)
    BY DEF FlatInv
  <1>2. /\ UNCHANGED backend
        /\ \/ /\ \E wk \in Pool : FillStep(wk)
              /\ UNCHANGED <<digest, pc, round, idxs, hstride, icount, nrows, sols>>
           \/ JoinStep
           \/ Arena!MergeRound
           \/ Arena!Collect
    BY FlatSteps
  <1>3. Pool' = Pool /\ Flat'
    BY <1>2 DEF Pool, Flat
  <1>4. /\ StandsFor = [pc    |-> IF pc = "fill" THEN "generate" ELSE pc,
                        round |-> round,
                        x     |-> IF pc = "fill" THEN << >> ELSE list]
        /\ StandsFor' = [pc    |-> IF pc' = "fill" THEN "generate" ELSE pc',
                         round |-> round',
                         x     |-> IF pc' = "fill" THEN << >> ELSE list1]
    <2>1. StandsFor = [pc    |-> IF pc = "fill" THEN "generate" ELSE pc,
                       round |-> round,
                       x     |-> IF pc = "fill" THEN << >> ELSE Arena!Unpacked]
      BY DEF StandsFor, Flat
    <2>2. StandsFor' = [pc    |-> IF pc' = "fill" THEN "generate" ELSE pc',
                        round |-> round',
                        x     |-> IF pc' = "fill" THEN << >> ELSE Arena!Unpacked']
      BY <1>2 DEF StandsFor, Flat
    <2> QED
      BY <2>1, <2>2, UnpackedIsRows
  <1>5. digest \in [Key -> Row]
    BY EngineType DEF ListInv
  <1>6. K \in Nat /\ K + 2 - 1 = K + 1 /\ 1 - 1 = 0 /\ 2^0 = 1
    BY KAssumption
  <1> HIDE DEF list, list1
  <1>7. CASE /\ \E wk \in Pool : FillStep(wk)
             /\ UNCHANGED <<digest, pc, round, idxs, hstride, icount, nrows, sols>>
    <2>1. PICK wk \in Pool : FillStep(wk)
      BY <1>7
    <2>2. pc = "fill"
      BY <1>1, <2>1 DEF FillStep
    <2>3. FlatInv'
      BY <1>2, <1>7, <2>1, <2>2, FillStepKeeps
    <2>4. IdleStep
      BY <1>4, <1>7, <2>2 DEF IdleStep
    <2> QED
      BY <1>2, <2>3, <2>4 DEF ListStep
  <1>8. CASE JoinStep
    <2>1. /\ pc = "fill" /\ todo = {} /\ \A wk \in Pool : chunk[wk] = Idle
          /\ pc' = "merge"
          /\ idxs' = [q \in 1 .. nrows |-> q - 1]
          /\ digest' = digest /\ round' = round /\ todo' = todo /\ chunk' = chunk
          /\ hashes' = hashes /\ hstride' = hstride /\ icount' = icount /\ nrows' = nrows
          /\ sols' = sols
      BY <1>8 DEF JoinStep
    <2>2. round = 1 /\ nrows = InitSize /\ hstride = K + 1 /\ icount = 1
      BY <1>1, <1>6, <2>1
    <2>3. \A leaf \in Leaf : Filled(hashes, leaf)
      <3> SUFFICES ASSUME NEW leaf \in Leaf
                   PROVE  Filled(hashes, leaf)
        OBVIOUS
      <3>1. leaf # Idle
        BY ThreadsAssumption
      <3> QED
        BY <1>1, <2>1, <3>1
    <2>4. list1 = LeafRows(digest)
      <3> DEFINE hs == hashes
                 is == idxs'
      <3>1. is = [q \in 1 .. InitSize |-> q - 1] /\ \A leaf \in Leaf : Filled(hs, leaf)
        BY <2>1, <2>2, <2>3
      <3>2. list1 = RowsOf(hs, is, K + 1, 1, InitSize)
        BY <2>1, <2>2 DEF list1
      <3> HIDE DEF hs, is
      <3> QED
        BY <1>5, <3>1, <3>2, FilledRows
    <2>5. GenerateStep
      BY <1>4, <2>1, <2>4 DEF GenerateStep
    <2>6. nrows * icount = nrows
      BY <1>1, <2>2
    <2>7. idxs' = [c \in 1 .. nrows' * icount' |-> idxs'[c]]
      BY <2>1, <2>6
    <2>8. hashes' = [c \in 1 .. nrows' * hstride' |-> hashes'[c]]
      BY <1>1, <2>1
    <2>9. FlatInv'
      BY <1>1, <1>3, <2>1, <2>7, <2>8 DEF FlatInv
    <2> QED
      BY <1>2, <2>5, <2>9 DEF ListStep
  <1>9. ASSUME pc = "merge"
        PROVE  /\ GoodList(digest, round, list) /\ Holding(list, round)
               /\ list = << >> <=> nrows = 0
               /\ Scans(list, SortOrder(list)) /\ Permutes(SortOrder(list), nrows)
    <2>1. GoodList(digest, round, list)
      BY <1>4, <1>9 DEF ListInv
    <2>2. Widths(list, round, hstride, icount)
      BY <1>1, <2>1, GoodWidths
    <2>3. Holding(list, round)
      BY <1>1, <2>2 DEF Holding, list
    <2>4. Len(list) = nrows
      BY <2>3, HoldingProperties
    <2>5. list = << >> <=> nrows = 0
      <3>1. list \in Seq(RowAt(round))
        BY <2>2 DEF Widths
      <3> QED
        BY <2>4, <3>1
    <2>6. Scans(list, SortOrder(list))
      BY <1>1, <2>1, SortOrderScans
    <2> QED
      BY <2>1, <2>3, <2>4, <2>5, <2>6 DEF Scans
  <1>10. CASE Arena!MergeRound
    <2>1. /\ pc = "merge" /\ round <= K /\ nrows > 0 /\ round' = round + 1
          /\ digest' = digest /\ pc' = pc /\ chunk' = chunk /\ sols' = sols
      BY <1>10 DEF Arena!MergeRound
    <2>2. round \in Rounds
      BY <1>1, <1>6, <2>1 DEF Rounds
    <2>3. /\ list1 = Emitted(list, SortOrder(list))
          /\ hstride' = hstride - 1 /\ icount' = 2^round
          /\ nrows' \in Nat
          /\ hashes' = [c \in 1 .. nrows' * hstride' |-> hashes'[c]]
          /\ idxs' = [c \in 1 .. nrows' * icount' |-> idxs'[c]]
      BY <1>1, <1>5, <1>9, <1>10, <2>1, <2>2, FlatMerge DEF list1
    <2>4. round' \in 1 .. K + 1 /\ round' - 1 = round /\ hstride' = K + 2 - round'
      <3>1. round \in 1 .. K + 1 /\ round <= K /\ round' = round + 1
            /\ hstride = K + 2 - round /\ hstride' = hstride - 1 /\ K \in Nat
        BY <1>1, <1>6, <2>1, <2>3
      <3> QED
        BY <3>1
    <2>5. FlatInv'
      BY <1>1, <1>3, <2>1, <2>3, <2>4 DEF FlatInv
    <2>6. list # << >>
      BY <1>1, <1>9, <2>1
    <2>7. RoundStep
      BY <1>4, <1>9, <2>1, <2>3, <2>6 DEF RoundStep
    <2> QED
      BY <1>2, <2>5, <2>7 DEF ListStep
  <1>11. CASE Arena!Collect
    <2>1. /\ pc = "merge"
          /\ round > K \/ nrows = 0
          /\ pc' = "done"
          /\ digest' = digest /\ round' = round /\ chunk' = chunk /\ hashes' = hashes
          /\ idxs' = idxs /\ hstride' = hstride /\ icount' = icount /\ nrows' = nrows
      BY <1>11 DEF Arena!Collect
    <2>2. list1 = list
      BY <2>1 DEF list, list1
    <2>3. sols' = RootVectors(list)
      BY <1>9, <1>11, <2>1, FlatRoots
    <2>4. CollectStep
      BY <1>4, <1>9, <2>1, <2>2, <2>3 DEF CollectStep
    <2>5. FlatInv'
      BY <1>1, <1>3, <2>1 DEF FlatInv
    <2> QED
      BY <1>2, <2>4, <2>5 DEF ListStep
  <1> QED
    BY <1>2, <1>7, <1>8, <1>10, <1>11
-----------------------------------------------------------------------------
(* The backend that keeps pointers.                                        *)

\* It shares the operators on lists too.
LEMMA PointerOperators ==
  /\ \A list, order : Pointer!EmittedPairs(list, order) = EmittedPairs(list, order)
  /\ \A list : Pointer!SortOrder(list) = SortOrder(list)
  /\ \A list : Pointer!RootVectors(list) = RootVectors(list)
  /\ \A d, leaf : Pointer!LeafRow(d, leaf) = LeafRow(d, leaf)
  /\ \A v, w : Pointer!LexLess(v, w) = LexLess(v, w)
  /\ \A g, h : Pointer!Xor(g, h) = Xor(g, h)
  /\ Pointer!InitSize = InitSize
  <1>1. ASSUME NEW list, NEW order
        PROVE  Pointer!EmittedPairs(list, order) = EmittedPairs(list, order)
    BY DEF Pointer!EmittedPairs, EmittedPairs, Pointer!PairGrid, PairGrid, Pointer!Kept, Kept,
           Pointer!Cardinality, Cardinality,
           Pointer!Emits, Emits, Pointer!SameRun, SameRun,
           Pointer!SlicesDistinct, SlicesDistinct, Pointer!Range, Range
  <1>2. ASSUME NEW list
        PROVE  Pointer!SortOrder(list) = SortOrder(list)
    BY DEF Pointer!SortOrder, SortOrder, Pointer!StableOrder, StableOrder,
           Pointer!Cardinality, Cardinality, Pointer!SegmentLess, SegmentLess,
           Pointer!SymDiff, SymDiff
  <1>3. ASSUME NEW list
        PROVE  Pointer!RootVectors(list) = RootVectors(list)
    BY DEF Pointer!RootVectors, RootVectors, Pointer!Kept, Kept,
           Pointer!Cardinality, Cardinality, Pointer!IsZero, IsZero,
           Pointer!IsInjective, IsInjective
  <1>4. \A d, leaf : Pointer!LeafRow(d, leaf) = LeafRow(d, leaf)
    BY DEF Pointer!LeafRow, LeafRow, Pointer!LeafKey, LeafKey
  <1>5. ASSUME NEW v, NEW w
        PROVE  Pointer!LexLess(v, w) = LexLess(v, w)
    BY DEF Pointer!LexLess, LexLess
  <1>6. \A g, h : Pointer!Xor(g, h) = Xor(g, h)
    BY DEF Pointer!Xor, Xor, Pointer!SymDiff, SymDiff
  <1>7. Pointer!InitSize = InitSize
    BY DEF Pointer!InitSize, InitSize
  <1> QED
    BY <1>1, <1>2, <1>3, <1>4, <1>5, <1>6, <1>7

\* Two vectors as they are joined at a node.
Joined(left, right) == IF LexLess(right, left) THEN right \o left ELSE left \o right

\* One step of the recursion of Vectors.
VectorStep(lists, g, r) ==
  [p \in DOMAIN lists[r] |->
     IF r = 1 THEN lists[r][p].ptr
     ELSE Joined(g[r - 1][lists[r][p].ptr[1]], g[r - 1][lists[r][p].ptr[2]])]

\* The recursion of Vectors has a solution.
LEMMA VectorsExist ==
  ASSUME NEW lists, Len(lists) \in Nat
  PROVE  \E g : g = [r \in 1 .. Len(lists) |-> VectorStep(lists, g, r)]
  <1> DEFINE P(n) == \E g : g = [r \in 1 .. n |-> VectorStep(lists, g, r)]
             Bad == {n \in Nat : ~P(n)}
  <1>1. P(0)
    <2> DEFINE g == [r \in 1 .. 0 |-> {}]
    <2>1. \A r \in 1 .. 0 : g[r] = VectorStep(lists, g, r)
      OBVIOUS
    <2>2. g = [r \in 1 .. 0 |-> g[r]]
      OBVIOUS
    <2> HIDE DEF g
    <2>3. g = [r \in 1 .. 0 |-> VectorStep(lists, g, r)]
      BY <2>1, <2>2, Zenon
    <2> QED
      BY <2>3, Zenon
  <1>2. ASSUME NEW n \in Nat, P(n)
        PROVE  P(n + 1)
    <2>1. PICK g : g = [r \in 1 .. n |-> VectorStep(lists, g, r)]
      BY <1>2, Zenon
    <2> DEFINE f == [r \in 1 .. n + 1 |-> IF r = n + 1 THEN VectorStep(lists, g, r) ELSE g[r]]
    <2>2. ASSUME NEW r \in 1 .. n + 1
          PROVE  f[r] = VectorStep(lists, f, r)
      <3>1. f[r] = VectorStep(lists, g, r)
        <4>1. CASE r = n + 1
          BY <4>1
        <4>2. CASE r # n + 1
          <5>1. r \in 1 .. n
            BY <4>2
          <5>2. g[r] = VectorStep(lists, g, r)
            BY <2>1, <5>1
          <5> QED
            BY <4>2, <5>2
        <4> QED
          BY <4>1, <4>2
      <3>2. CASE r = 1
        <4>1. VectorStep(lists, f, r) = [p \in DOMAIN lists[r] |-> lists[r][p].ptr]
          <5> HIDE DEF f
          <5> QED
            BY <3>2 DEF VectorStep
        <4>2. VectorStep(lists, g, r) = [p \in DOMAIN lists[r] |-> lists[r][p].ptr]
          BY <3>2 DEF VectorStep
        <4> QED
          BY <3>1, <4>1, <4>2
      <3>3. CASE r # 1
        <4>1. r - 1 \in 1 .. n + 1 /\ r - 1 # n + 1
          BY <3>3
        <4>2. f[r - 1] = g[r - 1]
          BY <4>1
        <4> HIDE DEF f
        <4>3. VectorStep(lists, f, r) = VectorStep(lists, g, r)
          BY <4>2 DEF VectorStep
        <4> QED
          BY <3>1, <4>3
      <3> QED
        BY <3>2, <3>3
    <2> HIDE DEF f
    <2>3. f = [r \in 1 .. n + 1 |-> f[r]]
      BY DEF f
    <2>4. f = [r \in 1 .. n + 1 |-> VectorStep(lists, f, r)]
      BY <2>2, <2>3, Zenon
    <2> QED
      BY <2>4, Zenon
  <1> HIDE DEF P
  <1>3. Bad = {}
    <2> SUFFICES ASSUME Bad # {}
                 PROVE  FALSE
      OBVIOUS
    <2>0. Bad \in SUBSET Nat
      OBVIOUS
    <2>1. PICK n \in Bad : \A m \in Bad : n <= m
      BY <2>0, LeastNatural
    <2>2. n # 0 /\ n - 1 \in Nat /\ n - 1 + 1 = n
      BY <1>1, <2>1
    <2>3. P(n - 1)
      BY <2>1, <2>2
    <2>4. P(n - 1 + 1)
      BY <1>2, <2>2, <2>3
    <2> QED
      BY <2>1, <2>2, <2>4
  <1>4. P(Len(lists))
    BY <1>3
  <1> QED
    BY <1>4, Zenon DEF P

\* Vectors is that solution.
LEMMA VectorsSteps ==
  ASSUME NEW lists, Len(lists) \in Nat, NEW r \in 1 .. Len(lists)
  PROVE  Pointer!Vectors(lists)[r] = VectorStep(lists, Pointer!Vectors(lists), r)
  <1> DEFINE v == CHOOSE g : g = [i \in 1 .. Len(lists) |-> VectorStep(lists, g, i)]
  <1>1. v = [i \in 1 .. Len(lists) |-> VectorStep(lists, v, i)]
    BY VectorsExist, Zenon
  <1>2. Pointer!Vectors(lists) = v
    <2>1. \A left, right : Pointer!LexLess(right, left) = LexLess(right, left)
      BY PointerOperators
    <2> QED
      BY Zenon DEF Pointer!Vectors, VectorStep, Joined, Pointer!LexLess, LexLess
  <1> HIDE DEF v
  <1>3. v[r] = VectorStep(lists, v, r)
    BY <1>1
  <1> QED
    BY <1>2, <1>3

\* Two histories with the same first lists.
Agree(a, b, n) ==
  /\ Len(a) \in Nat /\ Len(b) \in Nat
  /\ n <= Len(a) /\ n <= Len(b)
  /\ \A r \in 1 .. n : a[r] = b[r]

\* The vectors of a list depend on it and the lists before it.
LEMMA VectorsPrefix ==
  ASSUME NEW n \in Nat, NEW a, NEW b, Agree(a, b, n)
  PROVE  \A r \in 1 .. n : Pointer!Vectors(a)[r] = Pointer!Vectors(b)[r]
  <1> DEFINE v == Pointer!Vectors(a)
             w == Pointer!Vectors(b)
             Bad == {r \in 1 .. n : v[r] # w[r]}
  <1>0. /\ Len(a) \in Nat /\ Len(b) \in Nat
        /\ n <= Len(a) /\ n <= Len(b)
        /\ \A r \in 1 .. n : a[r] = b[r]
    BY DEF Agree
  <1>1. \A r \in 1 .. n : v[r] = VectorStep(a, v, r) /\ w[r] = VectorStep(b, w, r)
    BY <1>0, VectorsSteps
  <1> HIDE DEF v, w
  <1>2. Bad = {}
    <2> SUFFICES ASSUME Bad # {}
                 PROVE  FALSE
      OBVIOUS
    <2>0. Bad \in SUBSET Nat
      OBVIOUS
    <2>1. PICK r \in Bad : \A m \in Bad : r <= m
      BY <2>0, LeastNatural
    <2>2. r \in 1 .. n /\ a[r] = b[r]
      BY <1>0, <2>1
    <2>3. VectorStep(a, v, r) = VectorStep(b, w, r)
      <3>1. CASE r = 1
        <4>1. VectorStep(a, v, r) = [p \in DOMAIN a[r] |-> a[r][p].ptr]
          BY <3>1 DEF VectorStep
        <4>2. VectorStep(b, w, r) = [p \in DOMAIN b[r] |-> b[r][p].ptr]
          BY <3>1 DEF VectorStep
        <4> QED
          BY <2>2, <4>1, <4>2
      <3>2. CASE r # 1
        <4>1. r - 1 \in 1 .. n /\ ~(r <= r - 1)
          BY <2>2, <3>2
        <4>2. v[r - 1] = w[r - 1]
          BY <2>1, <4>1
        <4>3. VectorStep(b, w, r) = VectorStep(b, v, r)
          BY <4>2 DEF VectorStep
        <4>4. VectorStep(b, v, r) = VectorStep(a, v, r)
          BY <2>2 DEF VectorStep
        <4> QED
          BY <4>3, <4>4
      <3> QED
        BY <3>1, <3>2
    <2> QED
      BY <1>1, <2>1, <2>2, <2>3
  <1> QED
    BY <1>2 DEF v, w

\* One more list.
LEMMA AppendList ==
  ASSUME NEW lists, lists \in Seq(Range(lists)), NEW list
  PROVE  /\ Append(lists, list) \in Seq(Range(Append(lists, list)))
         /\ Len(lists) \in Nat
         /\ Len(Append(lists, list)) = Len(lists) + 1
         /\ \A r \in 1 .. Len(lists) : Append(lists, list)[r] = lists[r]
         /\ Append(lists, list)[Len(lists) + 1] = list
  <1> DEFINE S == Range(lists) \cup {list}
             a == Append(lists, list)
             n == Len(lists)
  <1>1. lists \in Seq(S) /\ list \in S
    <2>1. \A i \in DOMAIN lists : lists[i] \in Range(lists)
      BY DEF Range
    <2> DEFINE R == Range(lists)
    <2> HIDE DEF R
    <2>2. lists \in Seq(R) /\ S = R \cup {list}
      BY DEF R
    <2> HIDE DEF S
    <2> QED
      BY <2>2
  <1> HIDE DEF S
  <1>2. /\ a \in Seq(S) /\ n \in Nat /\ Len(a) = n + 1
        /\ \A r \in 1 .. n : a[r] = lists[r]
        /\ a[n + 1] = list
    BY <1>1, AppendProperties, LenProperties
  <1> HIDE DEF a, n
  <1>3. a = [i \in 1 .. n + 1 |-> a[i]]
    BY <1>2, LenProperties
  <1>4. a \in Seq(Range(a))
    <2> DEFINE m == n + 1
    <2>1. m \in Nat /\ a = [i \in 1 .. m |-> a[i]]
      BY <1>2, <1>3
    <2> HIDE DEF m
    <2> QED
      BY <2>1, FunctionIsSequence
  <1> QED
    BY <1>2, <1>4 DEF a, n

\* The rows of the last list, their vectors walked.
LEMMA ExplicitRows ==
  ASSUME NEW lists, NEW n \in Nat \ {0}, Len(lists) = n
  PROVE  /\ DOMAIN Pointer!Explicit(lists) = DOMAIN lists[n]
         /\ \A p \in DOMAIN lists[n] : Pointer!Explicit(lists)[p] =
              [h |-> lists[n][p].hash, idx |-> Pointer!Vectors(lists)[n][p]]
         /\ Pointer!Explicit(lists) =
              [p \in DOMAIN lists[n] |->
                 [h |-> lists[n][p].hash, idx |-> Pointer!Vectors(lists)[n][p]]]
  <1> DEFINE v == Pointer!Vectors(lists)[n]
  <1>1. Pointer!Explicit(lists) = [p \in DOMAIN lists[n] |-> [h |-> lists[n][p].hash, idx |-> v[p]]]
    BY DEF Pointer!Explicit
  <1> HIDE DEF v
  <1> QED
    BY <1>1 DEF v

\* A pair names two different rows of the list before that agree on the leading
\* segment.
PairSound(prev, row) ==
  /\ row.ptr[1] \in DOMAIN prev /\ row.ptr[2] \in DOMAIN prev
  /\ row.ptr[1] # row.ptr[2]
  /\ prev[row.ptr[1]].hash[1] = prev[row.ptr[2]].hash[1]

\* new is the list built in round n from the last of lists, list with vectors.
PointerRound(d, n, lists, list, new) ==
  /\ lists \in Seq(Range(lists)) /\ Len(lists) = n
  /\ list = Pointer!Explicit(lists)
  /\ GoodList(d, n, list)
  /\ Permutes(SortOrder(list), Len(list))
  /\ new = [m \in DOMAIN EmittedPairs(list, SortOrder(list)) |->
              Pointer!Child(list, SortOrder(list), EmittedPairs(list, SortOrder(list))[m])]

\* The pointers of a merged row, walked, give the vector that Merge gives, and they
\* name two rows of the list before that agree on the leading segment.
LEMMA PointerMerge ==
  ASSUME NEW d \in [Key -> Row], NEW n \in Rounds, NEW lists, NEW list, NEW new,
         PointerRound(d, n, lists, list, new)
  PROVE  /\ Pointer!Explicit(Append(lists, new)) = Emitted(list, SortOrder(list))
         /\ \A m \in DOMAIN new : PairSound(lists[n], new[m])
         /\ new \in Seq(Range(new))
  <1> DEFINE order == SortOrder(list)
             pairs == EmittedPairs(list, order)
             out == Emitted(list, order)
             M == Len(pairs)
             l == Len(list)
             N == 1 .. l
             longer == Append(lists, new)
             vec == Pointer!Vectors(lists)
             vec1 == Pointer!Vectors(longer)
  <1>0. /\ lists \in Seq(Range(lists)) /\ Len(lists) = n
        /\ GoodList(d, n, list) /\ Permutes(order, l)
    BY DEF PointerRound
  <1>1. n \in Nat /\ n \in Nat \ {0} /\ K \in Nat /\ n \in 1 .. K + 1 /\ n + 1 \in Nat \ {0}
        /\ n + 1 - 1 = n /\ n + 1 # 1 /\ n \in 1 .. n
    BY KAssumption DEF Rounds
  <1>2. list \in Seq(RowAt(n)) /\ l \in Nat /\ DOMAIN list = N
    BY <1>0, LenProperties DEF GoodList
  <1>3. /\ DOMAIN lists[n] = N
        /\ \A p \in N : list[p].h = lists[n][p].hash /\ list[p].idx = vec[n][p]
    <2>1. /\ DOMAIN list = DOMAIN lists[n]
          /\ \A p \in DOMAIN lists[n] : list[p] = [h |-> lists[n][p].hash, idx |-> vec[n][p]]
      <3>1. /\ DOMAIN Pointer!Explicit(lists) = DOMAIN lists[n]
            /\ \A p \in DOMAIN lists[n] :
                 Pointer!Explicit(lists)[p] = [h |-> lists[n][p].hash, idx |-> vec[n][p]]
        BY <1>0, <1>1, ExplicitRows
      <3>2. list = Pointer!Explicit(lists)
        BY DEF PointerRound
      <3> QED
        BY <3>1, <3>2
    <2> HIDE DEF vec, N
    <2>2. DOMAIN lists[n] = N
      BY <1>2, <2>1
    <2>3. ASSUME NEW p \in N
          PROVE  list[p].h = lists[n][p].hash /\ list[p].idx = vec[n][p]
      <3> DEFINE g == lists[n][p].hash
                 v == vec[n][p]
      <3>1. list[p] = [h |-> g, idx |-> v]
        BY <2>1, <2>2
      <3> HIDE DEF g, v
      <3>2. list[p].h = g /\ list[p].idx = v
        BY <3>1
      <3> QED
        BY <3>2 DEF g, v
    <2> QED
      BY <2>2, <2>3
  <1>4. /\ M \in Nat /\ DOMAIN out = 1 .. M /\ DOMAIN pairs = 1 .. M
        /\ \A m \in 1 .. M : \E p, q \in N :
              /\ pairs[m] = <<p, q>>
              /\ Emits(list, order, p, q)
              /\ order[p] \in N /\ order[q] \in N
              /\ out[m] = Merge(list[order[p]], list[order[q]])
              /\ Mergeable(list[order[p]], list[order[q]])
    <2>1. Permutes(order, Len(list))
      BY <1>0
    <2> HIDE DEF order
    <2> QED
      BY <1>2, <2>1, EmittedProperties
  <1>5. /\ longer \in Seq(Range(longer)) /\ Len(longer) = n + 1
        /\ \A r \in 1 .. n : longer[r] = lists[r]
        /\ longer[n + 1] = new
    BY <1>0, AppendList
  <1>6. \A r \in 1 .. n : vec1[r] = vec[r]
    <2>1. Agree(longer, lists, n)
      BY <1>0, <1>1, <1>5 DEF Agree
    <2> HIDE DEF longer
    <2>2. \A r \in 1 .. n : Pointer!Vectors(longer)[r] = Pointer!Vectors(lists)[r]
      BY <1>1, <2>1, VectorsPrefix
    <2> QED
      BY <2>2
  <1>7. vec1[n + 1] = VectorStep(longer, vec1, n + 1)
    <2> DEFINE r == n + 1
    <2>1. Len(longer) \in Nat /\ r \in 1 .. Len(longer)
      BY <1>1, <1>5
    <2> HIDE DEF r, longer
    <2>2. Pointer!Vectors(longer)[r] = VectorStep(longer, Pointer!Vectors(longer), r)
      BY <2>1, VectorsSteps
    <2> QED
      BY <2>2 DEF r
  <1>8. new = [m \in 1 .. M |-> Pointer!Child(list, order, pairs[m])]
    <2>1. new = [m \in DOMAIN pairs |-> Pointer!Child(list, order, pairs[m])]
      BY DEF PointerRound
    <2>2. DOMAIN pairs = 1 .. M
      BY <1>4
    <2> HIDE DEF pairs, order, M
    <2> QED
      BY <2>1, <2>2
  <1>9. new \in Seq(Range(new)) /\ DOMAIN new = 1 .. M
    <2>1. new = [m \in 1 .. M |-> new[m]]
      BY <1>8
    <2> HIDE DEF M
    <2> QED
      BY <1>4, <2>1, FunctionIsSequence
  <1> HIDE DEF longer, vec, vec1, out, order, pairs, l, M
  <1>10. ASSUME NEW m \in 1 .. M
         PROVE  /\ [h |-> new[m].hash, idx |-> vec1[n + 1][m]] = out[m]
                /\ PairSound(lists[n], new[m])
    <2>1. PICK p \in N, q \in N :
              /\ pairs[m] = <<p, q>>
              /\ Emits(list, order, p, q)
              /\ order[p] \in N /\ order[q] \in N
              /\ out[m] = Merge(list[order[p]], list[order[q]])
              /\ Mergeable(list[order[p]], list[order[q]])
      BY <1>4
    <2> DEFINE a == order[p]
               b == order[q]
               v == list[a].idx
               w == list[b].idx
    <2>2. new[m] = Pointer!Child(list, order, pairs[m])
      BY <1>8
    <2>3. new[m] = [hash |-> Tail(Xor(list[a].h, list[b].h)), ptr |-> <<a, b>>]
      <3>1. pairs[m][1] = p /\ pairs[m][2] = q
        BY <2>1
      <3>2. new[m] = [hash |-> Tail(Pointer!Xor(list[a].h, list[b].h)), ptr |-> <<a, b>>]
        BY <2>2, <3>1 DEF Pointer!Child, Pointer!PtrPair
      <3> QED
        BY <3>2, PointerOperators
    <2>4. a \in N /\ b \in N /\ a # b
      <3>1. p < q
        BY <2>1 DEF Emits
      <3>2. \A i, j \in N : order[i] = order[j] => i = j
        BY <1>0 DEF Permutes
      <3> QED
        BY <1>2, <2>1, <3>1, <3>2
    <2> HIDE DEF a, b
    <2>5. new[m].ptr[1] = a /\ new[m].ptr[2] = b /\ new[m].hash = Tail(Xor(list[a].h, list[b].h))
      BY <2>3
    <2>6. Mergeable(list[a], list[b]) /\ out[m] = Merge(list[a], list[b])
      BY <2>1 DEF a, b
    <2>7. PairSound(lists[n], new[m])
      <3>1. list[a].h[1] = list[b].h[1]
        BY <2>6 DEF Mergeable
      <3>2. lists[n][a].hash[1] = lists[n][b].hash[1]
        BY <1>3, <2>4, <3>1
      <3> QED
        BY <1>3, <2>4, <2>5, <3>2 DEF PairSound
    <2>8. vec1[n + 1][m] = Joined(v, w)
      <3>1. vec1[n + 1][m] = Joined(vec1[n][new[m].ptr[1]], vec1[n][new[m].ptr[2]])
        <4> DEFINE r == n + 1
                   e(i) == Joined(vec1[n][new[i].ptr[1]], vec1[n][new[i].ptr[2]])
        <4>1. vec1[r] = [i \in DOMAIN longer[r] |->
                IF r = 1 THEN longer[r][i].ptr
                ELSE Joined(vec1[r - 1][longer[r][i].ptr[1]], vec1[r - 1][longer[r][i].ptr[2]])]
          BY <1>7 DEF VectorStep
        <4>2. r - 1 = n /\ longer[r] = new /\ r # 1
          BY <1>1, <1>5
        <4> HIDE DEF r
        <4>3. vec1[r] = [i \in DOMAIN new |-> e(i)]
          BY <4>1, <4>2
        <4> HIDE DEF e
        <4>4. vec1[r][m] = e(m)
          BY <1>9, <4>3
        <4> QED
          BY <4>4 DEF e, r
      <3>2. vec1[n] = vec[n]
        BY <1>1, <1>6
      <3>3. vec[n][a] = v /\ vec[n][b] = w
        BY <1>3, <2>4
      <3> QED
        BY <2>5, <3>1, <3>2, <3>3
    <2>9. Joined(v, w) = Canonical(v, w)
      <3>1. GoodRow(d, n, list[a]) /\ GoodRow(d, n, list[b])
        BY <1>0, <1>2, <2>4 DEF GoodList
      <3>2. v \in Seq(Leaf) /\ w \in Seq(Leaf) /\ Len(v) = 2^(n - 1) /\ Len(w) = 2^(n - 1)
        BY <3>1 DEF GoodRow, RowAt, IsXor
      <3>3. 1 <= 2^(n - 1)
        <4>1. n - 1 \in Nat
          BY <1>1
        <4> QED
          BY <4>1, PowerOfTwoPositive
      <3>4. SlicesDistinct(v, w)
        BY <2>6 DEF Mergeable
      <3>5. SlicesDistinct(w, v)
        BY <3>4 DEF SlicesDistinct
      <3> HIDE DEF v, w
      <3>6. LexLess(v, w) \/ LexLess(w, v)
        BY <3>2, <3>3, <3>4, DisjointOrdered
      <3>7. ~(LexLess(v, w) /\ LexLess(w, v))
        BY <3>2, <3>3, <3>4, DisjointLess
      <3> QED
        BY <3>6, <3>7 DEF Joined, Canonical
    <2>10. out[m] = [h |-> Tail(Xor(list[a].h, list[b].h)), idx |-> Canonical(v, w)]
      BY <2>6 DEF Merge
    <2> QED
      BY <2>5, <2>7, <2>8, <2>9, <2>10
  <1>11. Pointer!Explicit(longer) = out
    <2> DEFINE e(m) == [h |-> new[m].hash, idx |-> vec1[n + 1][m]]
               f(m) == out[m]
    <2>1. Pointer!Explicit(longer) = [m \in DOMAIN new |-> e(m)]
      <3> DEFINE r == n + 1
      <3>1. r \in Nat \ {0} /\ Len(longer) = r /\ longer[r] = new
        BY <1>1, <1>5
      <3> HIDE DEF r
      <3>2. Pointer!Explicit(longer) = [m \in DOMAIN longer[r] |->
              [h |-> longer[r][m].hash, idx |-> Pointer!Vectors(longer)[r][m]]]
        <4> HIDE DEF e, f
        <4> QED
          BY <3>1, ExplicitRows
      <3> QED
        BY <3>1, <3>2 DEF vec1, r
    <2>2. out = [m \in 1 .. M |-> f(m)]
      <3>1. out = [m \in DOMAIN out |-> out[m]]
        BY DEF out, Emitted
      <3> QED
        BY <1>4, <3>1
    <2>3. \A m \in 1 .. M : e(m) = f(m)
      BY <1>10
    <2> HIDE DEF e, f
    <2>4. [m \in 1 .. M |-> e(m)] = [m \in 1 .. M |-> f(m)]
      BY <2>3, Zenon
    <2> QED
      BY <1>9, <2>1, <2>2, <2>4
  <1> QED
    BY <1>9, <1>10, <1>11 DEF longer, out, order

\* Every list has good pointers: the first the leaves, the others pairs of rows
\* of the list before.
SoundLists(lists) ==
  \A r \in 1 .. Len(lists) : \A p \in DOMAIN lists[r] :
    IF r = 1 THEN lists[r][p].ptr = <<p - 1>> ELSE PairSound(lists[r - 1], lists[r][p])

\* That is PointersSound, before a step and after it.
LEMMA SoundListsIsSound ==
  /\ Pointer!PointersSound <=> SoundLists(Pointer!Lists)
  /\ Pointer!PointersSound' <=> SoundLists(Pointer!Lists')
  BY DEF Pointer!PointersSound, SoundLists, PairSound, Pointer!PtrLeaf

\* A list of good pairs may follow.
LEMMA SoundListsAppend ==
  ASSUME NEW lists, lists \in Seq(Range(lists)), NEW n \in Nat \ {0}, Len(lists) = n,
         SoundLists(lists), NEW new, \A m \in DOMAIN new : PairSound(lists[n], new[m])
  PROVE  SoundLists(Append(lists, new))
  <1> DEFINE longer == Append(lists, new)
  <1>1. /\ Len(longer) = n + 1 /\ longer[n + 1] = new
        /\ \A r \in 1 .. n : longer[r] = lists[r]
    BY AppendList
  <1> HIDE DEF longer
  <1>2. SoundLists(longer)
    <2> SUFFICES ASSUME NEW r \in 1 .. n + 1, NEW p \in DOMAIN longer[r]
                 PROVE  IF r = 1 THEN longer[r][p].ptr = <<p - 1>>
                        ELSE PairSound(longer[r - 1], longer[r][p])
      BY <1>1 DEF SoundLists
    <2>1. CASE r = n + 1
      <3>1. r # 1 /\ r - 1 = n /\ n \in 1 .. n
        BY <2>1
      <3>2. longer[r - 1] = lists[n] /\ longer[r] = new
        BY <1>1, <2>1, <3>1
      <3> QED
        BY <3>1, <3>2
    <2>2. CASE r # n + 1
      <3>1. r \in 1 .. n /\ (r # 1 => r - 1 \in 1 .. n)
        BY <2>2
      <3>2. longer[r] = lists[r] /\ (r # 1 => longer[r - 1] = lists[r - 1])
        BY <1>1, <3>1
      <3>3. p \in DOMAIN lists[r]
        BY <3>2
      <3>4. IF r = 1 THEN lists[r][p].ptr = <<p - 1>> ELSE PairSound(lists[r - 1], lists[r][p])
        BY <3>1, <3>3 DEF SoundLists
      <3> QED
        BY <3>2, <3>4
    <2> QED
      BY <2>1, <2>2
  <1> QED
    BY <1>2 DEF longer

\* The list under construction is empty outside a round, the last list is not
\* while there are rounds to do, and all pointers are good.
PtrInv ==
  backend = "pointer" =>
    /\ pc \in {"generate", "merge", "push", "done"}
    /\ history \in Seq(Range(history))
    /\ pc = "generate" => history = << >> /\ next = << >>
    /\ pc # "generate" => Len(history) \in 1 .. K + 1
    /\ pc = "merge" => next = << >> /\ DOMAIN history[Len(history)] # {}
    /\ pc = "push" => Len(history) <= K /\ next \in Seq(Range(next))
    /\ Pointer!PointersSound

\* What the pointer backend stands for, before a step and after it.
LEMMA PointerStandsFor ==
  ASSUME backend = "pointer", backend' = "pointer"
  PROVE  /\ StandsFor = [pc    |-> IF pc = "push" THEN "merge" ELSE pc,
                         round |-> IF Pointer!Lists = << >> THEN 1 ELSE Len(Pointer!Lists),
                         x     |-> Pointer!Explicit(Pointer!Lists)]
         /\ StandsFor' = [pc    |-> IF pc' = "push" THEN "merge" ELSE pc',
                          round |-> IF Pointer!Lists' = << >> THEN 1 ELSE Len(Pointer!Lists'),
                          x     |-> Pointer!Explicit(Pointer!Lists')]
  <1>1. StandsFor = [pc    |-> IF pc = "push" THEN "merge" ELSE pc,
                     round |-> IF Pointer!Lists = << >> THEN 1 ELSE Len(Pointer!Lists),
                     x     |-> Pointer!Explicit(Pointer!Lists)]
    BY DEF StandsFor, Flat
  <1>2. StandsFor' = [pc    |-> IF pc' = "push" THEN "merge" ELSE pc',
                      round |-> IF Pointer!Lists' = << >> THEN 1 ELSE Len(Pointer!Lists'),
                      x     |-> Pointer!Explicit(Pointer!Lists')]
    BY DEF StandsFor, Flat
  <1> QED
    BY <1>1, <1>2

\* At first there is no list.
LEMMA PointerInit ==
  ASSUME Init, backend = "pointer"
  PROVE  PtrInv /\ ListInit
  <1>1. /\ digest \in Digests /\ pc = "generate" /\ history = << >> /\ next = << >> /\ sols = << >>
    BY DEF Init, Pointer!Init
  <1>2. Pointer!Lists = << >>
    BY <1>1 DEF Pointer!Lists
  <1>3. Pointer!Explicit(<< >>) = << >>
    BY DEF Pointer!Explicit
  <1>4. StandsFor = [pc    |-> IF pc = "push" THEN "merge" ELSE pc,
                     round |-> IF Pointer!Lists = << >> THEN 1 ELSE Len(Pointer!Lists),
                     x     |-> Pointer!Explicit(Pointer!Lists)]
    BY DEF StandsFor, Flat
  <1>5. ListInit
    BY <1>1, <1>2, <1>3, <1>4 DEF ListInit, Engine
  <1>6. Pointer!PointersSound
    <2>1. SoundLists(<< >>)
      BY DEF SoundLists
    <2> QED
      BY <1>2, <2>1, SoundListsIsSound
  <1>7. history \in Seq(Range(history))
    BY <1>1
  <1> QED
    BY <1>1, <1>5, <1>6, <1>7 DEF PtrInv

\* The first list: one pointer a leaf.
IsFirstList(d, list) ==
  list = [p \in 1 .. InitSize |-> [hash |-> LeafRow(d, p - 1), ptr |-> <<p - 1>>]]

\* Its vectors walked, it is that of the other backends, and its pointers are good.
LEMMA PointerLeaves ==
  ASSUME NEW d, NEW list, IsFirstList(d, list)
  PROVE  /\ Pointer!Explicit(<<list>>) = LeafRows(d)
         /\ SoundLists(<<list>>)
         /\ DOMAIN list # {}
  <1> DEFINE lists == <<list>>
             one == 1
             v == Pointer!Vectors(lists)
             e(p) == [h |-> list[p].hash, idx |-> v[one][p]]
             f(p) == [h |-> LeafRow(d, p - 1), idx |-> <<p - 1>>]
  <1>1. /\ InitSize \in Nat \ {0} /\ DOMAIN list = 1 .. InitSize
        /\ \A p \in 1 .. InitSize : list[p].hash = LeafRow(d, p - 1) /\ list[p].ptr = <<p - 1>>
    <2>1. InitSize \in Nat /\ 1 <= InitSize
      BY BitsAssumption, PowerOfTwoPositive DEF InitSize
    <2>2. list = [p \in 1 .. InitSize |-> [hash |-> LeafRow(d, p - 1), ptr |-> <<p - 1>>]]
      BY DEF IsFirstList
    <2> QED
      BY <2>1, <2>2
  <1>2. one \in Nat \ {0} /\ Len(lists) = one /\ lists[one] = list /\ one \in 1 .. Len(lists)
        /\ Len(lists) \in Nat
    OBVIOUS
  <1>3. SoundLists(lists)
    <2>1. \A r \in 1 .. Len(lists) : r = 1 /\ lists[r] = list
      BY <1>2
    <2> HIDE DEF lists
    <2> QED
      BY <1>1, <2>1 DEF SoundLists
  <1> HIDE DEF lists
  <1>4. Pointer!Explicit(lists) = [p \in DOMAIN list |-> e(p)]
    <2> HIDE DEF one
    <2>1. Pointer!Explicit(lists) = [p \in DOMAIN lists[one] |->
            [h |-> lists[one][p].hash, idx |-> Pointer!Vectors(lists)[one][p]]]
      <3> HIDE DEF v, e, f
      <3> QED
        BY <1>2, ExplicitRows
    <2> QED
      BY <1>2, <2>1
  <1>5. v[one] = VectorStep(lists, v, one)
    <2> HIDE DEF one
    <2> QED
      BY <1>2, VectorsSteps
  <1> HIDE DEF v
  <1>6. \A p \in 1 .. InitSize : v[one][p] = <<p - 1>>
    <2>1. v[one] = [p \in DOMAIN list |-> list[p].ptr]
      BY <1>2, <1>5 DEF VectorStep
    <2> QED
      BY <1>1, <2>1
  <1>7. \A p \in 1 .. InitSize : e(p) = f(p)
    BY <1>1, <1>6
  <1>8. LeafRows(d) = [p \in 1 .. InitSize |-> f(p)]
    BY DEF LeafRows
  <1>9. Pointer!Explicit(lists) = [p \in 1 .. InitSize |-> e(p)]
    BY <1>1, <1>4
  <1> HIDE DEF e, f
  <1>10. [p \in 1 .. InitSize |-> e(p)] = [p \in 1 .. InitSize |-> f(p)]
    BY <1>7, Zenon
  <1> QED
    BY <1>1, <1>3, <1>8, <1>9, <1>10 DEF lists

\* Every step of the pointer backend is a step on the list, and keeps its
\* pointers good.
LEMMA PointerNext ==
  ASSUME ListInv, PtrInv, Next, backend = "pointer"
  PROVE  PtrInv' /\ ListStep
  <1> DEFINE n == Len(history)
             lists == Pointer!Lists
             lists1 == Pointer!Lists'
  <1>1. /\ pc \in {"generate", "merge", "push", "done"}
        /\ history \in Seq(Range(history))
        /\ pc = "generate" => history = << >> /\ next = << >>
        /\ pc # "generate" => n \in 1 .. K + 1
        /\ pc = "merge" => next = << >> /\ DOMAIN history[n] # {}
        /\ pc = "push" => n <= K /\ next \in Seq(Range(next))
        /\ SoundLists(lists)
    BY SoundListsIsSound DEF PtrInv
  <1>2. UNCHANGED backend /\ Pointer!Next
    BY DEF Next
  <1>3. /\ StandsFor = [pc    |-> IF pc = "push" THEN "merge" ELSE pc,
                        round |-> IF lists = << >> THEN 1 ELSE Len(lists),
                        x     |-> Pointer!Explicit(lists)]
        /\ StandsFor' = [pc    |-> IF pc' = "push" THEN "merge" ELSE pc',
                         round |-> IF lists1 = << >> THEN 1 ELSE Len(lists1),
                         x     |-> Pointer!Explicit(lists1)]
    BY <1>2, PointerStandsFor
  <1>4. digest \in [Key -> Row] /\ K \in Nat /\ n \in Nat
    BY <1>1, EngineType, KAssumption, LenProperties DEF ListInv
  <1>5. /\ lists = IF pc = "push" \/ (pc = "done" /\ n <= K) THEN Append(history, next) ELSE history
        /\ lists1 = IF pc' = "push" \/ (pc' = "done" /\ Len(history') <= K)
                    THEN Append(history', next') ELSE history'
    BY DEF Pointer!Lists
  <1>6. SoundLists(lists1) => Pointer!PointersSound'
    BY SoundListsIsSound
  <1>7. ASSUME lists1 = lists, StandsFor'.pc = StandsFor.pc
        PROVE  /\ StandsFor'.round = StandsFor.round /\ StandsFor'.x = StandsFor.x
    BY <1>3, <1>7
  <1> HIDE DEF lists, lists1
  <1>8. CASE Pointer!Generate
    <2>1. /\ pc = "generate" /\ pc' = "merge" /\ digest' = digest /\ next' = next /\ sols' = sols
          /\ history' = <<[p \in 1 .. Pointer!InitSize |->
                [hash |-> Pointer!LeafRow(digest, p - 1), ptr |-> Pointer!PtrLeaf(p - 1)]]>>
      BY <1>8 DEF Pointer!Generate
    <2> DEFINE first == [p \in 1 .. InitSize |-> [hash |-> LeafRow(digest, p - 1), ptr |-> <<p - 1>>]]
    <2>2. history' = <<first>>
      BY <2>1, PointerOperators DEF Pointer!PtrLeaf
    <2>3. IsFirstList(digest, first)
      BY DEF IsFirstList
    <2> HIDE DEF first
    <2>4. /\ Pointer!Explicit(<<first>>) = LeafRows(digest)
          /\ SoundLists(<<first>>) /\ DOMAIN first # {}
      BY <2>3, PointerLeaves
    <2>5. lists = << >> /\ lists1 = <<first>> /\ Len(lists1) = 1 /\ lists1 # << >>
      BY <1>1, <1>5, <2>1, <2>2
    <2>6. history' \in Seq(Range(history'))
      <3>1. Range(<<first>>) = {first}
        <4>1. DOMAIN <<first>> = {1} /\ <<first>>[1] = first
          OBVIOUS
        <4> QED
          BY <4>1, Zenon DEF Range
      <3>2. <<first>> \in Seq({first})
        OBVIOUS
      <3> QED
        BY <2>2, <3>1, <3>2
    <2>7. Len(history') = 1 /\ history'[1] = first
      BY <2>2
    <2>8. Len(history') \in 1 .. K + 1
      BY <1>4, <2>7
    <2>9. PtrInv'
      BY <1>1, <1>6, <2>1, <2>4, <2>5, <2>6, <2>7, <2>8 DEF PtrInv
    <2>10. GenerateStep
      BY <1>3, <2>1, <2>4, <2>5 DEF GenerateStep
    <2> QED
      BY <1>2, <2>9, <2>10 DEF ListStep
  <1>9. CASE Pointer!MergeRound
    <2> DEFINE list == Pointer!Explicit(history)
               new == next'
    <2>1. /\ pc = "merge" /\ n <= K /\ pc' = "push" /\ digest' = digest /\ history' = history
          /\ sols' = sols
          /\ new = [m \in DOMAIN Pointer!EmittedPairs(list, Pointer!SortOrder(list)) |->
               Pointer!Child(list, Pointer!SortOrder(list),
                             Pointer!EmittedPairs(list, Pointer!SortOrder(list))[m])]
      BY <1>9 DEF Pointer!MergeRound
    <2>2. new = [m \in DOMAIN EmittedPairs(list, SortOrder(list)) |->
               Pointer!Child(list, SortOrder(list), EmittedPairs(list, SortOrder(list))[m])]
      BY <2>1, PointerOperators
    <2>3. lists = history /\ lists1 = Append(history, new)
      BY <1>5, <2>1
    <2>4. n \in 1 .. K + 1 /\ n \in Rounds /\ n \in Nat \ {0}
      BY <1>1, <1>4, <2>1 DEF Rounds
    <2>5. lists # << >> /\ Len(lists) = n
      BY <2>3, <2>4
    <2>6. GoodList(digest, n, list)
      BY <1>3, <2>1, <2>3, <2>5 DEF ListInv
    <2>7. Scans(list, SortOrder(list))
      <3> HIDE DEF n, list
      <3> QED
        BY <2>4, <2>6, SortOrderScans
    <2>8. PointerRound(digest, n, history, list, new)
      <3> HIDE DEF new, list
      <3> QED
        BY <1>1, <2>2, <2>6, <2>7 DEF PointerRound, Scans, list
    <2>9. /\ Pointer!Explicit(Append(history, new)) = Emitted(list, SortOrder(list))
          /\ \A m \in DOMAIN new : PairSound(history[n], new[m])
          /\ new \in Seq(Range(new))
      <3> DEFINE h == history
      <3> HIDE DEF new, list, n, h
      <3>1. PointerRound(digest, n, h, list, new)
        BY <2>8 DEF h
      <3>2. /\ Pointer!Explicit(Append(h, new)) = Emitted(list, SortOrder(list))
            /\ \A m \in DOMAIN new : PairSound(h[n], new[m])
            /\ new \in Seq(Range(new))
        BY <1>4, <2>4, <3>1, PointerMerge
      <3> QED
        BY <3>2 DEF h
    <2>10. /\ Len(lists1) = n + 1
           /\ lists1 # << >>
      <3>1. Len(Append(history, new)) = Len(history) + 1
        <4> HIDE DEF new
        <4> QED
          BY <1>1, AppendList
      <3>2. Len(lists1) = n + 1
        BY <2>3, <3>1
      <3> QED
        BY <1>4, <3>2
    <2>11. SoundLists(lists1)
      <3> DEFINE h == history
      <3>1. h \in Seq(Range(h)) /\ Len(h) = n /\ SoundLists(h)
        BY <1>1, <2>3
      <3>2. \A m \in DOMAIN new : PairSound(h[n], new[m])
        BY <2>9
      <3> HIDE DEF h, new, n
      <3>3. SoundLists(Append(h, new))
        BY <2>4, <3>1, <3>2, SoundListsAppend
      <3> QED
        BY <2>3, <3>3 DEF h
    <2>12. PtrInv'
      <3>1. history' \in Seq(Range(history')) /\ Len(history') \in 1 .. K + 1 /\ Len(history') <= K
        BY <1>1, <2>1, <2>4
      <3> QED
        BY <1>6, <2>1, <2>9, <2>11, <3>1 DEF PtrInv
    <2>13. list # << >>
      <3>1. DOMAIN list = DOMAIN history[n]
        BY <2>4, ExplicitRows
      <3>2. DOMAIN history[n] # {}
        BY <1>1, <2>1
      <3> HIDE DEF list
      <3> QED
        BY <3>1, <3>2
    <2>14. RoundStep
      <3> HIDE DEF list, new, n
      <3>1. StandsFor = [pc |-> "merge", round |-> n, x |-> list]
        BY <1>3, <2>1, <2>3, <2>5 DEF list
      <3>2. StandsFor' = [pc |-> "merge", round |-> n + 1, x |-> Emitted(list, SortOrder(list))]
        BY <1>3, <2>1, <2>3, <2>9, <2>10
      <3> QED
        BY <2>1, <2>7, <2>13, <3>1, <3>2 DEF RoundStep
    <2> QED
      BY <1>2, <2>12, <2>14 DEF ListStep
  <1>10. CASE Pointer!Push
    <2>1. /\ pc = "push" /\ next # << >> /\ pc' = "merge" /\ digest' = digest
          /\ history' = Append(history, next) /\ next' = << >> /\ sols' = sols
      BY <1>10 DEF Pointer!Push
    <2>2. lists = Append(history, next) /\ lists1 = lists
      BY <1>5, <2>1
    <2>3. IdleStep
      BY <1>3, <1>7, <2>1, <2>2 DEF IdleStep
    <2>4. /\ history' \in Seq(Range(history')) /\ Len(history') = n + 1
          /\ history'[n + 1] = next
      BY <1>1, <2>1, AppendList
    <2>5. Len(history') \in 1 .. K + 1
      BY <1>1, <1>4, <2>1, <2>4
    <2>6. DOMAIN history'[Len(history')] # {}
      <3> DEFINE S == Range(next)
      <3>1. next \in Seq(S) /\ next # << >>
        BY <1>1, <2>1
      <3> HIDE DEF S
      <3>2. Len(next) # 0 /\ Len(next) \in Nat /\ DOMAIN next = 1 .. Len(next)
        BY <3>1, EmptySeq, LenProperties
      <3>3. 1 \in DOMAIN next
        BY <3>2
      <3> QED
        BY <2>4, <3>3
    <2>7. PtrInv'
      BY <1>1, <1>6, <2>1, <2>2, <2>4, <2>5, <2>6 DEF PtrInv
    <2> QED
      BY <1>2, <2>3, <2>7 DEF ListStep
  <1>11. CASE Pointer!ReturnEmpty
    <2>1. /\ pc = "push" /\ next = << >> /\ pc' = "done" /\ digest' = digest
          /\ history' = history /\ next' = next /\ sols' = sols
      BY <1>11 DEF Pointer!ReturnEmpty
    <2>2. lists = Append(history, next) /\ lists1 = lists /\ n <= K
      BY <1>1, <1>5, <2>1
    <2>3. Len(lists) = n + 1 /\ lists[n + 1] = << >>
      BY <1>1, <2>1, <2>2, AppendList
    <2>4. Pointer!Explicit(lists) = << >>
      <3> DEFINE r == n + 1
      <3>0. r \in Nat \ {0} /\ Len(lists) = r
        BY <1>4, <2>3
      <3>1. lists[r] = << >>
        BY <2>3
      <3> HIDE DEF r, n
      <3>2. Pointer!Explicit(lists) =
              [p \in DOMAIN lists[r] |->
                 [h |-> lists[r][p].hash, idx |-> Pointer!Vectors(lists)[r][p]]]
        BY <3>0, ExplicitRows
      <3> DEFINE e(p) == [h |-> lists[r][p].hash, idx |-> Pointer!Vectors(lists)[r][p]]
      <3>3. Pointer!Explicit(lists) = [p \in DOMAIN lists[r] |-> e(p)]
        BY <3>2
      <3> HIDE DEF e
      <3> QED
        BY <3>1, <3>3
    <2>5. RootVectors(<< >>) = << >>
      <3> DEFINE S == {}
                 list == << >>
                 R == RootVectors(list)
      <3>1. list \in Seq(S)
        OBVIOUS
      <3> HIDE DEF S, list
      <3>2. \A v : v \in Range(R) <=>
              \E p \in DOMAIN list : IsZero(list[p].h) /\ IsInjective(list[p].idx) /\ v = list[p].idx
        BY <3>1, RootVectorsProperties
      <3>3. DOMAIN R = {}
        <4> SUFFICES ASSUME NEW i \in DOMAIN R
                     PROVE  FALSE
          OBVIOUS
        <4>1. R[i] \in Range(R)
          BY DEF Range
        <4>2. DOMAIN list = {}
          BY DEF list
        <4> QED
          BY <3>2, <4>1, <4>2
      <3>4. R = [p \in DOMAIN R |-> R[p]]
        BY DEF RootVectors
      <3> HIDE DEF R
      <3>5. R = << >>
        BY <3>3, <3>4
      <3> QED
        BY <3>5 DEF R, list
    <2>6. sols = << >>
      BY <1>3, <2>1 DEF ListInv
    <2>7. StandsFor.pc = "merge" /\ StandsFor'.pc = "done" /\ StandsFor.x = << >>
          /\ StandsFor'.x = StandsFor.x /\ StandsFor'.round = StandsFor.round
      BY <1>3, <2>1, <2>2, <2>4
    <2>8. CollectStep
      BY <2>1, <2>5, <2>6, <2>7 DEF CollectStep
    <2>9. PtrInv'
      BY <1>1, <1>6, <2>1, <2>2 DEF PtrInv
    <2> QED
      BY <1>2, <2>8, <2>9 DEF ListStep
  <1>12. CASE Pointer!Collect
    <2>1. /\ pc = "merge" /\ n = K + 1 /\ pc' = "done" /\ digest' = digest
          /\ history' = history /\ next' = next
          /\ sols' = Pointer!RootVectors(Pointer!Explicit(history))
      BY <1>12 DEF Pointer!Collect
    <2>2. lists = history /\ lists1 = lists
      BY <1>4, <1>5, <2>1
    <2>3. lists # << >> /\ Len(lists) = K + 1
      BY <1>4, <2>1, <2>2
    <2>4. sols' = RootVectors(Pointer!Explicit(lists))
      BY <2>1, <2>2, PointerOperators
    <2>5. StandsFor.pc = "merge" /\ StandsFor'.pc = "done" /\ StandsFor.round > K
          /\ StandsFor.x = Pointer!Explicit(lists)
          /\ StandsFor'.x = StandsFor.x /\ StandsFor'.round = StandsFor.round
      BY <1>3, <1>4, <2>1, <2>2, <2>3
    <2>6. CollectStep
      BY <2>1, <2>4, <2>5 DEF CollectStep
    <2>7. PtrInv'
      BY <1>1, <1>4, <1>6, <2>1, <2>2 DEF PtrInv
    <2> QED
      BY <1>2, <2>6, <2>7 DEF ListStep
  <1> QED
    BY <1>2, <1>8, <1>9, <1>10, <1>11, <1>12 DEF Pointer!Next
-----------------------------------------------------------------------------
(* The invariant of the engine and what follows from it.                   *)

\* Whichever backend is called: its list, its buffers and its pointers are good.
BackendInv == ListInv /\ FlatInv /\ PtrInv

\* It holds of every backend at first.
LEMMA BackendInvInit == Init => BackendInv /\ ListInit
  <1> SUFFICES ASSUME Init
               PROVE  BackendInv /\ ListInit
    OBVIOUS
  <1>1. Listing \/ Flat \/ backend = "pointer"
    BY DEF Init, Listing, Flat
  <1>2. CASE Listing
    <2>1. ListInit
      BY <1>2, ListingInit
    <2>2. ~Flat /\ backend # "pointer"
      BY <1>2 DEF Listing, Flat
    <2> QED
      BY <2>1, <2>2, ListInvInit DEF BackendInv, FlatInv, PtrInv
  <1>3. CASE Flat
    <2>1. FlatInv /\ ListInit
      BY <1>3, FlatInit
    <2>2. backend # "pointer"
      BY <1>3 DEF Flat
    <2> QED
      BY <2>1, <2>2, ListInvInit DEF BackendInv, PtrInv
  <1>4. CASE backend = "pointer"
    <2>1. PtrInv /\ ListInit
      BY <1>4, PointerInit
    <2>2. ~Flat
      BY <1>4 DEF Flat
    <2> QED
      BY <2>1, <2>2, ListInvInit DEF BackendInv, FlatInv
  <1> QED
    BY <1>1, <1>2, <1>3, <1>4

\* Every step of every backend is a step on the list it stands for.
LEMMA BackendInvNext ==
  ASSUME BackendInv, Next
  PROVE  BackendInv' /\ ListStep
  <1>1. ListInv /\ FlatInv /\ PtrInv
    BY DEF BackendInv
  <1>2. UNCHANGED backend
    BY DEF Next
  <1>3. Listing \/ Flat \/ backend = "pointer"
    BY DEF Next, Listing, Flat
  <1>4. CASE Listing
    <2>1. ListStep
      BY <1>1, <1>4, ListingNext
    <2>2. ~Flat' /\ backend' # "pointer"
      BY <1>2, <1>4 DEF Listing, Flat
    <2>3. FlatInv' /\ PtrInv'
      BY <2>2 DEF FlatInv, PtrInv
    <2> QED
      BY <1>1, <2>1, <2>3, ListInvNext DEF BackendInv
  <1>5. CASE Flat
    <2>1. FlatInv' /\ ListStep
      BY <1>1, <1>5, FlatNext
    <2>2. backend' # "pointer"
      BY <1>2, <1>5 DEF Flat
    <2>3. PtrInv'
      BY <2>2 DEF PtrInv
    <2> QED
      BY <1>1, <2>1, <2>3, ListInvNext DEF BackendInv
  <1>6. CASE backend = "pointer"
    <2>1. PtrInv' /\ ListStep
      BY <1>1, <1>6, PointerNext
    <2>2. ~Flat'
      BY <1>2, <1>6 DEF Flat
    <2>3. FlatInv'
      BY <2>2 DEF FlatInv
    <2> QED
      BY <1>1, <2>1, <2>3, ListInvNext DEF BackendInv
  <1> QED
    BY <1>3, <1>4, <1>5, <1>6

\* A step that changes nothing is none on the list.
LEMMA StandsForSame == UNCHANGED vars => StandsFor' = StandsFor /\ digest' = digest /\ sols' = sols
  BY DEF vars, common, listVars, flatVars, ptrVars, StandsFor, Flat, Arena!Unpacked, Arena!Cell,
         Arena!IndexSlice, Pointer!Lists

\* It speaks of the variables alone.
LEMMA BackendInvSame == BackendInv /\ UNCHANGED vars => BackendInv'
  <1> SUFFICES ASSUME BackendInv, UNCHANGED vars
               PROVE  BackendInv'
    OBVIOUS
  <1>1. StandsFor' = StandsFor /\ digest' = digest /\ sols' = sols
    BY StandsForSame
  <1>2. UNCHANGED backend
    BY DEF vars
  <1>3. ListStep
    BY <1>1, <1>2 DEF ListStep, IdleStep
  <1>4. ListInv'
    BY <1>3, ListInvNext DEF BackendInv
  <1>5. FlatInv'
    BY DEF BackendInv, FlatInv, vars, common, listVars, flatVars, Flat, Pool, Filled
  <1>6. PtrInv'
    <2>1. UNCHANGED <<backend, pc, history, next>>
      BY DEF vars, common, ptrVars
    <2>2. Pointer!Lists' = Pointer!Lists
      BY <2>1 DEF Pointer!Lists
    <2>3. Pointer!PointersSound => Pointer!PointersSound'
      BY <2>2, SoundListsIsSound
    <2>4. PtrInv
      BY DEF BackendInv
    <2> QED
      BY <2>1, <2>3, <2>4 DEF PtrInv
  <1> QED
    BY <1>4, <1>5, <1>6 DEF BackendInv

\* Whichever backend is called, the list it stands for is good and, unless a
\* bucket scatter may split runs, complete; its buffers and pointers are good.
THEOREM BackendsInvariant == Spec => []BackendInv
  <1>1. Init => BackendInv
    BY BackendInvInit
  <1>2. BackendInv /\ [Next]_vars => BackendInv'
    BY BackendInvNext, BackendInvSame
  <1> QED
    BY <1>1, <1>2, PTL DEF Spec

\* Whatever a backend returns is a solution, the bucket solver's included when a
\* scatter has split its runs.
THEOREM NothingButSolutions == Spec => [](Range(sols) \subseteq Solutions(digest))
  <1>1. BackendInv => Range(sols) \subseteq Solutions(digest)
    <2> SUFFICES ASSUME BackendInv
                 PROVE  Range(sols) \subseteq Solutions(digest)
      OBVIOUS
    <2> DEFINE S == StandsFor
    <2>1. /\ digest \in [Key -> Row]
          /\ S.round \in 1 .. K + 1
          /\ S.pc # "done" => sols = << >>
          /\ S.pc = "done" =>
               /\ GoodList(digest, S.round, S.x)
               /\ S.round > K \/ S.x = << >>
               /\ sols = RootVectors(S.x)
      BY EngineType DEF BackendInv, ListInv
    <2>2. CASE S.pc = "done"
      <3> HIDE DEF S
      <3> QED
        BY <2>1, <2>2, RootsSolve
    <2>3. CASE S.pc # "done"
      <3>1. Range(sols) = {}
        BY <2>1, <2>3 DEF Range
      <3> QED
        BY <3>1
    <2> QED
      BY <2>2, <2>3
  <1> QED
    BY <1>1, BackendsInvariant, PTL

\* SameSolutions: unless a bucket scatter may split a run, a call that ends has
\* returned exactly the solutions, whichever backend it ran.
THEOREM SortedSolutions == Spec => [](Sorting => SameSolutions)
  <1>1. BackendInv => (Sorting => SameSolutions)
    <2> SUFFICES ASSUME BackendInv, Sorting, pc = "done"
                 PROVE  Range(sols) = Solutions(digest)
      BY DEF SameSolutions
    <2> DEFINE S == StandsFor
    <2>1. S.pc = "done"
      BY DEF StandsFor
    <2>2. /\ digest \in Engine /\ digest \in [Key -> Row]
          /\ S.round \in 1 .. K + 1
          /\ GoodList(digest, S.round, S.x)
          /\ Complete(digest, S.round, S.x)
          /\ S.round > K \/ S.x = << >>
          /\ sols = RootVectors(S.x)
      BY <2>1, EngineType DEF BackendInv, ListInv
    <2> HIDE DEF S
    <2> QED
      BY <2>2, RootsAreSolutions
  <1> QED
    BY <1>1, BackendsInvariant, PTL

\* SameSolutions for every backend: a segment of at most 16 bits lies in its
\* leading two bytes whole.
THEOREM AllSolutions ==
  ASSUME BucketBits = Bit
  PROVE  Spec => []SameSolutions
  <1>1. (Sorting => SameSolutions) => SameSolutions
    BY DEF Sorting
  <1> QED
    BY <1>1, SortedSolutions, PTL

\* NoDuplicates: no list holds two rows with one vector, so no vector is returned
\* twice.
THEOREM BackendsNoDuplicates == Spec => []NoDuplicates
  <1>1. BackendInv => NoDuplicates
    <2> SUFFICES ASSUME BackendInv
                 PROVE  NoDuplicates
      OBVIOUS
    <2> DEFINE S == StandsFor
    <2>1. /\ S.pc \in {"generate", "merge", "done"}
          /\ S.pc = "generate" => S.x = << >>
          /\ S.pc # "done" => sols = << >>
          /\ S.pc # "generate" => GoodList(digest, S.round, S.x)
          /\ S.pc = "done" => sols = RootVectors(S.x)
      BY DEF BackendInv, ListInv
    <2>2. IsInjective(<< >>)
      BY DEF IsInjective
    <2>3. CASE S.pc = "generate"
      <3>1. S.x = << >> /\ sols = << >>
        BY <2>1, <2>3
      <3> QED
        BY <2>2, <3>1 DEF NoDuplicates
    <2>4. CASE S.pc # "generate"
      <3>1. /\ S.x \in Seq(RowAt(S.round))
            /\ \A p, q \in DOMAIN S.x : S.x[p].idx = S.x[q].idx => p = q
        BY <2>1, <2>4 DEF GoodList
      <3>2. IsInjective(S.x)
        <4> HIDE DEF S
        <4> QED
          BY <3>1 DEF IsInjective
      <3>3. IsInjective(RootVectors(S.x))
        <4> HIDE DEF S
        <4> QED
          BY <3>1, RootVectorsProperties
      <3>4. IsInjective(sols)
        BY <2>1, <2>2, <3>3
      <3> QED
        BY <3>2, <3>4 DEF NoDuplicates
    <2> QED
      BY <2>3, <2>4
  <1> QED
    BY <1>1, BackendsInvariant, PTL

\* BuffersAgree: the row count is that of both buffers in every round, so no slice
\* is read out of bounds.
THEOREM BackendsBuffersAgree == Spec => []BuffersAgree
  <1>1. BackendInv => BuffersAgree
    <2> SUFFICES ASSUME BackendInv, Flat
                 PROVE  Arena!BuffersAgree
      BY DEF BuffersAgree
    <2>1. /\ round \in 1 .. K + 1
          /\ hstride = K + 2 - round
          /\ icount = 2^(round - 1)
          /\ nrows \in Nat
          /\ hashes = [c \in 1 .. nrows * hstride |-> hashes[c]]
          /\ idxs = [c \in 1 .. nrows * icount |-> idxs[c]]
      BY DEF BackendInv, FlatInv
    <2>2. hstride \in Nat /\ icount \in Nat
      <3>1. K \in Nat /\ round - 1 \in Nat
        BY <2>1, KAssumption
      <3>2. 2^(round - 1) \in Nat
        BY <3>1, PowerOfTwoType
      <3> QED
        BY <2>1, <3>1, <3>2
    <2>3. nrows * hstride \in Nat /\ nrows * icount \in Nat
      BY <2>1, <2>2
    <2>4. Len(hashes) = nrows * hstride
      <3> DEFINE n == nrows * hstride
      <3>1. n \in Nat /\ hashes = [c \in 1 .. n |-> hashes[c]]
        BY <2>1, <2>3
      <3> HIDE DEF n
      <3>2. Len(hashes) = n
        BY <3>1, FunctionIsSequence
      <3> QED
        BY <3>2 DEF n
    <2>5. Len(idxs) = nrows * icount
      <3> DEFINE n == nrows * icount
      <3>1. n \in Nat /\ idxs = [c \in 1 .. n |-> idxs[c]]
        BY <2>1, <2>3
      <3> HIDE DEF n
      <3>2. Len(idxs) = n
        BY <3>1, FunctionIsSequence
      <3> QED
        BY <3>2 DEF n
    <2> QED
      BY <2>1, <2>4, <2>5 DEF Arena!BuffersAgree
  <1> QED
    BY <1>1, BackendsInvariant, PTL

\* PointersSound: pointers never dangle and lists are never rewritten.
THEOREM BackendsPointersSound == Spec => []PointersSound
  <1>1. BackendInv => PointersSound
    BY DEF BackendInv, PtrInv, PointersSound
  <1> QED
    BY <1>1, BackendsInvariant, PTL

-----------------------------------------------------------------------------
(* The promise every backend keeps.                                        *)

\* WagnerRounds speaks of the same merge, roots and leaf rows.
LEMMA PromiseOperators ==
  /\ \A a, b : Promise!Merge(a, b) = Merge(a, b)
  /\ \A a, b : Promise!Mergeable(a, b) <=> Mergeable(a, b)
  /\ \A row : Promise!IsRoot(row) <=> IsZero(row.h) /\ IsInjective(row.idx)
  /\ \A leaf : Promise!LeafRowOf(leaf) = [h |-> LeafRow(digest, leaf), idx |-> <<leaf>>]
  /\ Promise!Leaf = 0 .. InitSize - 1
  <1>1. ASSUME NEW a, NEW b
        PROVE  Promise!Merge(a, b) = Merge(a, b)
    BY DEF Promise!Merge, Merge, Promise!Xor, Xor, Promise!SymDiff, SymDiff,
           Promise!Canonical, Canonical, Promise!LexLess, LexLess
  <1>2. ASSUME NEW a, NEW b
        PROVE  Promise!Mergeable(a, b) <=> Mergeable(a, b)
    BY DEF Promise!Mergeable, Mergeable, Promise!SlicesDistinct, SlicesDistinct,
           Promise!Range, Range
  <1>3. ASSUME NEW row
        PROVE  Promise!IsRoot(row) <=> IsZero(row.h) /\ IsInjective(row.idx)
    BY DEF Promise!IsRoot, Promise!IsZero, IsZero, Promise!IsInjective, IsInjective
  <1>4. ASSUME NEW leaf
        PROVE  Promise!LeafRowOf(leaf) = [h |-> LeafRow(digest, leaf), idx |-> <<leaf>>]
    BY DEF Promise!LeafRowOf, Promise!LeafRow, LeafRow, Promise!LeafKey, LeafKey
  <1>5. Promise!Leaf = 0 .. InitSize - 1
    BY DEF Promise!Leaf, Promise!InitSize, InitSize
  <1> QED
    BY <1>1, <1>2, <1>3, <1>4, <1>5

\* No list is no rows.
LEMMA PromiseInit == ListInit => Promise!Init
  <1> SUFFICES ASSUME ListInit
               PROVE  Promise!Init
    OBVIOUS
  <1>1. Range(<< >>) = {}
    BY DEF Range
  <1>2. /\ digest \in Engine /\ StandsFor.pc = "generate" /\ StandsFor.round = 1
        /\ Range(StandsFor.x) = {} /\ Range(sols) = {}
    BY <1>1 DEF ListInit
  <1> QED
    BY <1>2 DEF Promise!Init

\* A step on the list is a step of the promise, or none.
LEMMA PromiseNext ==
  ASSUME ListInv, ListStep
  PROVE  Promise!Next \/ UNCHANGED Promise!vars
  <1> DEFINE S == StandsFor
             T == StandsFor'
             x0 == StandsFor.x
             x1 == StandsFor'.x
  <1>1. digest \in [Key -> Row]
    BY EngineType DEF ListInv
  <1>2. Range(x0)' = Range(x1)
    BY DEF Range
  <1>3. \A s : (s = << >> => Range(s) = {}) /\ (\A m \in DOMAIN s : s[m] \in Range(s))
    BY DEF Range
  <1>4. CASE GenerateStep
    <2>1. /\ S.pc = "generate" /\ T.pc = "merge" /\ T.round = S.round
          /\ x1 = LeafRows(digest) /\ digest' = digest /\ sols' = sols
      BY <1>4 DEF GenerateStep
    <2>2. Range(x1) = {Promise!LeafRowOf(leaf) : leaf \in Promise!Leaf}
      <3> DEFINE row(leaf) == [h |-> LeafRow(digest, leaf), idx |-> <<leaf>>]
                 L == LeafRows(digest)
      <3>1. /\ DOMAIN L = 1 .. InitSize
            /\ \A p \in 1 .. InitSize : L[p] = row(p - 1)
        BY <1>1, LeafRowsGood
      <3>2. \A leaf : Promise!LeafRowOf(leaf) = row(leaf)
        BY PromiseOperators
      <3>3. Promise!Leaf = 0 .. InitSize - 1 /\ InitSize \in Nat
        BY PromiseOperators, InitSizeType
      <3>4. x1 = L
        BY <2>1
      <3> HIDE DEF row, L, x1
      <3>5. \A p \in 1 .. InitSize : p - 1 \in 0 .. InitSize - 1
        BY <3>3
      <3>6. \A leaf \in 0 .. InitSize - 1 : leaf + 1 \in 1 .. InitSize /\ (leaf + 1) - 1 = leaf
        BY <3>3
      <3>7. Range(L) = {row(leaf) : leaf \in 0 .. InitSize - 1}
        <4>1. Range(L) = {L[p] : p \in 1 .. InitSize}
          BY <3>1 DEF Range
        <4>2. \A p \in 1 .. InitSize : L[p] \in {row(leaf) : leaf \in 0 .. InitSize - 1}
          BY <3>1, <3>5
        <4>3. \A leaf \in 0 .. InitSize - 1 : row(leaf) \in {L[p] : p \in 1 .. InitSize}
          <5> TAKE leaf \in 0 .. InitSize - 1
          <5>1. leaf + 1 \in 1 .. InitSize /\ L[leaf + 1] = row(leaf)
            BY <3>1, <3>6
          <5> QED
            BY <5>1
        <4> QED
          BY <4>1, <4>2, <4>3
      <3>8. {row(leaf) : leaf \in 0 .. InitSize - 1}
              = {Promise!LeafRowOf(leaf) : leaf \in Promise!Leaf}
        BY <3>2, <3>3
      <3> QED
        BY <3>4, <3>7, <3>8
    <2>3. Promise!Generate
      BY <1>2, <2>1, <2>2 DEF Promise!Generate
    <2> QED
      BY <2>3 DEF Promise!Next
  <1>5. CASE RoundStep
    <2>1. /\ S.pc = "merge" /\ S.round <= K /\ x0 # << >> /\ T.pc = "merge"
          /\ T.round = S.round + 1 /\ digest' = digest /\ sols' = sols
      BY <1>5 DEF RoundStep
    <2>2. PICK order : Permutes(order, Len(x0)) /\ x1 = Emitted(x0, order)
      BY <1>5 DEF RoundStep, Scans
    <2>3. x0 \in Seq(RowAt(S.round))
      BY <2>1 DEF ListInv, GoodList
    <2>4. Range(x0) # {}
      <3>1. 1 \in DOMAIN x0
        <4> HIDE DEF x0, S
        <4> QED
          BY <2>1, <2>3, EmptySeq, LenProperties
      <3> QED
        BY <1>3, <3>1
    <2>5. Range(x1) \in SUBSET Promise!Merges(Range(x0))
      <3> DEFINE N == Len(EmittedPairs(x0, order))
                 M(p) == Merge(p[1], p[2])
                 G == {p \in Range(x0) \X Range(x0) : Mergeable(p[1], p[2])}
      <3>1. /\ DOMAIN x1 = 1 .. N
            /\ \A m \in 1 .. N : \E p, q \in 1 .. Len(x0) :
                 /\ order[p] \in DOMAIN x0 /\ order[q] \in DOMAIN x0
                 /\ x1[m] = Merge(x0[order[p]], x0[order[q]])
                 /\ Mergeable(x0[order[p]], x0[order[q]])
        <4> HIDE DEF x0, x1, S
        <4> QED
          BY <2>2, <2>3, EmittedProperties
      <3>2. Promise!Merges(Range(x0)) = {M(p) : p \in G}
        BY PromiseOperators DEF Promise!Merges
      <3> HIDE DEF x0, x1, S, N
      <3>3. ASSUME NEW m \in 1 .. N
            PROVE  x1[m] \in {M(p) : p \in G}
        <4>1. PICK p, q : /\ order[p] \in DOMAIN x0 /\ order[q] \in DOMAIN x0
                          /\ x1[m] = Merge(x0[order[p]], x0[order[q]])
                          /\ Mergeable(x0[order[p]], x0[order[q]])
          BY <3>1
        <4> DEFINE a == x0[order[p]]
                   b == x0[order[q]]
        <4>2. a \in Range(x0) /\ b \in Range(x0)
          BY <1>3, <4>1
        <4>3. x1[m] = Merge(a, b) /\ Mergeable(a, b)
          BY <4>1
        <4> HIDE DEF a, b
        <4>4. <<a, b>> \in G
          BY <4>2, <4>3
        <4>5. M(<<a, b>>) = x1[m]
          BY <4>3
        <4> HIDE DEF M, G
        <4> QED
          BY <4>4, <4>5
      <3>4. \A v \in Range(x1) : v \in {M(p) : p \in G}
        BY <3>1, <3>3 DEF Range
      <3> HIDE DEF M, G
      <3> QED
        BY <3>2, <3>4
    <2>6. Promise!MergeRound
      BY <1>2, <2>1, <2>4, <2>5 DEF Promise!MergeRound
    <2> QED
      BY <2>6 DEF Promise!Next
  <1>6. CASE CollectStep
    <2>1. /\ S.pc = "merge" /\ (S.round > K \/ x0 = << >>) /\ T.pc = "done"
          /\ T.round = S.round /\ x1 = x0 /\ digest' = digest /\ sols' = RootVectors(x0)
      BY <1>6 DEF CollectStep
    <2>2. x0 \in Seq(RowAt(S.round))
      BY <2>1 DEF ListInv, GoodList
    <2>3. Range(RootVectors(x0)) = {row.idx : row \in {q \in Range(x0) : Promise!IsRoot(q)}}
      <3>1. \A v : v \in Range(RootVectors(x0)) <=>
              \E p \in DOMAIN x0 : IsZero(x0[p].h) /\ IsInjective(x0[p].idx) /\ v = x0[p].idx
        <4> HIDE DEF x0, S
        <4> QED
          BY <2>2, RootVectorsProperties
      <3>2. \A row : Promise!IsRoot(row) <=> IsZero(row.h) /\ IsInjective(row.idx)
        BY PromiseOperators
      <3> HIDE DEF x0
      <3>3. \A q : q \in Range(x0) <=> \E p \in DOMAIN x0 : q = x0[p]
        BY DEF Range
      <3> DEFINE Q == {q \in Range(x0) : Promise!IsRoot(q)}
      <3>4. \A v : v \in {row.idx : row \in Q} <=>
              \E p \in DOMAIN x0 : IsZero(x0[p].h) /\ IsInjective(x0[p].idx) /\ v = x0[p].idx
        BY <3>2, <3>3
      <3> HIDE DEF Q
      <3>5. \A v : v \in Range(RootVectors(x0)) <=> v \in {row.idx : row \in Q}
        BY <3>1, <3>4
      <3>6. Range(RootVectors(x0)) = {row.idx : row \in Q}
        BY <3>5
      <3> QED
        BY <3>6 DEF Q
    <2>4. Range(sols)' = Range(RootVectors(x0))
      BY <2>1 DEF Range
    <2>5. S.round > K \/ Range(x0) = {}
      BY <1>3, <2>1
    <2>6. Promise!Collect
      BY <1>2, <2>1, <2>3, <2>4, <2>5 DEF Promise!Collect
    <2> QED
      BY <2>6 DEF Promise!Next
  <1>7. CASE IdleStep
    <2>1. T.pc = S.pc /\ T.round = S.round /\ x1 = x0 /\ digest' = digest /\ sols' = sols
      BY <1>7 DEF IdleStep
    <2>2. Range(sols)' = Range(sols)
      BY <2>1 DEF Range
    <2>3. UNCHANGED Promise!vars
      BY <1>2, <2>1, <2>2 DEF Promise!vars
    <2> QED
      BY <2>3
  <1> QED
    BY <1>4, <1>5, <1>6, <1>7 DEF ListStep

\* ImplementsRounds: every backend keeps the promise of WagnerRounds, so what is
\* proved there holds of all of them.
THEOREM BackendsImplementRounds == Spec => ImplementsRounds
  <1>1. Init => Promise!Init
    BY BackendInvInit, PromiseInit
  <1>2. BackendInv /\ [Next]_vars => [Promise!Next]_(Promise!vars)
    <2> SUFFICES ASSUME BackendInv, [Next]_vars
                 PROVE  Promise!Next \/ UNCHANGED Promise!vars
      OBVIOUS
    <2>1. CASE Next
      BY <2>1, BackendInvNext, PromiseNext DEF BackendInv
    <2>2. CASE UNCHANGED vars
      <3>1. StandsFor' = StandsFor /\ digest' = digest /\ sols' = sols
        BY <2>2, StandsForSame
      <3>2. UNCHANGED backend
        BY <2>2 DEF vars
      <3>3. ListStep
        BY <3>1, <3>2 DEF ListStep, IdleStep
      <3> QED
        BY <3>3, PromiseNext DEF BackendInv
    <2> QED
      BY <2>1, <2>2
  <1> QED
    BY <1>1, <1>2, BackendsInvariant, PTL DEF Spec, ImplementsRounds, Promise!Spec

-----------------------------------------------------------------------------
(* The same lists in the same order.                                       *)

\* A step of a Rust backend that sorts is one of the reference solver, or none.
LEMMA ExpectedNext ==
  ASSUME ListStep, Sorting
  PROVE  (backend # "cpp" => Expected!Next) \/ UNCHANGED Expected!vars
  <1> DEFINE S == StandsFor
             T == StandsFor'
             x0 == StandsFor.x
             x1 == StandsFor'.x
  <1> SUFFICES ASSUME backend # "cpp"
               PROVE  Expected!Next \/ UNCHANGED Expected!vars
    OBVIOUS
  <1>1. CASE GenerateStep
    <2>1. /\ S.pc = "generate" /\ T.pc = "merge" /\ T.round = S.round
          /\ x1 = LeafRows(digest) /\ digest' = digest /\ sols' = sols
      BY <1>1 DEF GenerateStep
    <2>2. x1 = Expected!LeafRows(digest)
      BY <2>1, ExpectedOperators
    <2>3. Expected!Generate
      BY <2>1, <2>2 DEF Expected!Generate
    <2> QED
      BY <2>3 DEF Expected!Next
  <1>2. CASE RoundStep
    <2>1. /\ S.pc = "merge" /\ S.round <= K /\ x0 # << >> /\ T.pc = "merge"
          /\ T.round = S.round + 1 /\ digest' = digest /\ sols' = sols
      BY <1>2 DEF RoundStep
    <2>2. PICK order : Scans(x0, order) /\ x1 = Emitted(x0, order)
      BY <1>2 DEF RoundStep
    <2>3. order = SortOrder(x0)
      BY <2>2 DEF Scans
    <2>4. x1 = Expected!Emitted(x0, Expected!SortOrder(x0))
      BY <2>2, <2>3, ExpectedOperators
    <2>5. Expected!MergeRound
      BY <2>1, <2>4 DEF Expected!MergeRound
    <2> QED
      BY <2>5 DEF Expected!Next
  <1>3. CASE CollectStep
    <2>1. /\ S.pc = "merge" /\ (S.round > K \/ x0 = << >>) /\ T.pc = "done"
          /\ T.round = S.round /\ x1 = x0 /\ digest' = digest /\ sols' = RootVectors(x0)
      BY <1>3 DEF CollectStep
    <2>2. sols' = Expected!RootVectors(x0)
      BY <2>1, ExpectedOperators
    <2>3. Expected!Collect
      BY <2>1, <2>2 DEF Expected!Collect
    <2> QED
      BY <2>3 DEF Expected!Next
  <1>4. CASE IdleStep
    BY <1>4 DEF IdleStep, Expected!vars
  <1> QED
    BY <1>1, <1>2, <1>3, <1>4 DEF ListStep

\* SameAsReference: a Rust backend that sorts on the whole leading segment does,
\* list for list and in the same order, what the reference solver does.
THEOREM BackendsSameAsReference == Spec /\ Sorting => SameAsReference
  <1>1. Init => Expected!Init
    <2> SUFFICES ASSUME Init
                 PROVE  Expected!Init
      OBVIOUS
    <2>1. ListInit
      BY BackendInvInit
    <2> QED
      BY <2>1 DEF ListInit, Expected!Init
  <1>2. Sorting /\ [Next]_vars => Sorting'
    BY DEF Next, vars, Sorting
  <1>3. BackendInv /\ Sorting /\ [Next]_vars
          => [backend # "cpp" => Expected!Next]_(Expected!vars)
    <2> SUFFICES ASSUME BackendInv, Sorting, [Next]_vars
                 PROVE  (backend # "cpp" => Expected!Next) \/ UNCHANGED Expected!vars
      OBVIOUS
    <2>1. CASE Next
      BY <2>1, BackendInvNext, ExpectedNext
    <2>2. CASE UNCHANGED vars
      <3>1. StandsFor' = StandsFor /\ digest' = digest /\ sols' = sols
        BY <2>2, StandsForSame
      <3>2. UNCHANGED Expected!vars
        BY <3>1 DEF Expected!vars
      <3> QED
        BY <3>2
    <2> QED
      BY <2>1, <2>2
  <1> QED
    BY <1>1, <1>2, <1>3, BackendsInvariant, PTL DEF Spec, SameAsReference

=============================================================================
