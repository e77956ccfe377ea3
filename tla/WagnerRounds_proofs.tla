------------------------- MODULE WagnerRounds_proofs -------------------------
(***************************************************************************)
(* Soundness of every solver backend, for any number of rounds, any        *)
(* segment width and any hash function: whatever is returned obeys the     *)
(* whole solution rule, at every node of its tree.                         *)
(***************************************************************************)
EXTENDS WagnerRounds, Wagner_proofs

-----------------------------------------------------------------------------
(* The inductive invariant: the working list is what RowsAreXors says, of  *)
(* the right type, each of its rows is a tree, and so is what was          *)
(* collected from it.                                                      *)

RowsAreTrees == \A row \in rows : IsTree(digest, round - 1, row.idx)

IInv == TypeOK /\ RowsAreXors /\ RowsAreTrees /\ FoundValid

\* Row by row, the three conjuncts about the working list are one.
LEMMA GoodRows ==
  ASSUME IInv
  PROVE  \A row \in rows : GoodRow(digest, round, row)
  BY DEF IInv, TypeOK, RowsAreXors, RowsAreTrees, GoodRow, RowAt, IsXor

\* And so in the next state.
LEMMA GoodRowsNext ==
  ASSUME digest' \in [Key -> Row], pc' \in {"generate", "merge", "done"},
         round' \in 1 .. K + 1, pc' = "generate" => round' = 1,
         \A row \in rows' : GoodRow(digest', round', row)
  PROVE  TypeOK' /\ RowsAreXors' /\ RowsAreTrees'
  BY DEF TypeOK, RowsAreXors, RowsAreTrees, GoodRow, RowAt, IsXor

\* The empty working list satisfies the invariant.
LEMMA InitIInv == Init => IInv
  <1> SUFFICES ASSUME Init
               PROVE  IInv
    OBVIOUS
  <1>1. round = 1 /\ 1 \in 1 .. K + 1
    BY KAssumption DEF Init
  <1> QED
    BY <1>1, DigestsAssumption
       DEF Init, IInv, TypeOK, RowsAreXors, RowsAreTrees, FoundValid

\* Leaf generation, every round and the final collection preserve it.
LEMMA NextIInv == IInv /\ [Next]_vars => IInv'
  <1> SUFFICES ASSUME IInv, [Next]_vars
               PROVE  IInv'
    OBVIOUS
  <1> USE DEF IInv
  <1>1. /\ digest \in [Key -> Row]
        /\ pc \in {"generate", "merge", "done"}
        /\ round \in 1 .. K + 1
    BY DEF TypeOK
  <1>2. \A row \in rows : GoodRow(digest, round, row)
    BY GoodRows
  <1>3. K \in Nat \ {0}
    BY KAssumption
  <1>4. CASE Generate
    <2>1. /\ round = 1
          /\ rows' = {LeafRowOf(leaf) : leaf \in Leaf}
          /\ pc' = "merge"
          /\ UNCHANGED <<digest, round, found>>
      BY <1>4 DEF Generate, TypeOK
    <2>2. \A row \in rows' : GoodRow(digest', round', row)
      BY <1>1, <2>1, LeafIsGood DEF LeafRowOf
    <2>3. TypeOK' /\ RowsAreXors' /\ RowsAreTrees'
      BY <1>1, <2>1, <2>2, GoodRowsNext
    <2>4. FoundValid'
      BY <2>1 DEF FoundValid
    <2> QED
      BY <2>3, <2>4
  <1>5. CASE MergeRound
    <2>1. /\ pc = "merge"
          /\ round \in Rounds
          /\ rows' \subseteq Merges(rows)
          /\ round' = round + 1
          /\ UNCHANGED <<digest, pc, found>>
      BY <1>1, <1>5 DEF MergeRound, Rounds
    <2>2. ASSUME NEW row \in rows'
          PROVE  GoodRow(digest', round', row)
      <3>1. PICK a \in rows, b \in rows : Mergeable(a, b) /\ row = Merge(a, b)
        BY <2>1 DEF Merges
      <3>2. GoodRow(digest, round, a) /\ GoodRow(digest, round, b)
        BY <1>2
      <3>3. GoodRow(digest, round + 1, Merge(a, b))
        BY <1>1, <2>1, <3>1, <3>2, MergeIsGood
      <3> QED
        BY <2>1, <3>1, <3>3
    <2>3. round' \in 1 .. K + 1 /\ round' # 1
      BY <1>3, <2>1 DEF Rounds
    <2>4. TypeOK' /\ RowsAreXors' /\ RowsAreTrees'
      BY <1>1, <2>1, <2>2, <2>3, GoodRowsNext
    <2>5. FoundValid'
      BY <2>1 DEF FoundValid
    <2> QED
      BY <2>4, <2>5
  <1>6. CASE Collect
    <2>1. /\ pc = "merge"
          /\ pc' = "done"
          /\ round > K \/ rows = {}
          /\ found' = {row.idx : row \in {q \in rows : IsRoot(q)}}
          /\ UNCHANGED <<digest, round, rows>>
      BY <1>6 DEF Collect
    <2>2. \A v \in found' : Valid(digest, v)
      <3> SUFFICES ASSUME NEW v \in found'
                   PROVE  Valid(digest, v)
        OBVIOUS
      <3>1. PICK row \in rows : IsRoot(row) /\ v = row.idx
        BY <2>1
      <3>2. round = K + 1
        BY <1>1, <1>3, <2>1, <3>1
      <3>3. GoodRow(digest, K + 1, row) /\ IsZero(row.h)
        BY <1>2, <3>1, <3>2 DEF IsRoot
      <3> QED
        BY <1>1, <3>1, <3>3, RootIsValid
    <2>3. TypeOK' /\ RowsAreXors' /\ RowsAreTrees'
      BY <2>1 DEF TypeOK, RowsAreXors, RowsAreTrees
    <2>4. FoundValid'
      BY <2>1, <2>2 DEF FoundValid
    <2> QED
      BY <2>3, <2>4
  <1>7. CASE UNCHANGED vars
    BY <1>7 DEF vars, TypeOK, RowsAreXors, RowsAreTrees, FoundValid
  <1> QED
    BY <1>4, <1>5, <1>6, <1>7 DEF Next

\* The working list has the shape every backend's buffers are sized for:
\* K + 2 - round segments per row in every round.
THEOREM TypeCorrect == Spec => []TypeOK
  <1>1. Spec => []IInv
    BY InitIInv, NextIInv, PTL DEF Spec
  <1>2. IInv => TypeOK
    BY DEF IInv
  <1> QED
    BY <1>1, <1>2, PTL

\* In every round each row of the working list is the XOR of its own leaves,
\* with all collided segments cancelled, whatever the backend kept or dropped.
THEOREM RowsCorrect == Spec => []RowsAreXors
  <1>1. Spec => []IInv
    BY InitIInv, NextIInv, PTL DEF Spec
  <1>2. IInv => RowsAreXors
    BY DEF IInv
  <1> QED
    BY <1>1, <1>2, PTL

\* What any backend returns obeys the whole rule: every node of its tree collides
\* and has its children in canonical order, so that no verifier refuses it.
THEOREM SolversValid == Spec => []FoundValid
  <1>1. Spec => []IInv
    BY InitIInv, NextIInv, PTL DEF Spec
  <1>2. IInv => FoundValid
    BY DEF IInv
  <1> QED
    BY <1>1, <1>2, PTL

=============================================================================
