--------------------------- MODULE Workbench_proofs ---------------------------
(***************************************************************************)
(* The measuring tools and two of the solvers of the corpus keep their     *)
(* promises, each in its part of a behaviour of Workbench and for all      *)
(* values of its constants.                                                *)
(***************************************************************************)
EXTENDS Workbench, WellFoundedInduction, FiniteSetTheorems, SequenceTheorems, TLAPS

-----------------------------------------------------------------------------
(* Numbers.                                                                *)

\* Among numbers there is a least.
LEMMA LeastNumber ==
  ASSUME NEW T \in SUBSET Nat, T # {}
  PROVE  \E n \in T : \A m \in T : n <= m
  <1>1. PICK n \in T : \A m \in T : ~(<<m, n>> \in OpToRel(<, Nat))
    BY NatLessThanWellFounded, WFMin
  <1>2. \A m \in T : ~(m < n)
    BY <1>1 DEF OpToRel
  <1> QED
    BY <1>2

\* Division by a variable is sandwiched between multiples.
LEMMA DivBounds ==
  ASSUME NEW d \in Nat \ {0}, NEW a \in Nat
  PROVE  /\ a \div d \in Nat /\ a % d \in Nat /\ a % d \in 0 .. d - 1
         /\ a = d * (a \div d) + (a % d)
  BY SMT

-----------------------------------------------------------------------------
(* The leaf hasher gate: the self-test finds every candidate that is wrong *)
(* where it looks, for any number of keys, classes and lanes.              *)

\* The parameters of the gate are those of the workbench.
LEMMA GateParameters == Gate!GateAssumption
  BY PartsAssumption

\* What is known when a hasher has been chosen: the batched one passed the battery.
Chosen ==
  /\ cand \in Candidates
  /\ \/ pc = "start" /\ out = << >>
     \/ pc = "ready" /\ chosen \in {"scalar", "simd"}
  /\ chosen = "simd" => Gate!AgreesWithReference

\* The digests handed out are those of the hasher chosen, for keys of the batch.
Handed ==
  out # << >> =>
    /\ batch \in Batches
    /\ out = Gate!HashMany(chosen, Gate!KeysOf(batch.count, batch.k))

GateInv == Chosen /\ Handed

-----------------------------------------------------------------------------
\* A multiple of d that quotient c leads to, below n, when c is no greater than n - 1
\* divided by d.
LEMMA MultipleBelow ==
  ASSUME NEW d \in Nat \ {0}, NEW n \in Nat \ {0}, NEW c \in Nat,
         c <= (n - 1) \div d
  PROVE  d * c \in 0 .. n - 1
<1> DEFINE q == (n - 1) \div d
<1>1. q \in Nat /\ n - 1 = d * q + ((n - 1) % d) /\ (n - 1) % d \in Nat
  <2>1. n - 1 \in Nat
    OBVIOUS
  <2>2. QED
    BY <2>1, DivBounds
<1>2. d * c <= d * q /\ d * c \in Nat /\ d * q \in Nat
  BY <1>1, SMT
<1> HIDE DEF q
<1>3. QED
  BY <1>1, <1>2

\* A multiple leaves nothing over.
LEMMA MultipleDivides ==
  ASSUME NEW d \in Nat \ {0}, NEW c \in Nat
  PROVE  (d * c) % d = 0 /\ (d * c) \div d = c
<1>1. (c * d + 0) \div d = c
  BY SMT
<1>2. (c * d + 0) % d = 0
  BY SMT
<1>3. d * c = c * d + 0
  BY SMT
<1>4. QED
  BY <1>1, <1>2, <1>3

\* A number below the divisor is its own remainder.
LEMMA SmallRemainder ==
  ASSUME NEW d \in Nat \ {0}, NEW e \in 0 .. d - 1
  PROVE  e % d = e
  BY SMT

\* What passing the battery says of each of its keys.
LEMMA BatterySays ==
  ASSUME cand \in Candidates, Gate!AgreesWithReference,
         NEW p \in 1 .. BatteryKeys
  PROVE  /\ cand.len = OutputLen
         /\ (p - 1) % BatteryK < cand.class
         /\ (p - 1) \div BatteryK < cand.counter
         /\ (p - 1) % Lanes # cand.lane
         /\ ~(cand.tail /\ Gate!InShortGroup(p, BatteryKeys))
<1> DEFINE keys == Gate!KeysOf(BatteryKeys, BatteryK)
<1>1. /\ DOMAIN keys = 1 .. BatteryKeys
      /\ keys[p] = <<(p - 1) % BatteryK, (p - 1) \div BatteryK>>
      /\ Len(keys) = BatteryKeys
  BY GateParameters DEF Gate!KeysOf, Gate!GateAssumption
<1>2. cand.len = OutputLen /\ Gate!ScalarMany(keys) = Gate!SimdMany(keys)
  BY DEF Gate!AgreesWithReference
<1> HIDE DEF keys
<1>3. Gate!ScalarMany(keys)[p] = [key |-> keys[p], len |-> OutputLen]
  BY <1>1 DEF Gate!ScalarMany, Gate!HashOne
<1>4. Gate!SimdMany(keys)[p].key = keys[p]
  BY <1>2, <1>3
<1>5. keys[p] # << >>
  BY <1>1
<1>6. ~ \/ keys[p][1] >= cand.class
        \/ keys[p][2] >= cand.counter
        \/ (p - 1) % Lanes = cand.lane
        \/ cand.tail /\ Gate!InShortGroup(p, Len(keys))
  <2>1. SUFFICES ASSUME \/ keys[p][1] >= cand.class
                        \/ keys[p][2] >= cand.counter
                        \/ (p - 1) % Lanes = cand.lane
                        \/ cand.tail /\ Gate!InShortGroup(p, Len(keys))
                 PROVE  FALSE
    OBVIOUS
  <2>2. Gate!SimdMany(keys)[p] = [key |-> << >>, len |-> cand.len]
    BY <1>1, <2>1 DEF Gate!SimdMany
  <2>3. QED
    BY <1>4, <1>5, <2>2
<1>7. /\ (p - 1) % BatteryK \in Nat /\ (p - 1) \div BatteryK \in Nat
      /\ cand.class \in Nat /\ cand.counter \in Nat
  <2>1. p - 1 \in Nat /\ BatteryK \in Nat \ {0}
    BY GateParameters DEF Gate!GateAssumption
  <2>2. cand.class \in Nat /\ cand.counter \in Nat
    BY GateParameters DEF Gate!GateAssumption
  <2>3. QED
    BY <2>1, <2>2, DivBounds
<1>8. QED
  BY <1>1, <1>2, <1>6, <1>7

\* Each class of the battery is right: its first keys have one of each.
LEMMA ClassesRight ==
  ASSUME cand \in Candidates, Gate!AgreesWithReference,
         NEW c \in 0 .. BatteryK - 1
  PROVE  c < cand.class
<1>1. c + 1 \in 1 .. BatteryKeys /\ BatteryK \in Nat \ {0}
  BY GateParameters DEF Gate!GateAssumption
<1>2. ((c + 1) - 1) % BatteryK = c
  BY <1>1, SmallRemainder
<1>3. QED
  BY <1>1, <1>2, BatterySays

\* Each counter up to the battery's last is right.
LEMMA CountersRight ==
  ASSUME cand \in Candidates, Gate!AgreesWithReference,
         NEW c \in Nat, c <= (BatteryKeys - 1) \div BatteryK
  PROVE  c < cand.counter
<1> DEFINE p == BatteryK * c + 1
<1>1. BatteryK \in Nat \ {0} /\ BatteryKeys \in Nat \ {0}
  BY GateParameters DEF Gate!GateAssumption
<1>2. BatteryK * c \in 0 .. BatteryKeys - 1
  BY <1>1, MultipleBelow
<1>3. p \in 1 .. BatteryKeys /\ p - 1 = BatteryK * c
  BY <1>1, <1>2
<1>4. (p - 1) \div BatteryK = c
  BY <1>1, <1>3, MultipleDivides
<1> HIDE DEF p
<1>5. QED
  BY <1>3, <1>4, BatterySays

\* Each lane is right: the first group of the battery has one job in each.
LEMMA LanesRight ==
  ASSUME cand \in Candidates, Gate!AgreesWithReference
  PROVE  ~ cand.lane \in 0 .. Lanes - 1
<1>1. SUFFICES ASSUME cand.lane \in 0 .. Lanes - 1
               PROVE  FALSE
  OBVIOUS
<1>2. cand.lane + 1 \in 1 .. BatteryKeys /\ Lanes \in Nat \ {0}
  BY <1>1, GateParameters DEF Gate!GateAssumption
<1>3. ((cand.lane + 1) - 1) % Lanes = cand.lane
  BY <1>1, <1>2, SmallRemainder
<1>4. QED
  BY <1>2, <1>3, BatterySays

\* A group that is not full is right if the battery leaves one: its last key is in it.
LEMMA TailRight ==
  ASSUME cand \in Candidates, Gate!AgreesWithReference,
         BatteryKeys % Lanes # 0
  PROVE  ~ cand.tail
<1>1. /\ BatteryKeys \in 1 .. BatteryKeys /\ BatteryKeys \in Nat /\ Lanes \in Nat \ {0}
  BY GateParameters DEF Gate!GateAssumption
<1> DEFINE q == BatteryKeys \div Lanes
           rest == BatteryKeys % Lanes
<1>2. BatteryKeys = Lanes * q + rest /\ rest \in 0 .. Lanes - 1 /\ rest # 0 /\ q \in Nat
  BY <1>1, DivBounds
<1>3. Lanes * q \in Nat
  BY <1>1, <1>2
<1> DEFINE m == Lanes * q
<1>4. BatteryKeys = m + rest
  BY <1>2
<1>5. Gate!InShortGroup(BatteryKeys, BatteryKeys) <=> BatteryKeys > m
  BY DEF Gate!InShortGroup
<1> HIDE DEF m, q, rest
<1>6. BatteryKeys > m
  BY <1>1, <1>2, <1>4, <1>3 DEF m
<1>7. QED
  BY <1>1, <1>5, <1>6, BatterySays

-----------------------------------------------------------------------------
\* Where the self-test looks, the batched hasher that passed it gives the scalar
\* digest.
LEMMA SimdRight ==
  ASSUME cand \in Candidates, Gate!AgreesWithReference,
         NEW b \in Batches, NEW p \in 1 .. b.count,
         (p - 1) % b.k < BatteryK,
         (p - 1) \div b.k <= (BatteryKeys - 1) \div BatteryK,
         ~(Gate!InShortGroup(p, b.count) /\ BatteryKeys % Lanes = 0)
  PROVE  Gate!SimdMany(Gate!KeysOf(b.count, b.k))[p] = Gate!HashOne(Gate!KeysOf(b.count, b.k)[p], OutputLen)
<1> DEFINE keys == Gate!KeysOf(b.count, b.k)
           c == (p - 1) % b.k
           j == (p - 1) \div b.k
<1>1. b.count \in Nat /\ b.k \in Nat \ {0} /\ p \in Nat /\ p - 1 \in Nat
  BY GateParameters DEF Gate!GateAssumption
<1>2. c \in 0 .. BatteryK - 1 /\ j \in Nat
  <2>1. c \in 0 .. b.k - 1 /\ j \in Nat
    BY <1>1, DivBounds
  <2>2. QED
    BY <2>1, <1>1, GateParameters DEF Gate!GateAssumption
<1>3. keys[p] = <<c, j>> /\ p \in DOMAIN keys /\ Len(keys) = b.count
  BY <1>1 DEF Gate!KeysOf
<1> HIDE DEF keys, c, j
<1>4. c < cand.class
  BY <1>2, ClassesRight
<1>5. j < cand.counter
  BY <1>2, CountersRight DEF j
<1>6. (p - 1) % Lanes # cand.lane
  <2>1. Lanes \in Nat \ {0}
    BY GateParameters DEF Gate!GateAssumption
  <2>2. (p - 1) % Lanes \in 0 .. Lanes - 1
    BY <1>1, <2>1, DivBounds
  <2>3. QED
    BY <2>2, LanesRight
<1>7. ~(cand.tail /\ Gate!InShortGroup(p, b.count))
  BY TailRight
<1>8. cand.len = OutputLen
  <2>1. 1 \in 1 .. BatteryKeys
    BY GateParameters DEF Gate!GateAssumption
  <2>2. QED
    BY <2>1, BatterySays
<1>9. cand.class \in Nat /\ cand.counter \in Nat
  BY GateParameters DEF Gate!GateAssumption
<1>10. ~ \/ keys[p][1] >= cand.class
         \/ keys[p][2] >= cand.counter
         \/ (p - 1) % Lanes = cand.lane
         \/ cand.tail /\ Gate!InShortGroup(p, Len(keys))
  <2>1. keys[p][1] = c /\ keys[p][2] = j
    BY <1>3
  <2>2. ~(c >= cand.class) /\ ~(j >= cand.counter)
    BY <1>2, <1>4, <1>5, <1>9
  <2>3. QED
    BY <1>3, <1>6, <1>7, <2>1, <2>2
<1>11. QED
  BY <1>3, <1>8, <1>10 DEF Gate!SimdMany, keys

\* The digests of a state of the invariant are right where the self-test looks.
LEMMA BatchRight ==
  ASSUME GateInv
  PROVE  Gate!GateSound
<1>1. SUFFICES ASSUME NEW p \in DOMAIN out,
                      ~(Gate!KeysOf(batch.count, batch.k)[p][1] >= BatteryK),
                      ~(Gate!KeysOf(batch.count, batch.k)[p][2] > (BatteryKeys - 1) \div BatteryK),
                      ~(Gate!InShortGroup(p, batch.count) /\ BatteryKeys % Lanes = 0)
               PROVE  out[p] = Gate!HashOne(Gate!KeysOf(batch.count, batch.k)[p], OutputLen)
  BY DEF Gate!GateSound
<1> DEFINE keys == Gate!KeysOf(batch.count, batch.k)
<1>2. out # << >>
  OBVIOUS
<1>3. batch \in Batches /\ out = Gate!HashMany(chosen, keys)
  BY <1>2 DEF GateInv, Handed
<1>4. /\ batch.count \in Nat /\ batch.k \in Nat \ {0} /\ DOMAIN keys = 1 .. batch.count
      /\ BatteryK \in Nat \ {0} /\ BatteryKeys \in Nat \ {0}
  BY <1>3, GateParameters DEF Gate!GateAssumption, Gate!KeysOf
<1>5. p \in DOMAIN keys
  BY <1>3, <1>4 DEF Gate!HashMany, Gate!ScalarMany, Gate!SimdMany
<1>6. CASE chosen = "scalar"
  BY <1>3, <1>5, <1>6 DEF Gate!HashMany, Gate!ScalarMany
<1>7. CASE chosen # "scalar"
  <2>1. cand \in Candidates /\ Gate!AgreesWithReference
    BY <1>2, <1>7 DEF GateInv, Chosen
  <2>2. p \in 1 .. batch.count
    BY <1>4, <1>5
  <2>3. keys[p] = <<(p - 1) % batch.k, (p - 1) \div batch.k>>
    BY <2>2 DEF Gate!KeysOf
  <2>4. /\ (p - 1) % batch.k \in Nat /\ (p - 1) \div batch.k \in Nat
        /\ (BatteryKeys - 1) \div BatteryK \in Nat
    <3>1. p - 1 \in Nat /\ BatteryKeys - 1 \in Nat
      BY <1>4, <2>2
    <3>2. (p - 1) % batch.k \in Nat /\ (p - 1) \div batch.k \in Nat
      BY <1>4, <3>1, DivBounds
    <3>3. (BatteryKeys - 1) \div BatteryK \in Nat
      BY <1>4, <3>1, DivBounds
    <3>4. QED
      BY <3>2, <3>3
  <2>5. /\ (p - 1) % batch.k < BatteryK
        /\ (p - 1) \div batch.k <= (BatteryKeys - 1) \div BatteryK
    BY <1>1, <1>4, <2>3, <2>4
  <2>6. Gate!SimdMany(keys)[p] = Gate!HashOne(keys[p], OutputLen)
    BY <1>1, <1>3, <2>1, <2>2, <2>5, SimdRight
  <2>7. QED
    BY <1>3, <1>7, <2>6 DEF Gate!HashMany
<1>8. QED
  BY <1>6, <1>7

\* Whatever candidate of the declared family was built in, its fault one of length,
\* lane or short group or a threshold of class or counter, every digest of every batch
\* is the scalar one at its leaf's place, except where autodetect's self-test has no key
\* to tell: a class or counter past its own, or a group left short that it never leaves
\* short.
THEOREM GateHolds == Spec => []GateSound
<1> DEFINE Inv == part = "gate" => GateInv
<1>1. Init => Inv
  BY DEF Init, GateInv, Chosen, Handed, Gate!Init
<1>2. Inv /\ [Next]_vars => Inv'
  <2>1. SUFFICES ASSUME Inv, [Next]_vars, part' = "gate"
                 PROVE  GateInv'
    OBVIOUS
  <2>2. part = "gate" /\ GateInv
    BY <2>1 DEF Next, vars
  <2>3. CASE Gate!Next
    <3>1. CASE Gate!Autodetect
      <4>1. out = << >> /\ cand' = cand /\ out' = << >> /\ pc' = "ready"
        BY <2>2, <3>1 DEF Gate!Autodetect, GateInv, Chosen
      <4>2. chosen' = "scalar" \/ (chosen' = "simd" /\ Gate!AgreesWithReference)
        BY <3>1 DEF Gate!Autodetect
      <4>3. Gate!AgreesWithReference' = Gate!AgreesWithReference
        BY <4>1 DEF Gate!AgreesWithReference, Gate!ScalarMany, Gate!SimdMany
      <4>4. Chosen'
        BY <2>2, <4>1, <4>2, <4>3 DEF GateInv, Chosen
      <4> QED
        BY <4>1, <4>4 DEF GateInv, Handed
    <3>2. CASE Gate!Hash
      <4>1. PICK b \in Batches : batch' = b /\ out' = Gate!HashMany(chosen, Gate!KeysOf(b.count, b.k))
        BY <3>2 DEF Gate!Hash
      <4>2. pc = "ready" /\ pc' = pc /\ cand' = cand /\ chosen' = chosen
        BY <3>2 DEF Gate!Hash
      <4>3. Gate!HashMany(chosen, Gate!KeysOf(b.count, b.k))' = Gate!HashMany(chosen, Gate!KeysOf(b.count, b.k))
        BY <4>2 DEF Gate!HashMany, Gate!ScalarMany, Gate!SimdMany
      <4>4. Gate!AgreesWithReference' = Gate!AgreesWithReference
        BY <4>2 DEF Gate!AgreesWithReference, Gate!ScalarMany, Gate!SimdMany
      <4>5. Chosen'
        BY <2>2, <4>2, <4>4 DEF GateInv, Chosen
      <4>6. Handed'
        BY <4>1, <4>2 DEF Handed, Gate!HashMany, Gate!ScalarMany, Gate!SimdMany
      <4> QED
        BY <4>5, <4>6 DEF GateInv
    <3> QED
      BY <2>3, <3>1, <3>2 DEF Gate!Next
  <2>4. CASE UNCHANGED <<pc, gateVars>>
    <3>1. pc' = pc /\ cand' = cand /\ chosen' = chosen /\ batch' = batch /\ out' = out
      BY <2>4 DEF gateVars
    <3> QED
      BY <2>2, <3>1 DEF GateInv, Chosen, Handed, Gate!AgreesWithReference, Gate!HashMany,
                        Gate!ScalarMany, Gate!SimdMany
  <2> QED
    BY <2>1, <2>2, <2>3, <2>4 DEF Next, vars
<1>3. Inv => GateSound
  BY BatchRight DEF GateSound
<1> QED
  BY <1>1, <1>2, <1>3, PTL DEF Spec

-----------------------------------------------------------------------------
(* The counting allocator.  The peak covers the section measured because  *)
(* every set of blocks counted at once is seen: by the peak already, or by *)
(* a call about to note it.                                                *)

\* One cell for each byte of the blocks B.
Cells(B) == {c \in B \X Nat : c[2] \in 1 .. SizeOf[c[1]]}

\* The sizes are numbers, and the blocks of a process fit in its address space.
LEMMA AllocNumbers ==
  /\ Measurer \in Thread
  /\ IsFiniteSet(Mem!Block) /\ \A b \in Mem!Block : SizeOf[b] \in Nat
  /\ Usize \in Nat /\ Mem!Bytes(Mem!Block) < Usize
  BY PartsAssumption DEF Mem!AllocAssumption, Mem!IsFiniteSet, IsFiniteSet

\* No block, no cell.
LEMMA CellsOfNone == Cells({}) = {} /\ IsFiniteSet(Cells({})) /\ Cardinality(Cells({})) = 0
  <1>1. Cells({}) = {}
    BY DEF Cells
  <1> QED
    BY <1>1, FS_EmptySet

\* One block more, so many cells more.
LEMMA CellsMore ==
  ASSUME NEW B \in SUBSET Mem!Block, NEW b \in Mem!Block, b \notin B,
         IsFiniteSet(Cells(B))
  PROVE  /\ IsFiniteSet(Cells(B \cup {b}))
         /\ Cardinality(Cells(B \cup {b})) = SizeOf[b] + Cardinality(Cells(B))
  <1> DEFINE n == SizeOf[b]
             D == {b} \X (1 .. n)
  <1>1. n \in Nat
    BY AllocNumbers
  <1> HIDE DEF n
  <1>2. IsFiniteSet({b}) /\ Cardinality({b}) = 1
    BY FS_Singleton
  <1>3. IsFiniteSet(1 .. n) /\ Cardinality(1 .. n) = n
    BY <1>1, FS_Interval
  <1>4. IsFiniteSet(D) /\ Cardinality(D) = n
    <2>1. IsFiniteSet(D) /\ Cardinality(D) = Cardinality({b}) * Cardinality(1 .. n)
      BY <1>2, <1>3, FS_Product
    <2> QED
      BY <1>1, <1>2, <1>3, <2>1
  <1>5. Cells(B \cup {b}) = D \cup Cells(B)
    BY <1>1 DEF Cells, n
  <1>6. D \cap Cells(B) = {}
    BY DEF Cells
  <1> HIDE DEF D
  <1>7. /\ IsFiniteSet(D \cup Cells(B))
        /\ Cardinality(D \cup Cells(B)) = Cardinality(D) + Cardinality(Cells(B)) - Cardinality(D \cap Cells(B))
    BY <1>4, FS_Union
  <1>8. Cardinality(Cells(B)) \in Nat /\ Cardinality(D \cap Cells(B)) = 0
    BY <1>6, FS_EmptySet, FS_CardinalityType
  <1>9. Cardinality(D \cup Cells(B)) = n + Cardinality(Cells(B))
    BY <1>1, <1>4, <1>7, <1>8
  <1> QED
    BY <1>5, <1>7, <1>9 DEF n

\* The sum the model takes of the sizes of some blocks counts their cells.
LEMMA BytesCount ==
  ASSUME NEW S \in SUBSET Mem!Block
  PROVE  IsFiniteSet(Cells(S)) /\ Mem!Bytes(S) = Cardinality(Cells(S))
  <1> DEFINE some(s) == CHOOSE x \in s : TRUE
             F(f) == [s \in SUBSET S |-> IF s = {} THEN 0 ELSE SizeOf[some(s)] + f[s \ {some(s)}]]
             sum == CHOOSE f : f = F(f)
             G == [s \in SUBSET S |-> Cardinality(Cells(s))]
  <1>1. \A s \in SUBSET S : IsFiniteSet(s) /\ IsFiniteSet(Mem!Block)
    BY AllocNumbers, FS_Subset
  <1>a. \A s \in SUBSET S : s # {} => some(s) \in s
    OBVIOUS
  <1>2. \A s \in SUBSET S : IsFiniteSet(Cells(s))
    <2> DEFINE Bad == {Cardinality(s) : s \in {u \in SUBSET S : ~IsFiniteSet(Cells(u))}}
    <2> SUFFICES ASSUME Bad # {}
                 PROVE  FALSE
      OBVIOUS
    <2>1. Bad \in SUBSET Nat
      BY <1>1, FS_CardinalityType
    <2>2. PICK n \in Bad : \A m \in Bad : n <= m
      BY <2>1, LeastNumber
    <2>3. PICK s \in SUBSET S : ~IsFiniteSet(Cells(s)) /\ Cardinality(s) = n
      BY <2>2
    <2>4. s # {}
      BY <2>3, CellsOfNone
    <2>5. PICK b \in s : TRUE
      BY <2>4
    <2>6. Cardinality(s \ {b}) = Cardinality(s) - 1 /\ n \in Nat /\ s \ {b} \in SUBSET S
      BY <1>1, <2>1, <2>3, FS_RemoveElement
    <2>7. IsFiniteSet(Cells(s \ {b}))
      <3>1. SUFFICES ASSUME ~IsFiniteSet(Cells(s \ {b}))
                     PROVE  FALSE
        OBVIOUS
      <3>2. Cardinality(s \ {b}) \in Bad
        BY <2>6, <3>1
      <3> HIDE DEF Bad
      <3> QED
        BY <2>2, <2>3, <2>6, <3>2
    <2>8. s = (s \ {b}) \cup {b}
      OBVIOUS
    <2> QED
      BY <2>3, <2>7, <2>8, CellsMore
  <1>3. ASSUME NEW s \in SUBSET S, s # {}
        PROVE  Cardinality(Cells(s)) = SizeOf[some(s)] + Cardinality(Cells(s \ {some(s)}))
    <2>1. some(s) \in s
      BY <1>3
    <2> HIDE DEF some
    <2>2. s = (s \ {some(s)}) \cup {some(s)} /\ s \ {some(s)} \in SUBSET S
      BY <2>1
    <2>3. some(s) \in Mem!Block /\ some(s) \notin s \ {some(s)} /\ s \ {some(s)} \in SUBSET Mem!Block
      BY <2>1
    <2> QED
      BY <1>2, <2>2, <2>3, CellsMore
  <1>4. G = F(G)
    <2> SUFFICES ASSUME NEW s \in SUBSET S
                 PROVE  G[s] = IF s = {} THEN 0 ELSE SizeOf[some(s)] + G[s \ {some(s)}]
      OBVIOUS
    <2>1. CASE s = {}
      BY <2>1, CellsOfNone
    <2>2. CASE s # {}
      <3> HIDE DEF some
      <3>1. s \ {some(s)} \in SUBSET S
        OBVIOUS
      <3>2. G[s] = Cardinality(Cells(s)) /\ G[s \ {some(s)}] = Cardinality(Cells(s \ {some(s)}))
        BY <3>1
      <3> QED
        BY <1>3, <2>2, <3>2
    <2> QED
      BY <2>1, <2>2
  <1>5. sum = F(sum)
    <2> HIDE DEF G, F
    <2> QED
      BY <1>4
  <1> HIDE DEF sum
  <1>6. \A s \in SUBSET S : sum[s] = IF s = {} THEN 0 ELSE SizeOf[some(s)] + sum[s \ {some(s)}]
    BY <1>5
  <1>7. \A s \in SUBSET S : sum[s] = Cardinality(Cells(s))
    <2> DEFINE Bad == {Cardinality(s) : s \in {u \in SUBSET S : sum[u] # Cardinality(Cells(u))}}
    <2> SUFFICES ASSUME Bad # {}
                 PROVE  FALSE
      OBVIOUS
    <2>1. Bad \in SUBSET Nat
      BY <1>1, FS_CardinalityType
    <2>2. PICK n \in Bad : \A m \in Bad : n <= m
      BY <2>1, LeastNumber
    <2>3. PICK s \in SUBSET S : sum[s] # Cardinality(Cells(s)) /\ Cardinality(s) = n
      BY <2>2
    <2>4. s # {}
      BY <1>6, <2>3, CellsOfNone
    <2> DEFINE b == some(s)
    <2>5. b \in s
      BY <2>4
    <2>9. sum[s] = SizeOf[b] + sum[s \ {b}] /\ Cardinality(Cells(s)) = SizeOf[b] + Cardinality(Cells(s \ {b}))
      BY <1>3, <1>6, <2>4
    <2> HIDE DEF b
    <2>6. Cardinality(s \ {b}) = Cardinality(s) - 1 /\ n \in Nat /\ s \ {b} \in SUBSET S
      BY <1>1, <2>1, <2>3, <2>5, FS_RemoveElement
    <2>7. sum[s \ {b}] = Cardinality(Cells(s \ {b}))
      <3>1. SUFFICES ASSUME sum[s \ {b}] # Cardinality(Cells(s \ {b}))
                     PROVE  FALSE
        OBVIOUS
      <3>2. Cardinality(s \ {b}) \in Bad
        BY <2>6, <3>1
      <3> HIDE DEF Bad
      <3> QED
        BY <2>2, <2>3, <2>6, <3>2
    <2> QED
      BY <2>3, <2>7, <2>9
  <1>8. Mem!Bytes(S) = sum[S]
    BY DEF Mem!Bytes, Mem!MapThenSumSet, Mem!MapThenFoldSet, sum
  <1> QED
    BY <1>2, <1>7, <1>8

\* So it is a number,
LEMMA BytesType ==
  ASSUME NEW B \in SUBSET Mem!Block
  PROVE  Mem!Bytes(B) \in Nat
  BY BytesCount, FS_CardinalityType

\* nothing for no block,
LEMMA BytesOfNone == Mem!Bytes({}) = 0
  BY BytesCount, CellsOfNone

\* greater by the size of a block more,
LEMMA BytesMore ==
  ASSUME NEW B \in SUBSET Mem!Block, NEW b \in Mem!Block, b \notin B
  PROVE  Mem!Bytes(B \cup {b}) = Mem!Bytes(B) + SizeOf[b]
  <1>1. IsFiniteSet(Cells(B)) /\ Mem!Bytes(B) = Cardinality(Cells(B))
    BY BytesCount
  <1>2. B \cup {b} \in SUBSET Mem!Block
    OBVIOUS
  <1>3. Mem!Bytes(B \cup {b}) = Cardinality(Cells(B \cup {b}))
    BY <1>2, BytesCount
  <1>4. Cardinality(Cells(B \cup {b})) = SizeOf[b] + Cardinality(Cells(B))
    BY <1>1, CellsMore
  <1>5. Mem!Bytes(B) \in Nat /\ SizeOf[b] \in Nat
    BY BytesType, AllocNumbers
  <1> QED
    BY <1>1, <1>3, <1>4, <1>5

\* and no smaller for more blocks.
LEMMA BytesMonotone ==
  ASSUME NEW B \in SUBSET Mem!Block, NEW A \in SUBSET B
  PROVE  Mem!Bytes(A) <= Mem!Bytes(B)
  <1>1. Cells(A) \subseteq Cells(B)
    BY DEF Cells
  <1>2. IsFiniteSet(Cells(B)) /\ Mem!Bytes(B) = Cardinality(Cells(B)) /\ Mem!Bytes(A) = Cardinality(Cells(A))
    BY BytesCount
  <1> QED
    BY <1>1, <1>2, FS_Subset

\* The greater of two numbers, as fetch_max takes it.
LEMMA Greater ==
  ASSUME NEW a \in Nat, NEW b \in Nat
  PROVE  LET m == Mem!Max({a, b}) IN m \in Nat /\ m >= a /\ m >= b /\ (m = a \/ m = b)
  <1> DEFINE m == Mem!Max({a, b})
  <1>1. \E x \in {a, b} : \A y \in {a, b} : x >= y
    <2>1. CASE a >= b
      BY <2>1
    <2>2. CASE ~(a >= b)
      BY <2>2
    <2> QED
      BY <2>1, <2>2
  <1>2. m \in {a, b} /\ \A y \in {a, b} : m >= y
    BY <1>1 DEF Mem!Max
  <1> HIDE DEF m
  <1>3. m \in Nat /\ m >= a /\ m >= b /\ (m = a \/ m = b)
    BY <1>2
  <1> QED
    BY <1>3 DEF m

\* What a call may be in the middle of.
CallType ==
  {Mem!NoCall} \cup [op : {"add", "sub"}, block : Mem!Block]
    \cup [op : {"max"}, block : Mem!Block, cur : Nat] \cup [op : {"reset"}]

\* Thread t is between the system and the end of its counting.
Busy(t) == call[t].op \in {"add", "max", "sub"}

\* Blocks whose addition is done.
Included == {b \in fresh : ~Mem!InCall("add", b)}

\* Somebody has seen, or is about to note, as much as the blocks X.
Seen(X) ==
  \/ Mem!Bytes(X) <= peak
  \/ \E t \in Thread :
       call[t].op = "max" /\ call[t].block \in X /\ Mem!Bytes(X) <= call[t].cur

\* Types; and no block is in two calls at once.
MemType ==
  /\ call \in [Thread -> CallType]
  /\ held \in SUBSET Mem!Block /\ fresh \in SUBSET held
  /\ current \in Nat /\ peak \in Nat /\ settled \in Nat /\ touched \in Nat
  /\ blurred \in BOOLEAN
  /\ \A t \in Thread : Busy(t) => call[t].block \in held
  /\ \A t, u \in Thread : Busy(t) /\ Busy(u) /\ t # u => call[t].block # call[u].block

\* Until the section is blurred: the count is that of the blocks included, nothing
\* noted is more than was ever in use, and every set of blocks included is seen.
Covered ==
  /\ \A t \in Thread : Busy(t) => call[t].block \in fresh
  /\ current = Mem!Bytes(Included)
  /\ Mem!Bytes(fresh) <= touched
  /\ \A t \in Thread : call[t].op = "max" => call[t].cur <= touched
  /\ call[Measurer].op # "reset" => peak <= touched
  /\ settled <= peak /\ settled <= touched
  /\ \A X \in SUBSET Included : Seen(X)

MemInv == MemType /\ (~blurred => Covered)

\* The fields of a call.
LEMMA CallFields ==
  ASSUME NEW c \in CallType
  PROVE  /\ c.op \in {"none", "add", "max", "sub", "reset"}
         /\ c.op \in {"add", "max", "sub"} => c.block \in Mem!Block
         /\ c.op = "max" => c.cur \in Nat
         /\ c = Mem!NoCall <=> c.op = "none"
  BY DEF CallType, Mem!NoCall

\* The calls the actions make.
LEMMA CallTypes ==
  /\ Mem!NoCall \in CallType /\ Mem!NoCall.op = "none"
  /\ [op |-> "reset"] \in CallType
  /\ \A b \in Mem!Block : [op |-> "add", block |-> b] \in CallType /\ [op |-> "sub", block |-> b] \in CallType
  /\ \A b \in Mem!Block, n \in Nat : [op |-> "max", block |-> b, cur |-> n] \in CallType
  BY DEF CallType, Mem!NoCall

\* Initially.
LEMMA MemInitially ==
  ASSUME Mem!Init
  PROVE  MemInv
  <1>1. \A t \in Thread : call[t] = Mem!NoCall /\ call[t].op = "none" /\ ~Busy(t)
    BY CallTypes DEF Mem!Init, Busy
  <1>2. MemType
    BY <1>1, CallTypes DEF Mem!Init, MemType
  <1>3. Included = {}
    BY DEF Mem!Init, Included
  <1>4. Covered
    BY <1>1, <1>3, BytesOfNone, AllocNumbers DEF Mem!Init, Covered, Seen
  <1> QED
    BY <1>2, <1>4 DEF MemInv

\* A block obtained is not included yet.
LEMMA AllocKeeps ==
  ASSUME MemInv, NEW t \in Thread, Mem!Alloc(t)
  PROVE  MemInv'
  <1>1. MemType
    BY DEF MemInv
  <1>2. PICK b \in Mem!Block \ held :
          /\ held' = held \cup {b} /\ fresh' = fresh \cup {b}
          /\ call' = [call EXCEPT ![t] = [op |-> "add", block |-> b]]
          /\ touched' = Mem!Max({touched, Mem!Bytes(fresh) + SizeOf[b]})
    BY DEF Mem!Alloc
  <1>3. /\ current' = current /\ peak' = peak /\ settled' = settled /\ blurred' = blurred
        /\ call[t].op = "none"
    BY CallTypes DEF Mem!Alloc
  <1>4. /\ call'[t].op = "add" /\ call'[t].block = b
        /\ \A u \in Thread : u # t => call'[u] = call[u]
    BY <1>1, <1>2 DEF MemType
  <1>5. b \notin fresh /\ fresh \in SUBSET Mem!Block /\ fresh' \in SUBSET Mem!Block
    BY <1>1, <1>2 DEF MemType
  <1>6. Mem!Bytes(fresh') = Mem!Bytes(fresh) + SizeOf[b] /\ Mem!Bytes(fresh') \in Nat
    BY <1>2, <1>5, BytesMore, BytesType
  <1>7. touched' \in Nat /\ touched' >= touched /\ touched' >= Mem!Bytes(fresh')
    BY <1>1, <1>2, <1>6, Greater DEF MemType
  <1>8. MemType'
    <2>1. call' \in [Thread -> CallType]
      BY <1>1, <1>2, CallTypes DEF MemType
    <2>2. \A u \in Thread : Busy(u)' => u = t \/ Busy(u)
      BY <1>4 DEF Busy
    <2>3. \A u \in Thread : Busy(u)' => call'[u].block \in held'
      BY <1>1, <1>2, <1>4, <2>2 DEF MemType
    <2>4. \A u, w \in Thread : Busy(u)' /\ Busy(w)' /\ u # w => call'[u].block # call'[w].block
      BY <1>1, <1>2, <1>4, <2>2 DEF MemType
    <2> QED
      BY <1>1, <1>2, <1>3, <1>7, <2>1, <2>3, <2>4 DEF MemType
  <1>9. ASSUME ~blurred
        PROVE  Covered'
    <2>1. Covered
      BY <1>9 DEF MemInv
    <2>2. Included' = Included
      <3>1. \A x \in fresh : Mem!InCall("add", x)' <=> Mem!InCall("add", x)
        BY <1>3, <1>4, <1>5 DEF Mem!InCall
      <3>2. Mem!InCall("add", b)'
        BY <1>4 DEF Mem!InCall
      <3> QED
        BY <1>2, <1>5, <3>1, <3>2 DEF Included
    <2>3. \A u \in Thread : Busy(u)' => call'[u].block \in fresh'
      BY <1>2, <1>4, <2>1 DEF Covered, Busy
    <2>4. \A u \in Thread : call'[u].op = "max" => u # t /\ call[u].op = "max" /\ call'[u] = call[u]
      BY <1>4
    <2>5. \A u \in Thread : call'[u].op = "max" => call'[u].cur <= touched'
      <3> SUFFICES ASSUME NEW u \in Thread, call'[u].op = "max"
                   PROVE  call'[u].cur <= touched'
        OBVIOUS
      <3>1. call'[u].cur = call[u].cur /\ call[u].cur <= touched /\ call[u].cur \in Nat
        BY <1>1, <2>1, <2>4, CallFields DEF Covered, MemType
      <3> QED
        BY <1>1, <1>7, <3>1 DEF MemType
    <2>6. \A X \in SUBSET Included : Seen(X)'
      <3> SUFFICES ASSUME NEW X \in SUBSET Included
                   PROVE  Seen(X)'
        OBVIOUS
      <3>1. Seen(X)
        BY <2>1 DEF Covered
      <3> QED
        BY <1>3, <1>4, <3>1 DEF Seen
    <2>7. call'[Measurer].op # "reset" => peak' <= touched'
      <3>1. call[Measurer].op # "reset" => peak <= touched
        BY <2>1 DEF Covered
      <3>2. call'[Measurer].op # "reset" => call[Measurer].op # "reset"
        BY <1>3, <1>4, AllocNumbers
      <3> QED
        BY <1>1, <1>3, <1>7, <3>1, <3>2 DEF MemType
    <2>8. settled' <= peak' /\ settled' <= touched'
      BY <1>1, <1>3, <1>7, <2>1 DEF Covered, MemType
    <2> QED
      BY <1>3, <1>7, <2>1, <2>2, <2>3, <2>5, <2>6, <2>7, <2>8 DEF Covered
  <1> QED
    BY <1>3, <1>8, <1>9 DEF MemInv

\* An addition includes its block, and its own call is about to note the new count.
LEMMA AddKeeps ==
  ASSUME MemInv, NEW t \in Thread, Mem!AddCurrent(t)
  PROVE  MemInv'
  <1>1. MemType
    BY DEF MemInv
  <1>0. PICK b : b = call[t].block
    OBVIOUS
  <1> DEFINE n == current + SizeOf[b]
  <1>2. call[t].op = "add" /\ b \in Mem!Block /\ Busy(t) /\ SizeOf[b] \in Nat
    <2>1. call[t].op = "add" /\ call[t] \in CallType
      BY <1>1 DEF Mem!AddCurrent, MemType
    <2>2. b \in Mem!Block
      BY <1>0, <2>1, CallFields
    <2> QED
      BY <2>1, <2>2, AllocNumbers DEF Busy
  <1>3. /\ peak' = peak /\ settled' = settled /\ blurred' = blurred /\ touched' = touched
        /\ fresh' = fresh /\ held' = held /\ current' = n % Usize
    BY <1>0 DEF Mem!AddCurrent
  <1>4. /\ call' = [call EXCEPT ![t] = [op |-> "max", block |-> b, cur |-> n % Usize]]
    BY <1>0, <1>1 DEF Mem!AddCurrent, Mem!CountOf, MemType
  <1> HIDE DEF n
  <1>5. /\ call'[t].op = "max" /\ call'[t].block = b /\ call'[t].cur = n % Usize
        /\ \A u \in Thread : u # t => call'[u] = call[u]
    BY <1>1, <1>4 DEF MemType
  <1>6. n \in Nat /\ Usize \in Nat \ {0}
    <2>1. Usize \in Nat /\ Mem!Bytes(Mem!Block) < Usize /\ Mem!Bytes(Mem!Block) \in Nat
      BY AllocNumbers, BytesType
    <2> QED
      BY <1>1, <1>2, <2>1 DEF MemType, n
  <1>7. n % Usize \in Nat
    BY <1>6, SMT
  <1>8. MemType'
    <2>1. call' \in [Thread -> CallType]
      BY <1>1, <1>2, <1>4, <1>7, CallTypes DEF MemType
    <2>2. \A u \in Thread : Busy(u)' => Busy(u) /\ call'[u].block = call[u].block
      BY <1>0, <1>2, <1>5 DEF Busy
    <2>3. \A u \in Thread : Busy(u)' => call'[u].block \in held'
      BY <1>1, <1>3, <2>2 DEF MemType
    <2>4. \A u, w \in Thread : Busy(u)' /\ Busy(w)' /\ u # w => call'[u].block # call'[w].block
      BY <1>1, <2>2 DEF MemType
    <2> QED
      BY <1>1, <1>3, <1>7, <2>1, <2>3, <2>4 DEF MemType
  <1>9. ASSUME ~blurred
        PROVE  Covered'
    <2>1. Covered
      BY <1>9 DEF MemInv
    <2>2. b \in fresh /\ fresh \in SUBSET Mem!Block
      BY <1>0, <1>1, <1>2, <2>1 DEF Covered, MemType
    <2>3. Included' = Included \cup {b} /\ b \notin Included /\ Included \in SUBSET Mem!Block
      <3>1. \A u \in Thread : u # t /\ call[u].op = "add" => call[u].block # b
        BY <1>0, <1>1, <1>2 DEF MemType, Busy
      <3>2. ~Mem!InCall("add", b)'
        BY <1>5, <3>1 DEF Mem!InCall
      <3>3. \A x \in fresh : x # b => (Mem!InCall("add", x)' <=> Mem!InCall("add", x))
        BY <1>0, <1>2, <1>5 DEF Mem!InCall
      <3>4. Mem!InCall("add", b)
        BY <1>0, <1>2 DEF Mem!InCall
      <3> QED
        BY <1>3, <2>2, <3>2, <3>3, <3>4 DEF Included
    <2>4. n = Mem!Bytes(Included') /\ n <= touched /\ n % Usize = n
      <3>1. n = Mem!Bytes(Included')
        BY <1>2, <2>1, <2>3, BytesMore DEF Covered, n
      <3>2. Included' \in SUBSET fresh
        BY <2>2, <2>3 DEF Included
      <3>3. Mem!Bytes(Included') <= Mem!Bytes(fresh) /\ Mem!Bytes(fresh) <= Mem!Bytes(Mem!Block)
        BY <2>2, <3>2, BytesMonotone
      <3>4. /\ Mem!Bytes(fresh) \in Nat /\ Mem!Bytes(Mem!Block) \in Nat /\ Usize \in Nat
            /\ Mem!Bytes(Mem!Block) < Usize /\ Mem!Bytes(fresh) <= touched
        BY <2>1, <2>2, BytesType, AllocNumbers DEF Covered
      <3>5. n <= touched /\ n < Usize
        BY <1>1, <1>6, <3>1, <3>3, <3>4 DEF MemType
      <3>6. n % Usize = n
        BY <1>6, <3>5, SMT
      <3> QED
        BY <3>1, <3>5, <3>6
    <2>5. \A u \in Thread : Busy(u)' => call'[u].block \in fresh'
      BY <1>3, <1>5, <2>1, <2>2 DEF Covered, Busy
    <2>6. \A u \in Thread : call'[u].op = "max" => call'[u].cur <= touched'
      BY <1>3, <1>5, <2>1, <2>4 DEF Covered
    <2>7. \A X \in SUBSET Included' : Seen(X)'
      <3> SUFFICES ASSUME NEW X \in SUBSET Included'
                   PROVE  Seen(X)'
        OBVIOUS
      <3>1. CASE b \in X
        <4>1. Mem!Bytes(X) <= Mem!Bytes(Included')
          BY <1>2, <2>3, BytesMonotone
        <4> QED
          BY <1>5, <2>4, <3>1, <4>1 DEF Seen
      <3>2. CASE b \notin X
        <4>1. Seen(X)
          BY <2>1, <2>3, <3>2 DEF Covered
        <4> QED
          BY <1>2, <1>3, <1>5, <4>1 DEF Seen
      <3> QED
        BY <3>1, <3>2
    <2>8. call'[Measurer].op # "reset" => call[Measurer].op # "reset"
      BY <1>2, <1>5, AllocNumbers
    <2> QED
      BY <1>3, <2>1, <2>4, <2>5, <2>6, <2>7, <2>8 DEF Covered
  <1> QED
    BY <1>3, <1>8, <1>9 DEF MemInv

\* A count noted is in the peak from now on.
LEMMA MaxKeeps ==
  ASSUME MemInv, NEW t \in Thread, Mem!MaxPeak(t)
  PROVE  MemInv'
  <1>1. MemType
    BY DEF MemInv
  <1> DEFINE b == call[t].block
             n == call[t].cur
             Y == Mem!Returned \cup ({b} \cap fresh)
  <1>2. call[t].op = "max" /\ b \in Mem!Block /\ n \in Nat /\ Busy(t)
    <2>1. call[t].op = "max" /\ call[t] \in CallType
      BY <1>1 DEF Mem!MaxPeak, MemType
    <2> QED
      BY <2>1, CallFields DEF Busy
  <1>3. /\ current' = current /\ blurred' = blurred /\ touched' = touched
        /\ fresh' = fresh /\ held' = held
    BY DEF Mem!MaxPeak
  <1>4. /\ call' = [call EXCEPT ![t] = Mem!NoCall]
        /\ peak' = Mem!Max({peak, n})
        /\ settled' = Mem!Max({settled, Mem!Bytes(Y)})
    BY DEF Mem!MaxPeak
  <1>a. Y \in SUBSET fresh
    BY DEF Mem!Returned
  <1> HIDE DEF b, n, Y
  <1>5. /\ call'[t].op = "none"
        /\ \A u \in Thread : u # t => call'[u] = call[u]
    BY <1>1, <1>4, CallTypes DEF MemType
  <1>6. Y \in SUBSET Mem!Block /\ Mem!Bytes(Y) \in Nat
    BY <1>1, <1>a, BytesType DEF MemType
  <1>7. /\ peak' \in Nat /\ peak' >= peak /\ peak' >= n /\ (peak' = peak \/ peak' = n)
        /\ settled' \in Nat /\ (settled' = settled \/ settled' = Mem!Bytes(Y))
    BY <1>1, <1>2, <1>4, <1>6, Greater DEF MemType
  <1>8. MemType'
    <2>1. call' \in [Thread -> CallType]
      BY <1>1, <1>4, CallTypes DEF MemType
    <2>2. \A u \in Thread : Busy(u)' => Busy(u) /\ call'[u].block = call[u].block
      BY <1>5 DEF Busy
    <2>3. \A u \in Thread : Busy(u)' => call'[u].block \in held'
      BY <1>1, <1>3, <2>2 DEF MemType
    <2>4. \A u, w \in Thread : Busy(u)' /\ Busy(w)' /\ u # w => call'[u].block # call'[w].block
      BY <1>1, <2>2 DEF MemType
    <2> QED
      BY <1>1, <1>3, <1>7, <2>1, <2>3, <2>4 DEF MemType
  <1>9. ASSUME ~blurred
        PROVE  Covered'
    <2>1. Covered
      BY <1>9 DEF MemInv
    <2>2. fresh \in SUBSET Mem!Block /\ Mem!Bytes(fresh) \in Nat
      BY <1>1, BytesType DEF MemType
    <2>3. Included' = Included
      <3>1. \A x \in fresh : Mem!InCall("add", x)' <=> Mem!InCall("add", x)
        BY <1>2, <1>5 DEF Mem!InCall
      <3> QED
        BY <1>3, <3>1 DEF Included
    <2>4. Y \in SUBSET Included
      <3>1. \A x \in Mem!Returned : x \in fresh /\ ~Mem!InCall("add", x)
        BY DEF Mem!Returned
      <3>2. \A u \in Thread : u # t /\ call[u].op = "add" => call[u].block # b
        BY <1>1, <1>2 DEF MemType, Busy, b
      <3>3. ~Mem!InCall("add", b)
        BY <1>2, <3>2 DEF Mem!InCall
      <3> QED
        BY <3>1, <3>3 DEF Included, Y
    <2>5. Mem!Bytes(Y) <= peak'
      <3>1. Seen(Y)
        BY <2>1, <2>4 DEF Covered
      <3>2. CASE Mem!Bytes(Y) <= peak
        BY <1>1, <1>6, <1>7, <3>2 DEF MemType
      <3>3. CASE \E u \in Thread : /\ call[u].op = "max" /\ call[u].block \in Y
                                   /\ Mem!Bytes(Y) <= call[u].cur
        <4>1. PICK u \in Thread : call[u].op = "max" /\ call[u].block \in Y /\ Mem!Bytes(Y) <= call[u].cur
          BY <3>3
        <4>2. u = t
          <5>1. SUFFICES ASSUME u # t
                         PROVE  FALSE
            OBVIOUS
          <5>2. call[u].block # b
            BY <1>1, <1>2, <4>1, <5>1 DEF MemType, Busy, b
          <5>3. call[u].block \in Mem!Returned
            BY <4>1, <5>2 DEF Y
          <5>4. Mem!InCall("max", call[u].block)
            BY <4>1 DEF Mem!InCall
          <5> QED
            BY <5>3, <5>4 DEF Mem!Returned
        <4>3. Mem!Bytes(Y) <= n
          BY <4>1, <4>2 DEF n
        <4> QED
          BY <1>2, <1>6, <1>7, <4>3
      <3> QED
        BY <3>1, <3>2, <3>3 DEF Seen
    <2>6. Mem!Bytes(Y) <= touched
      <3>1. Mem!Bytes(Y) <= Mem!Bytes(fresh) /\ Mem!Bytes(fresh) <= touched
        BY <1>a, <2>1, <2>2, BytesMonotone DEF Covered
      <3> QED
        BY <1>1, <1>6, <2>2, <3>1 DEF MemType
    <2>7. n <= touched
      BY <1>2, <2>1 DEF Covered, n
    <2>8. \A u \in Thread : Busy(u)' => call'[u].block \in fresh'
      BY <1>3, <1>5, <2>1 DEF Covered, Busy
    <2>9. \A u \in Thread : call'[u].op = "max" => call'[u].cur <= touched'
      BY <1>3, <1>5, <2>1 DEF Covered
    <2>10. \A X \in SUBSET Included : Seen(X)'
      <3> SUFFICES ASSUME NEW X \in SUBSET Included
                   PROVE  Seen(X)'
        OBVIOUS
      <3>1. Seen(X) /\ Mem!Bytes(X) \in Nat
        BY <2>1, <2>2, BytesType DEF Covered, Included
      <3>2. CASE Mem!Bytes(X) <= peak
        <4>1. Mem!Bytes(X) <= peak'
          BY <1>1, <1>7, <3>1, <3>2 DEF MemType
        <4> QED
          BY <4>1 DEF Seen
      <3>3. CASE \E u \in Thread : /\ call[u].op = "max" /\ call[u].block \in X
                                   /\ Mem!Bytes(X) <= call[u].cur
        <4>1. PICK u \in Thread : call[u].op = "max" /\ call[u].block \in X /\ Mem!Bytes(X) <= call[u].cur
          BY <3>3
        <4>2. CASE u = t
          <5>1. Mem!Bytes(X) <= peak'
            BY <1>2, <1>7, <3>1, <4>1, <4>2 DEF n
          <5> QED
            BY <5>1 DEF Seen
        <4>3. CASE u # t
          BY <1>5, <4>1, <4>3 DEF Seen
        <4> QED
          BY <4>2, <4>3
      <3> QED
        BY <3>1, <3>2, <3>3 DEF Seen
    <2>11. call'[Measurer].op # "reset" => peak' <= touched'
      <3>1. call'[Measurer].op # "reset" => call[Measurer].op # "reset"
        BY <1>2, <1>5, AllocNumbers
      <3> QED
        BY <1>3, <1>7, <2>1, <2>7, <3>1 DEF Covered
    <2>12. settled' <= peak' /\ settled' <= touched'
      BY <1>1, <1>3, <1>7, <2>1, <2>5, <2>6 DEF Covered, MemType
    <2> QED
      BY <1>3, <2>1, <2>3, <2>8, <2>9, <2>10, <2>11, <2>12 DEF Covered
  <1> QED
    BY <1>3, <1>8, <1>9 DEF MemInv

\* A block given back is included until it is subtracted.
LEMMA DeallocKeeps ==
  ASSUME MemInv, NEW t \in Thread, Mem!Dealloc(t)
  PROVE  MemInv'
  <1>1. MemType
    BY DEF MemInv
  <1>2. PICK b \in held :
          /\ ~\E op \in {"add", "max", "sub"} : Mem!InCall(op, b)
          /\ call' = [call EXCEPT ![t] = [op |-> "sub", block |-> b]]
          /\ blurred' = (blurred \/ b \notin fresh)
    BY DEF Mem!Dealloc
  <1>3. /\ current' = current /\ peak' = peak /\ settled' = settled /\ touched' = touched
        /\ held' = held /\ fresh' = fresh /\ call[t].op = "none"
    BY CallTypes DEF Mem!Dealloc
  <1>4. /\ call'[t].op = "sub" /\ call'[t].block = b
        /\ \A u \in Thread : u # t => call'[u] = call[u]
    BY <1>1, <1>2 DEF MemType
  <1>5. \A u \in Thread : Busy(u) => call[u].block # b
    BY <1>2 DEF Busy, Mem!InCall
  <1>6. MemType'
    <2>1. call' \in [Thread -> CallType]
      BY <1>1, <1>2, CallTypes DEF MemType
    <2>2. \A u \in Thread : Busy(u)' => u = t \/ Busy(u)
      BY <1>4 DEF Busy
    <2>3. \A u \in Thread : Busy(u)' => call'[u].block \in held'
      BY <1>1, <1>2, <1>3, <1>4, <2>2 DEF MemType
    <2>4. \A u, w \in Thread : Busy(u)' /\ Busy(w)' /\ u # w => call'[u].block # call'[w].block
      BY <1>1, <1>4, <1>5, <2>2 DEF MemType
    <2>5. blurred' \in BOOLEAN
      BY <1>1, <1>2 DEF MemType
    <2> QED
      BY <1>1, <1>3, <2>1, <2>3, <2>4, <2>5 DEF MemType
  <1>7. ASSUME ~blurred'
        PROVE  Covered'
    <2>1. ~blurred /\ b \in fresh
      BY <1>1, <1>2, <1>7 DEF MemType
    <2>2. Covered
      BY <2>1 DEF MemInv
    <2>3. Included' = Included
      <3>1. \A x \in fresh : Mem!InCall("add", x)' <=> Mem!InCall("add", x)
        BY <1>3, <1>4 DEF Mem!InCall
      <3> QED
        BY <1>3, <3>1 DEF Included
    <2>4. \A u \in Thread : Busy(u)' => call'[u].block \in fresh'
      BY <1>3, <1>4, <2>1, <2>2 DEF Covered, Busy
    <2>5. \A u \in Thread : call'[u].op = "max" => call'[u].cur <= touched'
      BY <1>3, <1>4, <2>2 DEF Covered
    <2>6. \A X \in SUBSET Included : Seen(X)'
      <3> SUFFICES ASSUME NEW X \in SUBSET Included
                   PROVE  Seen(X)'
        OBVIOUS
      <3>1. Seen(X)
        BY <2>2 DEF Covered
      <3> QED
        BY <1>3, <1>4, <3>1 DEF Seen
    <2>7. call'[Measurer].op # "reset" => call[Measurer].op # "reset"
      BY <1>3, <1>4, AllocNumbers
    <2> QED
      BY <1>3, <2>2, <2>3, <2>4, <2>5, <2>6, <2>7 DEF Covered
  <1> QED
    BY <1>6, <1>7 DEF MemInv

\* A subtraction leaves fewer sets of blocks to see.
LEMMA SubKeeps ==
  ASSUME MemInv, NEW t \in Thread, Mem!SubCurrent(t)
  PROVE  MemInv'
  <1>0. PICK b : b = call[t].block
    OBVIOUS
  <1>1. MemType
    BY DEF MemInv
  <1>2. call[t].op = "sub" /\ b \in Mem!Block /\ Busy(t) /\ SizeOf[b] \in Nat
    <2>1. call[t].op = "sub" /\ call[t] \in CallType
      BY <1>1 DEF Mem!SubCurrent, MemType
    <2>2. b \in Mem!Block
      BY <1>0, <2>1, CallFields
    <2> QED
      BY <2>1, <2>2, AllocNumbers DEF Busy
  <1>3. /\ peak' = peak /\ settled' = settled /\ blurred' = blurred /\ touched' = touched
        /\ fresh' = fresh \ {b} /\ held' = held \ {b}
        /\ current' = (current - SizeOf[b]) % Usize
        /\ call' = [call EXCEPT ![t] = Mem!NoCall]
    BY <1>0 DEF Mem!SubCurrent
  <1>4. /\ call'[t].op = "none"
        /\ \A u \in Thread : u # t => call'[u] = call[u]
    BY <1>1, <1>3, CallTypes DEF MemType
  <1>5. \A u \in Thread : u # t /\ Busy(u) => call[u].block # b
    BY <1>0, <1>1, <1>2 DEF MemType
  <1>6. Usize \in Nat \ {0}
    <2>1. Usize \in Nat /\ Mem!Bytes(Mem!Block) < Usize /\ Mem!Bytes(Mem!Block) \in Nat
      BY AllocNumbers, BytesType
    <2> QED
      BY <2>1
  <1>7. current' \in Nat
    <2> DEFINE d == current - SizeOf[b]
    <2>1. d \in Int
      BY <1>1, <1>2 DEF MemType
    <2> HIDE DEF d
    <2>2. d % Usize \in Nat
      BY <1>6, <2>1, SMT
    <2> QED
      BY <1>3, <2>2 DEF d
  <1>8. MemType'
    <2>1. call' \in [Thread -> CallType]
      BY <1>1, <1>3, CallTypes DEF MemType
    <2>2. \A u \in Thread : Busy(u)' => u # t /\ Busy(u) /\ call'[u].block = call[u].block
      BY <1>4 DEF Busy
    <2>3. \A u \in Thread : Busy(u)' => call'[u].block \in held'
      BY <1>1, <1>3, <1>5, <2>2 DEF MemType
    <2>4. \A u, w \in Thread : Busy(u)' /\ Busy(w)' /\ u # w => call'[u].block # call'[w].block
      BY <1>1, <2>2 DEF MemType
    <2> QED
      BY <1>1, <1>3, <1>7, <2>1, <2>3, <2>4 DEF MemType
  <1>9. ASSUME ~blurred
        PROVE  Covered'
    <2>1. Covered
      BY <1>9 DEF MemInv
    <2>2. b \in fresh /\ fresh \in SUBSET Mem!Block /\ fresh' \in SUBSET fresh
      BY <1>0, <1>1, <1>2, <1>3, <2>1 DEF Covered, MemType
    <2>3. Included' = Included \ {b} /\ b \in Included /\ Included \in SUBSET Mem!Block
      <3>1. ~Mem!InCall("add", b)
        BY <1>0, <1>2, <1>5 DEF Mem!InCall, Busy
      <3>2. \A x \in fresh : Mem!InCall("add", x)' <=> Mem!InCall("add", x)
        BY <1>2, <1>4 DEF Mem!InCall
      <3> QED
        BY <1>3, <2>2, <3>1, <3>2 DEF Included
    <2>4. current' = Mem!Bytes(Included')
      <3> DEFINE I == Included \ {b}
      <3>1. I \in SUBSET Mem!Block /\ b \notin I /\ Included = I \cup {b}
        BY <2>3
      <3> HIDE DEF I
      <3>2. current = Mem!Bytes(I) + SizeOf[b] /\ Mem!Bytes(I) \in Nat
        BY <1>2, <2>1, <3>1, BytesMore, BytesType DEF Covered
      <3>3. Mem!Bytes(I) <= Mem!Bytes(Mem!Block) /\ Mem!Bytes(Mem!Block) \in Nat
        BY <3>1, BytesMonotone, BytesType
      <3>4. current - SizeOf[b] = Mem!Bytes(I) /\ Mem!Bytes(I) \in 0 .. Usize - 1
        BY <1>2, <1>6, <3>2, <3>3, AllocNumbers
      <3>5. \A m \in 0 .. Usize - 1 : m % Usize = m
        BY <1>6, SMT
      <3> QED
        BY <1>3, <2>3, <3>4, <3>5 DEF I
    <2>5. Mem!Bytes(fresh') <= touched'
      <3>1. Mem!Bytes(fresh') <= Mem!Bytes(fresh) /\ Mem!Bytes(fresh') \in Nat /\ Mem!Bytes(fresh) \in Nat
        BY <2>2, BytesMonotone, BytesType
      <3> QED
        BY <1>1, <1>3, <2>1, <3>1 DEF Covered, MemType
    <2>6. \A u \in Thread : Busy(u)' => call'[u].block \in fresh'
      BY <1>3, <1>4, <1>5, <2>1, <2>2 DEF Covered, Busy
    <2>7. \A u \in Thread : call'[u].op = "max" => call'[u].cur <= touched'
      BY <1>3, <1>4, <2>1 DEF Covered
    <2>8. \A X \in SUBSET Included' : Seen(X)'
      <3> SUFFICES ASSUME NEW X \in SUBSET Included'
                   PROVE  Seen(X)'
        OBVIOUS
      <3>1. Seen(X)
        BY <2>1, <2>3 DEF Covered
      <3> QED
        BY <1>2, <1>3, <1>4, <3>1 DEF Seen
    <2>9. call'[Measurer].op # "reset" => call[Measurer].op # "reset"
      BY <1>2, <1>4, AllocNumbers
    <2> QED
      BY <1>3, <2>1, <2>4, <2>5, <2>6, <2>7, <2>8, <2>9 DEF Covered
  <1> QED
    BY <1>3, <1>8, <1>9 DEF MemInv

\* The first store of a reset leaves no block included.
LEMMA ResetCurrentKeeps ==
  ASSUME MemInv, Mem!ResetCurrent
  PROVE  MemInv'
  <1>1. MemType /\ Measurer \in Thread
    BY AllocNumbers DEF MemInv
  <1>2. /\ call[Measurer].op = "none" /\ current' = 0 /\ fresh' = {} /\ settled' = 0 /\ touched' = 0
        /\ call' = [call EXCEPT ![Measurer] = [op |-> "reset"]]
        /\ blurred' = (\E t \in Thread \ {Measurer} : call[t] # Mem!NoCall)
        /\ peak' = peak /\ held' = held
    BY CallTypes DEF Mem!ResetCurrent
  <1>3. /\ call'[Measurer].op = "reset"
        /\ \A u \in Thread : u # Measurer => call'[u] = call[u]
    BY <1>1, <1>2 DEF MemType
  <1>4. \A u \in Thread : Busy(u)' => u # Measurer /\ Busy(u) /\ call'[u] = call[u]
    BY <1>3 DEF Busy
  <1>5. MemType'
    <2>1. call' \in [Thread -> CallType]
      BY <1>1, <1>2, CallTypes DEF MemType
    <2>2. blurred' \in BOOLEAN
      BY <1>2
    <2> QED
      BY <1>1, <1>2, <1>4, <2>1, <2>2 DEF MemType
  <1>6. ASSUME ~blurred'
        PROVE  Covered'
    <2>1. \A u \in Thread : call'[u].op \in {"none", "reset"}
      BY <1>1, <1>2, <1>3, <1>6, CallTypes
    <2>2. Included' = {}
      BY <1>2 DEF Included
    <2>3. \A X \in SUBSET Included' : Seen(X)'
      <3>1. Mem!Bytes({}) <= peak'
        BY <1>1, <1>2, BytesOfNone DEF MemType
      <3>2. Seen({})'
        BY <3>1 DEF Seen
      <3>3. \A X \in SUBSET Included' : X = {}
        BY <2>2
      <3> QED
        BY <3>2, <3>3
    <2> QED
      BY <1>1, <1>2, <1>3, <2>1, <2>2, <2>3, BytesOfNone DEF Covered, Busy, MemType
  <1> QED
    BY <1>5, <1>6 DEF MemInv

\* The second finds none, or blurs the section.
LEMMA ResetPeakKeeps ==
  ASSUME MemInv, Mem!ResetPeak
  PROVE  MemInv'
  <1>1. MemType /\ Measurer \in Thread
    BY AllocNumbers DEF MemInv
  <1>2. /\ call[Measurer].op = "reset" /\ peak' = 0
        /\ call' = [call EXCEPT ![Measurer] = Mem!NoCall]
        /\ blurred' = (blurred \/ touched > 0 \/ \E t \in Thread \ {Measurer} : call[t] # Mem!NoCall)
        /\ current' = current /\ held' = held /\ fresh' = fresh /\ settled' = settled /\ touched' = touched
    BY DEF Mem!ResetPeak
  <1>3. /\ call'[Measurer].op = "none"
        /\ \A u \in Thread : u # Measurer => call'[u] = call[u]
    BY <1>1, <1>2, CallTypes DEF MemType
  <1>4. \A u \in Thread : Busy(u)' => u # Measurer /\ Busy(u) /\ call'[u] = call[u]
    BY <1>3 DEF Busy
  <1>5. MemType'
    <2>1. call' \in [Thread -> CallType]
      BY <1>1, <1>2, CallTypes DEF MemType
    <2>2. blurred' \in BOOLEAN
      BY <1>2
    <2> QED
      BY <1>1, <1>2, <1>4, <2>1, <2>2 DEF MemType
  <1>6. ASSUME ~blurred'
        PROVE  Covered'
    <2>1. \A u \in Thread : call'[u].op = "none"
      BY <1>1, <1>2, <1>3, <1>6, CallTypes
    <2>2. Covered /\ touched = 0
      <3>1. ~blurred /\ ~(touched > 0)
        BY <1>2, <1>6
      <3>2. touched \in Nat
        BY <1>1 DEF MemType
      <3> QED
        BY <3>1, <3>2 DEF MemInv
    <2>3. Included' = Included /\ Included \in SUBSET fresh /\ fresh \in SUBSET Mem!Block
      <3>1. \A u \in Thread : call[u].op \in {"none", "reset"}
        BY <1>2, <1>3, <2>1
      <3>2. \A x \in fresh : ~Mem!InCall("add", x)' /\ ~Mem!InCall("add", x)
        BY <2>1, <3>1 DEF Mem!InCall
      <3> QED
        BY <1>1, <1>2, <3>2 DEF Included, MemType
    <2>4. \A X \in SUBSET Included : Mem!Bytes(X) <= 0
      <3> SUFFICES ASSUME NEW X \in SUBSET Included
                   PROVE  Mem!Bytes(X) <= 0
        OBVIOUS
      <3>1. Mem!Bytes(X) <= Mem!Bytes(fresh) /\ Mem!Bytes(X) \in Nat /\ Mem!Bytes(fresh) \in Nat
        BY <2>3, BytesMonotone, BytesType
      <3>2. Mem!Bytes(fresh) <= 0
        BY <2>2 DEF Covered
      <3> QED
        BY <3>1, <3>2
    <2>5. \A X \in SUBSET Included' : Seen(X)'
      BY <1>2, <2>3, <2>4 DEF Seen
    <2>6. settled' <= peak'
      BY <1>1, <1>2, <2>2 DEF Covered, MemType
    <2> QED
      BY <1>2, <2>1, <2>2, <2>3, <2>5, <2>6 DEF Covered, Busy
  <1> QED
    BY <1>5, <1>6 DEF MemInv

THEOREM PeakIsCovered == Spec => []PeakCovers
  <1> DEFINE Inv == part = "mem" => MemInv
  <1>1. Init => Inv
    BY MemInitially DEF Init
  <1>2. Inv /\ [Next]_vars => Inv'
    <2>1. SUFFICES ASSUME Inv, [Next]_vars, part' = "mem"
                   PROVE  MemInv'
      OBVIOUS
    <2>2. part = "mem" /\ MemInv
      BY <2>1 DEF Next, vars
    <2>3. CASE Mem!Next
      BY <2>2, <2>3, AllocKeeps, AddKeeps, MaxKeeps, DeallocKeeps, SubKeeps, ResetCurrentKeeps,
         ResetPeakKeeps DEF Mem!Next
    <2>4. CASE UNCHANGED memVars
      <3>1. /\ current' = current /\ peak' = peak /\ call' = call /\ held' = held /\ fresh' = fresh
            /\ settled' = settled /\ touched' = touched /\ blurred' = blurred
        BY <2>4 DEF memVars
      <3> QED
        BY <2>2, <3>1 DEF MemInv, MemType, Covered, Seen, Included, Busy, Mem!InCall
    <2> QED
      BY <2>1, <2>2, <2>3, <2>4 DEF Next, vars
  <1>3. Inv => PeakCovers
    BY DEF PeakCovers, Mem!PeakCovers, MemInv, Covered
  <1> QED
    BY <1>1, <1>2, <1>3, PTL DEF Spec

-----------------------------------------------------------------------------
(* The generation probe: whatever the loop shape, what has been written is *)
(* what the leaves visited so far derive.                                  *)

\* Division with remainder is unique.
LEMMA DivisionUnique ==
  ASSUME NEW d \in Nat \ {0}, NEW q \in Nat, NEW e \in 0 .. d - 1
  PROVE  (e + q * d) \div d = q /\ (e + q * d) % d = e
  <1>1. (q * d + e) \div d = q
    BY SMT
  <1>2. (q * d + e) % d = e
    BY SMT
  <1>3. q * d + e = e + q * d
    BY SMT
  <1> QED
    BY <1>1, <1>2, <1>3

\* The pieces flattened so far.
Flat(s, n) ==
  CHOOSE f : f = [c \in 1 .. n |-> IF c = 1 THEN s[c] ELSE f[c - 1] \o s[c]]

\* Such a function exists, for it is built place by place.
LEMMA FlatExists ==
  ASSUME NEW s, NEW n \in Nat
  PROVE  \E f : f = [c \in 1 .. n |-> IF c = 1 THEN s[c] ELSE f[c - 1] \o s[c]]
  <1> DEFINE Good(m) == \E f : f = [c \in 1 .. m |-> IF c = 1 THEN s[c] ELSE f[c - 1] \o s[c]]
             Bad == {m \in Nat : ~Good(m)}
  <1> SUFFICES ASSUME Bad # {}
               PROVE  FALSE
    OBVIOUS
  <1>1. PICK m \in Bad : \A l \in Bad : m <= l
    BY LeastNumber
  <1>2. m # 0
    <2>1. ASSUME m = 0
          PROVE  Good(m)
      <3> DEFINE g == [c \in 1 .. 0 |-> c]
      <3>1. g = [c \in 1 .. m |-> IF c = 1 THEN s[c] ELSE g[c - 1] \o s[c]]
        BY <2>1
      <3> QED
        BY <3>1
    <2> QED
      BY <1>1, <2>1
  <1>3. m - 1 \in Nat /\ Good(m - 1)
    <2> HIDE DEF Good
    <2> QED
      BY <1>1, <1>2
  <1>4. PICK f : f = [c \in 1 .. m - 1 |-> IF c = 1 THEN s[c] ELSE f[c - 1] \o s[c]]
    BY <1>3
  <1> DEFINE g == [c \in 1 .. m |-> IF c = m THEN (IF m = 1 THEN s[m] ELSE f[m - 1] \o s[m]) ELSE f[c]]
  <1>5. \A c \in 1 .. m : g[c] = IF c = 1 THEN s[c] ELSE g[c - 1] \o s[c]
    <2> SUFFICES ASSUME NEW c \in 1 .. m
                 PROVE  g[c] = IF c = 1 THEN s[c] ELSE g[c - 1] \o s[c]
      OBVIOUS
    <2>1. CASE c = m
      BY <1>3, <2>1
    <2>2. CASE c # m
      <3>1. c \in 1 .. m - 1 /\ g[c] = f[c] /\ (c # 1 => g[c - 1] = f[c - 1])
        BY <1>3, <2>2
      <3>2. f[c] = IF c = 1 THEN s[c] ELSE f[c - 1] \o s[c]
        BY <1>4, <3>1
      <3> QED
        BY <3>1, <3>2
    <2> QED
      BY <2>1, <2>2
  <1>6. g = [c \in 1 .. m |-> IF c = 1 THEN s[c] ELSE g[c - 1] \o s[c]]
    <2> HIDE DEF g
    <2>1. g = [c \in 1 .. m |-> g[c]]
      BY DEF g
    <2> QED
      BY <1>5, <2>1
  <1>7. Good(m)
    <2> HIDE DEF g
    <2> QED
      BY <1>6
  <1> QED
    BY <1>1, <1>7

\* Each place is the one before it and one piece more.
LEMMA FlatUnfolds ==
  ASSUME NEW s, NEW n \in Nat, NEW c \in 1 .. n
  PROVE  Flat(s, n)[c] = IF c = 1 THEN s[c] ELSE Flat(s, n)[c - 1] \o s[c]
  <1> DEFINE g == Flat(s, n)
  <1>1. g = [d \in 1 .. n |-> IF d = 1 THEN s[d] ELSE g[d - 1] \o s[d]]
    BY FlatExists DEF Flat
  <1> HIDE DEF g
  <1>2. g[c] = IF c = 1 THEN s[c] ELSE g[c - 1] \o s[c]
    BY <1>1
  <1> QED
    BY <1>2 DEF g

\* The parameters of the probe are numbers.
LEMMA ProbeNumbers ==
  /\ Class \subseteq Nat \ {0} /\ Degree \subseteq Nat \ {0}
  /\ Iterations \subseteq Nat \ {0} /\ LeafCount \in Nat
  BY PartsAssumption DEF Probe!ProbeAssumption

\* A leaf that is not iterated has the digest hashed first.
LEMMA NotIterated ==
  ASSUME probe.m = 1, NEW first, NEW l
  PROVE  Probe!Iterated(first, l) = first
  <1> DEFINE F(f) == [q \in 1 .. probe.m |-> IF q = 1 THEN first ELSE Probe!Again(f[q - 1], l)]
             D == CHOOSE f : f = F(f)
             G == [q \in 1 .. 1 |-> first]
  <1>1. G = F(G)
    OBVIOUS
  <1>2. D = F(D)
    <2> HIDE DEF G, F
    <2> QED
      BY <1>1
  <1> HIDE DEF D
  <1>3. D[1] = first
    BY <1>2
  <1> QED
    BY <1>3 DEF Probe!Iterated, D

-----------------------------------------------------------------------------
\* What is written of the leaves listed in s.
Emitted(s) == [p \in DOMAIN s |-> Probe!Written(s[p], Probe!Leaf(s[p]))]

\* Rows in order; the walk class by class, as it is flattened, after c classes;
\* how many leaves class c has, and its first q leaves.
Numbers(n) == [p \in 1 .. n |-> p - 1]

Walk(k) ==
  [c \in 1 .. k |-> [q \in 1 .. (LeafCount - c + k) \div k |-> c - 1 + (q - 1) * k]]

Walked(k, c) == IF c = 0 THEN << >> ELSE Flat(Walk(k), k)[c]

Size(k, c) == (LeafCount - (c + 1) + k) \div k

FirstLeaves(k, c, q) == [x \in 1 .. q |-> c + (x - 1) * k]

\* The sequences of length n over V, as functions.
Table(n, V) == [1 .. n -> V]

\* One sequence behind another.
Cat(s, t) == s \o t

\* What may be probed.
ProbeSet ==
  [kind: {"blake2b", "simd", "blake3"}, keying: {"regular", "single"},
   m: Iterations, k: Class, degree: Degree, variant: {"real", "stub_hash", "stub_assembly"}]

\* In order.
Straight ==
  /\ pc \in {"gen", "done"}
  /\ at \in 0 .. LeafCount
  /\ \E s \in Table(at, Nat) : s = Numbers(at) /\ writes = Emitted(s)
  /\ pc = "done" => at = LeafCount

\* Class by class.
ByClass ==
  \E k \in Nat \ {0} :
    /\ k = probe.k
    /\ class \in 0 .. k
    /\ pc = "done" => class = k
    /\ \E n \in Nat : \E s \in Table(n, Nat) :
         /\ s = Walked(k, class)
         /\ pc # "class" => writes = Emitted(s)
         /\ pc = "class" =>
              /\ class < k
              /\ \E q \in 0 .. Size(k, class) :
                   /\ at = class + q * k
                   /\ probe.variant # "stub_hash" => reader = q
                   /\ \E t : t = Cat(s, FirstLeaves(k, class, q)) /\ writes = Emitted(t)

\* What has been written at any time.
ProbeInv ==
  /\ probe \in ProbeSet
  /\ DOMAIN inputs = 1 .. probe.degree
  /\ pc \in {"gen", "class", "done"}
  /\ IF Probe!Shape = "streamed" THEN ByClass ELSE Straight

\* The parameters of the probe at hand.
LEMMA ProbeFields ==
  ASSUME probe \in ProbeSet
  PROVE  /\ probe.k \in Nat \ {0} /\ probe.degree \in Nat \ {0} /\ probe.m \in Nat \ {0}
         /\ LeafCount \in Nat
  BY ProbeNumbers DEF ProbeSet


\* Functions on 1 .. n are sequences, and \o puts one behind the other.
LEMMA FunctionIsSeq ==
  ASSUME NEW V, NEW n \in Nat, NEW f \in [1 .. n -> V]
  PROVE  f \in Seq(V) /\ Len(f) = n
  <1>1. f \in Seq(V)
    BY SeqDef
  <1> QED
    BY <1>1, LenProperties

\* u is s followed by t.
Joins(u, s, a, t, b) ==
  /\ u = [x \in 1 .. a + b |-> u[x]]
  /\ \A x \in 1 .. a + b : u[x] = IF x <= a THEN s[x] ELSE t[x - a]

\* The sequence put behind another, place by place.
LEMMA CatIs ==
  ASSUME NEW V, NEW a \in Nat, NEW b \in Nat, NEW s \in Table(a, V), NEW t \in Table(b, V)
  PROVE  Cat(s, t) \in Table(a + b, V) /\ Joins(Cat(s, t), s, a, t, b)
  <1>1. s \in Seq(V) /\ t \in Seq(V) /\ Len(s) = a /\ Len(t) = b
    BY FunctionIsSeq DEF Table
  <1>2. PICK c : c = s \o t
    OBVIOUS
  <1>3. c \in Seq(V) /\ Len(c) = a + b
    BY <1>1, <1>2, ConcatProperties
  <1>4. \A x \in 1 .. a + b : c[x] = IF x <= a THEN s[x] ELSE t[x - a]
    BY <1>1, <1>2, ConcatProperties
  <1>5. c \in [1 .. a + b -> V]
    BY <1>3, LenProperties
  <1> QED
    BY <1>2, <1>4, <1>5 DEF Table, Joins, Cat

\* A function that agrees with it everywhere is that sequence.
LEMMA JoinIsCat ==
  ASSUME NEW V, NEW a \in Nat, NEW b \in Nat, NEW s \in Table(a, V), NEW t \in Table(b, V),
         NEW u, Joins(u, s, a, t, b)
  PROVE  u = Cat(s, t)
  <1>1. PICK c : c = Cat(s, t)
    OBVIOUS
  <1>2. Joins(c, s, a, t, b)
    BY <1>1, CatIs
  <1>3. c = [x \in 1 .. a + b |-> c[x]] /\ u = [x \in 1 .. a + b |-> u[x]]
        /\ \A x \in 1 .. a + b : u[x] = c[x]
    BY <1>2 DEF Joins
  <1>4. u = c
    BY <1>3
  <1> QED
    BY <1>1, <1>4

\* Emitted, place by place.
LEMMA EmittedIs ==
  ASSUME NEW n \in Nat, NEW s \in Table(n, Nat)
  PROVE  /\ Emitted(s) = [x \in 1 .. n |-> Emitted(s)[x]]
         /\ \A x \in 1 .. n : Emitted(s)[x] = Probe!Written(s[x], Probe!Leaf(s[x]))
  BY DEF Emitted, Table

\* What is written of two lists of leaves is written of one after the other.
LEMMA EmittedMore ==
  ASSUME NEW a \in Nat, NEW b \in Nat, NEW s \in Table(a, Nat), NEW t \in Table(b, Nat)
  PROVE  Emitted(Cat(s, t)) = Cat(Emitted(s), Emitted(t))
  <1> DEFINE w(e) == Probe!Written(e, Probe!Leaf(e))
  <1>1. PICK st : st = Cat(s, t)
    OBVIOUS
  <1>2. PICK E : E = Emitted(s)
    OBVIOUS
  <1>3. PICK D : D = Emitted(t)
    OBVIOUS
  <1>4. PICK u : u = Emitted(st)
    OBVIOUS
  <1>5. PICK V : V = {w(e) : e \in Nat}
    OBVIOUS
  <1>6. a + b \in Nat /\ st \in Table(a + b, Nat) /\ Joins(st, s, a, t, b)
    BY <1>1, CatIs
  <1>7. E = [x \in 1 .. a |-> E[x]] /\ \A x \in 1 .. a : E[x] = w(s[x])
    BY <1>2, EmittedIs
  <1>8. D = [x \in 1 .. b |-> D[x]] /\ \A x \in 1 .. b : D[x] = w(t[x])
    BY <1>3, EmittedIs
  <1>9. u = [x \in 1 .. a + b |-> u[x]] /\ \A x \in 1 .. a + b : u[x] = w(st[x])
    BY <1>4, <1>6, EmittedIs
  <1> HIDE DEF w
  <1>10. E \in Table(a, V) /\ D \in Table(b, V)
    BY <1>5, <1>7, <1>8 DEF Table
  <1>12. \A x \in 1 .. a + b : st[x] = IF x <= a THEN s[x] ELSE t[x - a]
    BY <1>6 DEF Joins
  <1>11. \A x \in 1 .. a + b : u[x] = IF x <= a THEN E[x] ELSE D[x - a]
    <2> SUFFICES ASSUME NEW x \in 1 .. a + b
                 PROVE  u[x] = IF x <= a THEN E[x] ELSE D[x - a]
      OBVIOUS
    <2>1. CASE x <= a
      <3>1. x \in 1 .. a
        BY <2>1
      <3> QED
        BY <1>7, <1>9, <1>12, <2>1, <3>1
    <2>2. CASE ~(x <= a)
      <3>1. x - a \in 1 .. b
        BY <2>2
      <3> QED
        BY <1>8, <1>9, <1>12, <2>2, <3>1
    <2> QED
      BY <2>1, <2>2
  <1>14. Joins(u, E, a, D, b)
    BY <1>9, <1>11 DEF Joins
  <1>13. u = Cat(E, D)
    BY <1>10, <1>14, JoinIsCat
  <1> QED
    BY <1>1, <1>2, <1>3, <1>4, <1>13

-----------------------------------------------------------------------------
\* Nothing put before or behind changes nothing.
LEMMA CatNone ==
  ASSUME NEW V, NEW n \in Nat, NEW s \in Table(n, V), NEW t \in Table(0, V)
  PROVE  Cat(s, t) = s /\ Cat(t, s) = s
  <1>1. Joins(s, s, n, t, 0)
    BY DEF Joins, Table
  <1>2. Joins(s, t, 0, s, n)
    BY DEF Joins, Table
  <1> QED
    BY <1>1, <1>2, JoinIsCat

\* One element more, place by place.
LEMMA AppendIs ==
  ASSUME NEW V, NEW n \in Nat, NEW s \in Table(n, V), NEW e \in V
  PROVE  /\ Append(s, e) = [x \in 1 .. n + 1 |-> IF x <= n THEN s[x] ELSE e]
         /\ Append(s, e) \in Table(n + 1, V)
  <1>1. s \in Seq(V) /\ Len(s) = n
    BY FunctionIsSeq DEF Table
  <1>2. PICK c : c = Append(s, e)
    OBVIOUS
  <1>3. c \in Seq(V) /\ Len(c) = n + 1
    BY <1>1, <1>2, AppendProperties
  <1>4. \A x \in 1 .. n + 1 : c[x] = IF x <= n THEN s[x] ELSE e
    BY <1>1, <1>2, AppendProperties
  <1>5. c \in [1 .. n + 1 -> V]
    BY <1>3, LenProperties
  <1>6. c = [x \in 1 .. n + 1 |-> c[x]]
    BY <1>5
  <1>7. c = [x \in 1 .. n + 1 |-> IF x <= n THEN s[x] ELSE e]
    BY <1>4, <1>6
  <1> QED
    BY <1>2, <1>5, <1>7 DEF Table

\* What is written of one leaf more.
LEMMA EmittedAppend ==
  ASSUME NEW n \in Nat, NEW s \in Table(n, Nat), NEW e \in Nat
  PROVE  Append(Emitted(s), Probe!Written(e, Probe!Leaf(e))) = Emitted(Append(s, e))
  <1> DEFINE w(l) == Probe!Written(l, Probe!Leaf(l))
  <1>1. PICK E : E = Emitted(s)
    OBVIOUS
  <1>2. PICK u : u = Append(s, e)
    OBVIOUS
  <1>3. PICK V : V = {w(l) : l \in Nat}
    OBVIOUS
  <1>4. PICK D : D = Emitted(u)
    OBVIOUS
  <1>5. PICK F : F = Append(E, w(e))
    OBVIOUS
  <1>6. n + 1 \in Nat /\ u \in Table(n + 1, Nat)
        /\ u = [x \in 1 .. n + 1 |-> IF x <= n THEN s[x] ELSE e]
    <2>1. PICK N : N = Nat
      OBVIOUS
    <2>2. s \in Table(n, N) /\ e \in N
      BY <2>1
    <2>3. u \in Table(n + 1, N) /\ u = [x \in 1 .. n + 1 |-> IF x <= n THEN s[x] ELSE e]
      BY <1>2, <2>2, AppendIs
    <2> QED
      BY <2>1, <2>3
  <1>7. E = [x \in 1 .. n |-> E[x]] /\ \A x \in 1 .. n : E[x] = w(s[x])
    BY <1>1, EmittedIs
  <1>8. D = [x \in 1 .. n + 1 |-> D[x]] /\ \A x \in 1 .. n + 1 : D[x] = w(u[x])
    BY <1>4, <1>6, EmittedIs
  <1> HIDE DEF w
  <1>9. E \in Table(n, V) /\ w(e) \in V
    BY <1>3, <1>7 DEF Table
  <1>10. F = [x \in 1 .. n + 1 |-> IF x <= n THEN E[x] ELSE w(e)]
    BY <1>5, <1>9, AppendIs
  <1>11. \A x \in 1 .. n + 1 : D[x] = IF x <= n THEN E[x] ELSE w(e)
    <2> SUFFICES ASSUME NEW x \in 1 .. n + 1
                 PROVE  D[x] = IF x <= n THEN E[x] ELSE w(e)
      OBVIOUS
    <2>1. D[x] = w(u[x]) /\ u[x] = IF x <= n THEN s[x] ELSE e
      BY <1>6, <1>8
    <2>2. CASE x <= n
      <3>1. x \in 1 .. n
        BY <2>2
      <3> QED
        BY <1>7, <2>1, <2>2, <3>1
    <2>3. CASE ~(x <= n)
      BY <2>1, <2>3
    <2> QED
      BY <2>2, <2>3
  <1>12. F = D
    BY <1>8, <1>10, <1>11
  <1> QED
    BY <1>1, <1>2, <1>4, <1>5, <1>12 DEF w

\* What is written of given leaves depends on the probe alone.
LEMMA EmittedStays ==
  ASSUME probe' = probe, NEW s
  PROVE  Emitted(s)' = Emitted(s)
  BY DEF Emitted, Probe!Written, Probe!Leaf, Probe!Iterated, Probe!Again, Probe!KeyingWords,
         Probe!Prefix

\* Initially.
LEMMA ProbeInitially ==
  ASSUME Probe!Init
  PROVE  ProbeInv
  <1>1. probe \in ProbeSet /\ pc = "gen" /\ at = 0 /\ class = 0 /\ DOMAIN inputs = 1 .. probe.degree
    BY DEF Probe!Init, ProbeSet
  <1>2. PICK s : s = << >>
    OBVIOUS
  <1>3. Emitted(s) = << >> /\ writes = << >>
    BY <1>2 DEF Emitted, Probe!Init
  <1>4. s \in Table(0, Nat) /\ s = Numbers(0)
    BY <1>2 DEF Table, Numbers
  <1>5. Straight
    BY <1>1, <1>3, <1>4, ProbeFields DEF Straight
  <1>6. ByClass
    <2>1. PICK k : k \in Nat \ {0} /\ k = probe.k
      BY <1>1, ProbeFields
    <2>2. s = Walked(k, class)
      BY <1>1, <1>2 DEF Walked
    <2> QED
      BY <1>1, <1>3, <1>4, <2>1, <2>2 DEF ByClass
  <1> QED
    BY <1>1, <1>5, <1>6 DEF ProbeInv

\* m leaves more, hashed in order from n on.
LEMMA StraightMore ==
  ASSUME NEW n \in Nat, NEW m \in Nat, NEW new,
         new = [j \in 1 .. m |-> Probe!Written(n + j - 1, Probe!Leaf(n + j - 1))]
  PROVE  Cat(Emitted(Numbers(n)), new) = Emitted(Numbers(n + m))
  <1>1. PICK s : s = [p \in 1 .. n |-> p - 1]
    OBVIOUS
  <1>2. PICK t : t = [j \in 1 .. m |-> n + j - 1]
    OBVIOUS
  <1>3. PICK u : u = [p \in 1 .. n + m |-> p - 1]
    OBVIOUS
  <1>4. s \in Table(n, Nat) /\ t \in Table(m, Nat)
    BY <1>1, <1>2 DEF Table
  <1>5. new = Emitted(t)
    <2>1. DOMAIN t = 1 .. m /\ \A j \in 1 .. m : t[j] = n + j - 1
      BY <1>2
    <2> QED
      BY <2>1 DEF Emitted
  <1>6. u = [x \in 1 .. n + m |-> u[x]]
    BY <1>3
  <1>7. \A x \in 1 .. n + m : u[x] = IF x <= n THEN s[x] ELSE t[x - n]
    BY <1>1, <1>2, <1>3
  <1>8. u = Cat(s, t)
    <2>1. Joins(u, s, n, t, m)
      BY <1>6, <1>7 DEF Joins
    <2> QED
      BY <1>4, <2>1, JoinIsCat
  <1>9. Emitted(Cat(s, t)) = Cat(Emitted(s), Emitted(t))
    BY <1>4, EmittedMore
  <1> QED
    BY <1>1, <1>3, <1>5, <1>8, <1>9 DEF Numbers

-----------------------------------------------------------------------------
\* A batch writes its leaves in order, whatever the batch before it left in the inputs.
LEMMA BatchKeeps ==
  ASSUME ProbeInv, Probe!GenBatch
  PROVE  ProbeInv'
  <1>1. /\ probe' = probe /\ pc' = pc /\ pc = "gen" /\ at < LeafCount
        /\ Probe!Shape = "batched" /\ Probe!Shape' = "batched"
    BY DEF Probe!GenBatch, Probe!Shape
  <1>2. probe \in ProbeSet /\ Straight /\ DOMAIN inputs = 1 .. probe.degree
    BY <1>1 DEF ProbeInv
  <1>3. PICK n, s : /\ n \in 0 .. LeafCount /\ s \in Table(n, Nat)
                    /\ n = at /\ s = Numbers(n) /\ writes = Emitted(s)
    BY <1>2 DEF Straight
  <1>4. PICK m : m = Probe!Batch
    OBVIOUS
  <1>5. /\ m \in Nat /\ m <= probe.degree /\ n \in Nat
        /\ n + m \in Nat /\ n + m \in 0 .. LeafCount
    <2>1. PICK d, e : d = probe.degree /\ e = LeafCount - at
      OBVIOUS
    <2>2. d \in Nat /\ n \in Nat /\ LeafCount \in Nat /\ e \in Nat /\ e = LeafCount - n
      BY <1>1, <1>2, <1>3, <2>1, ProbeFields
    <2>3. m = IF d <= e THEN d ELSE e
      BY <1>4, <2>1 DEF Probe!Batch
    <2>4. m \in {d, e} /\ m <= d /\ m <= e
      BY <2>2, <2>3
    <2> QED
      BY <2>1, <2>2, <2>4
  <1>6. PICK new : new = [j \in 1 .. m |-> Probe!Written(n + j - 1, Probe!Hashed(inputs'[j]))]
    OBVIOUS
  <1>7. new = [j \in 1 .. m |-> Probe!Written(n + j - 1, Probe!Leaf(n + j - 1))]
    <2>1. \A j \in 1 .. m : Probe!Hashed(inputs'[j]) = Probe!Leaf(n + j - 1)
      <3> SUFFICES ASSUME NEW j \in 1 .. m
                   PROVE  Probe!Hashed(inputs'[j]) = Probe!Leaf(n + j - 1)
        OBVIOUS
      <3>1. j \in DOMAIN inputs /\ j <= m
        BY <1>2, <1>5, ProbeFields
      <3>2. inputs'[j] = Probe!Prefix \o Probe!KeyingWords(n + j - 1)
        BY <1>3, <1>4, <3>1 DEF Probe!GenBatch
      <3>3. probe.kind # "blake3" /\ probe.m = 1
        BY <1>1 DEF Probe!Shape
      <3> QED
        BY <3>2, <3>3, NotIterated DEF Probe!Leaf
    <2> QED
      BY <1>6, <2>1, Zenon
  <1>8. writes' = Cat(Emitted(s), new) /\ at' = n + m
    BY <1>3, <1>4, <1>6 DEF Cat, Probe!GenBatch
  <1>9. writes' = Emitted(Numbers(n + m))
    BY <1>3, <1>5, <1>7, <1>8, StraightMore
  <1>10. Straight'
    <2>1. PICK u : u = Numbers(n + m)
      OBVIOUS
    <2>2. u \in Table(n + m, Nat)
      BY <1>5, <2>1 DEF Table, Numbers
    <2>3. Emitted(u)' = Emitted(u)
      BY <1>1, EmittedStays
    <2>4. writes' = Emitted(u)'
      BY <1>9, <2>1, <2>3
    <2> QED
      BY <1>1, <1>5, <1>8, <2>1, <2>2, <2>4 DEF Straight
  <1>11. DOMAIN inputs' = 1 .. probe.degree
    BY <1>2 DEF Probe!GenBatch
  <1> QED
    BY <1>1, <1>2, <1>10, <1>11 DEF ProbeInv, ProbeSet

\* A leaf alone.
LEMMA LeafKeeps ==
  ASSUME ProbeInv, Probe!GenLeaf
  PROVE  ProbeInv'
  <1> USE DEF Probe!GenLeaf
  <1>1. probe' = probe /\ pc' = pc /\ pc = "gen" /\ at < LeafCount /\ inputs' = inputs
        /\ Probe!Shape = "per_leaf" /\ Probe!Shape' = "per_leaf"
    BY DEF Probe!Shape
  <1>2. probe \in ProbeSet /\ Straight /\ DOMAIN inputs = 1 .. probe.degree
    BY <1>1 DEF ProbeInv
  <1>3. PICK n, s : /\ n \in 0 .. LeafCount /\ s \in Table(n, Nat)
                    /\ n = at /\ s = Numbers(n) /\ writes = Emitted(s)
    BY <1>2 DEF Straight
  <1>4. LeafCount \in Nat /\ n + 1 \in 0 .. LeafCount /\ at' = n + 1
    BY <1>1, <1>3, ProbeNumbers
  <1>5. PICK u : u = Append(s, n)
    OBVIOUS
  <1>6. writes' = Emitted(u)
    BY <1>3, <1>5, EmittedAppend
  <1>7. u = Numbers(n + 1)
    <2>1. PICK N : N = Nat
      OBVIOUS
    <2>2. s \in Table(n, N) /\ n \in N /\ n \in Nat
      BY <1>3, <2>1
    <2>3. u = [x \in 1 .. n + 1 |-> IF x <= n THEN s[x] ELSE n]
      BY <1>5, <2>2, AppendIs
    <2>4. \A x \in 1 .. n + 1 : (IF x <= n THEN s[x] ELSE n) = x - 1
      BY <1>3 DEF Numbers
    <2> QED
      BY <2>3, <2>4 DEF Numbers
  <1>8. u \in Table(n + 1, Nat)
    BY <1>4, <1>7 DEF Table, Numbers
  <1>9. Emitted(u)' = Emitted(u)
    BY <1>1, EmittedStays
  <1>10. Straight'
    BY <1>1, <1>4, <1>6, <1>7, <1>8, <1>9 DEF Straight
  <1> QED
    BY <1>1, <1>2, <1>10 DEF ProbeInv, ProbeSet

\* A class has so many leaves as there are multiples to go.
LEMMA SizeIs ==
  ASSUME NEW k \in Nat \ {0}, NEW c \in 0 .. k - 1, NEW q \in Nat
  PROVE  /\ Size(k, c) \in Nat
         /\ c + q * k < LeafCount <=> q < Size(k, c)
  <1> DEFINE a == LeafCount - (c + 1) + k
             d == a \div k
  <1>1. LeafCount \in Nat /\ a \in Nat
    BY ProbeNumbers
  <1> HIDE DEF a
  <1>2. d \in Nat /\ a % k \in 0 .. k - 1 /\ a = k * d + (a % k)
    BY <1>1, DivBounds
  <1> HIDE DEF d
  <1>3. ASSUME q < d
        PROVE  q * k + k <= k * d
    <2>1. PICK e \in Nat : d = q + 1 + e
      <3>1. d - q - 1 \in Nat /\ d = q + 1 + (d - q - 1)
        BY <1>2, <1>3
      <3> QED
        BY <3>1
    <2>2. k * d = q * k + k + k * e /\ k * e \in Nat
      BY <2>1, SMT
    <2>3. q * k \in Nat
      BY SMT
    <2> QED
      BY <2>2, <2>3
  <1>4. ASSUME d <= q
        PROVE  k * d <= q * k
    <2>1. PICK e \in Nat : q = d + e
      <3>1. q - d \in Nat /\ q = d + (q - d)
        BY <1>2, <1>4
      <3> QED
        BY <3>1
    <2>2. q * k = k * d + k * e /\ k * e \in Nat
      BY <1>2, <2>1, SMT
    <2>3. k * d \in Nat
      BY <1>2, SMT
    <2> QED
      BY <2>2, <2>3
  <1>5. q * k \in Nat /\ k * d \in Nat
    BY <1>2, SMT
  <1>6. CASE q < d
    <2>1. PICK x \in Nat, y \in Nat : x = q * k /\ y = k * d
      BY <1>5
    <2>2. x + k <= y /\ a = y + (a % k)
      BY <1>2, <1>3, <1>6, <2>1
    <2>3. c + x < LeafCount
      BY <1>1, <1>2, <2>2 DEF a
    <2> QED
      BY <1>2, <1>6, <2>1, <2>3 DEF Size, d, a
  <1>7. CASE d <= q
    <2>1. PICK x \in Nat, y \in Nat : x = q * k /\ y = k * d
      BY <1>5
    <2>2. y <= x /\ a = y + (a % k)
      BY <1>2, <1>4, <1>7, <2>1
    <2>3. ~(c + x < LeafCount)
      BY <1>1, <1>2, <2>2 DEF a
    <2>4. ~(q < d)
      BY <1>2, <1>7
    <2> QED
      BY <1>2, <2>1, <2>3, <2>4 DEF Size, d, a
  <1> QED
    BY <1>2, <1>6, <1>7

\* A stream opened stands before the first leaf of its class.
LEMMA OpenKeeps ==
  ASSUME ProbeInv, Probe!StreamClass
  PROVE  ProbeInv'
  <1>1. /\ probe' = probe /\ pc = "gen" /\ pc' = "class" /\ class < probe.k /\ class' = class
        /\ inputs' = inputs /\ writes' = writes /\ at' = class
        /\ reader' = IF probe.variant = "stub_hash" THEN -1 ELSE 0
        /\ Probe!Shape = "streamed" /\ Probe!Shape' = "streamed"
    BY DEF Probe!StreamClass, Probe!Shape
  <1>2. probe \in ProbeSet /\ ByClass /\ DOMAIN inputs = 1 .. probe.degree
    BY <1>1 DEF ProbeInv
  <1>3. PICK k, c, n, s : /\ k \in Nat \ {0} /\ k = probe.k
                          /\ c \in 0 .. k - 1 /\ c = class
                          /\ n \in Nat /\ s \in Table(n, Nat) /\ s = Walked(k, c)
                          /\ writes = Emitted(s)
    BY <1>1, <1>2 DEF ByClass
  <1>4. Size(k, c) \in Nat
    BY <1>3, SizeIs
  <1>5. PICK f : f = FirstLeaves(k, c, 0)
    OBVIOUS
  <1>6. f \in Table(0, Nat)
    BY <1>5 DEF Table, FirstLeaves
  <1>7. s = Cat(s, f)
    BY <1>3, <1>6, CatNone
  <1>8. Emitted(s)' = Emitted(s)
    BY <1>1, EmittedStays
  <1>9. at' = c + 0 * k
    BY <1>1, <1>3
  <1>10. \E q \in 0 .. Size(k, c) :
           /\ at' = c + q * k
           /\ probe'.variant # "stub_hash" => reader' = q
           /\ \E t : t = Cat(s, FirstLeaves(k, c, q)) /\ writes' = Emitted(t)'
    <2>1. writes' = Emitted(s)' /\ s = Cat(s, FirstLeaves(k, c, 0))
      BY <1>1, <1>3, <1>5, <1>7, <1>8
    <2>2. 0 \in 0 .. Size(k, c) /\ (probe'.variant # "stub_hash" => reader' = 0)
      BY <1>1, <1>4
    <2> QED
      BY <1>9, <2>1, <2>2
  <1>11. ByClass'
    BY <1>1, <1>3, <1>10 DEF ByClass
  <1> QED
    BY <1>1, <1>2, <1>11 DEF ProbeInv, ProbeSet

\* One read of a stream is the leaf it stands before.
LEMMA StreamReads ==
  ASSUME probe \in ProbeSet, Probe!Shape = "streamed",
         NEW c \in 0 .. probe.k - 1, NEW q \in Nat,
         probe.variant # "stub_hash" => reader = q
  PROVE  Probe!Written(c + q * probe.k, Probe!XofAt(<<c>>, reader))
           = Probe!Written(c + q * probe.k, Probe!Leaf(c + q * probe.k))
  <1>1. PICK k \in Nat \ {0} : k = probe.k
    BY ProbeFields
  <1>2. (c + q * k) \div k = q /\ (c + q * k) % k = c
    BY <1>1, DivisionUnique
  <1>3. probe.kind = "blake3" /\ probe.m = 1 /\ probe.keying = "regular"
    BY DEF Probe!Shape
  <1>4. PICK l : l = c + q * k
    OBVIOUS
  <1>5. Probe!Leaf(l) = Probe!XofAt(<<c>>, q)
    BY <1>1, <1>2, <1>3, <1>4, NotIterated DEF Probe!Leaf
  <1> QED
    BY <1>1, <1>4, <1>5 DEF Probe!Written

\* The q-th leaf of a class follows its first q.
LEMMA FirstMore ==
  ASSUME NEW k \in Nat \ {0}, NEW c \in Nat, NEW q \in Nat
  PROVE  /\ FirstLeaves(k, c, q) \in Table(q, Nat)
         /\ FirstLeaves(k, c, q + 1) \in Table(q + 1, Nat)
         /\ \A x \in 1 .. q + 1 :
              FirstLeaves(k, c, q + 1)[x] = IF x <= q THEN FirstLeaves(k, c, q)[x] ELSE c + q * k
  <1>1. \A x \in 1 .. q + 1 : x - 1 \in Nat /\ (x - 1) * k \in Nat /\ c + (x - 1) * k \in Nat
    BY SMT
  <1>2. \A x \in 1 .. q + 1 : ~(x <= q) => x - 1 = q
    BY SMT
  <1>3. \A x \in 1 .. q : x \in 1 .. q + 1
    BY SMT
  <1>4. PICK f, g : f = FirstLeaves(k, c, q) /\ g = FirstLeaves(k, c, q + 1)
    OBVIOUS
  <1>5. f \in Table(q, Nat) /\ g \in Table(q + 1, Nat)
    BY <1>1, <1>3, <1>4 DEF FirstLeaves, Table
  <1>6. \A x \in 1 .. q : f[x] = c + (x - 1) * k
    BY <1>4 DEF FirstLeaves
  <1>7. \A x \in 1 .. q + 1 : g[x] = c + (x - 1) * k
    BY <1>4 DEF FirstLeaves
  <1>8. ASSUME NEW x \in 1 .. q + 1
        PROVE  g[x] = IF x <= q THEN f[x] ELSE c + q * k
    <2>1. CASE x <= q
      <3>1. x \in 1 .. q
        BY <2>1
      <3> QED
        BY <1>6, <1>7, <2>1, <3>1
    <2>2. CASE ~(x <= q)
      <3>1. x - 1 = q
        BY <1>2, <2>2
      <3>2. g[x] = c + (x - 1) * k
        BY <1>7
      <3> QED
        BY <2>2, <3>1, <3>2
    <2> QED
      BY <2>1, <2>2
  <1> QED
    BY <1>4, <1>5, <1>8

\* Where the stream of a class stands.
LEMMA ClassFields ==
  ASSUME ByClass, pc = "class"
  PROVE  \E k, n, s, p, z :
          /\ k \in Nat \ {0} /\ k = probe.k
          /\ class \in 0 .. k /\ class < k
          /\ n \in Nat /\ s \in Table(n, Nat) /\ s = Walked(k, class)
          /\ p \in 0 .. Size(k, class) /\ at = class + p * k
          /\ probe.variant # "stub_hash" => reader = p
          /\ z = Cat(s, FirstLeaves(k, class, p)) /\ writes = Emitted(z)
  <1>1. PICK k \in Nat \ {0} :
          /\ k = probe.k
          /\ class \in 0 .. k
          /\ \E n \in Nat : \E s \in Table(n, Nat) :
               /\ s = Walked(k, class)
               /\ class < k
               /\ \E q \in 0 .. Size(k, class) :
                    /\ at = class + q * k
                    /\ probe.variant # "stub_hash" => reader = q
                    /\ \E t : t = Cat(s, FirstLeaves(k, class, q)) /\ writes = Emitted(t)
    BY Zenon DEF ByClass
  <1>2. PICK n \in Nat : \E s \in Table(n, Nat) :
               /\ s = Walked(k, class)
               /\ class < k
               /\ \E q \in 0 .. Size(k, class) :
                    /\ at = class + q * k
                    /\ probe.variant # "stub_hash" => reader = q
                    /\ \E t : t = Cat(s, FirstLeaves(k, class, q)) /\ writes = Emitted(t)
    BY <1>1
  <1>3. PICK s \in Table(n, Nat) :
               /\ s = Walked(k, class)
               /\ class < k
               /\ \E q \in 0 .. Size(k, class) :
                    /\ at = class + q * k
                    /\ probe.variant # "stub_hash" => reader = q
                    /\ \E t : t = Cat(s, FirstLeaves(k, class, q)) /\ writes = Emitted(t)
    BY <1>2
  <1>4. PICK q \in 0 .. Size(k, class) :
                    /\ at = class + q * k
                    /\ probe.variant # "stub_hash" => reader = q
                    /\ \E t : t = Cat(s, FirstLeaves(k, class, q)) /\ writes = Emitted(t)
    BY <1>3
  <1>5. PICK t : t = Cat(s, FirstLeaves(k, class, q)) /\ writes = Emitted(t)
    BY <1>4
  <1> QED
    BY <1>1, <1>2, <1>3, <1>4, <1>5, Zenon

\* A read writes the next leaf of the class.
LEMMA ReadKeeps ==
  ASSUME ProbeInv, Probe!StreamLeaf
  PROVE  ProbeInv'
  <1>1. /\ probe' = probe /\ pc = "class" /\ pc' = "class" /\ class' = class
        /\ inputs' = inputs /\ at < LeafCount /\ at' = at + probe.k
        /\ reader' = IF probe.variant = "stub_hash" THEN reader ELSE reader + 1
        /\ writes' = Append(writes, Probe!Written(at, Probe!XofAt(<<class>>, reader)))
        /\ Probe!Shape' = Probe!Shape
    BY DEF Probe!StreamLeaf, Probe!Shape
  <1>2. probe \in ProbeSet /\ ByClass /\ DOMAIN inputs = 1 .. probe.degree
        /\ Probe!Shape = "streamed"
    BY <1>1 DEF ProbeInv, Straight
  <1>3. PICK k, n, s, p, z :
          /\ k \in Nat \ {0} /\ k = probe.k
          /\ class \in 0 .. k /\ class < k
          /\ n \in Nat /\ s \in Table(n, Nat) /\ s = Walked(k, class)
          /\ p \in 0 .. Size(k, class) /\ at = class + p * k
          /\ probe.variant # "stub_hash" => reader = p
          /\ z = Cat(s, FirstLeaves(k, class, p)) /\ writes = Emitted(z)
    BY <1>1, <1>2, ClassFields
  <1>4. PICK c : c = class
    OBVIOUS
  <1>5. /\ k \in Nat \ {0} /\ c \in 0 .. k - 1 /\ c \in Nat /\ p \in Nat /\ n \in Nat
        /\ Size(k, c) \in Nat /\ p \in 0 .. Size(k, c)
    <2>1. k \in Nat \ {0} /\ c \in 0 .. k - 1 /\ c \in Nat /\ n \in Nat /\ p \in 0 .. Size(k, c)
      BY <1>3, <1>4
    <2>2. Size(k, c) \in Nat
      <3>1. 0 \in Nat
        OBVIOUS
      <3> QED
        BY <2>1, <3>1, SizeIs
    <2> QED
      BY <2>1, <2>2
  <1>50. /\ k = probe.k /\ c = class /\ s \in Table(n, Nat) /\ s = Walked(k, c)
         /\ at = c + p * k /\ (probe.variant # "stub_hash" => reader = p)
         /\ z = Cat(s, FirstLeaves(k, c, p)) /\ writes = Emitted(z)
    BY <1>3, <1>4
  <1>6. p + 1 \in 0 .. Size(k, c)
    <2>1. c + p * k < LeafCount
      BY <1>1, <1>50
    <2>2. p < Size(k, c)
      BY <1>5, <2>1, SizeIs
    <2> QED
      BY <1>5, <2>2
  <1>7. PICK f, g : f = FirstLeaves(k, c, p) /\ g = FirstLeaves(k, c, p + 1)
    OBVIOUS
  <1>8. PICK l : l = c + p * k
    OBVIOUS
  <1>9. /\ f \in Table(p, Nat) /\ g \in Table(p + 1, Nat)
        /\ \A x \in 1 .. p + 1 : g[x] = IF x <= p THEN f[x] ELSE l
    BY <1>5, <1>7, <1>8, FirstMore
  <1>10. l \in Nat
    <2>1. p * k \in Nat
      BY <1>5, SMT
    <2> QED
      BY <1>5, <1>8, <2>1
  <1>11. z \in Table(n + p, Nat) /\ Joins(z, s, n, f, p)
    BY <1>5, <1>50, <1>7, <1>9, CatIs
  <1>12. PICK u : u = Append(z, l)
    OBVIOUS
  <1>13. u = Cat(s, g)
    <2>1. PICK N : N = Nat
      OBVIOUS
    <2>2. z \in Table(n + p, N) /\ l \in N /\ n + p \in Nat
      BY <1>5, <1>10, <1>11, <2>1
    <2>3. u = [x \in 1 .. n + p + 1 |-> IF x <= n + p THEN z[x] ELSE l]
      BY <1>12, <2>2, AppendIs
    <2>4. Joins(u, s, n, g, p + 1)
      <3>1. n + (p + 1) = n + p + 1
        BY <1>5
      <3>2. ASSUME NEW x \in 1 .. n + p + 1
            PROVE  u[x] = IF x <= n THEN s[x] ELSE g[x - n]
        <4>1. CASE x <= n + p
          <5>1. u[x] = IF x <= n THEN s[x] ELSE f[x - n]
            BY <1>5, <1>11, <2>3, <4>1 DEF Joins
          <5>2. ~(x <= n) => x - n \in 1 .. p + 1 /\ x - n <= p
            BY <1>5, <4>1
          <5> QED
            BY <1>9, <5>1, <5>2
        <4>2. CASE ~(x <= n + p)
          <5>1. x - n \in 1 .. p + 1 /\ ~(x - n <= p) /\ ~(x <= n)
            BY <1>5, <4>2
          <5> QED
            BY <1>9, <2>3, <4>2, <5>1
        <4> QED
          BY <4>1, <4>2
      <3> QED
        BY <2>3, <3>1, <3>2 DEF Joins
    <2>5. p + 1 \in Nat
      BY <1>5
    <2> QED
      BY <1>5, <1>50, <1>9, <2>4, <2>5, JoinIsCat
  <1>14. writes' = Emitted(u)
    <2>1. Probe!Written(at, Probe!XofAt(<<class>>, reader)) = Probe!Written(l, Probe!Leaf(l))
      BY <1>2, <1>50, <1>5, <1>8, StreamReads
    <2>2. writes' = Append(Emitted(z), Probe!Written(l, Probe!Leaf(l)))
      BY <1>1, <1>50, <2>1
    <2>3. n + p \in Nat
      BY <1>5
    <2> QED
      BY <1>10, <1>11, <1>12, <2>2, <2>3, EmittedAppend
  <1>15. at' = c + (p + 1) * k
    <2>1. (p + 1) * k = p * k + k /\ p * k \in Nat
      <3>1. \A b \in Nat : (b + 1) * k = b * k + k /\ b * k \in Nat
        BY <1>5, SMT
      <3> QED
        BY <1>5, <3>1
    <2>2. PICK a, b : a = p * k /\ b = (p + 1) * k
      OBVIOUS
    <2>3. a \in Nat /\ b = a + k /\ at = c + a /\ at' = at + k
      BY <1>1, <1>50, <2>1, <2>2
    <2>4. at' = c + b
      BY <1>5, <2>3
    <2> QED
      BY <2>2, <2>4
  <1>16. Emitted(u)' = Emitted(u)
    BY <1>1, EmittedStays
  <1>17. \E q \in 0 .. Size(k, c) :
           /\ at' = c + q * k
           /\ probe'.variant # "stub_hash" => reader' = q
           /\ \E t : t = Cat(s, FirstLeaves(k, c, q)) /\ writes' = Emitted(t)'
    <2>1. writes' = Emitted(u)' /\ u = Cat(s, FirstLeaves(k, c, p + 1))
      BY <1>7, <1>13, <1>14, <1>16
    <2>2. probe'.variant # "stub_hash" => reader' = p + 1
      BY <1>1, <1>50
    <2> QED
      BY <1>6, <1>15, <2>1, <2>2
  <1>18. ByClass'
    <2>1. /\ class' = c /\ k = probe'.k /\ class' \in 0 .. k /\ class' < k
          /\ s = Walked(k, class') /\ pc' = "class"
      BY <1>1, <1>3, <1>50
    <2>2. \E q \in 0 .. Size(k, class') :
            /\ at' = class' + q * k
            /\ probe'.variant # "stub_hash" => reader' = q
            /\ \E t : t = Cat(s, FirstLeaves(k, class', q)) /\ writes' = Emitted(t)'
      BY <1>17, <2>1, Zenon
    <2>3. pc' # "done" /\ pc' = "class"
      BY <2>1
    <2> QED
      BY <1>5, <1>50, <2>1, <2>2, <2>3, Zenon DEF ByClass
  <1> QED
    BY <1>1, <1>2, <1>18 DEF ProbeInv, ProbeSet

\* A class ended is one more class walked.
LEMMA WalkedMore ==
  ASSUME NEW k \in Nat \ {0}, NEW c \in 0 .. k - 1, NEW n \in Nat, NEW s \in Table(n, Nat),
         s = Walked(k, c)
  PROVE  /\ Walked(k, c + 1) = Cat(s, FirstLeaves(k, c, Size(k, c)))
         /\ \E m \in Nat : Walked(k, c + 1) \in Table(m, Nat)
  <1>1. PICK f : f = FirstLeaves(k, c, Size(k, c))
    OBVIOUS
  <1>2. PICK z : z = Size(k, c)
    OBVIOUS
  <1>3. z \in Nat
    <2>1. 0 \in Nat
      OBVIOUS
    <2> QED
      BY <1>2, <2>1, SizeIs
  <1>4. f \in Table(z, Nat)
    <2>1. c \in Nat
      OBVIOUS
    <2> QED
      BY <1>1, <1>2, <1>3, <2>1, FirstMore
  <1>5. Walk(k)[c + 1] = f
    <2>1. PICK w, d : w = Walk(k) /\ d = c + 1
      OBVIOUS
    <2>2. PICK e : e = (LeafCount - d + k) \div k
      OBVIOUS
    <2>3. d \in 1 .. k /\ d - 1 = c
      BY <2>1
    <2>4. w[d] = [q \in 1 .. e |-> c + (q - 1) * k]
      BY <2>1, <2>2, <2>3 DEF Walk
    <2>5. f = [q \in 1 .. e |-> c + (q - 1) * k]
      BY <1>1, <2>1, <2>2 DEF FirstLeaves, Size
    <2> QED
      BY <2>1, <2>4, <2>5
  <1>6. c + 1 \in 1 .. k /\ c + 1 # 0
    OBVIOUS
  <1>7. Walked(k, c + 1) = IF c + 1 = 1 THEN f ELSE Flat(Walk(k), k)[c + 1 - 1] \o f
    <2>1. PICK w : w = Walk(k)
      OBVIOUS
    <2>2. Flat(w, k)[c + 1] = IF c + 1 = 1 THEN w[c + 1] ELSE Flat(w, k)[c + 1 - 1] \o w[c + 1]
      BY <1>6, FlatUnfolds
    <2> QED
      BY <1>5, <1>6, <2>1, <2>2 DEF Walked
  <1>8. Walked(k, c + 1) = Cat(s, f)
    <2>1. CASE c = 0
      <3>1. s = << >>
        BY <2>1 DEF Walked
      <3>2. s \in Table(0, Nat)
        BY <3>1 DEF Table
      <3>3. Cat(s, f) = f
        BY <1>3, <1>4, <3>2, CatNone
      <3> QED
        BY <1>7, <2>1, <3>3
    <2>2. CASE c # 0
      <3>1. c + 1 # 1 /\ c + 1 - 1 = c /\ Walked(k, c) = Flat(Walk(k), k)[c]
        BY <2>2 DEF Walked
      <3> QED
        BY <1>7, <3>1 DEF Cat
    <2> QED
      BY <2>1, <2>2
  <1>9. Cat(s, f) \in Table(n + z, Nat) /\ n + z \in Nat
    BY <1>3, <1>4, CatIs
  <1> QED
    BY <1>1, <1>8, <1>9

\* The class ends when all its leaves are written.
LEMMA EndKeeps ==
  ASSUME ProbeInv, Probe!EndClass
  PROVE  ProbeInv'
  <1>1. /\ probe' = probe /\ pc = "class" /\ pc' = "gen" /\ class' = class + 1
        /\ inputs' = inputs /\ at' = at /\ at >= LeafCount /\ writes' = writes
        /\ Probe!Shape' = Probe!Shape
    BY DEF Probe!EndClass, Probe!Shape
  <1>2. probe \in ProbeSet /\ ByClass /\ DOMAIN inputs = 1 .. probe.degree
        /\ Probe!Shape = "streamed"
    BY <1>1 DEF ProbeInv, Straight
  <1>3. PICK k, n, s, p, z :
          /\ k \in Nat \ {0} /\ k = probe.k
          /\ class \in 0 .. k /\ class < k
          /\ n \in Nat /\ s \in Table(n, Nat) /\ s = Walked(k, class)
          /\ p \in 0 .. Size(k, class) /\ at = class + p * k
          /\ z = Cat(s, FirstLeaves(k, class, p)) /\ writes = Emitted(z)
    BY <1>1, <1>2, ClassFields
  <1>4. PICK c : c = class
    OBVIOUS
  <1>5. /\ k \in Nat \ {0} /\ c \in 0 .. k - 1 /\ c \in Nat /\ n \in Nat
        /\ p \in 0 .. Size(k, c) /\ s \in Table(n, Nat) /\ s = Walked(k, c)
    BY <1>3, <1>4
  <1>6. p = Size(k, c)
    <2>1. LeafCount \in Nat /\ p \in Nat
      BY <1>5, ProbeNumbers
    <2>2. Size(k, c) \in Nat /\ (c + p * k < LeafCount <=> p < Size(k, c))
      BY <1>5, <2>1, SizeIs
    <2>3. PICK a : a = c + p * k
      OBVIOUS
    <2>4. a \in Nat /\ ~(a < LeafCount)
      <3>1. p * k \in Nat
        BY <1>5, <2>1, SMT
      <3> QED
        BY <1>1, <1>3, <1>4, <1>5, <2>1, <2>3, <3>1
    <2> QED
      BY <1>5, <2>1, <2>2, <2>3, <2>4
  <1>7. z = Walked(k, c + 1) /\ \E m \in Nat : z \in Table(m, Nat)
    BY <1>3, <1>4, <1>5, <1>6, WalkedMore
  <1>8. PICK m \in Nat : z \in Table(m, Nat)
    BY <1>7
  <1>9. writes' = Emitted(z)'
    BY <1>1, <1>3, EmittedStays
  <1>10. ByClass'
    <2>1. class' = c + 1 /\ k = probe'.k /\ class' \in 0 .. k /\ pc' = "gen"
      BY <1>1, <1>3, <1>4, <1>5
    <2>2. z = Walked(k, class') /\ pc' # "done" /\ pc' # "class"
      BY <1>7, <2>1
    <2> QED
      BY <1>5, <1>8, <1>9, <2>1, <2>2, Zenon DEF ByClass
  <1> QED
    BY <1>1, <1>2, <1>10 DEF ProbeInv, ProbeSet

\* The loop ends when all leaves or classes are.
LEMMA DoneKeeps ==
  ASSUME ProbeInv, Probe!GenDone
  PROVE  ProbeInv'
  <1>1. /\ probe' = probe /\ pc = "gen" /\ pc' = "done" /\ class' = class
        /\ inputs' = inputs /\ at' = at /\ writes' = writes
        /\ Probe!Shape' = Probe!Shape
        /\ IF Probe!Shape = "streamed" THEN class >= probe.k ELSE at >= LeafCount
    BY DEF Probe!GenDone, Probe!Shape
  <1>2. probe \in ProbeSet /\ DOMAIN inputs = 1 .. probe.degree
    BY DEF ProbeInv
  <1>3. ASSUME Probe!Shape = "streamed"
        PROVE  ByClass'
    <2>1. ByClass
      BY <1>3 DEF ProbeInv
    <2>2. PICK k, n, s : /\ k \in Nat \ {0} /\ k = probe.k /\ class \in 0 .. k
                         /\ n \in Nat /\ s \in Table(n, Nat) /\ s = Walked(k, class)
                         /\ writes = Emitted(s)
      BY <1>1, <2>1 DEF ByClass
    <2>3. class = k
      BY <1>1, <1>3, <2>2
    <2>4. writes' = Emitted(s)'
      BY <1>1, <2>2, EmittedStays
    <2>5. class' = k /\ class' \in 0 .. k /\ k = probe'.k /\ s = Walked(k, class') /\ pc' # "class"
      BY <1>1, <2>2, <2>3
    <2> QED
      BY <2>2, <2>4, <2>5, Zenon DEF ByClass
  <1>4. ASSUME Probe!Shape # "streamed"
        PROVE  Straight'
    <2>1. Straight
      BY <1>4 DEF ProbeInv
    <2>2. PICK s : s \in Table(at, Nat) /\ s = Numbers(at) /\ writes = Emitted(s)
      BY <2>1 DEF Straight
    <2>3. at \in 0 .. LeafCount /\ at = LeafCount
      BY <1>1, <1>4, <2>1, ProbeNumbers DEF Straight
    <2>4. writes' = Emitted(s)'
      BY <1>1, <2>2, EmittedStays
    <2> QED
      BY <1>1, <2>2, <2>3, <2>4 DEF Straight
  <1> QED
    BY <1>1, <1>2, <1>3, <1>4 DEF ProbeInv, ProbeSet

\* A step of no part of it changes nothing.
LEMMA ProbeStays ==
  ASSUME ProbeInv, UNCHANGED Probe!vars
  PROVE  ProbeInv'
  <1>1. /\ probe' = probe /\ pc' = pc /\ at' = at /\ class' = class /\ reader' = reader
        /\ inputs' = inputs /\ writes' = writes
    BY DEF Probe!vars
  <1>2. \A s : Emitted(s)' = Emitted(s)
    BY <1>1, EmittedStays
  <1>3. Straight => Straight'
    BY <1>1, <1>2 DEF Straight
  <1>4. ByClass => ByClass'
    BY <1>1, <1>2 DEF ByClass
  <1>5. Probe!Shape' = Probe!Shape
    BY <1>1 DEF Probe!Shape
  <1> QED
    BY <1>1, <1>3, <1>4, <1>5 DEF ProbeInv, ProbeSet

\* At the end the rows written are those of the visits.
LEMMA RowsAre ==
  ASSUME ProbeInv
  PROVE  Probe!RowsExact
  <1> SUFFICES ASSUME pc = "done"
               PROVE  writes = Emitted(Probe!Visits)
    BY DEF Probe!RowsExact, Emitted
  <1>1. CASE Probe!Shape = "streamed"
    <2>1. PICK k, s : /\ k \in Nat \ {0} /\ k = probe.k /\ class = k
                      /\ s = Walked(k, class) /\ writes = Emitted(s)
      BY <1>1 DEF ProbeInv, ByClass
    <2>4. s = Flat(Walk(k), k)[k]
      BY <2>1 DEF Walked
    <2>5. Probe!Visits = Flat(Walk(k), k)[k]
      BY <1>1, <2>1 DEF Probe!Visits, Walk, Flat
    <2> QED
      BY <2>1, <2>4, <2>5
  <1>2. CASE Probe!Shape # "streamed"
    <2>1. writes = Emitted(Numbers(LeafCount))
      BY <1>2 DEF ProbeInv, Straight
    <2> QED
      BY <1>2, <2>1 DEF Probe!Visits, Numbers
  <1> QED
    BY <1>1, <1>2

\* Each row is written once, with its leaf's digest, in the order of the loop shape.
THEOREM RowsHold == Spec => []RowsExact
  <1> DEFINE Inv == part = "probe" => ProbeInv
  <1>1. Init => Inv
    BY ProbeInitially DEF Init
  <1>2. Inv /\ [Next]_vars => Inv'
    <2> SUFFICES ASSUME Inv, [Next]_vars, part' = "probe"
                 PROVE  ProbeInv'
      OBVIOUS
    <2>1. part = "probe" /\ ProbeInv
      BY DEF Next, vars
    <2>2. CASE Probe!Next
      BY <2>1, <2>2, BatchKeeps, OpenKeeps, ReadKeeps, EndKeeps, LeafKeeps, DoneKeeps
         DEF Probe!Next
    <2>3. CASE UNCHANGED Probe!vars
      BY <2>1, <2>3, ProbeStays
    <2>4. Probe!Next \/ UNCHANGED Probe!vars
      BY <2>1 DEF Next, vars, Probe!vars, probeVars
    <2> QED
      BY <2>2, <2>3, <2>4
  <1>3. Inv => RowsExact
    BY RowsAre DEF RowsExact
  <1> QED
    BY <1>1, <1>2, <1>3, PTL DEF Spec

-----------------------------------------------------------------------------
(* The series file.  What is read of it counts each whole line once, and   *)
(* only those, so an entry is the median of the records that count.        *)

\* Cardinality, as the model takes it.
LEMMA StatsCardinality == \A T : Stats!Cardinality(T) = Cardinality(T)
  BY Zenon DEF Stats!Cardinality, Cardinality

\* The places of the values of f below v, and up to v.
Below(f, v) == {p \in DOMAIN f : f[p] < v}
UpTo(f, v)  == {p \in DOMAIN f : f[p] <= v}

\* The value at place n has at most n values below it and more than n up to it.
IsRanked(f, n, v) == Cardinality(Below(f, v)) <= n /\ Cardinality(UpTo(f, v)) > n

\* Parts of a finite set are finite, and a smaller part has fewer elements.
LEMMA PartsCount ==
  ASSUME NEW P, IsFiniteSet(P), NEW S \in SUBSET P, NEW T \in SUBSET S
  PROVE  /\ IsFiniteSet(S) /\ Cardinality(S) \in Nat
         /\ IsFiniteSet(T) /\ Cardinality(T) \in Nat
         /\ Cardinality(T) <= Cardinality(S)
         /\ Cardinality(T) = Cardinality(S) => T = S
  <1>1. IsFiniteSet(S)
    BY FS_Subset
  <1> QED
    BY <1>1, FS_Subset, FS_CardinalityType

\* Among finitely many numbers there is a greatest.
LEMMA GreatestNumber ==
  ASSUME NEW P, IsFiniteSet(P), P # {}, NEW f \in [P -> Nat]
  PROVE  \E p \in P : \A q \in P : f[q] <= f[p]
  <1> DEFINE Above(p) == {q \in P : f[q] > f[p]}
             T == {Cardinality(Above(p)) : p \in P}
  <1>1. \A p \in P : f[p] \in Nat /\ Above(p) \in SUBSET P /\ Cardinality(Above(p)) \in Nat
    BY PartsCount
  <1>2. T \in SUBSET Nat /\ T # {}
    BY <1>1
  <1>3. PICK n \in T : \A m \in T : n <= m
    BY <1>2, LeastNumber
  <1>4. PICK p \in P : n = Cardinality(Above(p))
    BY <1>3
  <1>5. ASSUME NEW q \in P, f[q] > f[p]
        PROVE  FALSE
    <2>1. Above(q) \in SUBSET Above(p) /\ q \in Above(p) /\ q \notin Above(q)
      BY <1>1, <1>5
    <2>2. Cardinality(Above(q)) < Cardinality(Above(p))
      <3> HIDE DEF Above
      <3> QED
        BY <1>1, <2>1, PartsCount
    <2>3. Cardinality(Above(q)) \in T
      OBVIOUS
    <2> HIDE DEF Above, T
    <2> QED
      BY <1>1, <1>2, <1>3, <1>4, <2>2, <2>3
  <1> QED
    BY <1>1, <1>5

\* There is one such value, and Ranked takes it.
LEMMA RankedIs ==
  ASSUME NEW P, IsFiniteSet(P), NEW f \in [P -> Nat], NEW n \in Nat, n < Cardinality(P)
  PROVE  /\ Stats!Ranked(f, n) \in Nat
         /\ IsRanked(f, n, Stats!Ranked(f, n))
         /\ \A v \in Nat : IsRanked(f, n, v) => v = Stats!Ranked(f, n)
  <1> DEFINE V == {f[p] : p \in DOMAIN f}
             T == {v \in V : Cardinality(UpTo(f, v)) > n}
  <1>1. DOMAIN f = P /\ \A p \in P : f[p] \in Nat
    OBVIOUS
  <1>2. \A v : /\ Below(f, v) \in SUBSET P /\ Cardinality(Below(f, v)) \in Nat
               /\ UpTo(f, v) \in SUBSET P /\ Cardinality(UpTo(f, v)) \in Nat
    BY <1>1, PartsCount DEF Below, UpTo
  <1>3. P # {}
    BY FS_EmptySet
  <1>4. PICK g \in P : \A q \in P : f[q] <= f[g]
    BY <1>3, GreatestNumber
  <1>5. UpTo(f, f[g]) = P
    BY <1>1, <1>4 DEF UpTo
  <1>6. T \in SUBSET Nat /\ T # {}
    BY <1>1, <1>4, <1>5
  <1>7. PICK v \in T : \A w \in T : v <= w
    BY <1>6, LeastNumber
  <1>8. v \in V /\ v \in Nat /\ Cardinality(UpTo(f, v)) > n
    BY <1>6, <1>7
  <1>9. Cardinality(Below(f, v)) <= n
    <2> SUFFICES ASSUME Cardinality(Below(f, v)) > n
                 PROVE  FALSE
      BY <1>2
    <2> DEFINE L == Below(f, v)
    <2>1. L \in SUBSET P /\ IsFiniteSet(L) /\ L # {}
      BY <1>2, FS_Subset, FS_EmptySet
    <2> DEFINE h == [p \in L |-> f[p]]
    <2>2. h \in [L -> Nat] /\ \A p \in L : h[p] = f[p]
      BY <1>1, <2>1
    <2> HIDE DEF L, h
    <2>3. PICK g1 \in L : \A q \in L : h[q] <= h[g1]
      BY <2>1, <2>2, GreatestNumber
    <2>4. /\ g1 \in P /\ f[g1] < v /\ f[g1] \in Nat
          /\ \A q \in P : f[q] < v => f[q] <= f[g1]
      BY <1>1, <2>1, <2>2, <2>3 DEF L, Below
    <2>5. UpTo(f, f[g1]) = L
      BY <1>1, <1>8, <2>4 DEF L, Below, UpTo
    <2>6. f[g1] \in T
      BY <1>1, <2>4, <2>5 DEF L
    <2> QED
      BY <1>7, <1>8, <2>4, <2>6
  <1>10. IsRanked(f, n, v)
    BY <1>8, <1>9 DEF IsRanked
  <1>11. ASSUME NEW u \in Nat, NEW w \in Nat, IsRanked(f, n, u), IsRanked(f, n, w), u < w
         PROVE  FALSE
    <2>1. UpTo(f, u) \in SUBSET Below(f, w)
      BY <1>1, <1>11 DEF UpTo, Below
    <2>2. Cardinality(UpTo(f, u)) <= Cardinality(Below(f, w))
      BY <1>2, <2>1, PartsCount
    <2> QED
      BY <1>2, <1>11, <2>2 DEF IsRanked
  <1>12. \A u, w \in Nat : IsRanked(f, n, u) /\ IsRanked(f, n, w) => u = w
    <2> SUFFICES ASSUME NEW u \in Nat, NEW w \in Nat, IsRanked(f, n, u), IsRanked(f, n, w)
                 PROVE  u = w
      OBVIOUS
    <2>1. u = w \/ u < w \/ w < u
      OBVIOUS
    <2> QED
      BY <1>11, <2>1
  <1>13. Stats!Ranked(f, n) = CHOOSE u \in V : /\ Stats!Cardinality(Below(f, u)) <= n
                                              /\ Stats!Cardinality(UpTo(f, u)) > n
    BY Zenon DEF Stats!Ranked, Below, UpTo
  <1>14. \E u \in V : Stats!Cardinality(Below(f, u)) <= n /\ Stats!Cardinality(UpTo(f, u)) > n
    BY <1>8, <1>9, StatsCardinality
  <1>15. /\ Stats!Ranked(f, n) \in V
         /\ Stats!Cardinality(Below(f, Stats!Ranked(f, n))) <= n
         /\ Stats!Cardinality(UpTo(f, Stats!Ranked(f, n))) > n
    BY <1>13, <1>14, Zenon
  <1>16. Stats!Ranked(f, n) \in Nat /\ IsRanked(f, n, Stats!Ranked(f, n))
    BY <1>1, <1>15, StatsCardinality DEF IsRanked
  <1> QED
    BY <1>12, <1>16

-----------------------------------------------------------------------------
\* b takes each element of Q for just one of P.
Onto(b, P, Q) ==
  /\ b \in [P -> Q]
  /\ \A p, q \in P : b[p] = b[q] => p = q
  /\ \A q \in Q : \E p \in P : b[p] = q

\* Of S it takes T.
OntoPart(b, P, S, T) == \A p \in P : p \in S <=> b[p] \in T

\* Through it the values f of Q are those g of P.
Through(b, P, f, g) == \A p \in P : g[p] = f[b[p]]

\* Parts of two sets that a bijection carries into each other have one cardinality.
LEMMA MovedCount ==
  ASSUME NEW P, IsFiniteSet(P), NEW Q, NEW b, Onto(b, P, Q),
         NEW S \in SUBSET P, NEW T \in SUBSET Q, OntoPart(b, P, S, T)
  PROVE  IsFiniteSet(T) /\ Cardinality(T) = Cardinality(S)
  <1> DEFINE c == [p \in S |-> b[p]]
  <1>1. c \in [S -> T] /\ \A p \in S : c[p] = b[p]
    BY DEF Onto, OntoPart
  <1> HIDE DEF c
  <1>2. c \in Bijection(S, T)
    BY <1>1 DEF Onto, OntoPart, Bijection, Injection, Surjection, IsInjective
  <1>3. IsFiniteSet(S)
    BY FS_Subset
  <1> QED
    BY <1>2, <1>3, FS_Bijection DEF ExistsBijection

\* So the values two families take through one are ranked alike.
LEMMA RankedMoves ==
  ASSUME NEW P, IsFiniteSet(P), NEW Q, NEW b, Onto(b, P, Q),
         NEW f \in [Q -> Nat], NEW g \in [P -> Nat], Through(b, P, f, g),
         NEW n \in Nat, n < Cardinality(P)
  PROVE  Stats!Ranked(f, n) = Stats!Ranked(g, n)
  <1>1. IsFiniteSet(Q) /\ Cardinality(Q) = Cardinality(P)
    <2>1. OntoPart(b, P, P, Q)
      BY DEF Onto, OntoPart
    <2> QED
      BY <2>1, MovedCount
  <1> DEFINE v == Stats!Ranked(g, n)
  <1>2. v \in Nat /\ IsRanked(g, n, v)
    BY RankedIs
  <1> HIDE DEF v
  <1>3. /\ Below(g, v) \in SUBSET P /\ UpTo(g, v) \in SUBSET P
        /\ Below(f, v) \in SUBSET Q /\ UpTo(f, v) \in SUBSET Q
        /\ OntoPart(b, P, Below(g, v), Below(f, v)) /\ OntoPart(b, P, UpTo(g, v), UpTo(f, v))
    BY DEF Onto, OntoPart, Through, Below, UpTo
  <1>4. Cardinality(Below(f, v)) = Cardinality(Below(g, v))
    BY <1>3, MovedCount
  <1>5. Cardinality(UpTo(f, v)) = Cardinality(UpTo(g, v))
    BY <1>3, MovedCount
  <1>6. IsRanked(f, n, v)
    BY <1>2, <1>4, <1>5 DEF IsRanked
  <1> QED
    BY <1>1, <1>2, <1>6, RankedIs DEF v

\* A number for each element of P.
Numbered(f, P) == f \in [P -> Nat]

\* And their medians are one.
LEMMA TypicalMoves ==
  ASSUME NEW P, IsFiniteSet(P), P # {}, NEW Q, NEW b, Onto(b, P, Q),
         NEW f, NEW g, Numbered(f, Q), Numbered(g, P), Through(b, P, f, g)
  PROVE  Stats!Typical(f) = Stats!Typical(g)
  <1>1. IsFiniteSet(Q) /\ Cardinality(Q) = Cardinality(P)
    <2>1. OntoPart(b, P, P, Q)
      BY DEF Onto, OntoPart
    <2> QED
      BY <2>1, MovedCount
  <1>2. Cardinality(P) \in Nat /\ Cardinality(P) # 0
    BY FS_CardinalityType, FS_EmptySet
  <1> DEFINE n == Cardinality(P) \div 2
  <1>3. n \in Nat /\ n < Cardinality(P)
    BY <1>2
  <1>4. DOMAIN f = Q /\ DOMAIN g = P
    BY DEF Numbered
  <1>5. Stats!Typical(f) = Stats!Ranked(f, n) /\ Stats!Typical(g) = Stats!Ranked(g, n)
    BY <1>1, <1>4, StatsCardinality DEF Stats!Typical, Stats!Median
  <1> HIDE DEF n
  <1> QED
    BY <1>3, <1>5, RankedMoves DEF Numbered

-----------------------------------------------------------------------------
\* Fields, lines of fields, records, and the figures of a line.
KeySet   == STRING \cup {Stats!NoKey}
FieldSet ==
  {f \in Stats!Names \X (KeySet \cup Int) : IF f[1] = "key" THEN f[2] \in KeySet ELSE f[2] \in Int}
LineSet   == Seq(FieldSet)
RecordSet == [key : STRING, reps : Nat, min : Nat, mad : Nat]
FigureSet == [key : STRING, min : Nat, mad : Nat]

\* The first field of a name is the field read.
LEMMA FieldIs ==
  ASSUME NEW line \in LineSet, NEW name, NEW j \in 1 .. Len(line), line[j][1] = name,
         \A q \in 1 .. j - 1 : line[q][1] # name
  PROVE  Stats!Has(line, name) /\ Stats!Field(line, name) = line[j][2]
  <1>1. Len(line) \in Nat /\ DOMAIN line = 1 .. Len(line)
    BY LenProperties DEF LineSet
  <1> DEFINE F(p) == line[p][1] = name /\ \A q \in 1 .. p - 1 : line[q][1] # name
             c == CHOOSE p \in DOMAIN line : F(p)
  <1>2. c \in DOMAIN line /\ F(c)
    BY <1>1, Zenon
  <1>3. Stats!Place(line, name) = c
    BY Zenon DEF Stats!Place
  <1> HIDE DEF c
  <1>4. c = j
    <2>1. c \in Int /\ j \in Int /\ c >= 1 /\ j >= 1
      BY <1>1, <1>2
    <2>2. ~(c < j)
      BY <1>2, <2>1
    <2>3. ~(j < c)
      BY <1>2, <2>1
    <2> QED
      BY <2>1, <2>2, <2>3
  <1> QED
    BY <1>1, <1>3, <1>4 DEF Stats!Has, Stats!Field

\* A name that is in a line has a first field there.
LEMMA FirstField ==
  ASSUME NEW line \in LineSet, NEW name, Stats!Has(line, name)
  PROVE  \E j \in 1 .. Len(line) : /\ line[j][1] = name
                                   /\ \A q \in 1 .. j - 1 : line[q][1] # name
                                   /\ Stats!Field(line, name) = line[j][2]
  <1> DEFINE T == {p \in 1 .. Len(line) : line[p][1] = name}
  <1>1. Len(line) \in Nat /\ DOMAIN line = 1 .. Len(line)
    BY LenProperties DEF LineSet
  <1>2. T \in SUBSET Nat /\ T # {}
    BY <1>1 DEF Stats!Has
  <1>3. PICK j \in T : \A m \in T : j <= m
    BY <1>2, LeastNumber
  <1>4. j \in 1 .. Len(line) /\ line[j][1] = name /\ \A q \in 1 .. j - 1 : line[q][1] # name
    <2>1. \A q \in 1 .. j - 1 : q \in 1 .. Len(line) /\ q < j
      BY <1>1, <1>3
    <2> QED
      BY <1>1, <1>3, <2>1
  <1> QED
    BY <1>4, FieldIs

\* What is read of a field has its type.
LEMMA FieldType ==
  ASSUME NEW line \in LineSet, NEW name, Stats!Has(line, name)
  PROVE  /\ name \in Stats!Names
         /\ IF name = "key" THEN Stats!Field(line, name) \in KeySet
                            ELSE Stats!Field(line, name) \in Int
  <1>1. PICK j \in 1 .. Len(line) : line[j][1] = name /\ Stats!Field(line, name) = line[j][2]
    BY FirstField
  <1>2. line[j] \in FieldSet
    BY ElementOfSeq DEF LineSet
  <1> QED
    BY <1>1, <1>2 DEF FieldSet

\* A line is read as these figures.
Reads(line, fig) ==
  /\ Stats!Parses(line)
  /\ Stats!Field(line, "key") = fig.key
  /\ Stats!Field(line, "min") = fig.min /\ Stats!Field(line, "mad") = fig.mad

-----------------------------------------------------------------------------
\* The figures that count go in pairs with the lines that are read, each as its line.
Paired(b, cnt, text) ==
  /\ b \in [1 .. Len(cnt) -> 1 .. Len(text)]
  /\ \A p, q \in 1 .. Len(cnt) : b[p] = b[q] => p = q
  /\ \A p \in 1 .. Len(cnt) : Reads(text[b[p]], cnt[p])
  /\ \A q \in 1 .. Len(text) : Stats!Parses(text[q]) => \E p \in 1 .. Len(cnt) : b[p] = q

\* What load_baseline collects, and the entry it makes of it.
GoodLines(text)  == {p \in DOMAIN text : Stats!Parses(text[p])}
LinesOf(text, k) == {p \in GoodLines(text) : Stats!Field(text[p], "key") = k}
LineKeys(text)   == {Stats!Field(text[p], "key") : p \in GoodLines(text)}
LineEntry(text, k) ==
  [key |-> k,
   min |-> Stats!Typical([p \in LinesOf(text, k) |-> Stats!Field(text[p], "min")]),
   mad |-> Stats!Typical([p \in LinesOf(text, k) |-> Stats!Field(text[p], "mad")])]

\* What load_baseline returns, by these names.
LEMMA LoadBaselineIs ==
  ASSUME NEW text
  PROVE  Stats!LoadBaseline(text) = {LineEntry(text, k) : k \in LineKeys(text)}
  BY Zenon DEF Stats!LoadBaseline, LineEntry, LineKeys, LinesOf, GoodLines

\* The same of the figures that count.
FiguresOf(cnt, k) == {p \in DOMAIN cnt : cnt[p].key = k}
FigureKeys(cnt)   == {cnt[p].key : p \in DOMAIN cnt}
FigureEntry(cnt, k) ==
  [key |-> k,
   min |-> Stats!Typical([p \in FiguresOf(cnt, k) |-> cnt[p].min]),
   mad |-> Stats!Typical([p \in FiguresOf(cnt, k) |-> cnt[p].mad])]
EntriesOf(cnt) == {FigureEntry(cnt, k) : k \in FigureKeys(cnt)}

\* They are numbers under a key.
LEMMA FigureFields ==
  ASSUME NEW cnt \in Seq(FigureSet)
  PROVE  /\ Len(cnt) \in Nat /\ DOMAIN cnt = 1 .. Len(cnt)
         /\ \A p \in DOMAIN cnt : /\ cnt[p] \in FigureSet
                                  /\ cnt[p].key \in STRING
                                  /\ cnt[p].min \in Nat /\ cnt[p].mad \in Nat
  <1>1. Len(cnt) \in Nat /\ DOMAIN cnt = 1 .. Len(cnt)
    BY LenProperties
  <1>2. \A p \in DOMAIN cnt : cnt[p] \in FigureSet
    BY <1>1, ElementOfSeq
  <1> QED
    BY <1>1, <1>2 DEF FigureSet

\* The figures of a key are finitely many.
LEMMA FiguresFinite ==
  ASSUME NEW cnt \in Seq(FigureSet), NEW k
  PROVE  IsFiniteSet(FiguresOf(cnt, k))
  <1>1. Len(cnt) \in Nat /\ FiguresOf(cnt, k) \in SUBSET (1 .. Len(cnt))
    BY FigureFields DEF FiguresOf
  <1>2. IsFiniteSet(1 .. Len(cnt))
    BY <1>1, FS_Interval
  <1> QED
    BY <1>1, <1>2, FS_Subset

\* A file has the entries of the figures that count.
LEMMA LoadedIs ==
  ASSUME NEW text \in Seq(LineSet), NEW cnt \in Seq(FigureSet), NEW b, Paired(b, cnt, text)
  PROVE  Stats!LoadBaseline(text) = EntriesOf(cnt)
  <1>1. /\ Len(text) \in Nat /\ DOMAIN text = 1 .. Len(text)
        /\ \A q \in DOMAIN text : text[q] \in LineSet
    <2>1. Len(text) \in Nat /\ DOMAIN text = 1 .. Len(text)
      BY LenProperties
    <2>2. \A q \in DOMAIN text : text[q] \in LineSet
      BY <2>1, ElementOfSeq
    <2> QED
      BY <2>1, <2>2
  <1>2. /\ DOMAIN cnt = 1 .. Len(cnt)
        /\ \A p \in DOMAIN cnt : cnt[p] \in FigureSet /\ cnt[p].min \in Nat /\ cnt[p].mad \in Nat
    BY FigureFields
  <1>3. b \in [DOMAIN cnt -> DOMAIN text] /\ \A p, q \in DOMAIN cnt : b[p] = b[q] => p = q
    BY <1>1, <1>2 DEF Paired
  <1>4. \A p \in DOMAIN cnt : /\ b[p] \in GoodLines(text)
                              /\ Stats!Field(text[b[p]], "key") = cnt[p].key
                              /\ Stats!Field(text[b[p]], "min") = cnt[p].min
                              /\ Stats!Field(text[b[p]], "mad") = cnt[p].mad
    <2> SUFFICES ASSUME NEW p \in DOMAIN cnt
                 PROVE  /\ b[p] \in GoodLines(text)
                        /\ Stats!Field(text[b[p]], "key") = cnt[p].key
                        /\ Stats!Field(text[b[p]], "min") = cnt[p].min
                        /\ Stats!Field(text[b[p]], "mad") = cnt[p].mad
      OBVIOUS
    <2>1. b[p] \in DOMAIN text /\ Reads(text[b[p]], cnt[p])
      BY <1>1, <1>2, <1>3 DEF Paired
    <2> QED
      BY <2>1 DEF Reads, GoodLines
  <1>5. \A q \in GoodLines(text) : \E p \in DOMAIN cnt : b[p] = q
    <2> SUFFICES ASSUME NEW q \in GoodLines(text)
                 PROVE  \E p \in DOMAIN cnt : b[p] = q
      OBVIOUS
    <2>1. q \in DOMAIN text /\ Stats!Parses(text[q])
      BY DEF GoodLines
    <2> QED
      BY <1>1, <1>2, <2>1 DEF Paired
  <1>6. LineKeys(text) = FigureKeys(cnt)
    BY <1>4, <1>5 DEF LineKeys, FigureKeys
  <1>7. ASSUME NEW k \in FigureKeys(cnt)
        PROVE  LineEntry(text, k) = FigureEntry(cnt, k)
    <2> DEFINE P == FiguresOf(cnt, k)
               Q == LinesOf(text, k)
               c == [p \in P |-> b[p]]
               fmin == [p \in Q |-> Stats!Field(text[p], "min")]
               fmad == [p \in Q |-> Stats!Field(text[p], "mad")]
               gmin == [p \in P |-> cnt[p].min]
               gmad == [p \in P |-> cnt[p].mad]
    <2>1. P # {} /\ IsFiniteSet(P) /\ P \in SUBSET DOMAIN cnt
      BY <1>7, FiguresFinite DEF FiguresOf, FigureKeys
    <2>2. Onto(c, P, Q)
      <3>1. \A p \in P : b[p] \in Q
        BY <1>4 DEF FiguresOf, LinesOf
      <3>2. \A q \in Q : \E p \in P : b[p] = q
        BY <1>4, <1>5 DEF FiguresOf, LinesOf
      <3> HIDE DEF P, Q
      <3> QED
        BY <1>3, <2>1, <3>1, <3>2 DEF Onto
    <2>3. /\ \A p \in P : c[p] = b[p] /\ c[p] \in Q /\ gmin[p] = cnt[p].min /\ gmad[p] = cnt[p].mad
          /\ \A q \in Q : \E p \in P : b[p] = q
      BY <2>2 DEF Onto
    <2>4. Numbered(gmin, P) /\ Numbered(gmad, P)
      BY <1>2, <2>1 DEF Numbered
    <2>5. Numbered(fmin, Q) /\ Numbered(fmad, Q)
      <3>1. \A q \in Q : Stats!Field(text[q], "min") \in Nat /\ Stats!Field(text[q], "mad") \in Nat
        BY <1>2, <1>4, <2>1, <2>3
      <3> QED
        BY <3>1 DEF Numbered
    <2>6. Through(c, P, fmin, gmin) /\ Through(c, P, fmad, gmad)
      BY <1>4, <2>1, <2>3 DEF Through
    <2>7. LineEntry(text, k) = [key |-> k, min |-> Stats!Typical(fmin),
                                           mad |-> Stats!Typical(fmad)]
      BY Zenon DEF LineEntry
    <2>8. FigureEntry(cnt, k) = [key |-> k, min |-> Stats!Typical(gmin),
                                             mad |-> Stats!Typical(gmad)]
      BY Zenon DEF FigureEntry
    <2> HIDE DEF P, Q, c, fmin, fmad, gmin, gmad
    <2>9. Stats!Typical(fmin) = Stats!Typical(gmin)
      BY <2>1, <2>2, <2>4, <2>5, <2>6, TypicalMoves
    <2>10. Stats!Typical(fmad) = Stats!Typical(gmad)
      BY <2>1, <2>2, <2>4, <2>5, <2>6, TypicalMoves
    <2> QED
      BY <2>7, <2>8, <2>9, <2>10
  <1>8. Stats!LoadBaseline(text) = {LineEntry(text, k) : k \in FigureKeys(cnt)}
    BY <1>6, LoadBaselineIs
  <1> QED
    BY <1>7, <1>8 DEF EntriesOf

-----------------------------------------------------------------------------
\* Fields written at the end of a text whose last line is open or not.
PutIn(text, op, fs) ==
  IF op THEN [text EXCEPT ![Len(text)] = @ \o fs] ELSE Append(text, fs)

\* The line they are written to, and what was there.
PutAt(text, op)  == IF op THEN Len(text) ELSE Len(text) + 1
PutOld(text, op) == IF op THEN text[Len(text)] ELSE << >>

\* One line behind the other.
Line(o, fs) == o \o fs

\* The fields of a line put behind another, place by place.
LEMMA LineIs ==
  ASSUME NEW o \in LineSet, NEW fs \in LineSet
  PROVE  /\ Line(o, fs) \in LineSet
         /\ Len(o) \in Nat /\ Len(fs) \in Nat /\ Len(Line(o, fs)) = Len(o) + Len(fs)
         /\ \A j \in 1 .. Len(o) : Line(o, fs)[j] = o[j]
         /\ \A j \in 1 .. Len(fs) : Line(o, fs)[Len(o) + j] = fs[j]
  BY LenProperties, ConcatProperties DEF LineSet, Line

\* The line has what was there and the fields; the others are as before.
LEMMA PutIs ==
  ASSUME NEW text \in Seq(LineSet), NEW op \in BOOLEAN, op => text # << >>, NEW fs \in LineSet
  PROVE  /\ PutOld(text, op) \in LineSet
         /\ PutIn(text, op, fs) \in Seq(LineSet)
         /\ Len(text) \in Nat
         /\ PutAt(text, op) \in Nat \ {0} /\ PutAt(text, op) >= Len(text)
         /\ Len(PutIn(text, op, fs)) = PutAt(text, op)
         /\ PutIn(text, op, fs)[PutAt(text, op)] = Line(PutOld(text, op), fs)
         /\ \A q \in 1 .. Len(text) :
              /\ q # PutAt(text, op) => PutIn(text, op, fs)[q] = text[q]
              /\ q = PutAt(text, op) => text[q] = PutOld(text, op)
  <1>1. Len(text) \in Nat /\ DOMAIN text = 1 .. Len(text) /\ (text # << >> => Len(text) # 0)
    BY LenProperties, EmptySeq
  <1>2. \A q \in 1 .. Len(text) : text[q] \in LineSet
    BY ElementOfSeq
  <1>3. CASE op
    <2> DEFINE c == Len(text)
               o == text[c]
    <2>1. c \in 1 .. Len(text) /\ o \in LineSet
      BY <1>1, <1>2, <1>3
    <2>2. Line(o, fs) \in LineSet
      BY <2>1, LineIs
    <2>3. PutIn(text, op, fs) = [text EXCEPT ![c] = Line(o, fs)]
      BY <1>3 DEF PutIn, Line
    <2>4. PutAt(text, op) = c /\ PutOld(text, op) = o
      BY <1>3 DEF PutAt, PutOld
    <2> DEFINE e == Line(o, fs)
    <2>5. e = Line(o, fs)
      OBVIOUS
    <2> HIDE DEF e
    <2>6. /\ [text EXCEPT ![c] = e] \in Seq(LineSet) /\ Len([text EXCEPT ![c] = e]) = Len(text)
          /\ \A j \in 1 .. Len(text) : [text EXCEPT ![c] = e][j] = IF j = c THEN e ELSE text[j]
      <3>1. e \in LineSet
        BY <2>2, <2>5
      <3> QED
        BY <2>1, <3>1, ExceptSeq
    <2> DEFINE x == [text EXCEPT ![c] = e]
    <2>7. x = PutIn(text, op, fs) /\ x \in Seq(LineSet) /\ Len(x) = c
          /\ x[c] = Line(o, fs) /\ \A j \in 1 .. Len(text) : j # c => x[j] = text[j]
      <3>1. x = PutIn(text, op, fs) /\ x \in Seq(LineSet) /\ Len(x) = c
        BY <2>3, <2>5, <2>6
      <3>2. x[c] = e /\ \A j \in 1 .. Len(text) : j # c => x[j] = text[j]
        BY <2>1, <2>6
      <3> HIDE DEF x
      <3> QED
        BY <2>5, <3>1, <3>2
    <2>8. c = Len(text) /\ text[c] = o
      OBVIOUS
    <2> HIDE DEF x, o, c
    <2>9. c \in Nat \ {0} /\ c >= Len(text)
      BY <1>1, <2>1, <2>8
    <2>10. \A j \in 1 .. Len(text) : (j # c => x[j] = text[j]) /\ (j = c => text[j] = o)
      BY <2>7, <2>8
    <2> QED
      BY <1>1, <2>1, <2>4, <2>7, <2>9, <2>10
  <1>4. CASE ~op
    <2> DEFINE x == Append(text, fs)
    <2>1. PutIn(text, op, fs) = x /\ PutAt(text, op) = Len(text) + 1 /\ PutOld(text, op) = << >>
      BY <1>4 DEF PutIn, PutAt, PutOld
    <2>2. /\ x \in Seq(LineSet) /\ Len(x) = Len(text) + 1 /\ x[Len(text) + 1] = fs
          /\ \A j \in 1 .. Len(text) : x[j] = text[j]
      BY AppendProperties
    <2>3. << >> \in LineSet /\ Line(<< >>, fs) = fs
      BY EmptySeq, ConcatEmptySeq DEF LineSet, Line
    <2> HIDE DEF x
    <2> QED
      BY <1>1, <2>1, <2>2, <2>3
  <1> QED
    BY <1>3, <1>4

\* What the fields say, name by name, is what is read of the line.
Matches(line, t) ==
  \A name \in Stats!Names :
    t[name] = IF Stats!Has(line, name) THEN {Stats!Field(line, name)} ELSE {}

\* No name comes twice.
Single(fs) == \A p, q \in 1 .. Len(fs) : fs[p][1] = fs[q][1] => p = q

\* Two lines that agree in their first fields are read alike there.
LEMMA SameRead ==
  ASSUME NEW o \in LineSet, NEW x \in LineSet, NEW name, Stats!Has(o, name),
         Len(x) >= Len(o), \A j \in 1 .. Len(o) : x[j] = o[j]
  PROVE  Stats!Has(x, name) /\ Stats!Field(x, name) = Stats!Field(o, name)
  <1>1. PICK j \in 1 .. Len(o) : /\ o[j][1] = name /\ \A q \in 1 .. j - 1 : o[q][1] # name
                                 /\ Stats!Field(o, name) = o[j][2]
    BY FirstField
  <1>2. Len(o) \in Nat /\ Len(x) \in Nat
    BY LenProperties DEF LineSet
  <1>3. j \in 1 .. Len(x) /\ x[j] = o[j]
    BY <1>1, <1>2
  <1>4. \A q \in 1 .. j - 1 : q \in 1 .. Len(o)
    BY <1>1, <1>2
  <1>5. x[j][1] = name /\ \A q \in 1 .. j - 1 : x[q][1] # name
    BY <1>1, <1>3, <1>4
  <1> QED
    BY <1>1, <1>3, <1>5, FieldIs

\* Of a line behind another, what the first has is read, and what it lacks of the second.
LEMMA JoinedRead ==
  ASSUME NEW o \in LineSet, NEW fs \in LineSet, NEW name
  PROVE  /\ Line(o, fs) \in LineSet
         /\ Stats!Has(Line(o, fs), name) <=> Stats!Has(o, name) \/ Stats!Has(fs, name)
         /\ Stats!Has(o, name) => Stats!Field(Line(o, fs), name) = Stats!Field(o, name)
         /\ ~Stats!Has(o, name) /\ Stats!Has(fs, name) =>
              Stats!Field(Line(o, fs), name) = Stats!Field(fs, name)
  <1> DEFINE x == Line(o, fs)
  <1>1. /\ x \in LineSet /\ Len(o) \in Nat /\ Len(fs) \in Nat /\ Len(x) = Len(o) + Len(fs)
        /\ \A j \in 1 .. Len(o) : x[j] = o[j]
        /\ \A j \in 1 .. Len(fs) : x[Len(o) + j] = fs[j]
    BY LineIs
  <1>2. /\ DOMAIN o = 1 .. Len(o) /\ DOMAIN fs = 1 .. Len(fs) /\ DOMAIN x = 1 .. Len(x)
    BY <1>1, LenProperties DEF LineSet
  <1> HIDE DEF x
  <1>3. ASSUME Stats!Has(o, name)
        PROVE  Stats!Has(x, name) /\ Stats!Field(x, name) = Stats!Field(o, name)
    <2>1. Len(x) >= Len(o)
      BY <1>1
    <2> QED
      BY <1>1, <1>3, <2>1, SameRead
  <1>4. ASSUME ~Stats!Has(o, name), Stats!Has(fs, name)
        PROVE  Stats!Has(x, name) /\ Stats!Field(x, name) = Stats!Field(fs, name)
    <2>1. PICK j \in 1 .. Len(fs) : /\ fs[j][1] = name /\ \A q \in 1 .. j - 1 : fs[q][1] # name
                                    /\ Stats!Field(fs, name) = fs[j][2]
      BY <1>4, FirstField
    <2> DEFINE i1 == Len(o) + j
    <2>2. i1 \in 1 .. Len(x) /\ x[i1] = fs[j]
      BY <1>1
    <2>3. \A q \in 1 .. Len(o) : x[q][1] # name
      BY <1>1, <1>2, <1>4 DEF Stats!Has
    <2>4. ASSUME NEW q \in 1 .. i1 - 1
          PROVE  x[q][1] # name
      <3>1. CASE q \in 1 .. Len(o)
        BY <2>3, <3>1
      <3>2. CASE q \notin 1 .. Len(o)
        <4> DEFINE m == q - Len(o)
        <4>1. m \in 1 .. j - 1 /\ m \in 1 .. Len(fs) /\ q = Len(o) + m
          BY <1>1, <3>2
        <4> HIDE DEF m
        <4>2. x[q] = fs[m]
          BY <1>1, <4>1
        <4> QED
          BY <2>1, <4>1, <4>2
      <3> QED
        BY <3>1, <3>2
    <2> HIDE DEF i1
    <2>5. x[i1][1] = name /\ x[i1][2] = Stats!Field(fs, name)
      BY <2>1, <2>2
    <2>6. Stats!Has(x, name) /\ Stats!Field(x, name) = x[i1][2]
      BY <1>1, <2>2, <2>4, <2>5, FieldIs
    <2> QED
      BY <2>5, <2>6
  <1>5. ASSUME Stats!Has(x, name), ~Stats!Has(o, name)
        PROVE  Stats!Has(fs, name)
    <2>1. PICK p \in 1 .. Len(x) : x[p][1] = name
      BY <1>2, <1>5 DEF Stats!Has
    <2>2. p \notin 1 .. Len(o)
      BY <1>1, <1>2, <1>5, <2>1 DEF Stats!Has
    <2> DEFINE m == p - Len(o)
    <2>3. m \in 1 .. Len(fs) /\ p = Len(o) + m
      BY <1>1, <2>2
    <2> HIDE DEF m
    <2>4. fs[m][1] = name
      BY <1>1, <2>1, <2>3
    <2> QED
      BY <1>2, <2>3, <2>4 DEF Stats!Has
  <1> QED
    BY <1>1, <1>3, <1>4, <1>5 DEF x

\* Fields without a name twice say what is read of them.
LEMMA TellsMatch ==
  ASSUME NEW fs \in LineSet, Single(fs)
  PROVE  Matches(fs, Stats!Tells(fs))
  <1> SUFFICES ASSUME NEW name \in Stats!Names
               PROVE  Stats!Tells(fs)[name] =
                        IF Stats!Has(fs, name) THEN {Stats!Field(fs, name)} ELSE {}
    BY DEF Matches
  <1>1. DOMAIN fs = 1 .. Len(fs)
    BY LenProperties DEF LineSet
  <1>2. Stats!Tells(fs)[name] = {fs[p][2] : p \in {q \in 1 .. Len(fs) : fs[q][1] = name}}
    BY <1>1 DEF Stats!Tells
  <1>3. CASE Stats!Has(fs, name)
    <2>1. PICK j \in 1 .. Len(fs) : fs[j][1] = name /\ Stats!Field(fs, name) = fs[j][2]
      BY <1>3, FirstField
    <2>2. {q \in 1 .. Len(fs) : fs[q][1] = name} = {j}
      BY <2>1 DEF Single
    <2> QED
      BY <1>2, <1>3, <2>1, <2>2
  <1>4. CASE ~Stats!Has(fs, name)
    BY <1>1, <1>2, <1>4 DEF Stats!Has
  <1> QED
    BY <1>3, <1>4

\* And joined they say what is read of the line.
LEMMA JoinedMatch ==
  ASSUME NEW o \in LineSet, NEW fs \in LineSet, NEW t, NEW u, Matches(o, t), Matches(fs, u)
  PROVE  Matches(Line(o, fs), Stats!Joined(t, u))
  <1> SUFFICES ASSUME NEW name \in Stats!Names
               PROVE  Stats!Joined(t, u)[name] =
                        IF Stats!Has(Line(o, fs), name) THEN {Stats!Field(Line(o, fs), name)}
                        ELSE {}
    BY DEF Matches
  <1>1. Stats!Joined(t, u)[name] = IF t[name] # {} THEN t[name] ELSE u[name]
    BY DEF Stats!Joined
  <1>2. /\ t[name] = IF Stats!Has(o, name) THEN {Stats!Field(o, name)} ELSE {}
        /\ u[name] = IF Stats!Has(fs, name) THEN {Stats!Field(fs, name)} ELSE {}
    BY DEF Matches
  <1> QED
    BY <1>1, <1>2, JoinedRead

\* A line is read when all it tells is complete, and as those figures.
LEMMA CompleteReads ==
  ASSUME NEW line \in LineSet, NEW t, Matches(line, t)
  PROVE  /\ Stats!Complete(t) <=> Stats!Parses(line)
         /\ Stats!Complete(t) => Reads(line, Stats!Figures(t)) /\ Stats!Figures(t) \in FigureSet
  <1>1. Stats!Complete(t) <=> Stats!Parses(line)
    <2>1. ASSUME NEW name \in Stats!Names
          PROVE  (\E v \in t[name] : Stats!Legible(name, v))
                   <=> Stats!Has(line, name) /\ Stats!Legible(name, Stats!Field(line, name))
      <3>1. t[name] = IF Stats!Has(line, name) THEN {Stats!Field(line, name)} ELSE {}
        BY DEF Matches
      <3> QED
        BY <3>1
    <2> QED
      BY <2>1 DEF Stats!Complete, Stats!Parses
  <1>2. ASSUME Stats!Complete(t)
        PROVE  Reads(line, Stats!Figures(t)) /\ Stats!Figures(t) \in FigureSet
    <2>1. ASSUME NEW name \in Stats!Names
          PROVE  /\ (CHOOSE v \in t[name] : TRUE) = Stats!Field(line, name)
                 /\ Stats!Has(line, name) /\ Stats!Legible(name, Stats!Field(line, name))
      <3>1. t[name] = IF Stats!Has(line, name) THEN {Stats!Field(line, name)} ELSE {}
        BY DEF Matches
      <3>2. Stats!Has(line, name) /\ Stats!Legible(name, Stats!Field(line, name))
        BY <1>1, <1>2 DEF Stats!Parses
      <3> DEFINE T == t[name]
      <3>3. T = {Stats!Field(line, name)}
        BY <3>1, <3>2
      <3> HIDE DEF T
      <3>4. (CHOOSE v \in T : TRUE) = Stats!Field(line, name)
        BY <3>3
      <3> QED
        BY <3>2, <3>4 DEF T
    <2>2. "key" \in Stats!Names /\ "min" \in Stats!Names /\ "mad" \in Stats!Names
      BY DEF Stats!Names
    <2>3. Stats!Figures(t) = [key |-> Stats!Field(line, "key"),
                              min |-> Stats!Field(line, "min"), mad |-> Stats!Field(line, "mad")]
      BY <2>1, <2>2, Zenon DEF Stats!Figures
    <2>4. /\ Stats!Field(line, "key") \in STRING
          /\ Stats!Field(line, "min") \in Int /\ Stats!Field(line, "min") >= 0
          /\ Stats!Field(line, "mad") \in Int /\ Stats!Field(line, "mad") >= 0
      <3>1. Stats!Has(line, "key") /\ Stats!Has(line, "min") /\ Stats!Has(line, "mad")
        BY <2>1, <2>2
      <3>2. Stats!Field(line, "key") \in STRING
        <4>1. Stats!Field(line, "key") \in KeySet
          BY <3>1, FieldType
        <4>2. Stats!Legible("key", Stats!Field(line, "key"))
          BY <2>1, <2>2
        <4> QED
          BY <4>1, <4>2 DEF KeySet, Stats!Legible
      <3>3. Stats!Field(line, "min") \in Int /\ Stats!Field(line, "mad") \in Int
        BY <3>1, FieldType
      <3>4. Stats!Field(line, "min") >= 0 /\ Stats!Field(line, "mad") >= 0
        BY <2>1, <2>2 DEF Stats!Legible
      <3> QED
        BY <3>2, <3>3, <3>4
    <2> QED
      BY <1>1, <1>2, <2>3, <2>4 DEF Reads, FigureSet
  <1> QED
    BY <1>1, <1>2

\* A line that is read is read alike with more behind it.
LEMMA ReadsOn ==
  ASSUME NEW o \in LineSet, NEW fs \in LineSet, NEW fig, Reads(o, fig)
  PROVE  Reads(Line(o, fs), fig)
  <1>1. \A name \in Stats!Names : Stats!Has(o, name)
                                    /\ Stats!Legible(name, Stats!Field(o, name))
    BY DEF Reads, Stats!Parses
  <1>2. \A name \in Stats!Names : /\ Stats!Has(Line(o, fs), name)
                                  /\ Stats!Field(Line(o, fs), name) = Stats!Field(o, name)
    BY <1>1, JoinedRead
  <1>3. "key" \in Stats!Names /\ "min" \in Stats!Names /\ "mad" \in Stats!Names
    BY DEF Stats!Names
  <1>4. Stats!Parses(Line(o, fs))
    BY <1>1, <1>2 DEF Stats!Parses
  <1> QED
    BY <1>2, <1>3, <1>4 DEF Reads

\* What Write adds to the figures that count.
CountIn(cnt, t, fs) ==
  IF Stats!Complete(Stats!Joined(t, Stats!Tells(fs))) /\ ~Stats!Complete(t)
  THEN Append(cnt, Stats!Figures(Stats!Joined(t, Stats!Tells(fs)))) ELSE cnt

\* So whatever is written at the end of the file, the figures that count and the lines
\* that are read still go in pairs.
LEMMA PutPaired ==
  ASSUME NEW text \in Seq(LineSet), NEW op \in BOOLEAN, op => text # << >>,
         NEW cnt \in Seq(FigureSet), NEW b, Paired(b, cnt, text),
         NEW t, Matches(PutOld(text, op), t), NEW fs \in LineSet, Single(fs)
  PROVE  /\ PutIn(text, op, fs) \in Seq(LineSet) /\ PutIn(text, op, fs) # << >>
         /\ Matches(PutOld(PutIn(text, op, fs), TRUE), Stats!Joined(t, Stats!Tells(fs)))
         /\ CountIn(cnt, t, fs) \in Seq(FigureSet)
         /\ \E e : Paired(e, CountIn(cnt, t, fs), PutIn(text, op, fs))
  <1> DEFINE u == PutIn(text, op, fs)
             c == PutAt(text, op)
             o == PutOld(text, op)
             now == Stats!Joined(t, Stats!Tells(fs))
             fig == Stats!Figures(now)
  <1>1. /\ o \in LineSet /\ u \in Seq(LineSet)
        /\ c \in Nat \ {0} /\ c >= Len(text) /\ Len(u) = c /\ Len(text) \in Nat
        /\ u[c] = Line(o, fs)
        /\ \A q \in 1 .. Len(text) : (q # c => u[q] = text[q]) /\ (q = c => text[q] = o)
    BY PutIs
  <1>2. u # << >>
    BY <1>1, EmptySeq
  <1>3. Line(o, fs) \in LineSet /\ Matches(Line(o, fs), now)
    <2>1. Matches(o, t)
      OBVIOUS
    <2> HIDE DEF o
    <2> QED
      BY <1>1, <2>1, LineIs, TellsMatch, JoinedMatch
  <1>4. PutOld(u, TRUE) = Line(o, fs)
    <2> HIDE DEF u, c, o
    <2> QED
      BY <1>1 DEF PutOld
  <1>5. CountIn(cnt, t, fs) =
          IF Stats!Complete(now) /\ ~Stats!Complete(t) THEN Append(cnt, fig) ELSE cnt
    BY DEF CountIn
  <1>6. Len(cnt) \in Nat
    BY FigureFields
  <1>7. /\ b \in [1 .. Len(cnt) -> 1 .. Len(text)]
        /\ \A p, q \in 1 .. Len(cnt) : b[p] = b[q] => p = q
        /\ \A p \in 1 .. Len(cnt) : b[p] \in 1 .. Len(text) /\ Reads(text[b[p]], cnt[p])
        /\ \A q \in 1 .. Len(text) : Stats!Parses(text[q]) => \E p \in 1 .. Len(cnt) : b[p] = q
    BY DEF Paired
  <1>8. /\ Stats!Complete(t) <=> Stats!Parses(o)
        /\ Stats!Complete(now) <=> Stats!Parses(u[c])
        /\ Stats!Complete(now) => Reads(u[c], fig) /\ fig \in FigureSet
    <2>1. Matches(o, t)
      OBVIOUS
    <2> HIDE DEF o, u, c, now
    <2> QED
      BY <1>1, <1>3, <2>1, CompleteReads
  <1>9. Stats!Parses(o) => c \in 1 .. Len(text)
    <2>1. ~Stats!Has(<< >>, "key")
      BY DEF Stats!Has
    <2>2. Stats!Parses(o) => o # << >>
      BY <2>1 DEF Stats!Parses, Stats!Names
    <2>3. o # << >> => op
      BY DEF PutOld
    <2>4. op => c = Len(text)
      BY DEF PutAt
    <2> HIDE DEF o, c
    <2> QED
      BY <1>1, <2>2, <2>3, <2>4
  <1>10. \A q \in 1 .. Len(u) : q = c \/ q \in 1 .. Len(text)
    <2>1. c = Len(text) \/ c = Len(text) + 1
      BY DEF PutAt
    <2> HIDE DEF u, c
    <2> QED
      BY <1>1, <2>1
  <1> HIDE DEF u, c, o, now, fig
  <1>11. CASE Stats!Complete(now) /\ ~Stats!Complete(t)
    <2> DEFINE N == Len(cnt) + 1
               e == [p \in 1 .. N |-> IF p = N THEN c ELSE b[p]]
               cnt2 == Append(cnt, fig)
    <2>1. Reads(u[c], fig) /\ fig \in FigureSet
      BY <1>8, <1>11
    <2>2. /\ cnt2 \in Seq(FigureSet) /\ Len(cnt2) = Len(cnt) + 1
          /\ \A p \in 1 .. Len(cnt) : cnt2[p] = cnt[p]
          /\ cnt2[Len(cnt) + 1] = fig
      BY <2>1, AppendProperties
    <2>3. \A p \in 1 .. Len(cnt) : b[p] # c
      BY <1>1, <1>7, <1>8, <1>11 DEF Reads
    <2>4. /\ e[N] = c /\ \A p \in 1 .. Len(cnt) : e[p] = b[p]
          /\ e \in [1 .. N -> 1 .. Len(u)] /\ N \in 1 .. N
          /\ \A p \in 1 .. N : p = N \/ p \in 1 .. Len(cnt)
      BY <1>1, <1>6, <1>7
    <2> HIDE DEF e, cnt2
    <2>5. \A p, q \in 1 .. N : e[p] = e[q] => p = q
      BY <1>7, <2>3, <2>4
    <2>6. \A p \in 1 .. N : Reads(u[e[p]], cnt2[p])
      <3> SUFFICES ASSUME NEW p \in 1 .. N
                   PROVE  Reads(u[e[p]], cnt2[p])
        OBVIOUS
      <3>1. CASE p = N
        BY <2>1, <2>2, <2>4, <3>1
      <3>2. CASE p \in 1 .. Len(cnt)
        BY <1>1, <1>7, <2>2, <2>3, <2>4, <3>2
      <3> QED
        BY <2>4, <3>1, <3>2
    <2>7. ASSUME NEW q \in 1 .. Len(u), Stats!Parses(u[q])
          PROVE  \E p \in 1 .. N : e[p] = q
      <3>1. CASE q = c
        BY <2>4, <3>1
      <3>2. CASE q # c
        <4>1. q \in 1 .. Len(text) /\ u[q] = text[q]
          BY <1>1, <1>10, <3>2
        <4>2. PICK p \in 1 .. Len(cnt) : b[p] = q
          BY <1>7, <2>7, <4>1
        <4> QED
          BY <1>6, <2>4, <4>2
      <3> QED
        BY <3>1, <3>2
    <2>8. Paired(e, cnt2, u)
      BY <2>2, <2>4, <2>5, <2>6, <2>7 DEF Paired
    <2> QED
      BY <1>1, <1>2, <1>3, <1>4, <1>5, <1>11, <2>2, <2>8 DEF cnt2, u, now
  <1>12. CASE ~(Stats!Complete(now) /\ ~Stats!Complete(t))
    <2>1. ASSUME NEW p \in 1 .. Len(cnt)
          PROVE  Reads(u[b[p]], cnt[p])
      <3>1. CASE b[p] # c
        BY <1>1, <1>7, <3>1
      <3>2. CASE b[p] = c
        <4>1. Reads(o, cnt[p])
          BY <1>1, <1>7, <3>2
        <4>2. Reads(Line(o, fs), cnt[p])
          BY <1>1, <4>1, ReadsOn
        <4> QED
          BY <1>1, <3>2, <4>2
      <3> QED
        BY <3>1, <3>2
    <2>2. ASSUME NEW q \in 1 .. Len(u), Stats!Parses(u[q])
          PROVE  \E p \in 1 .. Len(cnt) : b[p] = q
      <3>1. CASE q = c
        <4>1. Stats!Parses(o)
          BY <1>8, <1>12, <2>2, <3>1
        <4>2. c \in 1 .. Len(text) /\ Stats!Parses(text[c])
          BY <1>1, <1>9, <4>1
        <4> QED
          BY <1>7, <3>1, <4>2
      <3>2. CASE q # c
        <4>1. q \in 1 .. Len(text) /\ u[q] = text[q]
          BY <1>1, <1>10, <3>2
        <4> QED
          BY <1>7, <2>2, <4>1
      <3> QED
        BY <3>1, <3>2
    <2>3. b \in [1 .. Len(cnt) -> 1 .. Len(u)]
      BY <1>1, <1>7
    <2>4. Paired(b, cnt, u)
      BY <1>7, <2>1, <2>2, <2>3 DEF Paired
    <2> QED
      BY <1>1, <1>2, <1>3, <1>4, <1>5, <1>12, <2>4 DEF u, now
  <1> QED
    BY <1>11, <1>12

-----------------------------------------------------------------------------
\* What the file, the records and the entries are at any time.
StatsInv ==
  /\ tool \in {"corpus", "req_bench"} /\ pc \in {"start", "measure", "append"}
  /\ lines \in Seq(LineSet) /\ open \in BOOLEAN /\ (open => lines # << >>)
  /\ records \in Seq(RecordSet) /\ counted \in Seq(FigureSet) /\ done \in Nat
  /\ Matches(PutOld(lines, open), told)
  /\ \E b : Paired(b, counted, lines)
  /\ (pc = "measure" /\ tool = "corpus") \/ (pc = "append" /\ done = 0) =>
       baseline = Stats!LoadBaseline(lines)

\* The parameters of the series.
LEMMA SeriesParameters ==
  /\ Key \in Seq(STRING) /\ BandPct \in Nat 
  /\ TornKeys \in SUBSET STRING /\ Tens \in SUBSET (Nat \ {0})
  /\ \A s \in Samples : s \in Seq(Nat) /\ s # << >>
  BY PartsAssumption DEF Stats!BaselineAssumption

\* The median of numbers is a number.
LEMMA MedianType ==
  ASSUME NEW P, IsFiniteSet(P), P # {}, NEW f \in [P -> Nat]
  PROVE  Stats!Median(f) \in Nat /\ Stats!Ranked(f, 0) \in Nat
  <1>1. Cardinality(P) \in Nat /\ Cardinality(P) # 0
    BY FS_CardinalityType, FS_EmptySet
  <1> DEFINE n == Cardinality(P) \div 2
  <1>2. n \in Nat /\ n < Cardinality(P) /\ 0 < Cardinality(P)
    BY <1>1
  <1>3. Stats!Median(f) = Stats!Ranked(f, n)
    BY StatsCardinality DEF Stats!Median
  <1> HIDE DEF n
  <1> QED
    BY <1>2, <1>3, RankedIs

\* The distance of two numbers is a number.
LEMMA AbsDiffType ==
  ASSUME NEW a \in Nat, NEW b \in Nat
  PROVE  Stats!AbsDiff(a, b) \in Nat
  BY DEF Stats!AbsDiff

\* A record of samples.
LEMMA FromSamplesType ==
  ASSUME NEW k \in STRING, NEW s \in Samples
  PROVE  Stats!FromSamples(k, s) \in RecordSet
  <1>1. s \in Seq(Nat) /\ s # << >>
    BY SeriesParameters
  <1> DEFINE P == 1 .. Len(s)
             m == Stats!Median(s)
             f == [p \in DOMAIN s |-> Stats!AbsDiff(s[p], m)]
  <1>2. /\ Len(s) \in Nat /\ DOMAIN s = P /\ s \in [P -> Nat] /\ IsFiniteSet(P) /\ P # {}
    <2>1. Len(s) \in Nat /\ DOMAIN s = P /\ s \in [P -> Nat] /\ Len(s) # 0
      BY <1>1, LenProperties, EmptySeq
    <2>2. IsFiniteSet(1 .. Len(s)) /\ 1 \in P
      BY <2>1, FS_Interval
    <2> QED
      BY <2>1, <2>2
  <1> HIDE DEF P
  <1>3. m \in Nat /\ Stats!Ranked(s, 0) \in Nat
    BY <1>2, MedianType
  <1> HIDE DEF m
  <1>4. f \in [P -> Nat]
    BY <1>2, <1>3, AbsDiffType
  <1> HIDE DEF f
  <1>5. Stats!Median(f) \in Nat
    BY <1>2, <1>4, MedianType
  <1>6. Stats!FromSamples(k, s) =
          [key |-> k, reps |-> Len(s), min |-> Stats!Ranked(s, 0), mad |-> Stats!Median(f)]
    BY Zenon DEF Stats!FromSamples, f, m
  <1> QED
    BY <1>2, <1>3, <1>5, <1>6 DEF RecordSet

\* A field of a record, whole or cut, has its name and its type.
LEMMA TornType ==
  ASSUME NEW f \in FieldSet, f[1] # "key" => f[2] \in Nat, NEW g \in Stats!Torn(f)
  PROVE  g \in FieldSet /\ g[1] = f[1]
  <1>1. f[1] \in Stats!Names
    BY DEF FieldSet
  <1>2. CASE f[1] = "key"
    <2>1. PICK v \in TornKeys \cup {Stats!NoKey} : g = <<f[1], v>>
      BY <1>2 DEF Stats!Torn
    <2>2. v \in KeySet
      BY SeriesParameters DEF KeySet
    <2> QED
      BY <1>1, <1>2, <2>1, <2>2 DEF FieldSet
  <1>3. CASE f[1] # "key"
    <2>1. PICK v \in ({f[2] \div n : n \in Tens} \ {0}) \cup {-1} : g = <<f[1], v>>
      BY <1>3 DEF Stats!Torn, Stats!NoNumber
    <2>2. v \in Int
      <3>1. \A n \in Tens : n \in Nat /\ n # 0 /\ f[2] \in Nat
        BY <1>3, SeriesParameters
      <3>2. \A n \in Tens : f[2] \div n \in Int
        BY <3>1
      <3> QED
        BY <3>2
    <2> QED
      BY <1>1, <1>3, <2>1, <2>2 DEF FieldSet
  <1> QED
    BY <1>2, <1>3

\* The line of a record.
LEMMA JsonLineIs ==
  ASSUME NEW rec \in RecordSet
  PROVE  /\ Stats!ToJsonLine(rec) \in LineSet /\ Len(Stats!ToJsonLine(rec)) = 3
         /\ Single(Stats!ToJsonLine(rec))
         /\ \A j \in 1 .. 3 : /\ Stats!ToJsonLine(rec)[j] \in FieldSet
                              /\ Stats!ToJsonLine(rec)[j][1] # "key" =>
                                   Stats!ToJsonLine(rec)[j][2] \in Nat
  <1> DEFINE z == Stats!ToJsonLine(rec)
             a1 == <<"key", rec.key>>
             a2 == <<"min", rec.min>>
             a3 == <<"mad", rec.mad>>
  <1>1. a1 \in FieldSet /\ a2 \in FieldSet /\ a3 \in FieldSet /\ a2[2] \in Nat /\ a3[2] \in Nat
    <2>1. rec.key \in STRING /\ rec.min \in Nat /\ rec.mad \in Nat
      BY DEF RecordSet
    <2> QED
      BY <2>1 DEF FieldSet, KeySet, Stats!Names
  <1>2. z = <<a1, a2, a3>>
    BY DEF Stats!ToJsonLine
  <1>3. a1[1] = "key" /\ a2[1] = "min" /\ a3[1] = "mad"
    OBVIOUS
  <1> HIDE DEF a1, a2, a3, z
  <1>4. z \in Seq(FieldSet) /\ Len(z) = 3 /\ z[1] = a1 /\ z[2] = a2 /\ z[3] = a3
    BY <1>1, <1>2
  <1>5. \A j \in 1 .. 3 : j = 1 \/ j = 2 \/ j = 3
    OBVIOUS
  <1>6. Single(z)
    BY <1>3, <1>4, <1>5 DEF Single
  <1>7. \A j \in 1 .. 3 : z[j] \in FieldSet /\ (z[j][1] # "key" => z[j][2] \in Nat)
    BY <1>1, <1>3, <1>4, <1>5
  <1> QED
    BY <1>4, <1>6, <1>7 DEF z, LineSet

\* The beginning of a line.
LEMMA StartOf ==
  ASSUME NEW z \in LineSet, Single(z), NEW n \in Nat, n <= Len(z)
  PROVE  /\ SubSeq(z, 1, n) \in LineSet /\ Len(SubSeq(z, 1, n)) = n
         /\ \A j \in 1 .. n : SubSeq(z, 1, n)[j] = z[j]
         /\ Single(SubSeq(z, 1, n))
  <1>1. Len(z) \in Nat /\ 1 \in Int /\ n \in Int /\ \A j \in 1 .. n : z[j] \in FieldSet
    BY LenProperties, ElementOfSeq DEF LineSet
  <1>2. /\ SubSeq(z, 1, n) \in Seq(FieldSet)
        /\ Len(SubSeq(z, 1, n)) = IF 1 <= n THEN n - 1 + 1 ELSE 0
        /\ \A j \in 1 .. n - 1 + 1 : SubSeq(z, 1, n)[j] = z[1 + j - 1]
    BY <1>1, SubSeqProperties
  <1>3. n - 1 + 1 = n /\ (~(1 <= n) => n = 0) /\ \A j \in 1 .. n : 1 + j - 1 = j
    OBVIOUS
  <1> DEFINE x == SubSeq(z, 1, n)
  <1>4. x \in LineSet /\ Len(x) = n /\ \A j \in 1 .. n : x[j] = z[j]
    BY <1>2, <1>3 DEF LineSet
  <1> HIDE DEF x
  <1>5. Single(x)
    <2> SUFFICES ASSUME NEW p \in 1 .. n, NEW q \in 1 .. n, x[p][1] = x[q][1]
                 PROVE  p = q
      BY <1>4 DEF Single
    <2>1. z[p][1] = z[q][1] /\ p \in 1 .. Len(z) /\ q \in 1 .. Len(z)
      BY <1>1, <1>4
    <2> QED
      BY <2>1 DEF Single
  <1> QED
    BY <1>4, <1>5 DEF x

\* What a cut leaves of it: the first fields, and the next one cut.
LEMMA CutLineIs ==
  ASSUME NEW rec \in RecordSet, NEW fs \in Stats!CutLine(rec)
  PROVE  fs \in LineSet /\ Single(fs)
  <1> DEFINE z == Stats!ToJsonLine(rec)
  <1>1. /\ z \in LineSet /\ Len(z) = 3 /\ Single(z)
        /\ \A j \in 1 .. 3 : z[j] \in FieldSet /\ (z[j][1] # "key" => z[j][2] \in Nat)
    BY JsonLineIs
  <1>2. \/ \E n \in 0 .. 3 : fs = SubSeq(z, 1, n)
        \/ \E n \in 0 .. 2 : \E g \in Stats!Torn(z[n + 1]) : fs = Append(SubSeq(z, 1, n), g)
    BY Zenon DEF Stats!CutLine
  <1> HIDE DEF z
  <1>3. CASE \E n \in 0 .. 3 : fs = SubSeq(z, 1, n)
    <2>1. PICK n \in 0 .. 3 : fs = SubSeq(z, 1, n)
      BY <1>3
    <2>2. n \in Nat /\ n <= Len(z)
      BY <1>1
    <2> QED
      BY <1>1, <2>1, <2>2, StartOf
  <1>4. CASE \E n \in 0 .. 2 : \E g \in Stats!Torn(z[n + 1]) : fs = Append(SubSeq(z, 1, n), g)
    <2>1. PICK n \in 0 .. 2 : \E g \in Stats!Torn(z[n + 1]) : fs = Append(SubSeq(z, 1, n), g)
      BY <1>4
    <2>2. PICK g \in Stats!Torn(z[n + 1]) : fs = Append(SubSeq(z, 1, n), g)
      BY <2>1
    <2>3. n \in Nat /\ n <= Len(z) /\ n + 1 \in 1 .. 3
      BY <1>1
    <2> DEFINE x == SubSeq(z, 1, n)
    <2>4. x \in LineSet /\ Len(x) = n /\ \A j \in 1 .. n : x[j] = z[j]
      BY <1>1, <2>3, StartOf
    <2>5. g \in FieldSet /\ g[1] = z[n + 1][1]
      BY <1>1, <2>3, TornType
    <2>6. fs = Append(x, g)
      BY <2>2
    <2> HIDE DEF x
    <2>7. /\ fs \in LineSet /\ Len(fs) = n + 1 /\ fs[n + 1] = g
          /\ \A j \in 1 .. n : fs[j] = x[j]
      BY <2>4, <2>5, <2>6, AppendProperties DEF LineSet
    <2>8. \A j \in 1 .. n + 1 : fs[j][1] = z[j][1] /\ j \in 1 .. Len(z)
      <3> SUFFICES ASSUME NEW j \in 1 .. n + 1
                   PROVE  fs[j][1] = z[j][1] /\ j \in 1 .. Len(z)
        OBVIOUS
      <3>1. j \in 1 .. n \/ j = n + 1
        OBVIOUS
      <3>2. j \in 1 .. Len(z)
        BY <1>1, <2>3
      <3> QED
        BY <2>4, <2>5, <2>7, <3>1, <3>2
    <2>9. Single(fs)
      <3> SUFFICES ASSUME NEW p \in 1 .. n + 1, NEW q \in 1 .. n + 1, fs[p][1] = fs[q][1]
                   PROVE  p = q
        BY <2>7 DEF Single
      <3> QED
        BY <1>1, <2>8 DEF Single
    <2> QED
      BY <2>7, <2>9
  <1> QED
    BY <1>2, <1>3, <1>4

-----------------------------------------------------------------------------
\* A line without fields tells nothing.
LEMMA NothingTold == Matches(<< >>, Stats!Nothing)
  <1>1. \A name : ~Stats!Has(<< >>, name)
    BY DEF Stats!Has
  <1> QED
    BY <1>1 DEF Matches, Stats!Nothing

\* Initially.
LEMMA StatsInitially ==
  ASSUME Stats!Init
  PROVE  StatsInv
  <1>1. /\ tool \in {"corpus", "req_bench"} /\ pc = "start" /\ lines = << >> /\ open = FALSE
        /\ records = << >> /\ done = 0 /\ counted = << >> /\ told = Stats!Nothing
    BY DEF Stats!Init
  <1>2. << >> \in Seq(LineSet) /\ << >> \in Seq(RecordSet) /\ << >> \in Seq(FigureSet)
    BY EmptySeq
  <1>4. Matches(PutOld(lines, open), told)
    BY <1>1, NothingTold DEF PutOld
  <1> DEFINE b == [p \in 1 .. 0 |-> p]
  <1>3. Paired(b, << >>, << >>)
    <2>1. Len(<< >>) = 0 /\ \A p \in 1 .. 0 : FALSE
      OBVIOUS
    <2>2. b \in [1 .. 0 -> 1 .. 0]
      OBVIOUS
    <2> HIDE DEF b
    <2> QED
      BY <2>1, <2>2 DEF Paired
  <1> QED
    BY <1>1, <1>2, <1>3, <1>4 DEF StatsInv

\* A run starts, in the corpus with the entries of the file.
LEMMA StartKeeps ==
  ASSUME StatsInv, Stats!Start
  PROVE  StatsInv'
  <1>1. << >> \in Seq(RecordSet)
    BY EmptySeq
  <1>2. /\ tool' = tool /\ lines' = lines /\ open' = open /\ counted' = counted /\ told' = told
        /\ records' = << >> /\ done' = 0 /\ pc' = "measure"
        /\ tool = "corpus" => baseline' = Stats!LoadBaseline(lines)
    BY DEF Stats!Start
  <1>3. (Matches(PutOld(lines, open), told) /\ \E b : Paired(b, counted, lines))'
    BY <1>2 DEF StatsInv
  <1> QED
    BY <1>1, <1>2, <1>3 DEF StatsInv

\* A benchmark is run.
LEMMA MeasureKeeps ==
  ASSUME StatsInv, Stats!Measure
  PROVE  StatsInv'
  <1>1. /\ tool' = tool /\ lines' = lines /\ open' = open /\ counted' = counted /\ told' = told
        /\ done' = done /\ pc' = pc /\ pc = "measure" /\ baseline' = baseline
        /\ Len(records) < Len(Key)
    BY DEF Stats!Measure
  <1>2. PICK s \in Samples :
          records' = Append(records, Stats!FromSamples(Key[Len(records) + 1], s))
    BY DEF Stats!Measure
  <1>3. Len(records) \in Nat /\ Len(Key) \in Nat
    BY SeriesParameters, LenProperties DEF StatsInv
  <1>4. Len(records) + 1 \in 1 .. Len(Key)
    BY <1>1, <1>3
  <1>5. Key[Len(records) + 1] \in STRING
    BY <1>4, SeriesParameters, ElementOfSeq
  <1>6. records' \in Seq(RecordSet)
    BY <1>2, <1>5, FromSamplesType, AppendProperties DEF StatsInv
  <1>7. (Matches(PutOld(lines, open), told) /\ \E b : Paired(b, counted, lines))'
    BY <1>1 DEF StatsInv
  <1>8. (Stats!LoadBaseline(lines))' = Stats!LoadBaseline(lines)
    BY <1>1
  <1> QED
    BY <1>1, <1>6, <1>7, <1>8 DEF StatsInv

\* The entries are those of the file before anything is appended.
LEMMA ReportKeeps ==
  ASSUME StatsInv, Stats!Report
  PROVE  StatsInv'
  <1>1. /\ tool' = tool /\ lines' = lines /\ open' = open /\ counted' = counted /\ told' = told
        /\ done' = done /\ pc = "measure" /\ pc' = "append" /\ records' = records
        /\ baseline' = IF tool = "req_bench" THEN Stats!LoadBaseline(lines) ELSE baseline
    BY DEF Stats!Report, Stats!Read
  <1>2. (Matches(PutOld(lines, open), told) /\ \E b : Paired(b, counted, lines))'
    BY <1>1 DEF StatsInv
  <1>3. baseline' = Stats!LoadBaseline(lines)
    BY <1>1 DEF StatsInv
  <1> QED
    BY <1>1, <1>2, <1>3 DEF StatsInv

\* What Write does.
LEMMA WriteIs ==
  ASSUME NEW fs, Stats!Write(fs)
  PROVE  /\ lines' = PutIn(lines, open, fs)
         /\ told' = IF open' THEN Stats!Joined(told, Stats!Tells(fs)) ELSE Stats!Nothing
         /\ counted' = CountIn(counted, told, fs)
  BY Zenon DEF Stats!Write, Stats!Put, PutIn, CountIn

\* And what it keeps.
LEMMA WriteKeeps ==
  ASSUME StatsInv, NEW fs \in LineSet, Single(fs), Stats!Write(fs), open' \in BOOLEAN
  PROVE  /\ lines' \in Seq(LineSet) /\ lines' # << >> /\ counted' \in Seq(FigureSet)
         /\ \E b : Paired(b, counted', lines')
         /\ Matches(PutOld(lines', open'), told')
  <1>1. PICK b : Paired(b, counted, lines)
    BY DEF StatsInv
  <1>2. /\ lines \in Seq(LineSet) /\ open \in BOOLEAN /\ (open => lines # << >>)
        /\ counted \in Seq(FigureSet) /\ Matches(PutOld(lines, open), told)
    BY DEF StatsInv
  <1> DEFINE u == PutIn(lines, open, fs)
             now == Stats!Joined(told, Stats!Tells(fs))
             cnt == CountIn(counted, told, fs)
  <1>3. /\ u \in Seq(LineSet) /\ u # << >> /\ cnt \in Seq(FigureSet)
        /\ Matches(PutOld(u, TRUE), now) /\ \E e : Paired(e, cnt, u)
    BY <1>1, <1>2, PutPaired
  <1>4. lines' = u /\ counted' = cnt /\ told' = IF open' THEN now ELSE Stats!Nothing
    BY WriteIs
  <1> HIDE DEF u, now, cnt
  <1>5. CASE open'
    <2>1. open' = TRUE
      BY <1>5
    <2> QED
      BY <1>3, <1>4, <2>1
  <1>6. CASE ~open'
    <2>1. PutOld(lines', open') = << >> /\ told' = Stats!Nothing
      BY <1>4, <1>6 DEF PutOld
    <2> QED
      BY <1>3, <1>4, <2>1, NothingTold
  <1> QED
    BY <1>5, <1>6

\* A record appended.
LEMMA AppendKeeps ==
  ASSUME StatsInv, Stats!AppendRecord
  PROVE  StatsInv'
  <1> DEFINE rec == records[done + 1]
             fs  == Stats!ToJsonLine(rec)
  <1>1. Len(records) \in Nat /\ done \in Nat /\ done < Len(records)
    BY LenProperties DEF StatsInv, Stats!AppendRecord
  <1>2. rec \in RecordSet
    <2>1. done + 1 \in 1 .. Len(records)
      BY <1>1
    <2> QED
      BY <2>1, ElementOfSeq DEF StatsInv
  <1>3. fs \in LineSet /\ Single(fs)
    BY <1>2, JsonLineIs
  <1>4. /\ Stats!Write(fs) /\ open' = FALSE
        /\ done' = done + 1 /\ tool' = tool /\ pc' = pc /\ pc = "append" /\ records' = records
    BY DEF Stats!AppendRecord
  <1> HIDE DEF rec, fs
  <1>5. /\ lines' \in Seq(LineSet) /\ lines' # << >> /\ counted' \in Seq(FigureSet)
        /\ \E b : Paired(b, counted', lines')
        /\ Matches(PutOld(lines', open'), told')
    BY <1>3, <1>4, WriteKeeps
  <1>6. done + 1 # 0 /\ done + 1 \in Nat
    BY <1>1
  <1> QED
    BY <1>4, <1>5, <1>6 DEF StatsInv

\* A record cut short.
LEMMA CutKeeps ==
  ASSUME StatsInv, Stats!AppendCut
  PROVE  StatsInv'
  <1> DEFINE rec == records[done + 1]
  <1>1. Len(records) \in Nat /\ done \in Nat /\ done < Len(records)
    BY LenProperties DEF StatsInv, Stats!AppendCut
  <1>2. rec \in RecordSet
    <2>1. done + 1 \in 1 .. Len(records)
      BY <1>1
    <2> QED
      BY <2>1, ElementOfSeq DEF StatsInv
  <1>3. PICK fs \in Stats!CutLine(rec) : Stats!Write(fs)
    BY DEF Stats!AppendCut
  <1>4. open' = TRUE /\ done' = done /\ tool' = tool /\ pc' = "start" /\ records' = records
    BY DEF Stats!AppendCut
  <1> HIDE DEF rec
  <1>5. fs \in LineSet /\ Single(fs)
    BY <1>2, CutLineIs
  <1>6. /\ lines' \in Seq(LineSet) /\ lines' # << >> /\ counted' \in Seq(FigureSet)
        /\ \E b : Paired(b, counted', lines')
        /\ Matches(PutOld(lines', open'), told')
    BY <1>3, <1>4, <1>5, WriteKeeps
  <1> QED
    BY <1>1, <1>4, <1>6 DEF StatsInv

\* A run that ends, and a step of no run.
LEMMA StatsStays ==
  ASSUME StatsInv,
         /\ tool' = tool /\ lines' = lines /\ open' = open /\ counted' = counted /\ told' = told
         /\ done' = done /\ records' = records,
         pc' = "start" \/ (pc' = pc /\ baseline' = baseline)
  PROVE  StatsInv'
  <1>1. (Matches(PutOld(lines, open), told) /\ \E b : Paired(b, counted, lines))'
    BY DEF StatsInv
  <1>2. (Stats!LoadBaseline(lines))' = Stats!LoadBaseline(lines)
    OBVIOUS
  <1> QED
    BY <1>1, <1>2 DEF StatsInv

\* So whenever a run reports, its entries are those of the figures that count.
LEMMA ReportedEntries ==
  ASSUME StatsInv, Stats!Reporting
  PROVE  baseline = EntriesOf(counted)
  <1>1. PICK b : Paired(b, counted, lines)
    BY DEF StatsInv
  <1>2. baseline = Stats!LoadBaseline(lines)
    BY DEF StatsInv, Stats!Reporting
  <1>3. lines \in Seq(LineSet) /\ counted \in Seq(FigureSet)
    BY DEF StatsInv
  <1> QED
    BY <1>1, <1>2, <1>3, LoadedIs

\* The invariant of the series.
LEMMA SeriesHold == Spec => [](part = "stats" => StatsInv)
  <1> DEFINE Inv == part = "stats" => StatsInv
  <1>1. Init => Inv
    BY StatsInitially DEF Init
  <1>2. Inv /\ [Next]_vars => Inv'
    <2>1. SUFFICES ASSUME Inv, [Next]_vars, part' = "stats"
                   PROVE  StatsInv'
      OBVIOUS
    <2>2. part = "stats" /\ StatsInv
      BY <2>1 DEF Next, vars
    <2>3. CASE Stats!Next
      <3>1. CASE Stats!Finish
        <4>1. /\ tool' = tool /\ lines' = lines /\ open' = open /\ counted' = counted
              /\ done' = done /\ records' = records /\ pc' = "start" /\ told' = told
          BY <3>1 DEF Stats!Finish
        <4> QED
          BY <2>2, <4>1, StatsStays
      <3> QED
        BY <2>2, <2>3, <3>1, StartKeeps, MeasureKeeps, ReportKeeps, AppendKeeps, CutKeeps
        DEF Stats!Next
    <2>4. CASE UNCHANGED <<pc, statsVars>>
      <3>1. /\ tool' = tool /\ lines' = lines /\ open' = open /\ counted' = counted
            /\ done' = done /\ records' = records /\ pc' = pc /\ baseline' = baseline
            /\ told' = told
        BY <2>4 DEF statsVars
      <3> QED
        BY <2>2, <3>1, StatsStays
    <2> QED
      BY <2>1, <2>2, <2>3, <2>4 DEF Next, vars
  <1> QED
    BY <1>1, <1>2, PTL DEF Spec

\* A run is compared with the medians of what the lines of earlier runs have told, a cut
\* line with those run on behind it telling one key and its figures at most and of each
\* the first, cut or not: for any benchmarks, samples and number of runs, and wherever
\* earlier runs were cut, between two fields, in a key or in a number.
THEOREM EntriesAreEarlier == Spec => []EntriesEarlier
  <1>1. (part = "stats" => StatsInv) => EntriesEarlier
    <2> SUFFICES ASSUME part = "stats", StatsInv, Stats!Reporting
                 PROVE  Stats!EntriesEarlier
      BY DEF EntriesEarlier, Stats!EntriesEarlier
    <2>1. baseline = EntriesOf(counted)
      BY ReportedEntries
    <2> QED
      BY <2>1, Zenon DEF Stats!EntriesEarlier, EntriesOf, FigureEntry, FigureKeys, FiguresOf,
                         Stats!Counted
  <1> QED
    BY <1>1, SeriesHold, PTL

-----------------------------------------------------------------------------
\* Numbers that all lie within d of a number m, more than d from the median of a family,
\* are half of the family at most.
LEMMA FewNear ==
  ASSUME NEW P, IsFiniteSet(P), P # {}, NEW f \in [P -> Nat], NEW m \in Nat, NEW d \in Nat,
         Stats!AbsDiff(m, Stats!Typical(f)) > d,
         NEW near, near = {q \in P : Stats!AbsDiff(f[q], m) <= d}
  PROVE  2 * Cardinality(near) <= Cardinality(P)
  <1> DEFINE v == Stats!Typical(f)
             n == Cardinality(P) \div 2
             B == Below(f, v)
             U == UpTo(f, v)
  <1>1. Cardinality(P) \in Nat /\ Cardinality(P) # 0
    BY FS_CardinalityType, FS_EmptySet
  <1>2. n \in Nat /\ n < Cardinality(P) /\ 2 * n <= Cardinality(P) /\ Cardinality(P) <= 2 * n + 1
    BY <1>1
  <1>3. v = Stats!Ranked(f, n)
    BY StatsCardinality DEF Stats!Typical, Stats!Median
  <1>4. v \in Nat /\ Cardinality(B) <= n /\ Cardinality(U) > n
    <2> HIDE DEF n
    <2>1. Stats!Ranked(f, n) \in Nat /\ IsRanked(f, n, Stats!Ranked(f, n))
      BY <1>2, RankedIs
    <2> QED
      BY <1>3, <2>1 DEF IsRanked
  <1>5. Stats!AbsDiff(m, v) > d
    OBVIOUS
  <1> HIDE DEF v, n
  <1>6. \A q \in P : f[q] \in Nat
    OBVIOUS
  <1>7. /\ near \in SUBSET P /\ IsFiniteSet(near) /\ Cardinality(near) \in Nat
        /\ B \in SUBSET P /\ IsFiniteSet(B) /\ Cardinality(B) \in Nat
        /\ U \in SUBSET P /\ IsFiniteSet(U) /\ Cardinality(U) \in Nat
    <2>1. near \in SUBSET P /\ B \in SUBSET P /\ U \in SUBSET P
      BY DEF Below, UpTo
    <2> HIDE DEF B, U
    <2> QED
      BY <2>1, PartsCount
  <1>8. CASE m < v
    <2>1. near \in SUBSET B
      <3> SUFFICES ASSUME NEW q \in near
                   PROVE  f[q] < v
        BY <1>7 DEF Below
      <3>1. q \in P /\ f[q] \in Nat /\ Stats!AbsDiff(f[q], m) <= d
        BY <1>6
      <3> QED
        BY <1>4, <1>5, <1>8, <3>1 DEF Stats!AbsDiff
    <2> HIDE DEF B, U
    <2>2. Cardinality(near) <= Cardinality(B)
      BY <1>7, <2>1, PartsCount
    <2> QED
      BY <1>1, <1>2, <1>4, <1>7, <2>2
  <1>9. CASE ~(m < v)
    <2>1. near \in SUBSET (P \ U)
      <3> SUFFICES ASSUME NEW q \in near, f[q] <= v
                   PROVE  FALSE
        BY <1>7 DEF UpTo
      <3>1. q \in P /\ f[q] \in Nat /\ Stats!AbsDiff(f[q], m) <= d
        BY <1>6
      <3> QED
        BY <1>4, <1>5, <1>9, <3>1 DEF Stats!AbsDiff
    <2> HIDE DEF B, U
    <2>2. P \cap U = U
      BY <1>7
    <2>3. IsFiniteSet(P \ U) /\ Cardinality(P \ U) = Cardinality(P) - Cardinality(U)
      BY <1>7, <2>2, FS_Difference
    <2>4. Cardinality(near) <= Cardinality(P \ U)
      BY <2>1, <2>3, PartsCount
    <2> QED
      BY <1>1, <1>2, <1>4, <1>7, <2>3, <2>4
  <1> QED
    BY <1>8, <1>9

\* The greatest of three numbers is no smaller than the first.
LEMMA BandCovers ==
  ASSUME NEW a \in Nat, NEW b \in Nat, NEW c \in Nat
  PROVE  Stats!Max({a, b, c}) \in Nat /\ a <= Stats!Max({a, b, c})
  <1> DEFINE T == {a, b, c}
             g == CHOOSE x \in T : \A y \in T : x >= y
  <1>1. \E x \in T : \A y \in T : x >= y
    <2>1. CASE a >= b /\ a >= c
      BY <2>1
    <2>2. CASE b >= a /\ b >= c
      BY <2>2
    <2>3. CASE c >= a /\ c >= b
      BY <2>3
    <2> QED
      BY <2>1, <2>2, <2>3
  <1>2. g \in T /\ \A y \in T : g >= y
    <2> HIDE DEF T
    <2> QED
      BY <1>1, Zenon
  <1>3. Stats!Max({a, b, c}) = g
    BY Zenon DEF Stats!Max
  <1> HIDE DEF g
  <1> QED
    BY <1>2, <1>3

\* The entry a record is compared with.
LEMMA EntryFound ==
  ASSUME NEW cnt \in Seq(FigureSet), NEW k, \E e \in EntriesOf(cnt) : e.key = k
  PROVE  /\ (CHOOSE e \in EntriesOf(cnt) : e.key = k) = FigureEntry(cnt, k)
         /\ FiguresOf(cnt, k) # {}
  <1> DEFINE c == CHOOSE e \in EntriesOf(cnt) : e.key = k
  <1>1. c \in EntriesOf(cnt) /\ c.key = k
    BY Zenon
  <1> HIDE DEF c
  <1>2. PICK j \in FigureKeys(cnt) : c = FigureEntry(cnt, j)
    BY <1>1 DEF EntriesOf
  <1>3. j = k
    BY <1>1, <1>2 DEF FigureEntry
  <1>4. FiguresOf(cnt, k) # {}
    BY <1>2, <1>3 DEF FigureKeys, FiguresOf
  <1> QED
    BY <1>2, <1>3, <1>4 DEF c

\* No verdict but noise, unless half of the figures that count are out of the noise.
LEMMA VerdictHolds ==
  ASSUME NEW cnt \in Seq(FigureSet), NEW rec \in RecordSet, NEW base, base = EntriesOf(cnt),
         Stats!Compare(rec, base) \in {"win", "regression"}
  PROVE  2 * Cardinality({q \in FiguresOf(cnt, rec.key) :
                            Stats!AbsDiff(cnt[q].min, rec.min) <= rec.mad})
           <= Cardinality(FiguresOf(cnt, rec.key))
  <1> DEFINE k == rec.key
             P == FiguresOf(cnt, k)
             f == [p \in P |-> cnt[p].min]
             g == [p \in P |-> cnt[p].mad]
             e == CHOOSE x \in base : x.key = rec.key
             low == (e.min * BandPct) \div 100
             band == Stats!Max({rec.mad, e.mad, low})
  <1>1. rec.min \in Nat /\ rec.mad \in Nat /\ rec.reps \in Nat
    BY DEF RecordSet
  <1>2. /\ \E x \in base : x.key = rec.key
        /\ ~(Stats!AbsDiff(rec.min, e.min) <= band)
    <2>1. Stats!Compare(rec, base) # "untracked" /\ Stats!Compare(rec, base) # "new"
          /\ Stats!Compare(rec, base) # "noise"
      OBVIOUS
    <2>2. ~(rec.reps < 3)
      BY <2>1 DEF Stats!Compare
    <2>3. \E x \in base : x.key = rec.key
      BY <2>1, <2>2 DEF Stats!Compare
    <2>4. Stats!Compare(rec, base) =
            IF Stats!AbsDiff(rec.min, e.min) <= band THEN "noise"
            ELSE IF rec.min < e.min THEN "win" ELSE "regression"
      BY <2>2, <2>3, Zenon DEF Stats!Compare
    <2> HIDE DEF e, band
    <2> QED
      BY <2>1, <2>3, <2>4
  <1>3. e = FigureEntry(cnt, k) /\ P # {}
    BY <1>2, EntryFound
  <1>4. IsFiniteSet(P) /\ f \in [P -> Nat] /\ g \in [P -> Nat]
    <2>1. \A p \in P : cnt[p].min \in Nat /\ cnt[p].mad \in Nat
      BY FigureFields DEF FiguresOf
    <2> QED
      BY <2>1, FiguresFinite
  <1>5. e.min = Stats!Typical(f) /\ e.mad = Stats!Typical(g)
    <2>1. FigureEntry(cnt, k) = [key |-> k, min |-> Stats!Typical(f), mad |-> Stats!Typical(g)]
      BY Zenon DEF FigureEntry
    <2> HIDE DEF e, f, g
    <2> QED
      BY <1>3, <2>1
  <1> DEFINE near == {q \in P : Stats!AbsDiff(cnt[q].min, rec.min) <= rec.mad}
  <1>6. near = {q \in P : Stats!AbsDiff(f[q], rec.min) <= rec.mad}
    OBVIOUS
  <1> HIDE DEF e, f, g, P
  <1>7. Stats!Typical(f) \in Nat /\ Stats!Typical(g) \in Nat
    BY <1>3, <1>4, MedianType DEF Stats!Typical
  <1>8. low \in Nat
    <2>1. e.min * BandPct \in Nat
      BY <1>5, <1>7, SeriesParameters
    <2> QED
      BY <2>1
  <1> HIDE DEF low
  <1>9. band \in Nat /\ rec.mad <= band
    BY <1>1, <1>5, <1>7, <1>8, BandCovers
  <1>10. Stats!AbsDiff(rec.min, e.min) \in Nat
    BY <1>1, <1>5, <1>7, AbsDiffType
  <1> HIDE DEF band
  <1>11. Stats!AbsDiff(rec.min, Stats!Typical(f)) > rec.mad
    BY <1>1, <1>2, <1>5, <1>9, <1>10
  <1> HIDE DEF near
  <1>12. 2 * Cardinality(near) <= Cardinality(P)
    BY <1>1, <1>3, <1>4, <1>6, <1>11, FewNear
  <1> QED
    BY <1>12 DEF near, P

\* A win or a regression is reported only if half of the lines that count or more lie outside
\* the record's own noise, for any benchmarks, samples, band and number of runs.
THEOREM VerdictsAreRobust == Spec => []VerdictRobust
  <1>1. (part = "stats" => StatsInv) => VerdictRobust
    <2> SUFFICES ASSUME part = "stats", StatsInv, Stats!Reporting, NEW p \in DOMAIN records,
                        Stats!Compare(records[p], baseline) \in {"win", "regression"}
                 PROVE  2 * Stats!Cardinality({q \in Stats!Counted(records[p].key) :
                              Stats!AbsDiff(counted[q].min, records[p].min) <= records[p].mad})
                          <= Stats!Cardinality(Stats!Counted(records[p].key))
      BY DEF VerdictRobust, Stats!VerdictRobust
    <2>1. baseline = EntriesOf(counted)
      BY ReportedEntries
    <2>2. counted \in Seq(FigureSet) /\ records[p] \in RecordSet
      <3>1. p \in 1 .. Len(records)
        BY LenProperties DEF StatsInv
      <3> QED
        BY <3>1, ElementOfSeq DEF StatsInv
    <2>3. Stats!Counted(records[p].key) = FiguresOf(counted, records[p].key)
      BY DEF Stats!Counted, FiguresOf
    <2> QED
      BY <2>1, <2>2, <2>3, VerdictHolds, StatsCardinality
  <1> QED
    BY <1>1, SeriesHold, PTL

-----------------------------------------------------------------------------
(* The bytes of a slot in Tromp's layout: the recursion through the words  *)
(* that rounds drop has one solution, and a round finds its own digits.    *)

\* The sizes at the parameters of the code.
LEMMA LayoutSizes ==
  /\ Rz!HashSize(0) = 16 /\ Rz!HashSize(1) = 13 /\ Rz!HashSize(2) = 10
  /\ Rz!HashSize(3) = 7 /\ Rz!HashSize(4) = 4
  /\ Rz!HashWords(16) = 4 /\ Rz!HashWords(13) = 4 /\ Rz!HashWords(10) = 3
  /\ Rz!HashWords(7) = 2 /\ Rz!HashWords(4) = 1
  BY DEF Rz!HashSize, Rz!HashWords

\* The words of a slot written in round n.
SlotWords(n) == Rz!HashWords(Rz!HashSize(n))

\* And the places they give.
LEMMA SlotWordsAre ==
  /\ SlotWords(0) = 4 /\ SlotWords(1) = 4 /\ SlotWords(2) = 3
  /\ SlotWords(3) = 2 /\ SlotWords(4) = 1
  /\ Rz!NextBo(0) = 0 /\ Rz!NextBo(1) = 3 /\ Rz!NextBo(2) = 2 /\ Rz!NextBo(3) = 1 /\ Rz!NextBo(4) = 0
  /\ Rz!DUnits(1) = 0 /\ Rz!DUnits(2) = 1 /\ Rz!DUnits(3) = 1 /\ Rz!DUnits(4) = 1
  BY LayoutSizes DEF SlotWords, Rz!NextBo, Rz!DUnits

\* The place of a byte by the recursion: of the slot itself in round 0, of the slot
\* merged from after that.
LayoutStep(at0, n, m) ==
  IF n = 0 THEN IF m \in Rz!NextBo(0) .. Rz!NextBo(0) + Rz!HashSize(0) - 1
                THEN 18 - Rz!HashSize(0) + m - Rz!NextBo(0) ELSE -1
  ELSE IF m < 4 * Rz!HashWords(Rz!HashSize(n)) THEN at0[n - 1][m + 4 * Rz!DUnits(n)] ELSE -1

\* Words are dropped at the front, so a slot holds the last bytes of the hash.
LayoutFn == [n \in 0 .. 4 |-> [m \in 0 .. 15 |-> IF m < 4 * SlotWords(n) THEN m + 18 - 4 * SlotWords(n) ELSE -1]]

\* That solves the recursion.
LEMMA LayoutSolves ==
  LayoutFn = [n \in 0 .. 4 |-> [m \in 0 .. 15 |-> LayoutStep(LayoutFn, n, m)]]
  <1>1. \A n \in 0 .. 4, m \in 0 .. 15 : LayoutFn[n][m] = IF m < 4 * SlotWords(n) THEN m + 18 - 4 * SlotWords(n) ELSE -1
    BY DEF LayoutFn
  <1>2. \A n \in 0 .. 4, m \in 0 .. 15 : LayoutFn[n][m] = LayoutStep(LayoutFn, n, m)
    <2>1. TAKE n \in 0 .. 4, m \in 0 .. 15
    <2>2. CASE n = 0
      BY <2>2, <1>1, SlotWordsAre, LayoutSizes DEF LayoutStep
    <2>3. CASE n = 1
      BY <2>3, <1>1, SlotWordsAre, LayoutSizes DEF LayoutStep
    <2>4. CASE n = 2
      BY <2>4, <1>1, SlotWordsAre, LayoutSizes DEF LayoutStep
    <2>5. CASE n = 3
      BY <2>5, <1>1, SlotWordsAre, LayoutSizes DEF LayoutStep
    <2>6. CASE n = 4
      BY <2>6, <1>1, SlotWordsAre, LayoutSizes DEF LayoutStep
    <2> QED
      BY <2>2, <2>3, <2>4, <2>5, <2>6
  <1> QED
    BY <1>2 DEF LayoutFn

\* No other function does.
LEMMA LayoutUnique ==
  ASSUME NEW F, F = [n \in 0 .. 4 |-> [m \in 0 .. 15 |-> LayoutStep(F, n, m)]]
  PROVE  F = LayoutFn
  <1>1. \A n \in 0 .. 4, m \in 0 .. 15 : F[n][m] = LayoutStep(F, n, m)
    OBVIOUS
  <1>2. \A n \in 0 .. 4, m \in 0 .. 15 : LayoutFn[n][m] = LayoutStep(LayoutFn, n, m)
    BY LayoutSolves
  <1>3. ASSUME NEW m \in 0 .. 15
        PROVE  F[0][m] = LayoutFn[0][m]
    <2>1. F[0][m] = LayoutStep(F, 0, m) /\ LayoutFn[0][m] = LayoutStep(LayoutFn, 0, m)
      BY <1>1, <1>2
    <2> QED
      BY <2>1 DEF LayoutStep
  <1>4. ASSUME NEW n \in 1 .. 4, \A m \in 0 .. 15 : F[n - 1][m] = LayoutFn[n - 1][m],
               NEW m \in 0 .. 15
        PROVE  F[n][m] = LayoutFn[n][m]
    <2>1. m < 4 * SlotWords(n) => m + 4 * Rz!DUnits(n) \in 0 .. 15
      BY SlotWordsAre
    <2>2. m < 4 * SlotWords(n) => F[n - 1][m + 4 * Rz!DUnits(n)] = LayoutFn[n - 1][m + 4 * Rz!DUnits(n)]
      BY <1>4, <2>1
    <2>3. /\ F[n][m] = LayoutStep(F, n, m) /\ LayoutFn[n][m] = LayoutStep(LayoutFn, n, m)
          /\ n # 0
      BY <1>1, <1>2
    <2> QED
      BY <2>2, <2>3 DEF LayoutStep, SlotWords
  <1>5. /\ \A m \in 0 .. 15 : F[1][m] = LayoutFn[1][m]
        /\ \A m \in 0 .. 15 : F[2][m] = LayoutFn[2][m]
        /\ \A m \in 0 .. 15 : F[3][m] = LayoutFn[3][m]
        /\ \A m \in 0 .. 15 : F[4][m] = LayoutFn[4][m]
    <2>1. \A m \in 0 .. 15 : F[1][m] = LayoutFn[1][m]
      BY <1>3, <1>4
    <2>2. \A m \in 0 .. 15 : F[2][m] = LayoutFn[2][m]
      BY <2>1, <1>4
    <2>3. \A m \in 0 .. 15 : F[3][m] = LayoutFn[3][m]
      BY <2>2, <1>4
    <2> QED
      BY <2>1, <2>2, <2>3, <1>4
  <1>8. \A n \in 0 .. 4 : \A m \in 0 .. 15 : F[n][m] = LayoutFn[n][m]
    BY <1>3, <1>5
  <1> QED
    BY <1>8 DEF LayoutFn

\* Where the bytes of a slot come from.
LEMMA ByteAtIs ==
  ASSUME NEW q \in 0 .. 4, NEW p \in 0 .. 15
  PROVE  Rz!ByteAt(q, p) = IF p < 4 * SlotWords(q) THEN p + 18 - 4 * SlotWords(q) ELSE -1
  <1> DEFINE At == CHOOSE F : F = [n \in 0 .. 4 |-> [m \in 0 .. 15 |-> LayoutStep(F, n, m)]]
  <1>1. Rz!ByteAt(q, p) = At[q][p]
    BY DEF Rz!ByteAt, LayoutStep
  <1>2. At = [n \in 0 .. 4 |-> [m \in 0 .. 15 |-> LayoutStep(At, n, m)]]
    BY LayoutSolves
  <1> HIDE DEF At
  <1>3. At = LayoutFn
    BY <1>2, LayoutUnique
  <1> QED
    BY <1>1, <1>3 DEF LayoutFn

\* So a round reads the bytes of its digits.
LEMMA LayoutHolds == Rz!LayoutExact
  <1> SUFFICES ASSUME NEW q \in 1 .. 5
               PROVE  LET pb == Rz!NextBo(q - 1)
                          last == 4 * Rz!HashWords(Rz!HashSize(q - 1))
                      IN /\ Rz!ByteAt(q - 1, pb) = 3 * q - 1
                         /\ q < 5 => \A n \in 1 .. 3 : Rz!ByteAt(q - 1, pb + n) = 3 * q + n - 1
                         /\ \A n \in 1 .. 4 : Rz!ByteAt(q - 1, last - n) = 18 - n
    BY DEF Rz!LayoutExact
  <1>1. CASE q = 1
    BY <1>1, ByteAtIs, SlotWordsAre DEF SlotWords
  <1>2. CASE q = 2
    BY <1>2, ByteAtIs, SlotWordsAre DEF SlotWords
  <1>3. CASE q = 3
    BY <1>3, ByteAtIs, SlotWordsAre DEF SlotWords
  <1>4. CASE q = 4
    BY <1>4, ByteAtIs, SlotWordsAre DEF SlotWords
  <1>5. CASE q = 5
    BY <1>5, ByteAtIs, SlotWordsAre DEF SlotWords
  <1> QED
    BY <1>1, <1>2, <1>3, <1>4, <1>5

\* At the fixed places where a round of Tromp's solver reads a slot of the round before
\* are, at the parameters of the code, the bytes of the digit it means.
THEOREM LayoutIsExact == Spec => []LayoutExact
  <1>1. LayoutExact
    BY LayoutHolds DEF LayoutExact
  <1> QED
    BY <1>1, PTL

-----------------------------------------------------------------------------
(* Words and rows.  What is built step by step is what its steps make of   *)
(* it, so the XOR of words is a group and that of rows a homomorphism.     *)

\* What holds of 0 and of each number if of the one before holds of all.
LEMMA CountUp ==
  ASSUME NEW N \in Nat, NEW T, 0 \in T, \A n \in 1 .. N : n - 1 \in T => n \in T
  PROVE  \A n \in 0 .. N : n \in T
  <1> DEFINE Bad == {n \in Nat : n <= N /\ n \notin T}
  <1> SUFFICES ASSUME Bad # {}
               PROVE  FALSE
    OBVIOUS
  <1>1. PICK n \in Bad : \A m \in Bad : n <= m
    BY LeastNumber
  <1>2. n # 0
    OBVIOUS
  <1>3. n \in 1 .. N /\ n - 1 \in Nat /\ n - 1 <= N
    BY <1>2
  <1>4. n - 1 \notin Bad
    BY <1>1, <1>3
  <1>5. n - 1 \in T
    BY <1>3, <1>4
  <1> QED
    BY <1>3, <1>5

\* F takes the steps G from a start up to the m-th, in S.
TakesSteps(F, m, S, start, G) ==
  F \in [0 .. m -> S] /\ F[0] = start /\ \A n \in 1 .. m : F[n] = G[n][F[n - 1]]

\* However many steps, there is a function that takes them.
LEMMA StepsExist ==
  ASSUME NEW N \in Nat, NEW S, NEW start \in S, NEW G \in [1 .. N -> [S -> S]]
  PROVE  \E F : TakesSteps(F, N, S, start, G)
  <1> DEFINE T == {m \in 0 .. N : \E F : TakesSteps(F, m, S, start, G)}
  <1>1. 0 \in T
    <2> DEFINE F == [n \in 0 .. 0 |-> start]
    <2>1. TakesSteps(F, 0, S, start, G)
      BY DEF TakesSteps
    <2>2. 0 \in 0 .. N
      OBVIOUS
    <2> HIDE DEF F
    <2> QED
      BY <2>1, <2>2
  <1>2. ASSUME NEW m \in 1 .. N, m - 1 \in T
        PROVE  m \in T
    <2>1. PICK E : TakesSteps(E, m - 1, S, start, G)
      BY <1>2
    <2> DEFINE F == [n \in 0 .. m |-> IF n = m THEN G[m][E[m - 1]] ELSE E[n]]
    <2>2. /\ E[m - 1] \in S /\ G[m] \in [S -> S] /\ G[m][E[m - 1]] \in S
          /\ \A n \in 0 .. m - 1 : E[n] \in S
      BY <2>1 DEF TakesSteps
    <2>3. F \in [0 .. m -> S]
      BY <2>2
    <2>4. F[0] = start
      BY <2>1 DEF TakesSteps
    <2>5. ASSUME NEW n \in 1 .. m
          PROVE  F[n] = G[n][F[n - 1]]
      <3>1. CASE n = m
        BY <3>1
      <3>2. CASE n # m
        <4>1. n \in 1 .. m - 1 /\ n - 1 \in 0 .. m - 1
          BY <3>2
        <4>2. E[n] = G[n][E[n - 1]]
          BY <2>1, <4>1 DEF TakesSteps
        <4> QED
          BY <4>1, <4>2
      <3> QED
        BY <3>1, <3>2
    <2> HIDE DEF F
    <2>6. TakesSteps(F, m, S, start, G)
      BY <2>3, <2>4, <2>5 DEF TakesSteps
    <2>7. m \in 0 .. N
      OBVIOUS
    <2> QED
      BY <2>6, <2>7
  <1> HIDE DEF T
  <1>3. \A n \in 0 .. N : n \in T
    BY <1>1, <1>2, CountUp
  <1>4. N \in T
    BY <1>3
  <1> QED
    BY <1>4 DEF T

-----------------------------------------------------------------------------
\* A power of two is the number of subsets of a finite set.
LEMMA PowerOfTwoType == \A n \in Nat : 2^n \in Nat
  <1> SUFFICES ASSUME NEW n \in Nat
               PROVE  2^n \in Nat
    OBVIOUS
  <1>1. IsFiniteSet(1 .. n) /\ Cardinality(1 .. n) = n
    BY FS_Interval
  <1>2. IsFiniteSet(SUBSET (1 .. n)) /\ Cardinality(SUBSET (1 .. n)) = 2^n
    BY <1>1, FS_SUBSET
  <1> QED
    BY <1>2, FS_CardinalityType

\* The subsets of 1 .. n + 1 are those of 1 .. n, without and with n + 1.
LEMMA PowerOfTwoDoubles == \A n \in Nat : 2^(n + 1) = 2 * 2^n
  <1> SUFFICES ASSUME NEW n \in Nat
               PROVE  2^(n + 1) = 2 * 2^n
    OBVIOUS
  <1> DEFINE A == SUBSET (1 .. n)
             B == {T \cup {n + 1} : T \in A}
  <1>1. IsFiniteSet(A) /\ Cardinality(A) = 2^n
    <2>1. IsFiniteSet(1 .. n) /\ Cardinality(1 .. n) = n
      BY FS_Interval
    <2> QED
      BY <2>1, FS_SUBSET
  <1>2. Cardinality(SUBSET (1 .. n + 1)) = 2^(n + 1)
    <2>1. IsFiniteSet(1 .. n + 1) /\ Cardinality(1 .. n + 1) = n + 1
      BY FS_Interval
    <2> QED
      BY <2>1, FS_SUBSET
  <1>3. n + 1 \notin 1 .. n /\ 1 .. n + 1 = (1 .. n) \cup {n + 1}
    OBVIOUS
  <1>4. SUBSET (1 .. n + 1) = A \cup B
    <2>1. ASSUME NEW T \in SUBSET (1 .. n + 1), n + 1 \in T
          PROVE  T \in B
      <3>1. T \ {n + 1} \in A
        BY <1>3
      <3>2. T = (T \ {n + 1}) \cup {n + 1}
        BY <2>1
      <3> QED
        BY <3>1, <3>2
    <2>2. ASSUME NEW T \in SUBSET (1 .. n + 1), n + 1 \notin T
          PROVE  T \in A
      BY <1>3, <2>2
    <2>3. A \cup B \subseteq SUBSET (1 .. n + 1)
      BY <1>3
    <2> QED
      BY <2>1, <2>2, <2>3
  <1>5. A \cap B = {}
    BY <1>3
  <1>6. IsFiniteSet(B) /\ Cardinality(B) = 2^n
    <2> DEFINE f == [T \in A |-> T \cup {n + 1}]
    <2>1. \A T, U \in A : T \cup {n + 1} = U \cup {n + 1} => T = U
      BY <1>3
    <2>2. f \in Bijection(A, B)
      <3>1. f \in [A -> B]
        OBVIOUS
      <3>2. \A T, U \in A : f[T] = f[U] => T = U
        BY <2>1
      <3>3. \A t \in B : \E T \in A : f[T] = t
        OBVIOUS
      <3> QED
        BY <3>1, <3>2, <3>3 DEF Bijection, Injection, Surjection, IsInjective
    <2> HIDE DEF A, B, f
    <2>3. ExistsBijection(A, B)
      BY <2>2 DEF ExistsBijection
    <2> QED
      BY <1>1, <2>3, FS_Bijection
  <1>7. Cardinality(A \cup B) = Cardinality(A) + Cardinality(B)
    <2>1. Cardinality(A \cup B) = Cardinality(A) + Cardinality(B) - Cardinality(A \cap B)
      BY <1>1, <1>6, FS_Union
    <2>2. Cardinality(A \cap B) = 0
      BY <1>5, FS_EmptySet
    <2>3. Cardinality(A) \in Nat /\ Cardinality(B) \in Nat
      BY <1>1, <1>6, FS_CardinalityType
    <2> HIDE DEF A, B
    <2> QED
      BY <2>1, <2>2, <2>3
  <1>8. 2^n \in Nat
    BY PowerOfTwoType
  <1> HIDE DEF A, B
  <1>9. 2^(n + 1) = 2^n + 2^n
    BY <1>1, <1>2, <1>4, <1>6, <1>7
  <1>10. \A m \in Nat : m + m = 2 * m
    OBVIOUS
  <1> QED
    BY <1>8, <1>9, <1>10

\* A power of two is at least one.
LEMMA PowerOfTwoPositive == \A n \in Nat : 2^n \in Nat /\ 1 <= 2^n
  <1> SUFFICES ASSUME NEW n \in Nat
               PROVE  2^n \in Nat /\ 1 <= 2^n
    OBVIOUS
  <1>1. IsFiniteSet(1 .. n) /\ Cardinality(1 .. n) = n
    BY FS_Interval
  <1>2. IsFiniteSet(SUBSET (1 .. n)) /\ Cardinality(SUBSET (1 .. n)) = 2^n
    BY <1>1, FS_SUBSET
  <1>3. SUBSET (1 .. n) # {}
    OBVIOUS
  <1>4. 2^n \in Nat /\ 2^n # 0
    BY <1>2, <1>3, FS_EmptySet, FS_CardinalityType
  <1> QED
    BY <1>4


LEMMA PowerOfTwoZero == 2^0 = 1
  <1>1. IsFiniteSet({}) /\ Cardinality({}) = 0
    BY FS_EmptySet
  <1>2. Cardinality(SUBSET {}) = 2^Cardinality({})
    BY <1>1, FS_SUBSET
  <1>3. SUBSET {} = {{}} /\ Cardinality({{}}) = 1
    BY FS_Singleton
  <1> QED
    BY <1>1, <1>2, <1>3

-----------------------------------------------------------------------------
\* The parameters of a row.
LEMMA WordNumbers == K \in Nat /\ K >= 1 /\ Bits \in Nat /\ Bits >= 1 /\ 2^Bits \in Nat /\ 1 <= 2^Bits
  BY WordsAssumption, PowerOfTwoPositive

\* The table of the low b bits, from that of the bits above the last.
TableSet == [Word -> [Word -> Nat]]
TableStep(t) == [x \in Word |-> [y \in Word |-> 2 * t[x \div 2][y \div 2] + ((x + y) % 2)]]
NoBits == [x \in Word |-> [y \in Word |-> 0]]

LEMMA HalfWord == \A x \in Word : x \div 2 \in Word
  BY WordNumbers DEF Word

LEMMA XorBitsUnfold ==
  /\ XorBits[0] = NoBits
  /\ \A b \in 1 .. Bits : XorBits[b] = TableStep(XorBits[b - 1])
  <1> DEFINE G == [b \in 1 .. Bits |-> [t \in TableSet |-> TableStep(t)]]
             Body(F) == [b \in 0 .. Bits |-> [x \in Word |-> [y \in Word |->
               IF b = 0 THEN 0 ELSE 2 * F[b - 1][x \div 2][y \div 2] + ((x + y) % 2)]]]
  <1>1. G \in [1 .. Bits -> [TableSet -> TableSet]] /\ NoBits \in TableSet
    <2>1. ASSUME NEW t \in TableSet
          PROVE  TableStep(t) \in TableSet
      <3>1. ASSUME NEW x \in Word, NEW y \in Word
            PROVE  2 * t[x \div 2][y \div 2] + ((x + y) % 2) \in Nat
        <4>1. x \in Nat /\ y \in Nat
          BY DEF Word
        <4>2. t[x \div 2][y \div 2] \in Nat
          BY HalfWord DEF TableSet
        <4> QED
          BY <4>1, <4>2
      <3> QED
        BY <3>1 DEF TableSet, TableStep
    <2> QED
      BY <2>1 DEF NoBits, TableSet
  <1>2. PICK F : TakesSteps(F, Bits, TableSet, NoBits, G)
    <2> HIDE DEF G
    <2> QED
      BY <1>1, StepsExist, WordNumbers
  <1>3. /\ F \in [0 .. Bits -> TableSet] /\ F[0] = NoBits
        /\ \A b \in 1 .. Bits : F[b - 1] \in TableSet /\ F[b] = TableStep(F[b - 1])
    <2>1. \A b \in 1 .. Bits : b - 1 \in 0 .. Bits
      BY WordNumbers
    <2> QED
      BY <1>2, <2>1 DEF TakesSteps
  <1>8. F = Body(F)
    <2>1. ASSUME NEW b \in 0 .. Bits
          PROVE  F[b] = Body(F)[b]
      <3>1. CASE b = 0
        BY <3>1, <1>3 DEF NoBits
      <3>2. CASE b # 0
        <4>1. b \in 1 .. Bits
          BY <3>2, WordNumbers
        <4>2. F[b] = TableStep(F[b - 1])
          BY <4>1, <1>3
        <4> QED
          BY <3>2, <4>2 DEF TableStep
      <3> QED
        BY <3>1, <3>2
    <2>2. F = [b \in 0 .. Bits |-> F[b]] /\ Body(F) = [b \in 0 .. Bits |-> Body(F)[b]]
      BY <1>3
    <2> HIDE DEF Body
    <2> QED
      BY <2>1, <2>2
  <1>4. XorBits = Body(XorBits)
    <2>1. XorBits = CHOOSE H : H = Body(H)
      BY DEF XorBits
    <2> HIDE DEF Body
    <2> QED
      BY <1>8, <2>1
  <1>5. \A b \in 0 .. Bits : XorBits[b] = Body(XorBits)[b]
    <2> HIDE DEF Body
    <2> QED
      BY <1>4
  <1>6. XorBits[0] = NoBits
    BY <1>5, WordNumbers DEF NoBits
  <1>7. ASSUME NEW b \in 1 .. Bits
        PROVE  XorBits[b] = TableStep(XorBits[b - 1])
    <2>1. b \in 0 .. Bits /\ b # 0
      OBVIOUS
    <2> QED
      BY <1>5, <2>1 DEF TableStep
  <1> QED
    BY <1>6, <1>7

\* A word of b bits, and its bits but the last.
Low(b) == 0 .. 2^b - 1

LEMMA LowHalf ==
  ASSUME NEW b \in Nat, NEW x \in Low(b + 1)
  PROVE  x \div 2 \in Low(b) /\ x \in Nat /\ x = 2 * (x \div 2) + (x % 2) /\ x % 2 \in 0 .. 1
  <1>1. 2^b \in Nat /\ 2^(b + 1) = 2 * 2^b
    BY PowerOfTwoPositive, PowerOfTwoDoubles
  <1>2. \A p \in Nat : \A y \in 0 .. 2 * p - 1 : y \div 2 \in 0 .. p - 1
    OBVIOUS
  <1>3. \A y \in Nat : y = 2 * (y \div 2) + (y % 2) /\ y % 2 \in 0 .. 1
    OBVIOUS
  <1>4. x \in 0 .. 2 * 2^b - 1
    BY <1>1 DEF Low
  <1> HIDE DEF Low
  <1>5. x \in Nat
    BY <1>1, <1>4
  <1>6. x \div 2 \in 0 .. 2^b - 1
    BY <1>1, <1>2, <1>4
  <1> QED
    BY <1>3, <1>5, <1>6 DEF Low

LEMMA LowIsWord == ASSUME NEW b \in 0 .. Bits PROVE Low(b) \subseteq Word
  <1> DEFINE T == {c \in 0 .. Bits - b : 2^b <= 2^(b + c)}
  <1>1. Bits - b \in Nat
    BY WordNumbers
  <1>2. 0 \in T
    BY WordNumbers, PowerOfTwoPositive
  <1>3. ASSUME NEW c \in 1 .. Bits - b, c - 1 \in T
        PROVE  c \in T
    <2>1. b + (c - 1) \in Nat /\ (b + (c - 1)) + 1 = b + c
      OBVIOUS
    <2>2. 2^(b + c) = 2 * 2^(b + (c - 1)) /\ 2^(b + (c - 1)) \in Nat /\ 2^b \in Nat
      BY <2>1, PowerOfTwoPositive, PowerOfTwoDoubles
    <2> QED
      BY <1>3, <2>2
  <1> HIDE DEF T
  <1>4. \A c \in 0 .. Bits - b : c \in T
    BY <1>1, <1>2, <1>3, CountUp
  <1>5. Bits - b \in T /\ b + (Bits - b) = Bits
    BY <1>1, <1>4, WordNumbers
  <1>6. 2^b <= 2^Bits
    BY <1>5 DEF T
  <1> QED
    BY <1>6, WordNumbers, PowerOfTwoPositive DEF Low, Word

\* The laws of XOR on words of b bits.
XorLaws(b) ==
  \A x, y, z \in Low(b) :
    /\ XorBits[b][x][y] \in Low(b)
    /\ XorBits[b][x][y] = XorBits[b][y][x]
    /\ XorBits[b][XorBits[b][x][y]][z] = XorBits[b][x][XorBits[b][y][z]]
    /\ XorBits[b][x][x] = 0
    /\ XorBits[b][x][0] = x

\* XOR with the last bit apart.
LEMMA XorBitsSplit ==
  ASSUME NEW b \in Nat, b + 1 \in 1 .. Bits, XorLaws(b), NEW x \in Low(b + 1), NEW y \in Low(b + 1)
  PROVE  LET u == XorBits[b + 1][x][y]
         IN /\ u \in Low(b + 1)
            /\ u \div 2 = XorBits[b][x \div 2][y \div 2]
            /\ u % 2 = ((x % 2) + (y % 2)) % 2
  <1> DEFINE u == XorBits[b + 1][x][y]
             h == XorBits[b][x \div 2][y \div 2]
  <1>1. x \in Word /\ y \in Word
    BY LowIsWord
  <1>2. u = 2 * h + ((x + y) % 2)
    <2>1. XorBits[b + 1] = TableStep(XorBits[b])
      BY XorBitsUnfold
    <2> QED
      BY <1>1, <2>1 DEF TableStep
  <1>3. x \div 2 \in Low(b) /\ y \div 2 \in Low(b) /\ x \in Nat /\ y \in Nat
    BY LowHalf
  <1>4. h \in Low(b)
    BY <1>3 DEF XorLaws
  <1> HIDE DEF u, h
  <1>5. 2^b \in Nat /\ 2^(b + 1) = 2 * 2^b
    BY PowerOfTwoPositive, PowerOfTwoDoubles
  <1>6. h \in Nat /\ h <= 2^b - 1
    BY <1>4, <1>5 DEF Low
  <1>7. (x + y) % 2 \in 0 .. 1 /\ (x + y) % 2 = ((x % 2) + (y % 2)) % 2
    BY <1>3
  <1>8. \A p \in Nat, n \in Nat, q \in 0 .. 1 : n <= p - 1 => 2 * n + q \in 0 .. 2 * p - 1
    OBVIOUS
  <1>9. \A n \in Nat, q \in 0 .. 1 : (2 * n + q) \div 2 = n /\ (2 * n + q) % 2 = q
    OBVIOUS
  <1>10. u \in 0 .. 2 * 2^b - 1
    BY <1>2, <1>5, <1>6, <1>7, <1>8
  <1>11. u \in Low(b + 1)
    BY <1>5, <1>10 DEF Low
  <1>12. u \div 2 = h /\ u % 2 = ((x % 2) + (y % 2)) % 2
    BY <1>2, <1>6, <1>7, <1>9
  <1> QED
    BY <1>11, <1>12 DEF u, h

\* A word is its half and its last bit.
LEMMA SameHalves ==
  ASSUME NEW b \in Nat, NEW x \in Low(b + 1), NEW y \in Low(b + 1),
         x \div 2 = y \div 2, x % 2 = y % 2
  PROVE  x = y
  BY LowHalf

\* They hold of no bits, and so of any number.
LEMMA XorLawsNext ==
  ASSUME NEW b \in Nat, b + 1 \in 1 .. Bits, XorLaws(b)
  PROVE  XorLaws(b + 1)
  <1> SUFFICES ASSUME NEW x \in Low(b + 1), NEW y \in Low(b + 1), NEW z \in Low(b + 1)
               PROVE  /\ XorBits[b + 1][x][y] \in Low(b + 1)
                      /\ XorBits[b + 1][x][y] = XorBits[b + 1][y][x]
                      /\ XorBits[b + 1][XorBits[b + 1][x][y]][z]
                           = XorBits[b + 1][x][XorBits[b + 1][y][z]]
                      /\ XorBits[b + 1][x][x] = 0
                      /\ XorBits[b + 1][x][0] = x
    BY DEF XorLaws
  <1>1. \A a \in Low(b + 1) : /\ a \div 2 \in Low(b) /\ a \in Nat /\ a % 2 \in 0 .. 1
                              /\ a = 2 * (a \div 2) + (a % 2)
    BY LowHalf
  <1>2. 0 \in Low(b + 1) /\ 0 \in Low(b) /\ 0 \div 2 = 0 /\ 0 % 2 = 0
    BY PowerOfTwoPositive DEF Low
  <1>3. \A a, c \in Low(b + 1) :
          /\ XorBits[b + 1][a][c] \in Low(b + 1)
          /\ XorBits[b + 1][a][c] \div 2 = XorBits[b][a \div 2][c \div 2]
          /\ XorBits[b + 1][a][c] % 2 = ((a % 2) + (c % 2)) % 2
    BY XorBitsSplit
  <1>4. \A a, c \in Low(b + 1) : a \div 2 = c \div 2 /\ a % 2 = c % 2 => a = c
    BY SameHalves
  <1> DEFINE bits == XorBits[b]
             more == XorBits[b + 1]
  <1>5. \A p, q, s \in Low(b) :
          /\ bits[p][q] \in Low(b)
          /\ bits[p][q] = bits[q][p]
          /\ bits[bits[p][q]][s] = bits[p][bits[q][s]]
          /\ bits[p][p] = 0
          /\ bits[p][0] = p
    BY DEF XorLaws
  <1>6. \A p, q, s \in 0 .. 1 :
          /\ (p + q) % 2 = (q + p) % 2
          /\ (((p + q) % 2) + s) % 2 = (p + ((q + s) % 2)) % 2
          /\ (p + p) % 2 = 0 /\ (p + 0) % 2 = p
    OBVIOUS
  <1>7. \A a, c \in Low(b + 1) :
          /\ more[a][c] \in Low(b + 1)
          /\ more[a][c] \div 2 = bits[a \div 2][c \div 2]
          /\ more[a][c] % 2 = ((a % 2) + (c % 2)) % 2
    BY <1>3
  <1> HIDE DEF bits, more
  <1>8. PICK xh \in Low(b), yh \in Low(b), zh \in Low(b) :
          xh = x \div 2 /\ yh = y \div 2 /\ zh = z \div 2
    BY <1>1
  <1>9. PICK xb \in 0 .. 1, yb \in 0 .. 1, zb \in 0 .. 1 : xb = x % 2 /\ yb = y % 2 /\ zb = z % 2
    BY <1>1
  <1>10. PICK u \in Low(b + 1), v \in Low(b + 1), w \in Low(b + 1) :
           u = more[x][y] /\ v = more[y][z] /\ w = more[y][x]
    BY <1>7
  <1>11. /\ u \div 2 = bits[xh][yh] /\ u % 2 = (xb + yb) % 2
         /\ v \div 2 = bits[yh][zh] /\ v % 2 = (yb + zb) % 2
         /\ w \div 2 = bits[yh][xh] /\ w % 2 = (yb + xb) % 2
    BY <1>7, <1>8, <1>9, <1>10
  <1>12. u = w
    <2>1. u \div 2 = w \div 2
      BY <1>5, <1>11
    <2>2. u % 2 = w % 2
      BY <1>6, <1>11
    <2> QED
      BY <1>4, <2>1, <2>2
  <1>13. more[u][z] = more[x][v]
    <2>1. /\ more[u][z] \in Low(b + 1) /\ more[x][v] \in Low(b + 1)
          /\ more[u][z] \div 2 = bits[u \div 2][z \div 2]
          /\ more[u][z] % 2 = ((u % 2) + (z % 2)) % 2
          /\ more[x][v] \div 2 = bits[x \div 2][v \div 2]
          /\ more[x][v] % 2 = ((x % 2) + (v % 2)) % 2
      BY <1>7
    <2>2. more[u][z] \div 2 = more[x][v] \div 2
      <3>1. more[u][z] \div 2 = bits[bits[xh][yh]][zh] /\ more[x][v] \div 2 = bits[xh][bits[yh][zh]]
        BY <2>1, <1>8, <1>11
      <3>2. bits[bits[xh][yh]][zh] = bits[xh][bits[yh][zh]]
        BY <1>5
      <3> QED
        BY <3>1, <3>2
    <2>3. more[u][z] % 2 = more[x][v] % 2
      <3>1. /\ more[u][z] % 2 = (((xb + yb) % 2) + zb) % 2
            /\ more[x][v] % 2 = (xb + ((yb + zb) % 2)) % 2
        BY <2>1, <1>9, <1>11, Zenon
      <3> QED
        BY <3>1, <1>6
    <2> QED
      BY <1>4, <2>1, <2>2, <2>3
  <1>14. more[x][x] = 0
    <2>1. more[x][x] \in Low(b + 1) /\ more[x][x] \div 2 = bits[xh][xh] /\ more[x][x] % 2 = (xb + xb) % 2
      BY <1>7, <1>8, <1>9
    <2>2. bits[xh][xh] = 0 /\ (xb + xb) % 2 = 0
      BY <1>5, <1>6
    <2> QED
      BY <1>2, <1>4, <2>1, <2>2
  <1>15. more[x][0] = x
    <2>1. more[x][0] \in Low(b + 1) /\ more[x][0] \div 2 = bits[xh][0] /\ more[x][0] % 2 = (xb + 0) % 2
      BY <1>2, <1>7, <1>8, <1>9
    <2>2. bits[xh][0] = xh /\ (xb + 0) % 2 = xb
      BY <1>5, <1>6
    <2> QED
      BY <1>4, <1>8, <1>9, <2>1, <2>2
  <1>16. /\ more[x][y] \in Low(b + 1) /\ more[x][y] = more[y][x]
         /\ more[more[x][y]][z] = more[x][more[y][z]]
    BY <1>10, <1>12, <1>13
  <1> QED
    BY <1>14, <1>15, <1>16 DEF more

\* So XOR makes of the words a group in which each is its own inverse.
LEMMA XorWordLaws ==
  /\ 0 \in Word
  /\ \A x, y \in Word : XorWord(x, y) \in Word /\ XorWord(x, y) = XorWord(y, x)
  /\ \A x, y, z \in Word : XorWord(XorWord(x, y), z) = XorWord(x, XorWord(y, z))
  /\ \A x \in Word : XorWord(x, x) = 0 /\ XorWord(x, 0) = x /\ XorWord(0, x) = x
  /\ \A x, y \in Word : XorWord(x, y) = 0 => x = y
  <1> DEFINE T == {b \in 0 .. Bits : XorLaws(b)}
  <1>1. 0 \in T
    <2>1. Low(0) = {0} /\ 0 \in Word /\ 0 \in 0 .. Bits
      BY PowerOfTwoZero, WordNumbers DEF Low, Word
    <2>2. XorBits[0][0][0] = 0
      BY <2>1, XorBitsUnfold DEF NoBits
    <2> QED
      BY <2>1, <2>2 DEF XorLaws
  <1>2. ASSUME NEW b \in 1 .. Bits, b - 1 \in T
        PROVE  b \in T
    <2>1. b - 1 \in Nat /\ (b - 1) + 1 = b /\ XorLaws(b - 1)
      BY <1>2
    <2>2. XorLaws((b - 1) + 1)
      BY <2>1, XorLawsNext
    <2> QED
      BY <2>1, <2>2
  <1> HIDE DEF T
  <1>3. \A b \in 0 .. Bits : b \in T
    BY <1>1, <1>2, CountUp, WordNumbers
  <1>4. XorLaws(Bits) /\ Low(Bits) = Word
    BY <1>3, WordNumbers DEF T, Low, Word
  <1>5. \A x, y : XorWord(x, y) = XorBits[Bits][x][y]
    BY DEF XorWord, XorTable
  <1>6. 0 \in Word
    BY WordNumbers DEF Word
  <1>7. /\ \A x, y \in Word : XorWord(x, y) \in Word /\ XorWord(x, y) = XorWord(y, x)
        /\ \A x, y, z \in Word : XorWord(XorWord(x, y), z) = XorWord(x, XorWord(y, z))
        /\ \A x \in Word : XorWord(x, x) = 0 /\ XorWord(x, 0) = x
    <2>1. \A x, y, z \in Word :
            /\ XorBits[Bits][x][y] \in Word
            /\ XorBits[Bits][x][y] = XorBits[Bits][y][x]
            /\ XorBits[Bits][XorBits[Bits][x][y]][z] = XorBits[Bits][x][XorBits[Bits][y][z]]
            /\ XorBits[Bits][x][x] = 0
            /\ XorBits[Bits][x][0] = x
      BY <1>4 DEF XorLaws
    <2>2. \A x, y \in Word : XorBits[Bits][x][y] \in Word /\ XorBits[Bits][x][y] = XorBits[Bits][y][x]
      BY <2>1
    <2>3. \A x \in Word : XorBits[Bits][x][x] = 0 /\ XorBits[Bits][x][0] = x
      BY <2>1
    <2>4. \A x, y \in Word : XorWord(x, y) \in Word /\ XorWord(x, y) = XorWord(y, x)
      BY <1>5, <2>2
    <2>5. \A x \in Word : XorWord(x, x) = 0 /\ XorWord(x, 0) = x
      BY <1>5, <2>3
    <2>6. ASSUME NEW x \in Word, NEW y \in Word, NEW z \in Word
          PROVE  XorWord(XorWord(x, y), z) = XorWord(x, XorWord(y, z))
      <3>1. XorBits[Bits][XorBits[Bits][x][y]][z] = XorBits[Bits][x][XorBits[Bits][y][z]]
        BY <2>1
      <3> QED
        BY <1>5, <3>1
    <2> QED
      BY <2>4, <2>5, <2>6
  <1>8. \A x \in Word : XorWord(0, x) = x
    BY <1>6, <1>7
  <1>9. ASSUME NEW x \in Word, NEW y \in Word, XorWord(x, y) = 0
        PROVE  x = y
    <2>1. XorWord(XorWord(x, y), y) = x
      BY <1>7
    <2> QED
      BY <1>8, <1>9, <2>1
  <1> QED
    BY <1>6, <1>7, <1>8, <1>9

-----------------------------------------------------------------------------
\* The rows.
Row == [1 .. K + 1 -> Word]

LEMMA XorSeqLaws ==
  /\ ZeroRow \in Row
  /\ \A g, h \in Row : XorSeq(g, h) \in Row /\ XorSeq(g, h) = XorSeq(h, g)
  /\ \A g, h, f \in Row : XorSeq(XorSeq(g, h), f) = XorSeq(g, XorSeq(h, f))
  /\ \A g \in Row : XorSeq(g, g) = ZeroRow /\ XorSeq(g, ZeroRow) = g /\ XorSeq(ZeroRow, g) = g
  /\ \A g, h \in Row : \A p \in 1 .. K + 1 : XorSeq(g, h)[p] = XorWord(g[p], h[p])
  <1>1. ZeroRow \in Row
    BY XorWordLaws DEF ZeroRow, Row
  <1>2. \A g \in Row : DOMAIN g = 1 .. K + 1 /\ \A p \in 1 .. K + 1 : g[p] \in Word
    BY DEF Row
  <1>3. \A p \in 1 .. K + 1 : ZeroRow[p] = 0
    BY DEF ZeroRow
  <1>4. \A g, h \in Row : /\ XorSeq(g, h) \in Row
                          /\ \A p \in 1 .. K + 1 : XorSeq(g, h)[p] = XorWord(g[p], h[p])
    BY <1>2, XorWordLaws DEF XorSeq, Row
  <1>5. \A g, h \in Row : (\A p \in 1 .. K + 1 : g[p] = h[p]) => g = h
    <2>1. SUFFICES ASSUME NEW g \in Row, NEW h \in Row, \A p \in 1 .. K + 1 : g[p] = h[p]
                   PROVE  g = h
      OBVIOUS
    <2>2. g = [p \in 1 .. K + 1 |-> g[p]] /\ h = [p \in 1 .. K + 1 |-> h[p]]
      BY DEF Row
    <2> QED
      BY <2>1, <2>2
  <1>6. \A g, h \in Row : XorSeq(g, h) = XorSeq(h, g)
    BY <1>2, <1>4, <1>5, XorWordLaws
  <1>7. ASSUME NEW g \in Row, NEW h \in Row, NEW f \in Row
        PROVE  XorSeq(XorSeq(g, h), f) = XorSeq(g, XorSeq(h, f))
    <2>1. XorSeq(g, h) \in Row /\ XorSeq(h, f) \in Row
      BY <1>4
    <2>2. XorSeq(XorSeq(g, h), f) \in Row /\ XorSeq(g, XorSeq(h, f)) \in Row
      BY <2>1, <1>4
    <2>3. ASSUME NEW p \in 1 .. K + 1
          PROVE  XorSeq(XorSeq(g, h), f)[p] = XorSeq(g, XorSeq(h, f))[p]
      <3>1. /\ XorSeq(XorSeq(g, h), f)[p] = XorWord(XorWord(g[p], h[p]), f[p])
            /\ XorSeq(g, XorSeq(h, f))[p] = XorWord(g[p], XorWord(h[p], f[p]))
        BY <1>4, <2>1
      <3> QED
        BY <3>1, <1>2, XorWordLaws
    <2> QED
      BY <1>5, <2>2, <2>3
  <1>8. ASSUME NEW g \in Row
        PROVE  XorSeq(g, g) = ZeroRow /\ XorSeq(g, ZeroRow) = g /\ XorSeq(ZeroRow, g) = g
    <2>1. XorSeq(g, g) \in Row /\ XorSeq(g, ZeroRow) \in Row /\ XorSeq(ZeroRow, g) \in Row
      BY <1>1, <1>4
    <2>2. \A p \in 1 .. K + 1 : /\ XorSeq(g, g)[p] = ZeroRow[p]
                                /\ XorSeq(g, ZeroRow)[p] = g[p] /\ XorSeq(ZeroRow, g)[p] = g[p]
      BY <1>1, <1>2, <1>3, <1>4, XorWordLaws
    <2> QED
      BY <1>1, <1>5, <2>1, <2>2
  <1> QED
    BY <1>1, <1>4, <1>6, <1>7, <1>8

\* X has the XOR of the rows of the first leaves of v, place by place.
RowsUpTo(X, d, v) ==
  /\ X \in [0 .. Len(v) -> Row]
  /\ X[0] = ZeroRow
  /\ \A n \in 1 .. Len(v) : X[n] = XorSeq(X[n - 1], d[v[n]])

\* The rows of the leaves in L are rows.
HasRows(d, L) == \A l \in L : d[l] \in Row

\* RowOf takes the last of them.
LEMMA RowOfIs ==
  ASSUME NEW d, NEW L, HasRows(d, L), NEW v \in Seq(L)
  PROVE  \E X : RowsUpTo(X, d, v) /\ RowOf(d, v) = X[Len(v)]
  <1> DEFINE N == Len(v)
             G == [n \in 1 .. N |-> [g \in Row |-> XorSeq(g, d[v[n]])]]
             Body(F) == [n \in 0 .. N |-> IF n = 0 THEN ZeroRow ELSE XorSeq(F[n - 1], d[v[n]])]
             H == CHOOSE F : F = Body(F)
  <1>1. N \in Nat /\ \A n \in 1 .. N : d[v[n]] \in Row
    <2>1. N \in Nat /\ \A n \in 1 .. N : v[n] \in L
      BY LenProperties, ElementOfSeq
    <2> QED
      BY <2>1 DEF HasRows
  <1>2. G \in [1 .. N -> [Row -> Row]] /\ ZeroRow \in Row
    <2>1. \A n \in 1 .. N : \A g \in Row : XorSeq(g, d[v[n]]) \in Row
      BY <1>1, XorSeqLaws
    <2> HIDE DEF N
    <2> QED
      BY <2>1, XorSeqLaws
  <1>3. PICK F : TakesSteps(F, N, Row, ZeroRow, G)
    <2> HIDE DEF G, N
    <2> QED
      BY <1>1, <1>2, StepsExist
  <1> HIDE DEF N
  <1>4. F = Body(F)
    <2>1. ASSUME NEW n \in 0 .. N
          PROVE  F[n] = Body(F)[n]
      <3>1. CASE n = 0
        BY <3>1, <1>3 DEF TakesSteps
      <3>2. CASE n # 0
        <4>1. n \in 1 .. N /\ n - 1 \in 0 .. N
          BY <3>2, <1>1
        <4>2. F[n] = XorSeq(F[n - 1], d[v[n]])
          BY <4>1, <1>3 DEF TakesSteps
        <4> QED
          BY <3>2, <4>2
      <3> QED
        BY <3>1, <3>2
    <2>2. F = [n \in 0 .. N |-> F[n]] /\ Body(F) = [n \in 0 .. N |-> Body(F)[n]]
      BY <1>3 DEF TakesSteps
    <2> HIDE DEF Body
    <2> QED
      BY <2>1, <2>2
  <1>5. H = Body(H)
    <2> HIDE DEF Body
    <2> QED
      BY <1>4
  <1>6. RowOf(d, v) = H[Len(v)]
    BY DEF RowOf, N
  <1> HIDE DEF H
  <1>7. H[0] = ZeroRow /\ \A n \in 1 .. N : H[n] = XorSeq(H[n - 1], d[v[n]])
    <2>1. \A n \in 0 .. N : H[n] = Body(H)[n]
      <3> HIDE DEF Body
      <3> QED
        BY <1>5
    <2> QED
      BY <1>1, <2>1
  <1>8. \A n \in 0 .. N : H[n] \in Row
    <2> DEFINE T == {n \in 0 .. N : H[n] \in Row}
    <2>1. 0 \in T
      BY <1>1, <1>2, <1>7
    <2>2. ASSUME NEW n \in 1 .. N, n - 1 \in T
          PROVE  n \in T
      BY <1>1, <1>7, <2>2, XorSeqLaws
    <2> HIDE DEF T
    <2>3. \A n \in 0 .. N : n \in T
      BY <1>1, <2>1, <2>2, CountUp
    <2> QED
      BY <2>3 DEF T
  <1>9. H = [n \in 0 .. N |-> H[n]]
    <2>1. Body(H) = [n \in 0 .. N |-> Body(H)[n]]
      OBVIOUS
    <2> HIDE DEF Body
    <2> QED
      BY <1>5, <2>1
  <1>10. RowsUpTo(H, d, v)
    BY <1>7, <1>8, <1>9 DEF RowsUpTo, N
  <1> QED
    BY <1>6, <1>10

\* The XOR of the rows of two lists, one behind the other, is that of their XORs.
LEMMA RowOfJoined ==
  ASSUME NEW d, NEW L, HasRows(d, L), NEW v \in Seq(L), NEW w \in Seq(L)
  PROVE  RowOf(d, v \o w) = XorSeq(RowOf(d, v), RowOf(d, w))
  <1>1. v \o w \in Seq(L) /\ Len(v) \in Nat /\ Len(w) \in Nat /\ Len(v \o w) = Len(v) + Len(w)
    BY ConcatProperties, LenProperties
  <1>2. PICK X : RowsUpTo(X, d, v) /\ RowOf(d, v) = X[Len(v)]
    BY RowOfIs
  <1>3. PICK Y : RowsUpTo(Y, d, w) /\ RowOf(d, w) = Y[Len(w)]
    BY RowOfIs
  <1>4. PICK Z : RowsUpTo(Z, d, v \o w) /\ RowOf(d, v \o w) = Z[Len(v \o w)]
    BY <1>1, RowOfIs
  <1>5. /\ \A n \in 1 .. Len(v) : (v \o w)[n] = v[n] /\ v[n] \in L
        /\ \A n \in 1 .. Len(w) : (v \o w)[Len(v) + n] = w[n] /\ w[n] \in L
    BY ConcatProperties, ElementOfSeq
  <1> DEFINE N == Len(v)
             M == Len(w)
  <1>6. \A n \in 0 .. N : Z[n] = X[n]
    <2> DEFINE T == {n \in 0 .. N : Z[n] = X[n]}
    <2>1. 0 \in T
      BY <1>1, <1>2, <1>4 DEF RowsUpTo
    <2>2. ASSUME NEW n \in 1 .. N, n - 1 \in T
          PROVE  n \in T
      <3>1. n \in 1 .. Len(v \o w)
        BY <1>1
      <3>2. Z[n] = XorSeq(Z[n - 1], d[(v \o w)[n]]) /\ X[n] = XorSeq(X[n - 1], d[v[n]])
        BY <1>2, <1>4, <3>1 DEF RowsUpTo
      <3> QED
        BY <1>5, <2>2, <3>2
    <2> HIDE DEF T
    <2>3. \A n \in 0 .. N : n \in T
      BY <1>1, <2>1, <2>2, CountUp
    <2> QED
      BY <2>3 DEF T
  <1>7. \A n \in 0 .. M : Z[N + n] = XorSeq(X[N], Y[n])
    <2> DEFINE T == {n \in 0 .. M : Z[N + n] = XorSeq(X[N], Y[n])}
    <2>1. X[N] \in Row /\ Y[0] = ZeroRow /\ \A n \in 0 .. M : Y[n] \in Row
      BY <1>1, <1>2, <1>3 DEF RowsUpTo
    <2>2. 0 \in T
      <3>1. Z[N + 0] = X[N]
        BY <1>1, <1>6
      <3> QED
        BY <1>1, <2>1, <3>1, XorSeqLaws
    <2>3. ASSUME NEW n \in 1 .. M, n - 1 \in T
          PROVE  n \in T
      <3>1. N + n \in 1 .. Len(v \o w) /\ (N + n) - 1 = N + (n - 1) /\ n - 1 \in 0 .. M
        BY <1>1
      <3>2. Z[N + n] = XorSeq(Z[N + (n - 1)], d[(v \o w)[N + n]]) /\ Y[n] = XorSeq(Y[n - 1], d[w[n]])
        BY <1>3, <1>4, <3>1 DEF RowsUpTo
      <3>3. (v \o w)[N + n] = w[n] /\ d[w[n]] \in Row /\ Y[n - 1] \in Row
        BY <1>5, <2>1, <3>1 DEF HasRows
      <3>4. Z[N + (n - 1)] = XorSeq(X[N], Y[n - 1])
        BY <2>3
      <3>5. Z[N + n] = XorSeq(XorSeq(X[N], Y[n - 1]), d[w[n]])
        BY <3>2, <3>3, <3>4
      <3> QED
        BY <2>1, <3>2, <3>3, <3>5, XorSeqLaws
    <2> HIDE DEF T
    <2>4. \A n \in 0 .. M : n \in T
      BY <1>1, <2>2, <2>3, CountUp
    <2> QED
      BY <2>4 DEF T
  <1> QED
    BY <1>1, <1>2, <1>3, <1>4, <1>7

\* It is a row, and that of one leaf is its own.
LEMMA RowOfType ==
  ASSUME NEW d, NEW L, HasRows(d, L), NEW v \in Seq(L)
  PROVE  RowOf(d, v) \in Row
  <1>1. PICK X : RowsUpTo(X, d, v) /\ RowOf(d, v) = X[Len(v)]
    BY RowOfIs
  <1>2. Len(v) \in 0 .. Len(v)
    BY LenProperties
  <1> QED
    BY <1>1, <1>2 DEF RowsUpTo

LEMMA RowOfOne ==
  ASSUME NEW d, NEW L, HasRows(d, L), NEW l \in L
  PROVE  RowOf(d, <<l>>) = d[l]
  <1>1. <<l>> \in Seq(L) /\ Len(<<l>>) = 1 /\ <<l>>[1] = l
    OBVIOUS
  <1>2. PICK X : RowsUpTo(X, d, <<l>>) /\ RowOf(d, <<l>>) = X[1]
    BY <1>1, RowOfIs
  <1>3. X[0] = ZeroRow /\ X[1] = XorSeq(X[1 - 1], d[l])
    BY <1>1, <1>2 DEF RowsUpTo
  <1> QED
    BY <1>2, <1>3, XorSeqLaws DEF HasRows

-----------------------------------------------------------------------------
(* Khovratovich's solver.  The references of a tuple lead through the      *)
(* forks of each round to leaves; what is dropped for want of room never   *)
(* shifts what the references of the rest name.                            *)

\* Rows, as the model of this solver takes them.
LEMMA RkRows ==
  /\ Rk!Word = Word /\ Rk!ZeroRow = ZeroRow
  /\ \A x, y : Rk!XorWord(x, y) = XorWord(x, y)
  /\ \A g, h : Rk!XorSeq(g, h) = XorSeq(g, h)
  /\ \A d, v : Rk!RowOf(d, v) = RowOf(d, v)
  <1>1. Rk!Word = Word
    BY DEF Rk!Word, Word
  <1>2. Rk!XorBits = XorBits
    BY Zenon DEF Rk!XorBits, XorBits, Rk!Word, Word
  <1>3. \A x, y : Rk!XorWord(x, y) = XorWord(x, y)
    BY <1>2, Zenon DEF Rk!XorWord, XorWord, Rk!XorTable, XorTable
  <1>4. \A g, h : Rk!XorSeq(g, h) = XorSeq(g, h)
    BY <1>3, Zenon DEF Rk!XorSeq, XorSeq
  <1>5. Rk!ZeroRow = ZeroRow
    BY Zenon DEF Rk!ZeroRow, ZeroRow
  <1>6. \A d, v : Rk!RowOf(d, v) = RowOf(d, v)
    BY <1>4, <1>5, Zenon DEF Rk!RowOf, RowOf
  <1> QED
    BY <1>1, <1>3, <1>4, <1>5, <1>6

\* The leaves of an attempt.
Filled == 0 .. Rk!FillCount - 1

LEMMA RkParameters ==
  /\ Rk!FillCount \in Nat /\ Rk!FillCount >= 1 /\ MaxNonce \in Nat
  /\ \A d \in RowDigests : HasRows(d, Filled)
  <1>1. 2^(Bits - 1) \in Nat /\ 1 <= 2^(Bits - 1)
    BY WordNumbers, PowerOfTwoPositive
  <1>2. Rk!FillCount \in Nat /\ Rk!FillCount >= 1
    BY <1>1 DEF Rk!FillCount
  <1>3. MaxNonce \in Nat /\ \A d \in RowDigests : \A l \in Filled : d[l] \in [1 .. K + 1 -> Rk!Word]
    BY PartsAssumption DEF Rk!PointAssumption, Filled
  <1> QED
    BY <1>2, <1>3, RkRows DEF HasRows, Row

-----------------------------------------------------------------------------
\* A fork names two tuples of the round before.
ForkSet == Nat \X Nat

\* The forks of the first n rounds are lists of forks.
ForkLists(fks, n) == \A e \in 1 .. n : fks[e] \in Seq(ForkSet)

ForkIn(fks, n, ref) == IF ref < Len(fks[n]) THEN fks[n][ref + 1] ELSE <<0, 0>>

LEMMA ForkInType ==
  ASSUME NEW n \in Nat, NEW fks, ForkLists(fks, n), NEW e \in 1 .. n, NEW ref \in Nat
  PROVE  ForkIn(fks, e, ref) \in ForkSet
  <1>1. fks[e] \in Seq(ForkSet)
    BY DEF ForkLists
  <1>2. CASE ref < Len(fks[e])
    <2>1. ref + 1 \in 1 .. Len(fks[e])
      BY <1>1, <1>2, LenProperties
    <2>2. fks[e][ref + 1] \in ForkSet
      BY <1>1, <2>1, ElementOfSeq
    <2> QED
      BY <1>2, <2>2 DEF ForkIn
  <1>3. CASE ~(ref < Len(fks[e]))
    <2>1. <<0, 0>> \in ForkSet
      BY DEF ForkSet
    <2> QED
      BY <1>3, <2>1 DEF ForkIn
  <1> QED
    BY <1>2, <1>3

\* The leaves of every fork, round by round.
LeavesStep(fks, n, t) ==
  [f \in ForkSet |-> t[ForkIn(fks, n, f[1])] \o t[ForkIn(fks, n, f[2])]]
LeavesStart == [f \in ForkSet |-> <<f[1], f[2]>>]
LeafTable == [ForkSet -> Seq(Nat)]

Resolving(fks, n) ==
  CHOOSE F : F = [e \in 0 .. n |-> [f \in Nat \X Nat |->
    IF e = 0 THEN <<f[1], f[2]>>
    ELSE F[e - 1][ForkIn(fks, e, f[1])] \o F[e - 1][ForkIn(fks, e, f[2])]]]

LEMMA LeavesTypes ==
  /\ LeavesStart \in LeafTable
  /\ \A n \in Nat : \A fks : ForkLists(fks, n) =>
       \A e \in 1 .. n : \A t \in LeafTable : LeavesStep(fks, e, t) \in LeafTable
  <1>1. \A f \in ForkSet : f[1] \in Nat /\ f[2] \in Nat
    BY DEF ForkSet
  <1>2. LeavesStart \in LeafTable
    BY <1>1 DEF LeavesStart, LeafTable
  <1>3. ASSUME NEW n \in Nat, NEW fks, ForkLists(fks, n), NEW e \in 1 .. n, NEW t \in LeafTable
        PROVE  LeavesStep(fks, e, t) \in LeafTable
    <2>1. ASSUME NEW f \in ForkSet
          PROVE  t[ForkIn(fks, e, f[1])] \o t[ForkIn(fks, e, f[2])] \in Seq(Nat)
      <3>1. ForkIn(fks, e, f[1]) \in ForkSet /\ ForkIn(fks, e, f[2]) \in ForkSet
        BY <1>1, <1>3, ForkInType
      <3>2. t[ForkIn(fks, e, f[1])] \in Seq(Nat) /\ t[ForkIn(fks, e, f[2])] \in Seq(Nat)
        BY <3>1 DEF LeafTable
      <3> QED
        BY <3>2, ConcatProperties
    <2> QED
      BY <2>1 DEF LeavesStep, LeafTable
  <1> QED
    BY <1>2, <1>3

LEMMA ResolvingIs ==
  ASSUME NEW n \in Nat, NEW fks, ForkLists(fks, n)
  PROVE  /\ Resolving(fks, n)[0] = LeavesStart
         /\ \A e \in 1 .. n : Resolving(fks, n)[e] = LeavesStep(fks, e, Resolving(fks, n)[e - 1])
         /\ \A e \in 0 .. n : Resolving(fks, n)[e] \in LeafTable
  <1> DEFINE G == [e \in 1 .. n |-> [t \in LeafTable |-> LeavesStep(fks, e, t)]]
             Body(F) == [e \in 0 .. n |-> [f \in Nat \X Nat |->
               IF e = 0 THEN <<f[1], f[2]>>
               ELSE F[e - 1][ForkIn(fks, e, f[1])] \o F[e - 1][ForkIn(fks, e, f[2])]]]
             H == Resolving(fks, n)
  <1>1. G \in [1 .. n -> [LeafTable -> LeafTable]] /\ LeavesStart \in LeafTable
    BY LeavesTypes
  <1>2. PICK F : TakesSteps(F, n, LeafTable, LeavesStart, G)
    <2> HIDE DEF G
    <2> QED
      BY <1>1, StepsExist
  <1>3. \A J : Body(J) = [e \in 0 .. n |-> IF e = 0 THEN LeavesStart ELSE LeavesStep(fks, e, J[e - 1])]
    BY DEF LeavesStart, LeavesStep, ForkSet
  <1>4. F = Body(F)
    <2>1. ASSUME NEW e \in 0 .. n
          PROVE  F[e] = IF e = 0 THEN LeavesStart ELSE LeavesStep(fks, e, F[e - 1])
      <3>1. CASE e = 0
        BY <3>1, <1>2 DEF TakesSteps
      <3>2. CASE e # 0
        <4>1. e \in 1 .. n /\ e - 1 \in 0 .. n
          BY <3>2
        <4>2. F[e] = G[e][F[e - 1]] /\ F[e - 1] \in LeafTable
          BY <4>1, <1>2 DEF TakesSteps
        <4>3. G[e][F[e - 1]] = LeavesStep(fks, e, F[e - 1])
          BY <4>1, <4>2
        <4> QED
          BY <3>2, <4>2, <4>3
      <3> QED
        BY <3>1, <3>2
    <2>2. F = [e \in 0 .. n |-> F[e]]
      BY <1>2 DEF TakesSteps
    <2> HIDE DEF Body
    <2> QED
      BY <1>3, <2>1, <2>2
  <1>5. H = Body(H)
    <2>1. H = CHOOSE J : J = Body(J)
      BY DEF Resolving
    <2> HIDE DEF Body, H
    <2> QED
      BY <1>4, <2>1
  <1> HIDE DEF H, Body, G
  <1>6. \A e \in 0 .. n : H[e] = IF e = 0 THEN LeavesStart ELSE LeavesStep(fks, e, H[e - 1])
    BY <1>3, <1>5
  <1>7. H[0] = LeavesStart
    BY <1>6
  <1>8. \A e \in 1 .. n : H[e] = LeavesStep(fks, e, H[e - 1])
    BY <1>6
  <1>9. \A e \in 0 .. n : H[e] \in LeafTable
    <2> DEFINE T == {e \in 0 .. n : H[e] \in LeafTable}
    <2>1. 0 \in T
      BY <1>1, <1>7
    <2>2. ASSUME NEW e \in 1 .. n, e - 1 \in T
          PROVE  e \in T
      BY <1>8, <2>2, LeavesTypes
    <2> HIDE DEF T
    <2>3. \A e \in 0 .. n : e \in T
      BY <2>1, <2>2, CountUp
    <2> QED
      BY <2>3 DEF T
  <1> QED
    BY <1>7, <1>8, <1>9 DEF H

\* The leaves of a fork of round n + 1, and of a reference to round n.
ForkLeaves(fks, n, f) == Resolving(fks, n)[n][f]
RefLeaves(fks, n, ref) ==
  IF n = 0 THEN <<ref>> ELSE ForkLeaves(fks, n - 1, ForkIn(fks, n, ref))

\* The forks of two attempts, or of two moments, agree up to round n.
SameForks(fks, gks, n) == \A e \in 1 .. n : fks[e] = gks[e]

\* Then their leaves do, whatever rounds follow.
LEMMA ResolvingSame ==
  ASSUME NEW n \in Nat, NEW m \in Nat, NEW l \in Nat, l <= m, l <= n, NEW fks, NEW gks,
         ForkLists(fks, n), ForkLists(gks, m), SameForks(fks, gks, l)
  PROVE  Resolving(fks, n)[l] = Resolving(gks, m)[l]
  <1> DEFINE F == Resolving(fks, n)
             E == Resolving(gks, m)
             T == {e \in 0 .. l : F[e] = E[e]}
  <1>1. /\ F[0] = LeavesStart /\ E[0] = LeavesStart
        /\ \A e \in 1 .. n : F[e] = LeavesStep(fks, e, F[e - 1])
        /\ \A e \in 1 .. m : E[e] = LeavesStep(gks, e, E[e - 1])
    BY ResolvingIs
  <1>2. 0 \in T
    BY <1>1
  <1>3. ASSUME NEW e \in 1 .. l, e - 1 \in T
        PROVE  e \in T
    <2>1. e \in 1 .. n /\ e \in 1 .. m /\ fks[e] = gks[e]
      BY DEF SameForks
    <2>2. \A t : LeavesStep(fks, e, t) = LeavesStep(gks, e, t)
      BY <2>1 DEF LeavesStep, ForkIn
    <2> QED
      BY <1>1, <1>3, <2>1, <2>2
  <1> HIDE DEF T, F, E
  <1>4. \A e \in 0 .. l : e \in T
    BY <1>2, <1>3, CountUp
  <1> QED
    BY <1>4 DEF T, F, E

LEMMA ForkLeavesSame ==
  ASSUME NEW n \in Nat, NEW fks, NEW gks, ForkLists(fks, n), SameForks(fks, gks, n), NEW f
  PROVE  ForkLeaves(fks, n, f) = ForkLeaves(gks, n, f)
  <1>1. ForkLists(gks, n)
    BY DEF ForkLists, SameForks
  <1> QED
    BY <1>1, ResolvingSame DEF ForkLeaves

\* Two lists of one leaf make one of two.
LEMMA TwoInOne == \A a, b \in Nat : <<a>> \o <<b>> = <<a, b>>
  <1> SUFFICES ASSUME NEW a \in Nat, NEW b \in Nat
               PROVE  <<a>> \o <<b>> = <<a, b>>
    OBVIOUS
  <1>1. /\ <<a>> \in Seq(Nat) /\ Len(<<a>>) = 1 /\ <<a>>[1] = a
        /\ <<b>> \in Seq(Nat) /\ Len(<<b>>) = 1 /\ <<b>>[1] = b
        /\ <<a, b>> \in Seq(Nat) /\ Len(<<a, b>>) = 2 /\ <<a, b>>[1] = a /\ <<a, b>>[2] = b
    OBVIOUS
  <1>2. PICK c : c = <<a>> \o <<b>>
    OBVIOUS
  <1>3. c \in Seq(Nat) /\ Len(c) = 2 /\ c[1] = a /\ c[2] = b
    BY <1>1, <1>2, ConcatProperties
  <1>4. \A p \in 1 .. Len(c) : c[p] = <<a, b>>[p]
    BY <1>1, <1>3
  <1>5. c = <<a, b>>
    BY <1>1, <1>3, <1>4, SeqEqual
  <1> QED
    BY <1>2, <1>5

\* The leaves of a fork are those of the one tuple and then those of the other.
LEMMA ForkLeavesSplit ==
  ASSUME NEW n \in Nat, NEW fks, ForkLists(fks, n), NEW f \in ForkSet
  PROVE  /\ f[1] \in Nat /\ f[2] \in Nat
         /\ ForkLeaves(fks, n, f) \in Seq(Nat)
         /\ ForkLeaves(fks, n, f) = RefLeaves(fks, n, f[1]) \o RefLeaves(fks, n, f[2])
  <1>1. f[1] \in Nat /\ f[2] \in Nat
    BY DEF ForkSet
  <1>2. ForkLeaves(fks, n, f) \in Seq(Nat)
    BY ResolvingIs DEF LeafTable, ForkLeaves
  <1>3. CASE n = 0
    <2>1. ForkLeaves(fks, n, f) = <<f[1], f[2]>>
      BY <1>3, ResolvingIs DEF ForkLeaves, LeavesStart
    <2>2. <<f[1]>> \o <<f[2]>> = <<f[1], f[2]>>
      BY <1>1, TwoInOne
    <2> QED
      BY <1>1, <1>2, <1>3, <2>1, <2>2 DEF RefLeaves
  <1>4. CASE n # 0
    <2>1. n \in 1 .. n /\ n - 1 \in Nat /\ n - 1 <= n /\ ForkLists(fks, n - 1) /\ SameForks(fks, fks, n - 1)
      BY <1>4 DEF ForkLists, SameForks
    <2>2. Resolving(fks, n)[n] = LeavesStep(fks, n, Resolving(fks, n)[n - 1])
      BY <2>1, ResolvingIs
    <2>3. Resolving(fks, n)[n - 1] = Resolving(fks, n - 1)[n - 1]
      BY <2>1, ResolvingSame
    <2> DEFINE t == Resolving(fks, n)[n - 1]
    <2>4. ForkLeaves(fks, n, f) = LeavesStep(fks, n, t)[f]
      BY <2>2 DEF ForkLeaves
    <2>5. /\ RefLeaves(fks, n, f[1]) = t[ForkIn(fks, n, f[1])]
          /\ RefLeaves(fks, n, f[2]) = t[ForkIn(fks, n, f[2])]
      BY <1>4, <2>3 DEF RefLeaves, ForkLeaves
    <2> HIDE DEF t
    <2>6. LeavesStep(fks, n, t)[f] = t[ForkIn(fks, n, f[1])] \o t[ForkIn(fks, n, f[2])]
      BY DEF LeavesStep
    <2> QED
      BY <1>1, <1>2, <2>4, <2>5, <2>6
  <1> QED
    BY <1>3, <1>4

-----------------------------------------------------------------------------
\* Of a row whose words up to n are cancelled the next is b, and the blocks the rest.
Cancelled(g, n, b, blocks) ==
  /\ \A p \in 1 .. n : g[p] = 0
  /\ g[n + 1] = b
  /\ blocks \in Seq(Word) /\ Len(blocks) = K - n
  /\ \A p \in 1 .. K - n : blocks[p] = g[n + 1 + p]

\* A merge of two of one bucket cancels one word more.
LEMMA CancelledMore ==
  ASSUME NEW n \in 0 .. K - 1, NEW g \in Row, NEW h \in Row, NEW b, NEW x, NEW y,
         Cancelled(g, n, b, x), Cancelled(h, n, b, y)
  PROVE  /\ XorWord(x[1], y[1]) \in Word
         /\ Cancelled(XorSeq(g, h), n + 1, XorWord(x[1], y[1]), Tail(XorSeq(x, y)))
         /\ n = K - 1 /\ XorWord(x[1], y[1]) = 0 => XorSeq(g, h) = ZeroRow
  <1> DEFINE f == XorSeq(g, h)
             z == XorSeq(x, y)
  <1>1. K \in Nat /\ n \in Nat /\ K - n \in Nat /\ K - n >= 1 /\ K - (n + 1) = (K - n) - 1
    BY WordNumbers
  <1>2. f \in Row /\ \A p \in 1 .. K + 1 : f[p] = XorWord(g[p], h[p]) /\ g[p] \in Word /\ h[p] \in Word
    BY XorSeqLaws DEF Row
  <1>3. /\ x \in Seq(Word) /\ Len(x) = K - n /\ DOMAIN x = 1 .. K - n
        /\ y \in Seq(Word) /\ Len(y) = K - n
    BY LenProperties DEF Cancelled
  <1>4. \A p \in 1 .. K - n : x[p] \in Word /\ y[p] \in Word
    BY <1>3, ElementOfSeq
  <1>5. z \in [1 .. K - n -> Word] /\ \A p \in 1 .. K - n : z[p] = XorWord(x[p], y[p])
    BY <1>3, <1>4, XorWordLaws DEF XorSeq
  <1>6. z \in Seq(Word) /\ Len(z) = K - n
    BY <1>1, <1>5, FunctionIsSeq
  <1> HIDE DEF f, z
  <1>7. /\ Tail(z) \in Seq(Word) /\ Len(Tail(z)) = K - (n + 1)
        /\ \A p \in 1 .. K - (n + 1) : Tail(z)[p] = z[p + 1]
    <2>1. z # << >>
      BY <1>1, <1>6
    <2> QED
      BY <1>1, <1>6, <2>1, HeadTailProperties
  <1>8. \A p \in 1 .. K - n : z[p] = f[n + 1 + p]
    <2> SUFFICES ASSUME NEW p \in 1 .. K - n
                 PROVE  z[p] = f[n + 1 + p]
      OBVIOUS
    <2>1. n + 1 + p \in 1 .. K + 1
      BY <1>1
    <2>2. x[p] = g[n + 1 + p] /\ y[p] = h[n + 1 + p]
      BY DEF Cancelled
    <2> QED
      BY <1>2, <1>5, <2>1, <2>2
  <1>9. \A p \in 1 .. n + 1 : f[p] = 0
    <2> SUFFICES ASSUME NEW p \in 1 .. n + 1
                 PROVE  f[p] = 0
      OBVIOUS
    <2>1. p \in 1 .. K + 1 /\ g[p] = h[p]
      BY <1>1 DEF Cancelled
    <2> QED
      BY <1>2, <2>1, XorWordLaws
  <1>10. z[1] = XorWord(x[1], y[1]) /\ z[1] \in Word /\ f[(n + 1) + 1] = z[1]
    <2>1. 1 \in 1 .. K - n /\ (n + 1) + 1 = n + 1 + 1
      BY <1>1
    <2> QED
      BY <1>5, <1>8, <2>1
  <1>11. \A p \in 1 .. K - (n + 1) : Tail(z)[p] = f[(n + 1) + 1 + p]
    <2> SUFFICES ASSUME NEW p \in 1 .. K - (n + 1)
                 PROVE  Tail(z)[p] = f[(n + 1) + 1 + p]
      OBVIOUS
    <2>1. p + 1 \in 1 .. K - n /\ n + 1 + (p + 1) = (n + 1) + 1 + p
      BY <1>1
    <2> QED
      BY <1>7, <1>8, <2>1
  <1>12. Cancelled(f, n + 1, z[1], Tail(z))
    BY <1>7, <1>9, <1>10, <1>11 DEF Cancelled
  <1>13. ASSUME n = K - 1, z[1] = 0
         PROVE  f = ZeroRow
    <2>1. \A p \in 1 .. K + 1 : p \in 1 .. n + 1 \/ p = (n + 1) + 1
      BY <1>1, <1>13
    <2>2. \A p \in 1 .. K + 1 : f[p] = 0
      BY <1>9, <1>10, <1>13, <2>1
    <2>3. f = [p \in 1 .. K + 1 |-> f[p]]
      BY <1>2 DEF Row
    <2> QED
      BY <2>2, <2>3 DEF ZeroRow
  <1> QED
    BY <1>10, <1>12, <1>13 DEF f, z

\* A list of 2^n leaves whose rows XOR to what is said of bucket and blocks.
Stands(d, v, n, b, blocks) ==
  /\ v \in Seq(Filled) /\ Len(v) = 2^n
  /\ Cancelled(RowOf(d, v), n, b, blocks)

LEMMA StandsMore ==
  ASSUME NEW d \in RowDigests, NEW n \in 0 .. K - 1, NEW v, NEW w, NEW b, NEW x, NEW y,
         Stands(d, v, n, b, x), Stands(d, w, n, b, y)
  PROVE  /\ XorWord(x[1], y[1]) \in Word
         /\ Stands(d, v \o w, n + 1, XorWord(x[1], y[1]), Tail(XorSeq(x, y)))
         /\ n = K - 1 /\ XorWord(x[1], y[1]) = 0 => RowOf(d, v \o w) = ZeroRow
  <1>1. HasRows(d, Filled) /\ v \in Seq(Filled) /\ w \in Seq(Filled) /\ Len(v) = 2^n /\ Len(w) = 2^n
    BY RkParameters DEF Stands
  <1>2. n \in Nat /\ 2^n \in Nat /\ 2^(n + 1) = 2 * 2^n
    BY PowerOfTwoPositive, PowerOfTwoDoubles, WordNumbers
  <1>3. v \o w \in Seq(Filled) /\ Len(v \o w) = 2^(n + 1)
    BY <1>1, <1>2, ConcatProperties
  <1>4. RowOf(d, v) \in Row /\ RowOf(d, w) \in Row /\ RowOf(d, v \o w) = XorSeq(RowOf(d, v), RowOf(d, w))
    BY <1>1, RowOfType, RowOfJoined
  <1>5. Cancelled(RowOf(d, v), n, b, x) /\ Cancelled(RowOf(d, w), n, b, y)
    BY DEF Stands
  <1> QED
    BY <1>3, <1>4, <1>5, CancelledMore DEF Stands

-----------------------------------------------------------------------------
\* A tuple of bucket b in round n + 1, and one made of the forks mk for the next.
TupleSet == [blocks : Seq(Word), ref : Nat]
TupleAt(d, fks, n, b, t) == Stands(d, RefLeaves(fks, n, t.ref), n, b, t.blocks)
MadeAt(d, fks, n, mk, b, t) ==
  t.ref < Len(mk) /\ Stands(d, ForkLeaves(fks, n, mk[t.ref + 1]), n + 1, b, t.blocks)

\* The leaves of a solution.
Solution(d, v) == v \in Seq(Filled) /\ Len(v) = 2^K /\ RowOf(d, v) = ZeroRow

\* What a round has made so far of the forks fks of n rounds before.
AllMade(d, fks, n, mk, nx) ==
  \A b \in Word : \A e \in 1 .. Len(nx[b]) : MadeAt(d, fks, n, mk, b, nx[b][e])
AllSolve(d, s) == \A e \in 1 .. Len(s) : Solution(d, s[e])
RoundSet ==
  [next : [Word -> Seq(TupleSet)], made : Seq(ForkSet), sols : Seq(Seq(Filled)), full : BOOLEAN]
RoundOf(d, fks, n) ==
  {acc \in RoundSet : AllMade(d, fks, n, acc.made, acc.next) /\ AllSolve(d, acc.sols)}

\* Two tuples of a bucket, and the leaves of the fork that names them.
LEMMA ForkStands ==
  ASSUME NEW d \in RowDigests, NEW n \in 0 .. K - 1, NEW fks, ForkLists(fks, n), NEW b,
         NEW t \in TupleSet, NEW u \in TupleSet, TupleAt(d, fks, n, b, t), TupleAt(d, fks, n, b, u)
  PROVE  /\ XorWord(t.blocks[1], u.blocks[1]) \in Word
         /\ <<t.ref, u.ref>> \in ForkSet
         /\ Stands(d, ForkLeaves(fks, n, <<t.ref, u.ref>>), n + 1,
                   XorWord(t.blocks[1], u.blocks[1]), Tail(XorSeq(t.blocks, u.blocks)))
         /\ n = K - 1 /\ XorWord(t.blocks[1], u.blocks[1]) = 0 =>
              Solution(d, ForkLeaves(fks, n, <<t.ref, u.ref>>))
  <1>1. <<t.ref, u.ref>> \in ForkSet /\ n \in Nat
    BY DEF ForkSet, TupleSet
  <1>2. ForkLeaves(fks, n, <<t.ref, u.ref>>) = RefLeaves(fks, n, t.ref) \o RefLeaves(fks, n, u.ref)
    BY <1>1, ForkLeavesSplit
  <1> DEFINE v == RefLeaves(fks, n, t.ref)
             w == RefLeaves(fks, n, u.ref)
             x == t.blocks
             y == u.blocks
  <1>3. Stands(d, v, n, b, x) /\ Stands(d, w, n, b, y)
    BY DEF TupleAt
  <1> HIDE DEF v, w, x, y
  <1>4. /\ XorWord(x[1], y[1]) \in Word
        /\ Stands(d, v \o w, n + 1, XorWord(x[1], y[1]), Tail(XorSeq(x, y)))
        /\ n = K - 1 /\ XorWord(x[1], y[1]) = 0 => RowOf(d, v \o w) = ZeroRow
    BY <1>3, StandsMore
  <1>5. n = K - 1 => n + 1 = K
    BY WordNumbers
  <1>6. n = K - 1 /\ XorWord(x[1], y[1]) = 0 => Solution(d, v \o w)
    BY <1>4, <1>5 DEF Solution, Stands
  <1> QED
    BY <1>1, <1>2, <1>4, <1>6 DEF v, w, x, y

\* A pair that collides is kept, as far as there is room.
LEMMA RkKeeps ==
  ASSUME NEW d \in RowDigests, NEW n \in 0 .. K - 1, NEW fks, ForkLists(fks, n), NEW b,
         NEW t \in TupleSet, NEW u \in TupleSet, TupleAt(d, fks, n, b, t), TupleAt(d, fks, n, b, u),
         NEW acc \in RoundOf(d, fks, n)
  PROVE  Rk!Keep(acc, XorWord(t.blocks[1], u.blocks[1]), t, u) \in RoundOf(d, fks, n)
  <1> DEFINE c == XorWord(t.blocks[1], u.blocks[1])
             f == <<t.ref, u.ref>>
             z == Tail(XorSeq(t.blocks, u.blocks))
             e == [blocks |-> z, ref |-> Len(acc.made)]
             nx == [acc.next EXCEPT ![c] = Append(acc.next[c], e)]
             mk == Append(acc.made, f)
  <1>1. /\ acc \in RoundSet /\ acc.next \in [Word -> Seq(TupleSet)] /\ acc.made \in Seq(ForkSet)
        /\ acc.sols \in Seq(Seq(Filled)) /\ acc.full \in BOOLEAN
        /\ AllMade(d, fks, n, acc.made, acc.next) /\ AllSolve(d, acc.sols)
    BY DEF RoundOf, RoundSet
  <1>2. c \in Word /\ f \in ForkSet /\ Stands(d, ForkLeaves(fks, n, f), n + 1, c, z)
    BY ForkStands
  <1>3. Rk!Keep(acc, c, t, u) = [acc EXCEPT !.next = nx, !.made = mk]
        \/ Rk!Keep(acc, c, t, u) = [acc EXCEPT !.full = TRUE]
    <2>1. Rk!XorSeq(t.blocks, u.blocks) = XorSeq(t.blocks, u.blocks)
      BY RkRows
    <2> QED
      BY <2>1, <1>1, <1>2 DEF Rk!Keep, RoundSet
  <1> HIDE DEF c, f, z
  <1>4. e \in TupleSet /\ Len(acc.made) \in Nat
    BY <1>1, <1>2, LenProperties DEF TupleSet, Stands, Cancelled
  <1>5. nx \in [Word -> Seq(TupleSet)] /\ mk \in Seq(ForkSet)
    BY <1>1, <1>2, <1>4, AppendProperties
  <1>6. AllMade(d, fks, n, mk, nx)
    <2> SUFFICES ASSUME NEW a \in Word, NEW p \in 1 .. Len(nx[a])
                 PROVE  MadeAt(d, fks, n, mk, a, nx[a][p])
      BY DEF AllMade
    <2>1. /\ Len(mk) = Len(acc.made) + 1 /\ mk[Len(acc.made) + 1] = f
          /\ \A q \in 1 .. Len(acc.made) : mk[q] = acc.made[q]
      BY <1>1, <1>2, AppendProperties
    <2>2. CASE a = c /\ p = Len(acc.next[c]) + 1
      <3>1. nx[a][p] = e
        BY <1>1, <1>2, <1>4, <2>2, AppendProperties
      <3>2. e.ref = Len(acc.made) /\ e.blocks = z
        OBVIOUS
      <3> HIDE DEF e, nx, mk
      <3> QED
        BY <1>2, <1>4, <2>1, <2>2, <3>1, <3>2 DEF MadeAt
    <2>3. CASE ~(a = c /\ p = Len(acc.next[c]) + 1)
      <3>1. p \in 1 .. Len(acc.next[a]) /\ nx[a][p] = acc.next[a][p]
        <4>1. CASE a # c
          BY <1>1, <4>1
        <4>2. CASE a = c
          <5>1. nx[c] = Append(acc.next[c], e) /\ acc.next[c] \in Seq(TupleSet)
            BY <1>1, <1>2
          <5> HIDE DEF e, nx
          <5>2. /\ Len(nx[c]) = Len(acc.next[c]) + 1 /\ Len(acc.next[c]) \in Nat
                /\ \A q \in 1 .. Len(acc.next[c]) : nx[c][q] = acc.next[c][q]
            BY <5>1, <1>4, AppendProperties, LenProperties
          <5> QED
            BY <2>3, <4>2, <5>2
        <4> QED
          BY <4>1, <4>2
      <3>2. acc.next[a][p] \in TupleSet
        BY <1>1, <3>1, ElementOfSeq
      <3>3. acc.next[a][p].ref \in Nat
        BY <3>2 DEF TupleSet
      <3>4. MadeAt(d, fks, n, acc.made, a, acc.next[a][p])
        BY <1>1, <3>1 DEF AllMade
      <3> DEFINE ref == acc.next[a][p].ref
      <3>5. ref < Len(acc.made) /\ ref < Len(mk) /\ mk[ref + 1] = acc.made[ref + 1]
        <4>1. ref < Len(acc.made) /\ ref \in Nat
          BY <3>3, <3>4 DEF MadeAt
        <4>2. Len(mk) = Len(acc.made) + 1 /\ Len(acc.made) \in Nat
          BY <1>1, <2>1, LenProperties
        <4> HIDE DEF ref
        <4>3. ref + 1 \in 1 .. Len(acc.made)
          BY <4>1, <4>2
        <4>4. mk[ref + 1] = acc.made[ref + 1]
          BY <2>1, <4>3
        <4> HIDE DEF mk
        <4> QED
          BY <4>1, <4>2, <4>4
      <3> HIDE DEF nx, mk
      <3> QED
        BY <3>1, <3>4, <3>5 DEF MadeAt
    <2> QED
      BY <2>2, <2>3
  <1> HIDE DEF nx, mk, e
  <1>7. [acc EXCEPT !.next = nx, !.made = mk] \in RoundOf(d, fks, n)
    <2> DEFINE q == [acc EXCEPT !.next = nx, !.made = mk]
    <2>1. q \in RoundSet /\ q.next = nx /\ q.made = mk /\ q.sols = acc.sols
      BY <1>1, <1>5 DEF RoundSet
    <2> HIDE DEF q
    <2>2. q \in RoundOf(d, fks, n)
      BY <2>1, <1>1, <1>6 DEF RoundOf
    <2> QED
      BY <2>2 DEF q
  <1>8. [acc EXCEPT !.full = TRUE] \in RoundOf(d, fks, n)
    <2> DEFINE q == [acc EXCEPT !.full = TRUE]
    <2>1. q \in RoundSet /\ q.next = acc.next /\ q.made = acc.made /\ q.sols = acc.sols
      BY <1>1 DEF RoundSet
    <2> HIDE DEF q
    <2>2. q \in RoundOf(d, fks, n)
      BY <2>1, <1>1 DEF RoundOf
    <2> QED
      BY <2>2 DEF q
  <1> QED
    BY <1>3, <1>7, <1>8 DEF c

\* In the last round a pair that cancels is a solution.
LEMMA RkSolves ==
  ASSUME NEW d \in RowDigests, NEW n \in 0 .. K - 1, n = K - 1, ForkLists(forks, n), n = Len(forks),
         NEW b, NEW t \in TupleSet, NEW u \in TupleSet,
         TupleAt(d, forks, n, b, t), TupleAt(d, forks, n, b, u),
         NEW acc \in RoundOf(d, forks, n)
  PROVE  Rk!Solve(acc, XorWord(t.blocks[1], u.blocks[1]), t, u) \in RoundOf(d, forks, n)
  <1> DEFINE c == XorWord(t.blocks[1], u.blocks[1])
             f == <<t.ref, u.ref>>
             v == ForkLeaves(forks, n, f)
             s == Append(acc.sols, v)
  <1>1. /\ acc \in RoundSet /\ acc.sols \in Seq(Seq(Filled))
        /\ AllMade(d, forks, n, acc.made, acc.next) /\ AllSolve(d, acc.sols)
    BY DEF RoundOf, RoundSet
  <1>2. CASE c # 0
    BY <1>2 DEF Rk!Solve
  <1>3. CASE c = 0
    <2>1. Rk!ResolveTree(f) = v
      BY DEF Rk!ResolveTree, Rk!ResolveTreeByLevel, Rk!ForkAt, ForkLeaves, Resolving, ForkIn
    <2>2. Solution(d, v)
      BY <1>3, ForkStands
    <2>3. Rk!Solve(acc, c, t, u) = [acc EXCEPT !.sols = s]
      BY <1>1, <1>3, <2>1 DEF Rk!Solve, RoundSet
    <2> HIDE DEF c, f, v
    <2>4. s \in Seq(Seq(Filled)) /\ AllSolve(d, s)
      <3>1. v \in Seq(Filled)
        BY <2>2 DEF Solution
      <3>2. /\ s \in Seq(Seq(Filled)) /\ Len(s) = Len(acc.sols) + 1 /\ s[Len(acc.sols) + 1] = v
            /\ Len(acc.sols) \in Nat /\ \A q \in 1 .. Len(acc.sols) : s[q] = acc.sols[q]
        BY <1>1, <3>1, AppendProperties, LenProperties
      <3> HIDE DEF s
      <3>3. \A p \in 1 .. Len(s) : p \in 1 .. Len(acc.sols) \/ p = Len(acc.sols) + 1
        BY <3>2
      <3> QED
        BY <1>1, <2>2, <3>2, <3>3 DEF AllSolve
    <2> HIDE DEF s
    <2> DEFINE q == [acc EXCEPT !.sols = s]
    <2>5. q \in RoundSet /\ q.next = acc.next /\ q.made = acc.made /\ q.sols = s
      BY <1>1, <2>4 DEF RoundSet
    <2> HIDE DEF q
    <2>6. q \in RoundOf(d, forks, n)
      BY <2>4, <2>5, <1>1 DEF RoundOf
    <2> QED
      BY <2>3, <2>6 DEF q, c
  <1> QED
    BY <1>2, <1>3

-----------------------------------------------------------------------------
\* Two places of a bucket, the first before the second.
PairSet(n) == {p \in (1 .. n) \X (1 .. n) : p[1] < p[2]}

\* The loops visit such pairs.
LEMMA RkPairs ==
  ASSUME NEW n \in Nat
  PROVE  Rk!Pairs(n) \in Seq(PairSet(n))
  <1> DEFINE S == Seq(PairSet(n))
             piece(j) == [m \in 1 .. n - j |-> <<j, j + m>>]
             G == [j \in 1 .. n |-> [t \in S |-> t \o piece(j)]]
             Body(F) == [j \in 0 .. n |-> IF j = 0 THEN << >> ELSE F[j - 1] \o piece(j)]
             H == CHOOSE F : F = Body(F)
  <1>1. \A j \in 1 .. n : piece(j) \in S
    <2> SUFFICES ASSUME NEW j \in 1 .. n
                 PROVE  piece(j) \in S
      OBVIOUS
    <2>1. n - j \in Nat
      OBVIOUS
    <2>2. \A m \in 1 .. n - j : <<j, j + m>> \in PairSet(n)
      BY DEF PairSet
    <2>3. piece(j) \in [1 .. n - j -> PairSet(n)]
      BY <2>2
    <2> HIDE DEF piece
    <2> QED
      BY <2>1, <2>3, FunctionIsSeq
  <1>2. Rk!Pairs(n) = H[n]
    BY DEF Rk!Pairs
  <1> HIDE DEF piece
  <1>3. \A t, w \in S : t \o w \in S
    BY ConcatProperties
  <1>4. << >> \in S
    OBVIOUS
  <1> HIDE DEF S
  <1>5. G \in [1 .. n -> [S -> S]]
    BY <1>1, <1>3
  <1>6. PICK F : TakesSteps(F, n, S, << >>, G)
    <2> HIDE DEF G
    <2> QED
      BY <1>4, <1>5, StepsExist
  <1>7. F = Body(F)
    <2>1. ASSUME NEW j \in 0 .. n
          PROVE  F[j] = Body(F)[j]
      <3>1. CASE j = 0
        BY <3>1, <1>6 DEF TakesSteps
      <3>2. CASE j # 0
        <4>1. j \in 1 .. n /\ j - 1 \in 0 .. n
          BY <3>2
        <4>2. F[j] = G[j][F[j - 1]] /\ F[j - 1] \in S
          BY <4>1, <1>6 DEF TakesSteps
        <4> QED
          BY <3>2, <4>1, <4>2
      <3> QED
        BY <3>1, <3>2
    <2>2. F = [j \in 0 .. n |-> F[j]] /\ Body(F) = [j \in 0 .. n |-> Body(F)[j]]
      BY <1>6 DEF TakesSteps
    <2> HIDE DEF Body, G
    <2> QED
      BY <2>1, <2>2
  <1>8. H = Body(H)
    <2> HIDE DEF Body, G
    <2> QED
      BY <1>7
  <1> HIDE DEF H, G
  <1>9. \A j \in 0 .. n : H[j] = IF j = 0 THEN << >> ELSE H[j - 1] \o piece(j)
    BY <1>8
  <1> HIDE DEF Body
  <1> DEFINE T == {j \in 0 .. n : H[j] \in S}
  <1>10. 0 \in T
    BY <1>4, <1>9
  <1>11. ASSUME NEW j \in 1 .. n, j - 1 \in T
         PROVE  j \in T
    BY <1>1, <1>3, <1>9, <1>11
  <1> HIDE DEF T
  <1>12. \A j \in 0 .. n : j \in T
    BY <1>10, <1>11, CountUp
  <1>13. n \in T
    BY <1>12
  <1> QED
    BY <1>2, <1>13 DEF T, S

\* What the search holds between two buckets.
Held == [next |-> next, made |-> made, sols |-> sols, full |-> full]

\* The tuples of a round.
AllStand(d, fks, n, tps) ==
  /\ tps \in [Word -> Seq(TupleSet)]
  /\ \A b \in Word : \A e \in 1 .. Len(tps[b]) : TupleAt(d, fks, n, b, tps[b][e])

\* One bucket of the round at hand.
LEMMA RkResolved ==
  ASSUME digest \in RowDigests, NEW n \in 0 .. K - 1, n = Len(forks), ForkLists(forks, n),
         NEW tps, AllStand(digest, forks, n, tps), NEW b \in Word,
         Held \in RoundOf(digest, forks, n)
  PROVE  Rk!Resolved(tps[b]) \in RoundOf(digest, forks, n)
  <1> DEFINE S == RoundOf(digest, forks, n)
             bucket == tps[b]
             pairs == Rk!Pairs(Len(bucket))
             N == Len(pairs)
             Step(m, acc) ==
               LET a == bucket[pairs[m][1]]
                   c == bucket[pairs[m][2]]
                   index == Rk!XorWord(a.blocks[1], c.blocks[1])
               IN IF Rk!LastRound THEN Rk!Solve(acc, index, a, c) ELSE Rk!Keep(acc, index, a, c)
             G == [m \in 1 .. N |-> [acc \in S |-> Step(m, acc)]]
             Body(F) == [m \in 0 .. N |-> IF m = 0 THEN Held ELSE Step(m, F[m - 1])]
             H == CHOOSE F : F = Body(F)
  <1>1. bucket \in Seq(TupleSet) /\ Len(bucket) \in Nat
    BY LenProperties DEF AllStand
  <1>2. pairs \in Seq(PairSet(Len(bucket))) /\ N \in Nat
    BY <1>1, RkPairs, LenProperties
  <1>3. \A m \in 1 .. N : pairs[m] \in PairSet(Len(bucket))
    BY <1>2, ElementOfSeq
  <1>4. ASSUME NEW m \in 1 .. N, NEW acc \in S
        PROVE  Step(m, acc) \in S
    <2> DEFINE p == pairs[m][1]
               q == pairs[m][2]
    <2>1. p \in 1 .. Len(bucket) /\ q \in 1 .. Len(bucket)
      BY <1>3 DEF PairSet
    <2> DEFINE a == bucket[p]
               c == bucket[q]
    <2>2. a \in TupleSet /\ c \in TupleSet
      BY <1>1, <2>1, ElementOfSeq
    <2>3. TupleAt(digest, forks, n, b, a) /\ TupleAt(digest, forks, n, b, c)
      BY <2>1 DEF AllStand
    <2>4. Rk!XorWord(a.blocks[1], c.blocks[1]) = XorWord(a.blocks[1], c.blocks[1])
      BY RkRows
    <2>5. Step(m, acc) = IF Rk!LastRound THEN Rk!Solve(acc, XorWord(a.blocks[1], c.blocks[1]), a, c)
                         ELSE Rk!Keep(acc, XorWord(a.blocks[1], c.blocks[1]), a, c)
      BY <2>4, Zenon
    <2> HIDE DEF a, c, bucket, pairs, p, q, Step
    <2>6. Rk!Keep(acc, XorWord(a.blocks[1], c.blocks[1]), a, c) \in S
      BY <2>2, <2>3, RkKeeps
    <2>7. Rk!LastRound => n = K - 1
      BY WordNumbers DEF Rk!LastRound
    <2>8. Rk!LastRound => Rk!Solve(acc, XorWord(a.blocks[1], c.blocks[1]), a, c) \in S
      BY <2>2, <2>3, <2>7, RkSolves
    <2> HIDE DEF S
    <2> QED
      BY <2>5, <2>6, <2>8
  <1>5. Rk!Resolved(tps[b]) = H[N]
    BY DEF Rk!Resolved, Held
  <1> HIDE DEF bucket, pairs, N, S, Step
  <1>6. G \in [1 .. N -> [S -> S]] /\ Held \in S
    BY <1>4 DEF S
  <1>7. PICK F : TakesSteps(F, N, S, Held, G)
    <2> HIDE DEF G
    <2> QED
      BY <1>2, <1>6, StepsExist
  <1>8. F = Body(F)
    <2>1. ASSUME NEW m \in 0 .. N
          PROVE  F[m] = Body(F)[m]
      <3>1. CASE m = 0
        BY <3>1, <1>7 DEF TakesSteps
      <3>2. CASE m # 0
        <4>1. m \in 1 .. N /\ m - 1 \in 0 .. N
          BY <3>2, <1>2
        <4>2. F[m] = G[m][F[m - 1]] /\ F[m - 1] \in S
          BY <4>1, <1>7 DEF TakesSteps
        <4>3. G[m][F[m - 1]] = Step(m, F[m - 1])
          BY <4>1, <4>2
        <4> QED
          BY <3>2, <4>2, <4>3
      <3> QED
        BY <3>1, <3>2
    <2>2. F = [m \in 0 .. N |-> F[m]] /\ Body(F) = [m \in 0 .. N |-> Body(F)[m]]
      BY <1>7 DEF TakesSteps
    <2> HIDE DEF Body, G
    <2> QED
      BY <2>1, <2>2
  <1>9. H = Body(H)
    <2> HIDE DEF Body, G
    <2> QED
      BY <1>8
  <1> HIDE DEF H, G
  <1>10. H[0] = Held /\ \A m \in 1 .. N : H[m] = Step(m, H[m - 1])
    <2>1. \A m \in 0 .. N : H[m] = Body(H)[m]
      <3> HIDE DEF Body
      <3> QED
        BY <1>9
    <2> QED
      BY <1>2, <2>1
  <1> HIDE DEF Body
  <1> DEFINE T == {m \in 0 .. N : H[m] \in S}
  <1>11. 0 \in T
    BY <1>2, <1>6, <1>10
  <1>12. ASSUME NEW m \in 1 .. N, m - 1 \in T
         PROVE  m \in T
    BY <1>4, <1>10, <1>12
  <1> HIDE DEF T
  <1>13. \A m \in 0 .. N : m \in T
    BY <1>2, <1>11, <1>12, CountUp
  <1>14. N \in T
    BY <1>2, <1>13
  <1> QED
    BY <1>5, <1>14 DEF T, S

-----------------------------------------------------------------------------
\* What holds of an attempt at each of its stages.
FillInv ==
  /\ forks = << >> /\ sols = << >> /\ at \in Filled
  /\ AllStand(digest, << >>, 0, tuples)

RoundInv ==
  /\ Len(forks) \in 0 .. K - 1 /\ at \in Word
  /\ AllStand(digest, forks, Len(forks), tuples)
  /\ Held \in RoundOf(digest, forks, Len(forks))

RkInv ==
  /\ mode \in {"find", "single"}
  /\ pc \in {"search", "fill", "resolve", "check", "done"}
  /\ nonce \in Nat /\ full \in BOOLEAN
  /\ pc \in {"fill", "resolve", "check"} => nonce <= MaxNonce /\ digest \in RowDigests
  /\ pc # "resolve" => next = Rk!NoTuples /\ made = << >>
  /\ pc = "search" => at = 0
  /\ pc = "fill" => FillInv
  /\ pc = "resolve" => forks \in Seq(Seq(ForkSet)) /\ RoundInv
  /\ pc = "check" => at = 0 /\ sols \in Seq(Seq(Filled)) /\ AllSolve(digest, sols)
  /\ pc # "done" => proof = << >>
  /\ pc = "done" /\ proof # << >> =>
       nonce <= MaxNonce /\ Solution(digest, proof) /\ Rk!IsInjective(proof)

\* Initially.
LEMMA RkInitially == Rk!Init => RkInv
  <1> SUFFICES ASSUME Rk!Init
               PROVE  RkInv
    OBVIOUS
  <1>1. /\ mode \in {"find", "single"} /\ pc = "search" /\ nonce = 1 /\ at = 0
        /\ next = Rk!NoTuples /\ made = << >> /\ proof = << >> /\ full = FALSE
    BY DEF Rk!Init
  <1> QED
    BY <1>1 DEF RkInv

\* Empty buckets hold what any digest has.
LEMMA NothingStands ==
  /\ Rk!NoTuples \in [Word -> Seq(TupleSet)]
  /\ \A b \in Word : Rk!NoTuples[b] = << >>
  /\ \A d, fks, n : AllStand(d, fks, n, Rk!NoTuples)
  /\ \A d, fks, n : AllMade(d, fks, n, << >>, Rk!NoTuples)
  <1>1. Rk!NoTuples = [b \in Word |-> << >>]
    BY RkRows DEF Rk!NoTuples
  <1>2. << >> \in Seq(TupleSet) /\ Len(<< >>) = 0 /\ 1 .. 0 = {}
    OBVIOUS
  <1> HIDE DEF TupleSet
  <1>3. /\ Rk!NoTuples \in [Word -> Seq(TupleSet)]
        /\ \A b \in Word : Rk!NoTuples[b] = << >> /\ 1 .. Len(Rk!NoTuples[b]) = {}
    BY <1>1, <1>2
  <1> QED
    BY <1>3 DEF AllStand, AllMade

\* The nonce is advanced and the memory initialized.
LEMMA AttemptKeeps == RkInv /\ Rk!Attempt => RkInv'
  <1> SUFFICES ASSUME RkInv, Rk!Attempt
               PROVE  RkInv'
    OBVIOUS
  <1>1. /\ pc' = "fill" /\ nonce' = nonce + 1 /\ nonce < MaxNonce /\ digest' \in RowDigests
        /\ mode' = mode /\ at' = 0 /\ full' = FALSE /\ tuples' = Rk!NoTuples
        /\ forks' = << >> /\ sols' = << >> /\ proof' = << >>
        /\ next' = Rk!NoTuples /\ made' = << >>
    BY DEF Rk!Attempt, RkInv
  <1>2. MaxNonce \in Nat /\ 0 \in Filled /\ nonce \in Nat
    BY RkParameters DEF Filled, RkInv
  <1>3. nonce' \in Nat /\ nonce' <= MaxNonce
    BY <1>1, <1>2
  <1>4. FillInv'
    BY <1>1, <1>2, NothingStands DEF FillInv
  <1> QED
    BY <1>1, <1>3, <1>4 DEF RkInv

\* A leaf's tuple stands for the leaf.
LEMMA LeafStands ==
  ASSUME NEW d \in RowDigests, NEW l \in Filled
  PROVE  /\ d[l][1] \in Word /\ l \in Nat
         /\ Tail(d[l]) \in Seq(Word)
         /\ Stands(d, RefLeaves(<< >>, 0, l), 0, d[l][1], Tail(d[l]))
  <1>1. HasRows(d, Filled) /\ d[l] \in Row /\ l \in Nat
    BY RkParameters DEF HasRows, Filled
  <1>2. K \in Nat /\ K >= 1 /\ K + 1 \in Nat /\ (K + 1) - 1 = K - 0
    BY WordNumbers
  <1> DEFINE g == d[l]
  <1> HIDE DEF g
  <1>3. g \in Seq(Word) /\ Len(g) = K + 1 /\ g[1] \in Word
    BY <1>1, <1>2, FunctionIsSeq DEF Row, g
  <1>4. /\ Tail(g) \in Seq(Word) /\ Len(Tail(g)) = K - 0
        /\ \A p \in 1 .. K - 0 : Tail(g)[p] = g[0 + 1 + p]
    <2>1. g # << >>
      BY <1>2, <1>3
    <2>2. /\ Tail(g) \in Seq(Word) /\ Len(Tail(g)) = Len(g) - 1
          /\ \A p \in 1 .. Len(Tail(g)) : Tail(g)[p] = g[p + 1]
      BY <1>3, <2>1, HeadTailProperties
    <2>3. Len(Tail(g)) = K - 0
      BY <1>2, <1>3, <2>2
    <2>4. \A p \in 1 .. K - 0 : p + 1 = 0 + 1 + p
      BY <1>2
    <2> QED
      BY <2>2, <2>3, <2>4
  <1>5. Cancelled(g, 0, g[1], Tail(g))
    BY <1>4 DEF Cancelled
  <1>6. RefLeaves(<< >>, 0, l) = <<l>>
    BY DEF RefLeaves
  <1>7. <<l>> \in Seq(Filled) /\ Len(<<l>>) = 1
    OBVIOUS
  <1>8. RowOf(d, <<l>>) = g
    BY <1>1, RowOfOne DEF g
  <1>9. Stands(d, <<l>>, 0, g[1], Tail(g))
    BY <1>5, <1>7, <1>8, PowerOfTwoZero DEF Stands
  <1> QED
    BY <1>1, <1>3, <1>4, <1>6, <1>9 DEF g

\* One tuple more in one bucket.
LEMMA StandsAppend ==
  ASSUME NEW d, NEW fks, NEW n, NEW tps, AllStand(d, fks, n, tps), NEW c \in Word,
         NEW t \in TupleSet, TupleAt(d, fks, n, c, t)
  PROVE  AllStand(d, fks, n, [tps EXCEPT ![c] = Append(tps[c], t)])
  <1> DEFINE nx == [tps EXCEPT ![c] = Append(tps[c], t)]
  <1>1. tps \in [Word -> Seq(TupleSet)]
    BY DEF AllStand
  <1>2. tps[c] \in Seq(TupleSet)
    BY <1>1
  <1>3. /\ Append(tps[c], t) \in Seq(TupleSet) /\ Len(Append(tps[c], t)) = Len(tps[c]) + 1
        /\ Append(tps[c], t)[Len(tps[c]) + 1] = t /\ Len(tps[c]) \in Nat
        /\ \A q \in 1 .. Len(tps[c]) : Append(tps[c], t)[q] = tps[c][q]
    BY <1>2, AppendProperties, LenProperties
  <1>4. nx \in [Word -> Seq(TupleSet)] /\ nx[c] = Append(tps[c], t)
        /\ \A a \in Word : a # c => nx[a] = tps[a]
    BY <1>1, <1>3
  <1> HIDE DEF nx
  <1>5. ASSUME NEW a \in Word, NEW p \in 1 .. Len(nx[a])
        PROVE  TupleAt(d, fks, n, a, nx[a][p])
    <2>1. CASE a # c
      BY <1>4, <2>1 DEF AllStand
    <2>2. CASE a = c /\ p = Len(tps[c]) + 1
      BY <1>3, <1>4, <2>2
    <2>3. CASE a = c /\ p # Len(tps[c]) + 1
      <3>1. p \in 1 .. Len(tps[c])
        BY <1>3, <1>4, <2>3
      <3>2. nx[a][p] = tps[c][p]
        BY <1>3, <1>4, <2>3, <3>1
      <3> QED
        BY <2>3, <3>1, <3>2 DEF AllStand
    <2> QED
      BY <2>1, <2>2, <2>3
  <1>6. AllStand(d, fks, n, nx)
    BY <1>4, <1>5 DEF AllStand
  <1> QED
    BY <1>6 DEF nx

\* The number of words.
LEMMA WordCount == Cardinality(Word) = 2^Bits /\ 2^Bits \in Nat /\ 1 <= 2^Bits
  <1>1. 2^Bits \in Nat /\ 1 <= 2^Bits
    BY WordNumbers
  <1> QED
    BY <1>1, FS_Interval DEF Word

\* A leaf put in its bucket, or dropped when that is full.
LEMMA FillLeafKeeps == RkInv /\ Rk!FillLeaf => RkInv'
  <1> SUFFICES ASSUME RkInv, Rk!FillLeaf
               PROVE  RkInv'
    OBVIOUS
  <1> DEFINE c == digest[at][1]
             t == [blocks |-> Tail(digest[at]), ref |-> at]
  <1>1. /\ pc = "fill" /\ mode' = mode /\ nonce' = nonce /\ digest' = digest /\ next' = next
        /\ forks' = forks /\ made' = made /\ sols' = sols /\ proof' = proof
        /\ \/ at + 1 < Rk!FillCount /\ at' = at + 1 /\ pc' = pc
           \/ at' = 0 /\ pc' = "resolve"
    BY DEF Rk!FillLeaf
  <1>2. \/ tuples' = [tuples EXCEPT ![c] = Append(tuples[c], t)]
        \/ tuples' = tuples
    BY DEF Rk!FillLeaf
  <1>3. full' \in BOOLEAN
    BY DEF Rk!FillLeaf
  <1>4. /\ digest \in RowDigests /\ at \in Filled /\ forks = << >> /\ sols = << >>
        /\ AllStand(digest, << >>, 0, tuples)
    BY <1>1 DEF RkInv, FillInv
  <1>5. c \in Word /\ t \in TupleSet /\ TupleAt(digest, << >>, 0, c, t)
    BY <1>4, LeafStands DEF TupleSet, TupleAt
  <1> HIDE DEF c, t
  <1>6. AllStand(digest, << >>, 0, tuples')
    <2>1. AllStand(digest, << >>, 0, [tuples EXCEPT ![c] = Append(tuples[c], t)])
      BY <1>4, <1>5, StandsAppend
    <2> QED
      BY <1>2, <1>4, <2>1
  <1>7. CASE pc' = "fill"
    <2>1. at' = at + 1 /\ at + 1 < Rk!FillCount /\ at \in Nat /\ Rk!FillCount \in Nat
      BY <1>1, <1>4, <1>7, RkParameters DEF Filled
    <2>2. at' \in Filled'
      BY <2>1 DEF Filled, Rk!FillCount
    <2>3. FillInv'
      BY <1>1, <1>4, <1>6, <2>2 DEF FillInv
    <2> QED
      BY <1>1, <1>3, <1>7, <2>3 DEF RkInv
  <1>8. CASE pc' = "resolve"
    <2>1. at' = 0 /\ next' = Rk!NoTuples /\ made' = << >> /\ sols' = << >> /\ forks' = << >>
      BY <1>1, <1>4, <1>8 DEF RkInv
    <2>2. Len(forks') = 0 /\ 0 \in 0 .. K - 1 /\ 0 \in Word /\ << >> \in Seq(Seq(ForkSet))
      BY <2>1, WordNumbers, XorWordLaws
    <2>3. Held' \in RoundOf(digest, << >>, 0)
      <3>1. Held' = [next |-> Rk!NoTuples, made |-> << >>, sols |-> << >>, full |-> full']
        BY <2>1 DEF Held
      <3>2. << >> \in Seq(ForkSet) /\ << >> \in Seq(Seq(Filled)) /\ AllSolve(digest, << >>)
        BY DEF AllSolve
      <3> QED
        BY <1>3, <3>1, <3>2, NothingStands DEF RoundOf, RoundSet
    <2>4. RoundInv'
      BY <1>1, <1>6, <2>1, <2>2, <2>3 DEF RoundInv
    <2> QED
      BY <1>1, <1>3, <1>8, <2>1, <2>2, <2>4 DEF RkInv
  <1> QED
    BY <1>1, <1>7, <1>8

\* The lists of a round swapped in: what was made of its forks stands.
LEMMA MadeStands ==
  ASSUME NEW d, NEW n \in 0 .. K - 1, NEW fks \in Seq(Seq(ForkSet)), n = Len(fks),
         NEW mk \in Seq(ForkSet), NEW nx \in [Word -> Seq(TupleSet)],
         AllMade(d, fks, n, mk, nx)
  PROVE  AllStand(d, Append(fks, mk), n + 1, nx)
  <1> DEFINE gks == Append(fks, mk)
  <1>1. /\ Len(gks) = n + 1 /\ gks[n + 1] = mk /\ gks \in Seq(Seq(ForkSet))
        /\ \A e \in 1 .. n : gks[e] = fks[e]
    <2> HIDE DEF ForkSet
    <2> QED
      BY AppendProperties
  <1> HIDE DEF gks
  <1>2. n \in Nat /\ n + 1 # 0 /\ (n + 1) - 1 = n /\ n + 1 \in Nat
    OBVIOUS
  <1>3. ForkLists(fks, n) /\ SameForks(fks, gks, n) /\ ForkLists(gks, n + 1)
    <2>1. \A e \in 1 .. n : fks[e] \in Seq(ForkSet)
      BY ElementOfSeq
    <2>2. \A e \in 1 .. n + 1 : gks[e] \in Seq(ForkSet)
      BY <1>1, ElementOfSeq
    <2> QED
      BY <1>1, <2>1, <2>2 DEF ForkLists, SameForks
  <1>4. ASSUME NEW b \in Word, NEW e \in 1 .. Len(nx[b])
        PROVE  TupleAt(d, gks, n + 1, b, nx[b][e])
    <2>1. MadeAt(d, fks, n, mk, b, nx[b][e])
      BY DEF AllMade
    <2> DEFINE ref == nx[b][e].ref
    <2>2. ref < Len(mk) /\ Stands(d, ForkLeaves(fks, n, mk[ref + 1]), n + 1, b, nx[b][e].blocks)
      BY <2>1 DEF MadeAt
    <2>3. ForkIn(gks, n + 1, ref) = mk[ref + 1]
      BY <1>1, <2>2 DEF ForkIn
    <2>4. RefLeaves(gks, n + 1, ref) = ForkLeaves(gks, n, mk[ref + 1])
      BY <1>2, <2>3 DEF RefLeaves
    <2>5. ForkLeaves(gks, n, mk[ref + 1]) = ForkLeaves(fks, n, mk[ref + 1])
      BY <1>2, <1>3, ForkLeavesSame
    <2> QED
      BY <2>2, <2>4, <2>5 DEF TupleAt
  <1>5. AllStand(d, gks, n + 1, nx)
    BY <1>4 DEF AllStand
  <1> QED
    BY <1>5 DEF gks

\* A bucket resolved; after the last of a round the next round or the check.
LEMMA ResolveKeeps == RkInv /\ Rk!ResolveCollisions => RkInv'
  <1> SUFFICES ASSUME RkInv, Rk!ResolveCollisions
               PROVE  RkInv'
    OBVIOUS
  <1>1. /\ pc = "resolve" /\ mode' = mode /\ nonce' = nonce /\ digest' = digest /\ proof' = proof
    BY DEF Rk!ResolveCollisions
  <1>2. /\ digest \in RowDigests /\ forks \in Seq(Seq(ForkSet)) /\ Len(forks) \in 0 .. K - 1
        /\ at \in Word /\ AllStand(digest, forks, Len(forks), tuples)
        /\ Held \in RoundOf(digest, forks, Len(forks))
    BY <1>1 DEF RkInv, RoundInv
  <1>3. PICK n \in 0 .. K - 1 : n = Len(forks)
    BY <1>2
  <1>4. ForkLists(forks, n)
    BY <1>2, <1>3, ElementOfSeq DEF ForkLists
  <1>5. PICK acc \in RoundOf(digest, forks, n) : acc = Rk!Resolved(tuples[at])
    BY <1>2, <1>3, <1>4, RkResolved
  <1>6. /\ sols' = acc.sols /\ full' = acc.full
        /\ \/ /\ at + 1 < Cardinality(Rk!Word) /\ at' = at + 1
              /\ next' = acc.next /\ made' = acc.made
              /\ pc' = pc /\ tuples' = tuples /\ forks' = forks
           \/ /\ at' = 0 /\ tuples' = acc.next /\ forks' = Append(forks, acc.made)
              /\ next' = Rk!NoTuples /\ made' = << >>
              /\ pc' = IF Rk!LastRound THEN "check" ELSE pc
    <2>1. Rk!Cardinality(Rk!Word) = Cardinality(Rk!Word)
      BY Zenon DEF Rk!Cardinality, Cardinality
    <2> QED
      BY <1>5, <2>1 DEF Rk!ResolveCollisions, Rk!PushForks
  <1>7. /\ acc.next \in [Word -> Seq(TupleSet)] /\ acc.made \in Seq(ForkSet)
        /\ acc.sols \in Seq(Seq(Filled)) /\ acc.full \in BOOLEAN
        /\ acc = [next |-> acc.next, made |-> acc.made, sols |-> acc.sols, full |-> acc.full]
        /\ AllMade(digest, forks, n, acc.made, acc.next) /\ AllSolve(digest, acc.sols)
    BY DEF RoundOf, RoundSet
  <1>8. ASSUME at + 1 < Cardinality(Rk!Word), at' = at + 1,
               next' = acc.next, made' = acc.made, pc' = pc, tuples' = tuples, forks' = forks
        PROVE  RkInv'
    <2>1. at' \in Word
      <3>1. at + 1 < 2^Bits
        BY <1>8, RkRows, WordCount
      <3> QED
        BY <3>1, <1>2, <1>8, WordCount DEF Word
    <2>2. Held' = acc
      BY <1>6, <1>7, <1>8 DEF Held
    <2>3. RoundInv'
      BY <1>1, <1>2, <1>3, <1>8, <2>1, <2>2 DEF RoundInv
    <2> QED
      BY <1>1, <1>2, <1>6, <1>7, <1>8, <2>3 DEF RkInv
  <1>9. ASSUME at' = 0, tuples' = acc.next, forks' = Append(forks, acc.made),
               next' = Rk!NoTuples, made' = << >>,
               pc' = IF Rk!LastRound THEN "check" ELSE pc
        PROVE  RkInv'
    <2>1. forks' \in Seq(Seq(ForkSet)) /\ Len(forks') = n + 1
      <3> HIDE DEF ForkSet
      <3> QED
        BY <1>2, <1>3, <1>7, <1>9, AppendProperties
    <2>2. CASE Rk!LastRound
      BY <1>1, <1>6, <1>7, <1>9, <2>2 DEF RkInv
    <2>3. CASE ~Rk!LastRound
      <3>1. n + 1 \in 0 .. K - 1 /\ 0 \in Word
        BY <1>3, <2>3, XorWordLaws, WordNumbers DEF Rk!LastRound
      <3>2. AllStand(digest, forks', n + 1, tuples')
        BY <1>2, <1>3, <1>7, <1>9, MadeStands
      <3>3. Held' \in RoundOf(digest, forks', n + 1)
        <4>1. Held' = [next |-> Rk!NoTuples, made |-> << >>, sols |-> acc.sols, full |-> acc.full]
          BY <1>6, <1>9 DEF Held
        <4>2. << >> \in Seq(ForkSet)
          OBVIOUS
        <4> QED
          BY <1>7, <4>1, <4>2, NothingStands DEF RoundOf, RoundSet
      <3>4. RoundInv'
        BY <1>1, <1>9, <2>1, <3>1, <3>2, <3>3 DEF RoundInv
      <3> QED
        BY <1>1, <1>6, <1>7, <1>9, <2>1, <2>3, <3>4 DEF RkInv
    <2> QED
      BY <2>2, <2>3
  <1> QED
    BY <1>6, <1>8, <1>9

\* The end of an attempt, and of the search.
LEMMA AttemptEnds ==
  RkInv /\ (Rk!SingleDone \/ Rk!Found \/ Rk!TryNext \/ Rk!GiveUp) => RkInv'
  <1>1. ASSUME RkInv, Rk!SingleDone
        PROVE  RkInv'
    BY <1>1 DEF RkInv, Rk!SingleDone
  <1>2. ASSUME RkInv, Rk!Found
        PROVE  RkInv'
    <2>1. PICK s \in DOMAIN sols : Rk!IsInjective(sols[s]) /\ proof' = sols[s]
      BY <1>2 DEF Rk!Found, Rk!DuplicateFree
    <2>2. /\ pc = "check" /\ pc' = "done" /\ mode' = mode /\ nonce' = nonce /\ full' = full
          /\ digest' = digest /\ next' = next /\ made' = made
      BY <1>2 DEF Rk!Found
    <2>3. sols \in Seq(Seq(Filled)) /\ Solution(digest, sols[s]) /\ nonce <= MaxNonce
      <3>1. sols \in Seq(Seq(Filled)) /\ AllSolve(digest, sols) /\ nonce <= MaxNonce
        BY <1>2, <2>2 DEF RkInv
      <3>2. s \in 1 .. Len(sols)
        BY <2>1, <3>1, LenProperties
      <3> QED
        BY <3>1, <3>2 DEF AllSolve
    <2> QED
      BY <1>2, <2>1, <2>2, <2>3 DEF RkInv
  <1>3. ASSUME RkInv, Rk!TryNext
        PROVE  RkInv'
    BY <1>3 DEF RkInv, Rk!TryNext
  <1>4. ASSUME RkInv, Rk!GiveUp
        PROVE  RkInv'
    BY <1>4 DEF RkInv, Rk!GiveUp
  <1> QED
    BY <1>1, <1>2, <1>3, <1>4

\* A step that changes none of it.
LEMMA RkStays == RkInv /\ UNCHANGED Rk!vars => RkInv'
  <1> SUFFICES ASSUME RkInv, UNCHANGED Rk!vars
               PROVE  RkInv'
    OBVIOUS
  <1>1. /\ mode' = mode /\ pc' = pc /\ nonce' = nonce /\ digest' = digest /\ at' = at
        /\ tuples' = tuples /\ next' = next /\ forks' = forks /\ made' = made
        /\ sols' = sols /\ proof' = proof /\ full' = full
    BY DEF Rk!vars
  <1>2. FillInv' = FillInv
    BY <1>1 DEF FillInv
  <1>3. RoundInv' = RoundInv
    BY <1>1 DEF RoundInv, Held
  <1> QED
    BY <1>1, <1>2, <1>3 DEF RkInv

LEMMA RkAlways == Spec => [](part = "rk" => RkInv)
  <1> DEFINE Inv == part = "rk" => RkInv
  <1>1. Init => Inv
    BY RkInitially DEF Init
  <1>2. Inv /\ [Next]_vars => Inv'
    <2> SUFFICES ASSUME Inv, [Next]_vars, part' = "rk"
                 PROVE  RkInv'
      OBVIOUS
    <2>1. part = "rk" /\ RkInv
      BY DEF Next, vars
    <2>2. Rk!Next \/ UNCHANGED Rk!vars
      BY <2>1 DEF Next, vars, rkVars, Rk!vars
    <2>3. CASE Rk!Next
      BY <2>1, <2>3, AttemptKeeps, FillLeafKeeps, ResolveKeeps, AttemptEnds DEF Rk!Next
    <2> QED
      BY <2>1, <2>2, <2>3, RkStays
  <1> QED
    BY <1>1, <1>2, PTL DEF Spec

\* A row so far cancelled is the zeros, the bucket and the blocks.
LEMMA RowSpelled ==
  ASSUME NEW n \in 0 .. K - 1, NEW g \in Row, NEW b \in Word, NEW blocks, Cancelled(g, n, b, blocks)
  PROVE  g = [s \in 1 .. n |-> 0] \o <<b>> \o blocks
  <1> DEFINE z == [s \in 1 .. n |-> 0]
  <1>1. n \in Nat /\ K \in Nat /\ K + 1 \in Nat /\ K - n \in Nat /\ (n + 1) + (K - n) = K + 1
    BY WordNumbers
  <1>2. 0 \in Word /\ z \in [1 .. n -> Word]
    BY XorWordLaws
  <1>3. z \in Seq(Word) /\ Len(z) = n
    BY <1>1, <1>2, FunctionIsSeq
  <1>4. g \in Seq(Word) /\ Len(g) = K + 1
    BY <1>1, FunctionIsSeq DEF Row
  <1>5. <<b>> \in Seq(Word) /\ Len(<<b>>) = 1 /\ <<b>>[1] = b
    OBVIOUS
  <1>6. blocks \in Seq(Word) /\ Len(blocks) = K - n
    BY DEF Cancelled
  <1>7. \A p \in 1 .. n : z[p] = 0
    OBVIOUS
  <1> HIDE DEF z
  <1> DEFINE y == z \o <<b>>
  <1>8. /\ y \in Seq(Word) /\ Len(y) = n + 1 /\ y[n + 1] = b
        /\ \A p \in 1 .. n : y[p] = 0
    <2>1. y \in Seq(Word) /\ Len(y) = n + 1
      BY <1>3, <1>5, ConcatProperties
    <2>2. \A p \in 1 .. n : y[p] = z[p]
      BY <1>3, <1>5, ConcatProperties
    <2>3. \A p \in 1 .. 1 : y[n + p] = <<b>>[p]
      BY <1>3, <1>5, ConcatProperties
    <2> QED
      BY <1>5, <1>7, <2>1, <2>2, <2>3
  <1> HIDE DEF y
  <1> DEFINE x == y \o blocks
  <1>9. /\ x \in Seq(Word) /\ Len(x) = K + 1
        /\ \A p \in 1 .. n + 1 : x[p] = y[p]
        /\ \A p \in 1 .. K - n : x[n + 1 + p] = blocks[p]
    <2>1. x \in Seq(Word) /\ Len(x) = Len(y) + Len(blocks)
      BY <1>6, <1>8, ConcatProperties
    <2>2. \A p \in 1 .. Len(y) : x[p] = y[p]
      BY <1>6, <1>8, ConcatProperties
    <2>3. \A p \in 1 .. Len(blocks) : x[Len(y) + p] = blocks[p]
      BY <1>6, <1>8, ConcatProperties
    <2> HIDE DEF x
    <2> QED
      BY <1>1, <1>6, <1>8, <2>1, <2>2, <2>3
  <1> HIDE DEF x
  <1>10. \A p \in 1 .. K + 1 : x[p] = g[p]
    <2> SUFFICES ASSUME NEW p \in 1 .. K + 1
                 PROVE  x[p] = g[p]
      OBVIOUS
    <2>1. CASE p \in 1 .. n
      BY <1>1, <1>8, <1>9, <2>1 DEF Cancelled
    <2>2. CASE p = n + 1
      BY <1>1, <1>8, <1>9, <2>2 DEF Cancelled
    <2>3. CASE p > n + 1
      <3>1. p - (n + 1) \in 1 .. K - n /\ n + 1 + (p - (n + 1)) = p
        BY <1>1, <2>3
      <3>2. x[n + 1 + (p - (n + 1))] = blocks[p - (n + 1)]
        BY <1>9, <3>1
      <3>3. blocks[p - (n + 1)] = g[n + 1 + (p - (n + 1))]
        BY <3>1 DEF Cancelled
      <3> QED
        BY <3>1, <3>2, <3>3
    <2> QED
      BY <1>1, <2>1, <2>2, <2>3
  <1>11. x = g
    BY <1>4, <1>9, <1>10, SeqEqual
  <1> QED
    BY <1>11 DEF x, y, z

\* The leaves the model resolves a tuple to.
LEMMA LeavesOfIs ==
  ASSUME forks \in Seq(Seq(ForkSet)), NEW t
  PROVE  Rk!LeavesOf(t) = RefLeaves(forks, Len(forks), t.ref)
  <1>1. Len(forks) \in Nat /\ (Len(forks) = 0 <=> forks = << >>)
    BY LenProperties, EmptySeq
  <1>2. CASE forks = << >>
    BY <1>1, <1>2 DEF Rk!LeavesOf, RefLeaves
  <1>3. CASE forks # << >>
    <2>1. RefLeaves(forks, Len(forks), t.ref)
            = ForkLeaves(forks, Len(forks) - 1, ForkIn(forks, Len(forks), t.ref))
      BY <1>1, <1>3 DEF RefLeaves
    <2>2. Rk!LeavesOf(t) = Rk!ResolveTreeByLevel(ForkIn(forks, Len(forks), t.ref), Len(forks) - 1)
      BY <1>3 DEF Rk!LeavesOf, Rk!ForkAt, ForkIn
    <2> QED
      BY <2>1, <2>2 DEF Rk!ResolveTreeByLevel, Rk!ForkAt, ForkLeaves, Resolving, ForkIn
  <1> QED
    BY <1>2, <1>3

\* So a tuple stands for the leaves its reference leads to through the forks of all
\* rounds,
LEMMA TuplesDoStand == RkInv => Rk!TuplesStand
  <1> SUFFICES ASSUME RkInv, pc = "resolve", NEW b \in Rk!Word, NEW e \in DOMAIN tuples[b]
               PROVE  Rk!RowOf(digest, Rk!LeavesOf(tuples[b][e]))
                        = [s \in 1 .. Len(forks) |-> 0] \o <<b>> \o tuples[b][e].blocks
    BY DEF Rk!TuplesStand
  <1>1. /\ digest \in RowDigests /\ forks \in Seq(Seq(ForkSet)) /\ Len(forks) \in 0 .. K - 1
        /\ AllStand(digest, forks, Len(forks), tuples) /\ b \in Word
    BY RkRows DEF RkInv, RoundInv
  <1>2. tuples[b] \in Seq(TupleSet) /\ e \in 1 .. Len(tuples[b])
    BY <1>1, LenProperties DEF AllStand
  <1> DEFINE t == tuples[b][e]
             v == RefLeaves(forks, Len(forks), t.ref)
  <1>3. Stands(digest, v, Len(forks), b, t.blocks)
    BY <1>1, <1>2 DEF AllStand, TupleAt
  <1>4. Rk!LeavesOf(t) = v
    BY <1>1, LeavesOfIs
  <1> HIDE DEF t, v
  <1>5. /\ HasRows(digest, Filled) /\ v \in Seq(Filled)
        /\ Cancelled(RowOf(digest, v), Len(forks), b, t.blocks)
    BY <1>1, <1>3, RkParameters DEF Stands
  <1>6. RowOf(digest, v) \in Row
    BY <1>5, RowOfType
  <1>7. RowOf(digest, v) = [s \in 1 .. Len(forks) |-> 0] \o <<b>> \o t.blocks
    BY <1>1, <1>5, <1>6, RowSpelled
  <1>8. Rk!RowOf(digest, v) = RowOf(digest, v)
    BY RkRows
  <1> QED
    BY <1>4, <1>7, <1>8 DEF t

\* and a proof that is returned passes its own test, with 2^K leaves, none twice.
LEMMA ProofsDoTest == RkInv => Rk!ProofTests
  <1> SUFFICES ASSUME RkInv, pc = "done", proof # << >>
               PROVE  Rk!Test(proof) /\ Rk!IsInjective(proof) /\ Len(proof) = 2^K /\ nonce <= MaxNonce
    BY DEF Rk!ProofTests
  <1>1. nonce <= MaxNonce /\ Solution(digest, proof) /\ Rk!IsInjective(proof)
    BY DEF RkInv
  <1>2. Rk!RowOf(digest, proof) = Rk!ZeroRow
    BY <1>1, RkRows DEF Solution
  <1> QED
    BY <1>1, <1>2 DEF Rk!Test, Solution

\* Whatever the hash functions, list lengths and fork numbers, a tuple kept by
\* Khovratovich's solver stands for the leaves its reference leads to through the
\* forks of all rounds, and a proof it returns passes its own test, under the nonce
\* it reports, and has 2^K leaves, none of them twice.
THEOREM TuplesAreSound == Spec => []TuplesSound
  <1>1. (part = "rk" => RkInv) => TuplesSound
    BY TuplesDoStand, ProofsDoTest DEF TuplesSound
  <1> QED
    BY <1>1, RkAlways, PTL

-----------------------------------------------------------------------------
(* Tromp's solver.  A packed tree names two slots of its bucket in the     *)
(* round before, and slots once written stay; so what a tree unfolds to    *)
(* never changes, stands for its leaves, and comes of no other tree.       *)

\* Rows, as the model of this solver takes them.
LEMMA RzRows ==
  /\ Rz!Word = Word /\ Rz!ZeroRow = ZeroRow
  /\ \A x, y : Rz!XorWord(x, y) = XorWord(x, y)
  /\ \A g, h : Rz!XorSeq(g, h) = XorSeq(g, h)
  /\ \A d, v : Rz!RowOf(d, v) = RowOf(d, v)
  <1>1. Rz!Word = Word
    BY DEF Rz!Word, Word
  <1>2. Rz!XorBits = XorBits
    BY Zenon DEF Rz!XorBits, XorBits, Rz!Word, Word
  <1>3. \A x, y : Rz!XorWord(x, y) = XorWord(x, y)
    BY <1>2, Zenon DEF Rz!XorWord, XorWord, Rz!XorTable, XorTable
  <1>4. \A g, h : Rz!XorSeq(g, h) = XorSeq(g, h)
    BY <1>3, Zenon DEF Rz!XorSeq, XorSeq
  <1>5. Rz!ZeroRow = ZeroRow
    BY Zenon DEF Rz!ZeroRow, ZeroRow
  <1>6. \A d, v : Rz!RowOf(d, v) = RowOf(d, v)
    BY <1>4, <1>5, Zenon DEF Rz!RowOf, RowOf
  <1> QED
    BY <1>1, <1>3, <1>4, <1>5, <1>6

\* Powers of two multiply.
LEMMA PowerOfTwoSum ==
  ASSUME NEW a \in Nat, NEW b \in Nat
  PROVE  2^(a + b) = 2^a * 2^b
  <1> DEFINE T == {n \in 0 .. b : 2^(a + n) = 2^a * 2^n}
  <1>1. 0 \in T
    BY PowerOfTwoZero, PowerOfTwoType
  <1>2. ASSUME NEW n \in 1 .. b, n - 1 \in T
        PROVE  n \in T
    <2>1. n - 1 \in Nat /\ a + (n - 1) \in Nat /\ (n - 1) + 1 = n /\ (a + (n - 1)) + 1 = a + n
      OBVIOUS
    <2>2. 2^n = 2 * 2^(n - 1) /\ 2^(a + n) = 2 * 2^(a + (n - 1))
      BY <2>1, PowerOfTwoDoubles
    <2>3. 2^(a + (n - 1)) = 2^a * 2^(n - 1)
      BY <1>2
    <2>4. 2^a \in Nat /\ 2^(n - 1) \in Nat
      BY <2>1, PowerOfTwoType
    <2>5. \A x, y \in Nat : 2 * (x * y) = x * (2 * y)
      OBVIOUS
    <2> QED
      BY <2>2, <2>3, <2>4, <2>5
  <1> HIDE DEF T
  <1>3. b \in T
    BY <1>1, <1>2, CountUp
  <1> QED
    BY <1>3 DEF T

\* The rest bits split a digit into bucket and rest.
Rests == 2^RestBits

LEMMA RzParameters ==
  /\ {NSlots, XFull, MaxSols, TailBits} \subseteq Nat /\ HashesPerBlake \in Nat \ {0}
  /\ Rests \in Nat \ {0} /\ Rests <= 2^Bits
  /\ Rz!SlotRange \in Nat \ {0} /\ NSlots <= Rz!SlotRange
  /\ Rz!NBlocks \in Nat \ {0}
  /\ \A d \in BlockDigests : HasRows(d, Rz!Hashed)
  <1>1. /\ RestBits \in 0 .. Bits - 1
        /\ {NSlots, XFull, MaxSols, TailBits} \subseteq Nat /\ HashesPerBlake \in Nat \ {0}
        /\ NSlots <= 2^(RestBits + 2)
        /\ \A d \in BlockDigests : \A l \in Rz!Hashed : d[l] \in [1 .. K + 1 -> Rz!Word]
    BY PartsAssumption DEF Rz!ShapeAssumption
  <1>2. RestBits \in Nat /\ RestBits + 2 \in Nat /\ Bits - RestBits \in Nat
    BY <1>1, WordNumbers
  <1>3. Rests \in Nat \ {0} /\ Rz!SlotRange \in Nat \ {0}
    BY <1>2, PowerOfTwoPositive DEF Rests, Rz!SlotRange
  <1>4. Rests <= 2^Bits
    <2>1. 2^(RestBits + (Bits - RestBits)) = Rests * 2^(Bits - RestBits)
      BY <1>2, PowerOfTwoSum DEF Rests
    <2>2. RestBits + (Bits - RestBits) = Bits
      BY <1>2, WordNumbers
    <2>3. 2^(Bits - RestBits) \in Nat /\ 1 <= 2^(Bits - RestBits)
      BY <1>2, PowerOfTwoPositive
    <2>4. \A x, y \in Nat : 1 <= y => x <= x * y
      BY SMT
    <2> QED
      BY <1>3, <2>1, <2>2, <2>3, <2>4
  <1>5. Rz!NBlocks \in Nat \ {0}
    <2>1. Rz!NHashes \in Nat /\ 1 <= Rz!NHashes
      BY WordNumbers DEF Rz!NHashes
    <2> DEFINE n == Rz!NHashes + HashesPerBlake - 1
               q == n \div HashesPerBlake
    <2>2. n \in Nat /\ n >= HashesPerBlake
      BY <1>1, <2>1
    <2>3. q \in Nat /\ n = HashesPerBlake * q + (n % HashesPerBlake) /\ n % HashesPerBlake \in 0 .. HashesPerBlake - 1
      BY <1>1, <2>2, DivBounds
    <2> HIDE DEF n
    <2>4. q # 0
      BY <1>1, <2>2, <2>3
    <2> QED
      BY <2>3, <2>4 DEF n, Rz!NBlocks
  <1>6. \A d \in BlockDigests : HasRows(d, Rz!Hashed)
    BY <1>1, RzRows DEF HasRows, Row
  <1> QED
    BY <1>1, <1>3, <1>4, <1>5, <1>6 DEF Rz!SlotRange

\* Division undoes multiplication.
LEMMA DivisionOf ==
  ASSUME NEW d \in Nat \ {0}, NEW q \in Nat, NEW x \in 0 .. d - 1
  PROVE  /\ q * d + x \in Nat
         /\ (q * d + x) \div d = q
         /\ (q * d + x) % d = x
  <1> DEFINE a == q * d + x
  <1>1. a \in Nat
    BY SMT
  <1>2. a \div d \in Nat /\ a % d \in 0 .. d - 1 /\ a = d * (a \div d) + (a % d)
    BY <1>1, DivBounds
  <1>3. a = d * q + x
    BY SMT
  <1> HIDE DEF a
  <1>4. a \div d = q
    <2> DEFINE p == a \div d
               y == a % d
    <2> HIDE DEF p, y
    <2>1. p \in Nat /\ y \in 0 .. d - 1 /\ d * p + y = d * q + x
      BY <1>2, <1>3 DEF p, y
    <2>2. ~(p < q)
      <3> SUFFICES ASSUME p < q PROVE FALSE
        OBVIOUS
      <3>1. d * (p + 1) <= d * q
        BY <2>1, SMT
      <3>2. d * (p + 1) = d * p + d
        BY <2>1, SMT
      <3> QED
        BY <2>1, <3>1, <3>2
    <2>3. ~(q < p)
      <3> SUFFICES ASSUME q < p PROVE FALSE
        OBVIOUS
      <3>1. d * (q + 1) <= d * p
        BY <2>1, SMT
      <3>2. d * (q + 1) = d * q + d
        BY <2>1, SMT
      <3> QED
        BY <2>1, <3>1, <3>2
    <2> QED
      BY <2>1, <2>2, <2>3 DEF p
  <1> QED
    BY <1>1, <1>2, <1>3, <1>4 DEF a

LEMMA DigitSplits ==
  ASSUME NEW w \in Word
  PROVE  /\ Rz!BucketOf(w) \in Rz!Bucket /\ Rz!RestOf(w) \in Word
         /\ w = Rz!BucketOf(w) * Rests + Rz!RestOf(w)
  <1>1. w \in Nat /\ w < 2^Bits /\ 2^Bits \in Nat
    BY WordNumbers DEF Word
  <1> DEFINE q == w \div Rests
             x == w % Rests
             B == 2^(Bits - RestBits)
  <1>2. q \in Nat /\ x \in 0 .. Rests - 1 /\ w = Rests * q + x
    BY <1>1, RzParameters, DivBounds
  <1>3. B \in Nat /\ 2^Bits = Rests * B
    <2>1. RestBits \in Nat /\ Bits - RestBits \in Nat /\ RestBits + (Bits - RestBits) = Bits
      BY WordNumbers, PartsAssumption DEF Rz!ShapeAssumption
    <2> QED
      BY <2>1, PowerOfTwoSum, PowerOfTwoType DEF Rests
  <1> HIDE DEF q, x, B
  <1>4. q < B
    <2> SUFFICES ASSUME B <= q PROVE FALSE
      BY <1>2, <1>3
    <2>1. Rests * B <= Rests * q
      BY <1>2, <1>3, RzParameters, SMT
    <2> QED
      BY <1>1, <1>2, <1>3, <2>1, RzParameters, SMT
  <1>5. x \in Word
    BY <1>2, RzParameters, WordNumbers DEF Word
  <1>6. Rests * q = q * Rests
    BY <1>2, RzParameters
  <1>7. q \in 0 .. B - 1
    BY <1>2, <1>3, <1>4
  <1> QED
    BY <1>2, <1>5, <1>6, <1>7 DEF q, x, B, Rz!BucketOf, Rz!RestOf, Rz!Bucket, Rests

\* The fields of a packed tree are those it was packed from.
LEMMA TreeFields ==
  ASSUME NEW b \in Nat, NEW x \in 0 .. Rz!SlotRange - 1, NEW y \in 0 .. Rz!SlotRange - 1
  PROVE  LET t == Rz!TreeFromBid(b, x, y)
         IN /\ t \in Nat
            /\ Rz!TreeBucket(t) = b /\ Rz!TreeSlot0(t) = x /\ Rz!TreeSlot1(t) = y
  <1> DEFINE R == Rz!SlotRange
             c == b * R + x
             t == c * R + y
  <1>1. R \in Nat \ {0}
    BY RzParameters
  <1> HIDE DEF R
  <1>2. x \in 0 .. R - 1 /\ y \in 0 .. R - 1
    BY DEF R
  <1>3. c \in Nat /\ c \div R = b /\ c % R = x
    BY <1>1, <1>2, DivisionOf
  <1>4. t \in Nat /\ t \div R = c /\ t % R = y
    <2> HIDE DEF c
    <2> QED
      BY <1>1, <1>2, <1>3, DivisionOf
  <1>5. t \div (R * R) = b
    <2>1. R * R \in Nat \ {0}
      BY <1>1, SMT
    <2>2. x * R + y \in 0 .. R * R - 1
      <3>1. x * R <= (R - 1) * R
        BY <1>1, <1>2, SMT
      <3>2. (R - 1) * R = R * R - R
        BY <1>1, SMT
      <3>3. x * R \in Nat /\ R * R \in Nat
        BY <1>1, <1>2, SMT
      <3> QED
        BY <1>1, <1>2, <3>1, <3>2, <3>3
    <2>3. t = b * (R * R) + (x * R + y)
      BY <1>1, <1>2, SMT
    <2> HIDE DEF t
    <2> QED
      BY <2>1, <2>2, <2>3, DivisionOf
  <1>6. t = Rz!TreeFromBid(b, x, y)
    BY DEF Rz!TreeFromBid, R
  <1> HIDE DEF t, c
  <1> QED
    BY <1>3, <1>4, <1>5, <1>6 DEF Rz!TreeBucket, Rz!TreeSlot0, Rz!TreeSlot1, R

\* Each round has its own trees.
LEMMA TreesApart ==
  ASSUME NEW p \in Nat, NEW q \in Nat, Rz!TreesOf(p) = Rz!TreesOf(q)
  PROVE  p = q
  <1>1. p % 2 = q % 2 /\ p \div 2 = q \div 2
    BY DEF Rz!TreesOf
  <1> QED
    BY <1>1

-----------------------------------------------------------------------------
\* The attribute of slot s of bucket b, in the slots sl.
AttrIn(sl, tree, b, s) == IF s < Len(sl[tree][b]) THEN sl[tree][b][s + 1].attr ELSE 0

\* What the trees of a round unfold to, from what those of the round before do.
LevelStep(sl, n, t) ==
  [u \in Nat |->
     Rz!OrderIndices(t[AttrIn(sl, Rz!Src(n), Rz!TreeBucket(u), Rz!TreeSlot0(u))],
                     t[AttrIn(sl, Rz!Src(n), Rz!TreeBucket(u), Rz!TreeSlot1(u))])]

LevelStart == [u \in Nat |-> <<u>>]

LevelBody(sl, q, F) ==
  [n \in 0 .. q |->
    [u \in Nat |->
       IF n = 0 THEN <<u>>
       ELSE Rz!OrderIndices(F[n - 1][AttrIn(sl, Rz!Src(n), Rz!TreeBucket(u), Rz!TreeSlot0(u))],
                            F[n - 1][AttrIn(sl, Rz!Src(n), Rz!TreeBucket(u), Rz!TreeSlot1(u))])]]

Levels(sl, q) == CHOOSE F : F = LevelBody(sl, q, F)

LEMMA LevelForm ==
  ASSUME NEW sl, NEW q, NEW F
  PROVE  LevelBody(sl, q, F)
           = [n \in 0 .. q |-> IF n = 0 THEN LevelStart ELSE LevelStep(sl, n, F[n - 1])]
  <1>1. ASSUME NEW n \in 0 .. q
        PROVE  LevelBody(sl, q, F)[n] = IF n = 0 THEN LevelStart ELSE LevelStep(sl, n, F[n - 1])
    <2>1. CASE n = 0
      BY <2>1 DEF LevelBody, LevelStart
    <2>2. CASE n # 0
      BY <2>2 DEF LevelBody, LevelStep
    <2> QED
      BY <2>1, <2>2
  <1>2. LevelBody(sl, q, F) = [n \in 0 .. q |-> LevelBody(sl, q, F)[n]]
    BY DEF LevelBody
  <1> QED
    BY <1>1, <1>2

LEMMA LevelsExist ==
  ASSUME NEW sl, NEW q \in Nat
  PROVE  \E F : F = [n \in 0 .. q |-> IF n = 0 THEN LevelStart ELSE LevelStep(sl, n, F[n - 1])]
  <1> DEFINE Good(m) == \E F : F = [n \in 0 .. m |-> IF n = 0 THEN LevelStart ELSE LevelStep(sl, n, F[n - 1])]
             T == {m \in 0 .. q : Good(m)}
  <1>1. 0 \in T
    <2> DEFINE F == [n \in 0 .. 0 |-> LevelStart]
    <2>1. F = [n \in 0 .. 0 |-> IF n = 0 THEN LevelStart ELSE LevelStep(sl, n, F[n - 1])]
      OBVIOUS
    <2>2. Good(0)
      BY <2>1
    <2> HIDE DEF Good
    <2> QED
      BY <2>2
  <1>2. ASSUME NEW m \in 1 .. q, m - 1 \in T
        PROVE  m \in T
    <2>1. Good(m - 1)
      BY <1>2
    <2>2. PICK F : F = [n \in 0 .. m - 1 |-> IF n = 0 THEN LevelStart ELSE LevelStep(sl, n, F[n - 1])]
      BY <2>1
    <2> DEFINE G == [n \in 0 .. m |-> IF n = m THEN LevelStep(sl, m, F[m - 1]) ELSE F[n]]
    <2>3. ASSUME NEW n \in 0 .. m
          PROVE  G[n] = IF n = 0 THEN LevelStart ELSE LevelStep(sl, n, G[n - 1])
      <3>1. CASE n = m
        BY <3>1
      <3>2. CASE n # m
        <4>1. n \in 0 .. m - 1 /\ G[n] = F[n] /\ (n # 0 => G[n - 1] = F[n - 1])
          BY <3>2
        <4>2. F[n] = IF n = 0 THEN LevelStart ELSE LevelStep(sl, n, F[n - 1])
          BY <2>2, <4>1
        <4> QED
          BY <4>1, <4>2
      <3> QED
        BY <3>1, <3>2
    <2>4. G = [n \in 0 .. m |-> G[n]]
      OBVIOUS
    <2> HIDE DEF G
    <2>5. G = [n \in 0 .. m |-> IF n = 0 THEN LevelStart ELSE LevelStep(sl, n, G[n - 1])]
      BY <2>3, <2>4
    <2>6. Good(m)
      BY <2>5
    <2> HIDE DEF Good
    <2> QED
      BY <2>6
  <1> HIDE DEF T
  <1>3. q \in T
    BY <1>1, <1>2, CountUp
  <1> HIDE DEF Good
  <1>4. Good(q)
    BY <1>3 DEF T
  <1> QED
    BY <1>4 DEF Good

LEMMA LevelsAre ==
  ASSUME NEW sl, NEW q \in Nat
  PROVE  /\ Levels(sl, q)[0] = LevelStart
         /\ \A n \in 1 .. q : Levels(sl, q)[n] = LevelStep(sl, n, Levels(sl, q)[n - 1])
  <1> DEFINE H == Levels(sl, q)
  <1>1. H = [n \in 0 .. q |-> IF n = 0 THEN LevelStart ELSE LevelStep(sl, n, H[n - 1])]
    <2>1. PICK F : F = [n \in 0 .. q |-> IF n = 0 THEN LevelStart ELSE LevelStep(sl, n, F[n - 1])]
      BY LevelsExist
    <2>2. F = LevelBody(sl, q, F)
      BY <2>1, LevelForm
    <2>3. H = LevelBody(sl, q, H)
      BY <2>2 DEF Levels
    <2> QED
      BY <2>3, LevelForm
  <1> HIDE DEF H
  <1>2. \A n \in 0 .. q : H[n] = IF n = 0 THEN LevelStart ELSE LevelStep(sl, n, H[n - 1])
    BY <1>1
  <1>3. \A n \in 1 .. q : n \in 0 .. q /\ n # 0
    OBVIOUS
  <1> QED
    BY <1>2, <1>3 DEF H

\* The leaves of a tree of round q.
Unfolded(sl, q, t) == Levels(sl, q)[q][t]

LEMMA ListIndicesAre ==
  ASSUME NEW q, NEW t
  PROVE  Rz!ListIndices(q, t) = Unfolded(slots, q, t)
  BY DEF Rz!ListIndices, Unfolded, Levels, LevelBody, AttrIn, Rz!Attr

\* They depend on the slots of earlier rounds alone,
SameBelow(sl, sm, q) == \A n \in 0 .. q - 1 : sl[Rz!TreesOf(n)] = sm[Rz!TreesOf(n)]

LEMMA LevelsSame ==
  ASSUME NEW q \in Nat, NEW p \in Nat, NEW o \in Nat, q <= p, q <= o,
         NEW sl, NEW sm, SameBelow(sl, sm, q)
  PROVE  Levels(sl, p)[q] = Levels(sm, o)[q]
  <1> DEFINE T == {n \in 0 .. q : Levels(sl, p)[n] = Levels(sm, o)[n]}
  <1>1. 0 \in T
    BY LevelsAre
  <1>2. ASSUME NEW n \in 1 .. q, n - 1 \in T
        PROVE  n \in T
    <2>1. n \in 1 .. p /\ n \in 1 .. o /\ n - 1 \in 0 .. q - 1
      OBVIOUS
    <2>2. /\ Levels(sl, p)[n] = LevelStep(sl, n, Levels(sl, p)[n - 1])
          /\ Levels(sm, o)[n] = LevelStep(sm, n, Levels(sm, o)[n - 1])
      BY <2>1, LevelsAre
    <2>3. Levels(sl, p)[n - 1] = Levels(sm, o)[n - 1]
      BY <1>2
    <2>4. sl[Rz!Src(n)] = sm[Rz!Src(n)]
      BY <2>1 DEF SameBelow, Rz!Src
    <2>5. LevelStep(sl, n, Levels(sl, p)[n - 1]) = LevelStep(sm, n, Levels(sl, p)[n - 1])
      BY <2>4 DEF LevelStep, AttrIn
    <2> QED
      BY <2>2, <2>3, <2>5
  <1> HIDE DEF T
  <1>3. q \in T
    BY <1>1, <1>2, CountUp
  <1> QED
    BY <1>3 DEF T

LEMMA UnfoldedSame ==
  ASSUME NEW q \in Nat, NEW sl, NEW sm, SameBelow(sl, sm, q), NEW t
  PROVE  Unfolded(sl, q, t) = Unfolded(sm, q, t)
  BY LevelsSame DEF Unfolded

SlotSet == [attr : Nat, hash : Seq(Word)]

\* a leaf is its own, and a tree of slots x and y has the leaves of both.
LEMMA UnfoldedLeaf ==
  ASSUME NEW sl, NEW t \in Nat
  PROVE  Unfolded(sl, 0, t) = <<t>>
  <1>1. Levels(sl, 0)[0] = LevelStart
    BY LevelsAre
  <1>2. LevelStart[t] = <<t>>
    BY DEF LevelStart
  <1> QED
    BY <1>1, <1>2, Zenon DEF Unfolded

LEMMA UnfoldedTree ==
  ASSUME NEW q \in Nat, NEW sl, NEW b \in Nat, sl[Rz!TreesOf(q)][b] \in Seq(SlotSet),
         NEW x \in 1 .. Len(sl[Rz!TreesOf(q)][b]), NEW y \in 1 .. Len(sl[Rz!TreesOf(q)][b]),
         Len(sl[Rz!TreesOf(q)][b]) <= Rz!SlotRange
  PROVE  Unfolded(sl, q + 1, Rz!TreeFromBid(b, x - 1, y - 1))
           = Rz!OrderIndices(Unfolded(sl, q, sl[Rz!TreesOf(q)][b][x].attr),
                             Unfolded(sl, q, sl[Rz!TreesOf(q)][b][y].attr))
  <1> DEFINE t == Rz!TreeFromBid(b, x - 1, y - 1)
             tr == sl[Rz!TreesOf(q)][b]
  <1>1. Len(tr) \in Nat
    BY LenProperties
  <1> HIDE DEF tr
  <1>2. x \in 1 .. Len(tr) /\ y \in 1 .. Len(tr) /\ Len(tr) <= Rz!SlotRange
    BY DEF tr
  <1>3. x - 1 \in 0 .. Rz!SlotRange - 1 /\ y - 1 \in 0 .. Rz!SlotRange - 1
    BY <1>1, <1>2, RzParameters
  <1>4. t \in Nat /\ Rz!TreeBucket(t) = b /\ Rz!TreeSlot0(t) = x - 1 /\ Rz!TreeSlot1(t) = y - 1
    BY <1>3, TreeFields
  <1> HIDE DEF t
  <1>5. Rz!Src(q + 1) = Rz!TreesOf(q)
    BY DEF Rz!Src
  <1>6. AttrIn(sl, Rz!Src(q + 1), Rz!TreeBucket(t), Rz!TreeSlot0(t)) = tr[x].attr
    BY <1>1, <1>2, <1>4, <1>5 DEF AttrIn, tr
  <1>7. AttrIn(sl, Rz!Src(q + 1), Rz!TreeBucket(t), Rz!TreeSlot1(t)) = tr[y].attr
    BY <1>1, <1>2, <1>4, <1>5 DEF AttrIn, tr
  <1> DEFINE L == Levels(sl, q + 1)
  <1>8. L[q + 1] = LevelStep(sl, q + 1, L[q])
    <2>1. q + 1 \in Nat /\ q + 1 \in 1 .. q + 1 /\ (q + 1) - 1 = q
      OBVIOUS
    <2> QED
      BY <2>1, LevelsAre
  <1>9. L[q] = Levels(sl, q)[q]
    <2>1. SameBelow(sl, sl, q)
      BY DEF SameBelow
    <2> QED
      BY <2>1, LevelsSame
  <1> HIDE DEF L
  <1>10. L[q + 1][t] = Rz!OrderIndices(L[q][tr[x].attr], L[q][tr[y].attr])
    BY <1>4, <1>6, <1>7, <1>8 DEF LevelStep
  <1> QED
    BY <1>9, <1>10 DEF Unfolded, L, t, tr

-----------------------------------------------------------------------------
\* The two halves of a list, and a list with its halves in order.
HalfOf(v, h) == SubSeq(v, h * (Len(v) \div 2) + 1, (h + 1) * (Len(v) \div 2))

OrderStep(t) ==
  [u \in Seq(Nat) |->
     IF t[HalfOf(u, 0)][1] < t[HalfOf(u, 1)][1]
     THEN t[HalfOf(u, 0)] \o t[HalfOf(u, 1)]
     ELSE t[HalfOf(u, 1)] \o t[HalfOf(u, 0)]]

OrderStart == [u \in Seq(Nat) |-> u]

\* In order from the leaves up, by height.
OrderBody(F) ==
  [h \in 0 .. K |->
    [u \in Seq(Nat) |->
       IF h = 0 THEN u
       ELSE LET a == F[h - 1][HalfOf(u, 0)]
                b == F[h - 1][HalfOf(u, 1)]
            IN IF a[1] < b[1] THEN a \o b ELSE b \o a]]

Orders == CHOOSE F : F = OrderBody(F)

LEMMA HalfOfType ==
  ASSUME NEW v \in Seq(Nat), NEW h \in 0 .. 1
  PROVE  HalfOf(v, h) \in Seq(Nat)
  <1> DEFINE m == Len(v) \div 2
  <1>1. Len(v) \in Nat
    BY LenProperties
  <1>2. m \in Nat /\ 2 * m <= Len(v)
    BY <1>1
  <1> HIDE DEF m
  <1>3. h * m + 1 \in Nat /\ (h + 1) * m \in Nat /\ (h + 1) * m <= Len(v)
    <2>1. CASE h = 0
      BY <1>1, <1>2, <2>1
    <2>2. CASE h = 1
      BY <1>1, <1>2, <2>2
    <2> QED
      BY <2>1, <2>2
  <1> DEFINE x == h * m + 1
             y == (h + 1) * m
  <1>4. x >= 1
    <2>1. CASE h = 0
      BY <1>1, <1>2, <2>1
    <2>2. CASE h = 1
      BY <1>1, <1>2, <2>2
    <2> QED
      BY <2>1, <2>2
  <1>5. x \in Int /\ y \in Int /\ y <= Len(v)
    BY <1>3
  <1>6. HalfOf(v, h) = SubSeq(v, x, y)
    BY DEF HalfOf, m
  <1> HIDE DEF x, y
  <1>7. \A p \in x .. y : p \in 1 .. Len(v)
    BY <1>1, <1>4, <1>5
  <1>8. \A p \in x .. y : v[p] \in Nat
    BY <1>7, ElementOfSeq
  <1>9. SubSeq(v, x, y) \in Seq(Nat)
    BY <1>5, <1>8, SubSeqProperties
  <1> QED
    BY <1>6, <1>9

LEMMA OrderForm ==
  ASSUME NEW F
  PROVE  OrderBody(F) = [h \in 0 .. K |-> IF h = 0 THEN OrderStart ELSE OrderStep(F[h - 1])]
  <1>1. ASSUME NEW h \in 0 .. K
        PROVE  OrderBody(F)[h] = IF h = 0 THEN OrderStart ELSE OrderStep(F[h - 1])
    <2>1. CASE h = 0
      BY <2>1 DEF OrderBody, OrderStart
    <2>2. CASE h # 0
      BY <2>2 DEF OrderBody, OrderStep
    <2> QED
      BY <2>1, <2>2
  <1>2. OrderBody(F) = [h \in 0 .. K |-> OrderBody(F)[h]]
    BY DEF OrderBody
  <1> QED
    BY <1>1, <1>2

ListTable == [Seq(Nat) -> Seq(Nat)]

LEMMA OrderTypes ==
  /\ OrderStart \in ListTable
  /\ \A t \in ListTable : OrderStep(t) \in ListTable
  <1>1. OrderStart \in ListTable
    BY DEF OrderStart, ListTable
  <1>2. ASSUME NEW t \in ListTable, NEW u \in Seq(Nat)
        PROVE  t[HalfOf(u, 0)] \o t[HalfOf(u, 1)] \in Seq(Nat) /\ t[HalfOf(u, 1)] \o t[HalfOf(u, 0)] \in Seq(Nat)
    <2>1. HalfOf(u, 0) \in Seq(Nat) /\ HalfOf(u, 1) \in Seq(Nat)
      BY HalfOfType
    <2>2. t[HalfOf(u, 0)] \in Seq(Nat) /\ t[HalfOf(u, 1)] \in Seq(Nat)
      BY <2>1 DEF ListTable
    <2> QED
      BY <2>2, ConcatProperties
  <1> QED
    BY <1>1, <1>2 DEF OrderStep, ListTable

LEMMA OrdersAre ==
  /\ Orders[0] = OrderStart
  /\ \A h \in 1 .. K : Orders[h] = OrderStep(Orders[h - 1])
  <1> DEFINE G == [h \in 1 .. K |-> [t \in ListTable |-> OrderStep(t)]]
  <1>1. G \in [1 .. K -> [ListTable -> ListTable]] /\ OrderStart \in ListTable /\ K \in Nat
    BY OrderTypes, WordNumbers
  <1>2. PICK F : TakesSteps(F, K, ListTable, OrderStart, G)
    <2> HIDE DEF G
    <2> QED
      BY <1>1, StepsExist
  <1>3. F = OrderBody(F)
    <2>1. ASSUME NEW h \in 0 .. K
          PROVE  F[h] = IF h = 0 THEN OrderStart ELSE OrderStep(F[h - 1])
      <3>1. CASE h = 0
        BY <3>1, <1>2 DEF TakesSteps
      <3>2. CASE h # 0
        <4>1. h \in 1 .. K /\ h - 1 \in 0 .. K
          BY <3>2, <1>1
        <4>2. F[h] = G[h][F[h - 1]] /\ F[h - 1] \in ListTable
          BY <4>1, <1>2 DEF TakesSteps
        <4> QED
          BY <3>2, <4>1, <4>2
      <3> QED
        BY <3>1, <3>2
    <2>2. F = [h \in 0 .. K |-> F[h]]
      BY <1>2 DEF TakesSteps
    <2> QED
      BY <2>1, <2>2, OrderForm
  <1>4. Orders = OrderBody(Orders)
    BY <1>3 DEF Orders
  <1> DEFINE H == Orders
  <1>5. H = [h \in 0 .. K |-> IF h = 0 THEN OrderStart ELSE OrderStep(H[h - 1])]
    BY <1>4, OrderForm
  <1> HIDE DEF H
  <1>6. \A h \in 0 .. K : H[h] = IF h = 0 THEN OrderStart ELSE OrderStep(H[h - 1])
    BY <1>5
  <1>7. 0 \in 0 .. K /\ \A h \in 1 .. K : h \in 0 .. K /\ h # 0
    BY <1>1
  <1> QED
    BY <1>6, <1>7 DEF H

\* So the model takes them.
LEMMA InOrderIs ==
  ASSUME NEW v
  PROVE  Rz!InOrder(v) = Orders[K][v]
  BY DEF Rz!InOrder, Orders, OrderBody, HalfOf

\* The halves of two lists of one length behind each other.
LEMMA HalvesOf ==
  ASSUME NEW v \in Seq(Nat), NEW w \in Seq(Nat), Len(v) = Len(w)
  PROVE  HalfOf(v \o w, 0) = v /\ HalfOf(v \o w, 1) = w
  <1> DEFINE m == Len(v)
             u == v \o w
  <1>1. m \in Nat
    BY LenProperties
  <1>2. u \in Seq(Nat) /\ Len(u) = m + m /\ \A p \in 1 .. m + m : u[p] = IF p <= m THEN v[p] ELSE w[p - m]
    BY ConcatProperties
  <1>3. Len(w) = m
    OBVIOUS
  <1> HIDE DEF m, u
  <1>4. Len(u) \div 2 = m
    BY <1>1, <1>2
  <1>5. HalfOf(u, 0) = SubSeq(u, 1, m) /\ HalfOf(u, 1) = SubSeq(u, m + 1, m + m)
    <2>1. 0 * m + 1 = 1 /\ (0 + 1) * m = m /\ 1 * m + 1 = m + 1 /\ (1 + 1) * m = m + m
      BY <1>1
    <2> QED
      BY <1>4, <2>1 DEF HalfOf
  <1>6. \A p \in 1 .. m + m : u[p] \in Nat
    BY <1>2, ElementOfSeq
  <1>7. /\ SubSeq(u, 1, m) \in Seq(Nat) /\ Len(SubSeq(u, 1, m)) = m
        /\ \A p \in 1 .. m : SubSeq(u, 1, m)[p] = u[p]
    <2>1. \A p \in 1 .. m : u[p] \in Nat
      BY <1>1, <1>6
    <2>2. /\ SubSeq(u, 1, m) \in Seq(Nat) /\ Len(SubSeq(u, 1, m)) = IF 1 <= m THEN m - 1 + 1 ELSE 0
          /\ \A p \in 1 .. m - 1 + 1 : SubSeq(u, 1, m)[p] = u[1 + p - 1]
      BY <1>1, <2>1, SubSeqProperties
    <2>3. m - 1 + 1 = m /\ \A p \in 1 .. m : 1 + p - 1 = p
      BY <1>1
    <2> QED
      BY <1>1, <2>2, <2>3
  <1>8. /\ SubSeq(u, m + 1, m + m) \in Seq(Nat) /\ Len(SubSeq(u, m + 1, m + m)) = m
        /\ \A p \in 1 .. m : SubSeq(u, m + 1, m + m)[p] = u[m + p]
    <2>1. \A p \in m + 1 .. m + m : u[p] \in Nat
      BY <1>1, <1>6
    <2>2. /\ SubSeq(u, m + 1, m + m) \in Seq(Nat)
          /\ Len(SubSeq(u, m + 1, m + m)) = IF m + 1 <= m + m THEN (m + m) - (m + 1) + 1 ELSE 0
          /\ \A p \in 1 .. (m + m) - (m + 1) + 1 : SubSeq(u, m + 1, m + m)[p] = u[(m + 1) + p - 1]
      BY <1>1, <2>1, SubSeqProperties
    <2>3. (m + m) - (m + 1) + 1 = m /\ \A p \in 1 .. m : (m + 1) + p - 1 = m + p
      BY <1>1
    <2> QED
      BY <1>1, <2>2, <2>3
  <1>9. SubSeq(u, 1, m) = v
    <2>1. \A p \in 1 .. m : SubSeq(u, 1, m)[p] = v[p]
      BY <1>1, <1>2, <1>7
    <2> QED
      BY <1>7, <2>1, SeqEqual DEF m
  <1>10. SubSeq(u, m + 1, m + m) = w
    <2>1. \A p \in 1 .. m : m + p \in 1 .. m + m /\ ~(m + p <= m) /\ (m + p) - m = p
      BY <1>1
    <2>2. \A p \in 1 .. m : SubSeq(u, m + 1, m + m)[p] = w[p]
      BY <1>2, <1>8, <2>1
    <2> QED
      BY <1>3, <1>8, <2>2, SeqEqual
  <1> QED
    BY <1>5, <1>9, <1>10 DEF u

\* Halves of lists of different leaves have different leaves, and begin differently.
LEMMA HalvesDiffer ==
  ASSUME NEW v \in Seq(Nat), NEW w \in Seq(Nat), Len(v) >= 1, Len(w) >= 1,
         Rz!IsInjective(v \o w)
  PROVE  Rz!IsInjective(v) /\ Rz!IsInjective(w) /\ v[1] # w[1]
  <1> DEFINE u == v \o w
  <1>1. /\ Len(v) \in Nat /\ Len(w) \in Nat
        /\ DOMAIN v = 1 .. Len(v) /\ DOMAIN w = 1 .. Len(w)
    BY LenProperties
  <1>2. u \in Seq(Nat) /\ Len(u) = Len(v) + Len(w)
        /\ \A p \in 1 .. Len(v) + Len(w) : u[p] = IF p <= Len(v) THEN v[p] ELSE w[p - Len(v)]
    BY ConcatProperties
  <1>3. \A p, q \in 1 .. Len(v) + Len(w) : u[p] = u[q] => p = q
    <2>1. DOMAIN u = 1 .. Len(v) + Len(w)
      BY <1>2, LenProperties
    <2>2. \A p, q \in DOMAIN u : u[p] = u[q] => p = q
      BY Zenon DEF Rz!IsInjective
    <2> HIDE DEF u
    <2> QED
      BY <2>1, <2>2
  <1> HIDE DEF u
  <1>4. \A p \in 1 .. Len(v) : p \in 1 .. Len(v) + Len(w) /\ u[p] = v[p]
    BY <1>1, <1>2
  <1>5. \A p \in 1 .. Len(w) : p + Len(v) \in 1 .. Len(v) + Len(w) /\ u[p + Len(v)] = w[p]
    <2>1. \A p \in 1 .. Len(w) : /\ p + Len(v) \in 1 .. Len(v) + Len(w)
                                 /\ ~(p + Len(v) <= Len(v)) /\ (p + Len(v)) - Len(v) = p
      BY <1>1
    <2> QED
      BY <1>2, <2>1
  <1>6. \A p, q \in 1 .. Len(v) : v[p] = v[q] => p = q
    BY <1>3, <1>4
  <1>7. ASSUME NEW p \in 1 .. Len(w), NEW q \in 1 .. Len(w), w[p] = w[q]
        PROVE  p = q
    <2>1. p + Len(v) = q + Len(v)
      BY <1>3, <1>5, <1>7
    <2> QED
      BY <1>1, <2>1
  <1>8. v[1] # w[1]
    <2>1. 1 \in 1 .. Len(v) /\ 1 \in 1 .. Len(w) /\ 1 # 1 + Len(v)
      BY <1>1
    <2> QED
      BY <1>3, <1>4, <1>5, <2>1
  <1> QED
    BY <1>1, <1>6, <1>7, <1>8 DEF Rz!IsInjective

-----------------------------------------------------------------------------
\* A list of 2^n leaves, in order if none is there twice.
LeafList(n, v) ==
  /\ v \in Seq(Rz!Hashed) /\ Len(v) = 2^n
  /\ Rz!IsInjective(v) => Orders[n][v] = v

LEMMA LeafListType ==
  ASSUME NEW n \in Nat, NEW v, LeafList(n, v)
  PROVE  v \in Seq(Nat) /\ v \in Seq(Rz!Hashed) /\ Len(v) = 2^n /\ 2^n \in Nat /\ 1 <= Len(v)
  <1>1. Rz!Hashed \subseteq Nat
    BY DEF Rz!Hashed
  <1>2. 2^n \in Nat /\ 1 <= 2^n
    BY PowerOfTwoPositive
  <1> QED
    BY <1>1, <1>2, SeqMonotonic DEF LeafList

\* A leaf is such a list.
LEMMA LeafAlone ==
  ASSUME NEW l \in Rz!Hashed
  PROVE  LeafList(0, <<l>>)
  <1>1. <<l>> \in Seq(Rz!Hashed) /\ Len(<<l>>) = 1
    OBVIOUS
  <1>2. <<l>> \in Seq(Nat)
    <2>1. l \in Nat
      BY DEF Rz!Hashed
    <2> QED
      BY <2>1
  <1>3. Orders[0][<<l>>] = <<l>>
    BY <1>2, OrdersAre DEF OrderStart
  <1> QED
    BY <1>1, <1>3, PowerOfTwoZero DEF LeafList

\* The two lists in the order of their first leaves make one.
LEMMA JoinedLeaves ==
  ASSUME NEW n \in Nat, n + 1 <= K, NEW v, NEW w, LeafList(n, v), LeafList(n, w), v[1] <= w[1]
  PROVE  LeafList(n + 1, v \o w)
  <1> DEFINE u == v \o w
  <1>1. /\ v \in Seq(Nat) /\ v \in Seq(Rz!Hashed) /\ Len(v) = 2^n /\ 1 <= Len(v)
        /\ w \in Seq(Nat) /\ w \in Seq(Rz!Hashed) /\ Len(w) = 2^n /\ 1 <= Len(w)
        /\ 2^n \in Nat
    BY LeafListType
  <1>2. u \in Seq(Rz!Hashed) /\ u \in Seq(Nat) /\ Len(u) = Len(v) + Len(w)
    BY <1>1, ConcatProperties
  <1>3. Len(u) = 2^(n + 1)
    BY <1>1, <1>2, PowerOfTwoDoubles
  <1>4. ASSUME Rz!IsInjective(u)
        PROVE  Orders[n + 1][u] = u
    <2>1. Rz!IsInjective(v) /\ Rz!IsInjective(w) /\ v[1] # w[1]
      BY <1>1, <1>4, HalvesDiffer
    <2>2. Orders[n][v] = v /\ Orders[n][w] = w
      BY <2>1 DEF LeafList
    <2>3. HalfOf(u, 0) = v /\ HalfOf(u, 1) = w
      BY <1>1, HalvesOf
    <2>4. Orders[n + 1] = OrderStep(Orders[n])
      <3>1. n + 1 \in 1 .. K /\ (n + 1) - 1 = n
        BY WordNumbers
      <3> QED
        BY <3>1, OrdersAre
    <2>5. v[1] < w[1]
      <3>1. v[1] \in Nat /\ w[1] \in Nat
        BY <1>1, ElementOfSeq
      <3> QED
        BY <2>1, <3>1
    <2> HIDE DEF u
    <2>6. Orders[n + 1][u] = v \o w
      BY <1>2, <2>2, <2>3, <2>4, <2>5 DEF OrderStep
    <2> QED
      BY <2>6 DEF u
  <1> QED
    BY <1>2, <1>3, <1>4 DEF LeafList

LEMMA MergedLeaves ==
  ASSUME NEW n \in Nat, n + 1 <= K, NEW v, NEW w, LeafList(n, v), LeafList(n, w),
         NEW d \in BlockDigests
  PROVE  /\ LeafList(n + 1, Rz!OrderIndices(v, w))
         /\ RowOf(d, v) \in Row /\ RowOf(d, w) \in Row
         /\ RowOf(d, Rz!OrderIndices(v, w)) = XorSeq(RowOf(d, v), RowOf(d, w))
  <1>1. /\ v \in Seq(Nat) /\ v \in Seq(Rz!Hashed) /\ 1 <= Len(v)
        /\ w \in Seq(Nat) /\ w \in Seq(Rz!Hashed) /\ 1 <= Len(w)
    BY LeafListType
  <1>2. v[1] \in Nat /\ w[1] \in Nat
    <2>1. 1 \in 1 .. Len(v) /\ 1 \in 1 .. Len(w)
      BY <1>1, LenProperties
    <2> QED
      BY <1>1, <2>1, ElementOfSeq
  <1>3. HasRows(d, Rz!Hashed)
    BY RzParameters
  <1>4. RowOf(d, v) \in Row /\ RowOf(d, w) \in Row
    BY <1>1, <1>3, RowOfType
  <1>5. RowOf(d, v \o w) = XorSeq(RowOf(d, v), RowOf(d, w)) /\ RowOf(d, w \o v) = XorSeq(RowOf(d, w), RowOf(d, v))
    BY <1>1, <1>3, RowOfJoined
  <1>6. XorSeq(RowOf(d, w), RowOf(d, v)) = XorSeq(RowOf(d, v), RowOf(d, w))
    BY <1>4, XorSeqLaws
  <1>7. CASE v[1] > w[1]
    <2>1. Rz!OrderIndices(v, w) = w \o v
      BY <1>7 DEF Rz!OrderIndices
    <2>2. LeafList(n + 1, w \o v)
      BY <1>2, <1>7, JoinedLeaves
    <2> QED
      BY <1>4, <1>5, <1>6, <2>1, <2>2
  <1>8. CASE ~(v[1] > w[1])
    <2>1. Rz!OrderIndices(v, w) = v \o w
      BY <1>8 DEF Rz!OrderIndices
    <2>2. LeafList(n + 1, v \o w)
      BY <1>2, <1>8, JoinedLeaves
    <2> QED
      BY <1>4, <1>5, <2>1, <2>2
  <1> QED
    BY <1>7, <1>8

\* From which two lists it was made can be seen.
LEMMA MadeOf ==
  ASSUME NEW n \in Nat, NEW v, NEW w, NEW x, NEW y,
         LeafList(n, v), LeafList(n, w), LeafList(n, x), LeafList(n, y),
         Rz!OrderIndices(v, w) = Rz!OrderIndices(x, y)
  PROVE  (v = x /\ w = y) \/ (v = y /\ w = x)
  <1>1. /\ v \in Seq(Nat) /\ w \in Seq(Nat) /\ x \in Seq(Nat) /\ y \in Seq(Nat)
        /\ Len(v) = 2^n /\ Len(w) = 2^n /\ Len(x) = 2^n /\ Len(y) = 2^n
    BY LeafListType
  <1>2. ASSUME NEW a \in {v, w, x, y}, NEW b \in {v, w, x, y}, NEW c \in {v, w, x, y}, NEW e \in {v, w, x, y},
               a \o b = c \o e
        PROVE  a = c /\ b = e
    <2>1. a \in Seq(Nat) /\ b \in Seq(Nat) /\ c \in Seq(Nat) /\ e \in Seq(Nat) /\ Len(a) = Len(b) /\ Len(c) = Len(e)
      BY <1>1
    <2>2. HalfOf(a \o b, 0) = a /\ HalfOf(a \o b, 1) = b
      BY <2>1, HalvesOf
    <2>3. HalfOf(c \o e, 0) = c /\ HalfOf(c \o e, 1) = e
      BY <2>1, HalvesOf
    <2> QED
      BY <1>2, <2>2, <2>3
  <1>3. Rz!OrderIndices(v, w) = v \o w \/ Rz!OrderIndices(v, w) = w \o v
    BY DEF Rz!OrderIndices
  <1>4. Rz!OrderIndices(x, y) = x \o y \/ Rz!OrderIndices(x, y) = y \o x
    BY DEF Rz!OrderIndices
  <1>5. CASE Rz!OrderIndices(v, w) = v \o w /\ Rz!OrderIndices(x, y) = x \o y
    BY <1>2, <1>5
  <1>6. CASE Rz!OrderIndices(v, w) = v \o w /\ Rz!OrderIndices(x, y) = y \o x
    BY <1>2, <1>6
  <1>7. CASE Rz!OrderIndices(v, w) = w \o v /\ Rz!OrderIndices(x, y) = x \o y
    BY <1>2, <1>7
  <1>8. CASE Rz!OrderIndices(v, w) = w \o v /\ Rz!OrderIndices(x, y) = y \o x
    BY <1>2, <1>8
  <1> QED
    BY <1>3, <1>4, <1>5, <1>6, <1>7, <1>8

-----------------------------------------------------------------------------
NonEmpty(h) == h # << >>

\* A slot of round q in bucket b stands for what its tree unfolds to.
SlotStands(d, sl, q, b, slot) ==
  /\ LeafList(q, Unfolded(sl, q, slot.attr))
  /\ NonEmpty(slot.hash)
  /\ Cancelled(RowOf(d, Unfolded(sl, q, slot.attr)), q, b * Rests + slot.hash[1], Tail(slot.hash))

\* A hash with another first word.
LEMMA HashOf ==
  ASSUME NEW x \in Word, NEW s \in Seq(Word)
  PROVE  /\ <<x>> \o s \in Seq(Word) /\ NonEmpty(<<x>> \o s)
         /\ (<<x>> \o s)[1] = x /\ Tail(<<x>> \o s) = s
  <1> DEFINE h == <<x>> \o s
  <1>1. <<x>> \in Seq(Word) /\ Len(<<x>>) = 1 /\ <<x>>[1] = x /\ Len(s) \in Nat
    BY LenProperties
  <1>2. h \in Seq(Word) /\ Len(h) = 1 + Len(s)
        /\ \A p \in 1 .. 1 + Len(s) : h[p] = IF p <= 1 THEN <<x>>[p] ELSE s[p - 1]
    BY <1>1, ConcatProperties
  <1> HIDE DEF h
  <1>3. NonEmpty(h) /\ h[1] = x
    BY <1>1, <1>2, EmptySeq DEF NonEmpty
  <1>4. /\ Tail(h) \in Seq(Word) /\ Len(Tail(h)) = Len(s)
        /\ \A p \in 1 .. Len(s) : Tail(h)[p] = h[p + 1]
    <2>1. /\ Tail(h) \in Seq(Word) /\ Len(Tail(h)) = Len(h) - 1
          /\ \A p \in 1 .. Len(Tail(h)) : Tail(h)[p] = h[p + 1]
      BY <1>2, <1>3, HeadTailProperties DEF NonEmpty
    <2> QED
      BY <1>1, <1>2, <2>1
  <1>5. \A p \in 1 .. Len(s) : Tail(h)[p] = s[p]
    <2>1. \A p \in 1 .. Len(s) : p + 1 \in 1 .. 1 + Len(s) /\ ~(p + 1 <= 1) /\ (p + 1) - 1 = p
      BY <1>1
    <2> QED
      BY <1>2, <1>4, <2>1
  <1>6. Tail(h) = s
    BY <1>4, <1>5, SeqEqual
  <1> QED
    BY <1>2, <1>3, <1>6 DEF h

LEMMA RestHash ==
  ASSUME NEW h \in Seq(Word), NonEmpty(h)
  PROVE  LET c == [h EXCEPT ![1] = Rz!RestOf(@)]
         IN /\ h[1] \in Word /\ c \in Seq(Word) /\ NonEmpty(c)
            /\ c[1] = Rz!RestOf(h[1]) /\ Tail(c) = Tail(h)
  <1> DEFINE c == [h EXCEPT ![1] = Rz!RestOf(h[1])]
  <1>1. Len(h) \in Nat \ {0} /\ 1 \in 1 .. Len(h)
    BY EmptySeq DEF NonEmpty
  <1>2. h[1] \in Word
    BY <1>1, ElementOfSeq
  <1>3. Rz!RestOf(h[1]) \in Word
    BY <1>2, DigitSplits
  <1>4. c \in Seq(Word) /\ Len(c) = Len(h) /\ \A p \in 1 .. Len(h) : c[p] = IF p = 1 THEN Rz!RestOf(h[1]) ELSE h[p]
    BY <1>1, <1>3, ExceptSeq
  <1> HIDE DEF c
  <1>5. NonEmpty(c) /\ c[1] = Rz!RestOf(h[1])
    BY <1>1, <1>4, EmptySeq DEF NonEmpty
  <1>6. /\ Tail(c) \in Seq(Word) /\ Len(Tail(c)) = Len(h) - 1 /\ \A p \in 1 .. Len(h) - 1 : Tail(c)[p] = c[p + 1]
        /\ Tail(h) \in Seq(Word) /\ Len(Tail(h)) = Len(h) - 1 /\ \A p \in 1 .. Len(h) - 1 : Tail(h)[p] = h[p + 1]
    BY <1>4, <1>5, HeadTailProperties DEF NonEmpty
  <1>7. \A p \in 1 .. Len(h) - 1 : p + 1 \in 1 .. Len(h) /\ p + 1 # 1
    BY <1>1
  <1>8. \A p \in 1 .. Len(h) - 1 : Tail(c)[p] = Tail(h)[p]
    BY <1>4, <1>6, <1>7
  <1>9. Tail(c) = Tail(h)
    BY <1>6, <1>8, SeqEqual
  <1> QED
    BY <1>2, <1>4, <1>5, <1>9 DEF c

SlotOf(t, h) == [attr |-> t, hash |-> [h EXCEPT ![1] = Rz!RestOf(@)]]

LEMMA SlotMade ==
  ASSUME NEW h \in Seq(Word), NonEmpty(h), NEW t \in Nat
  PROVE  /\ h[1] \in Word /\ SlotOf(t, h) \in SlotSet /\ SlotOf(t, h).attr = t
         /\ NonEmpty(SlotOf(t, h).hash) /\ SlotOf(t, h).hash[1] = Rz!RestOf(h[1])
         /\ Tail(SlotOf(t, h).hash) = Tail(h)
  <1> DEFINE c == [h EXCEPT ![1] = Rz!RestOf(@)]
             slot == SlotOf(t, h)
  <1>1. /\ h[1] \in Word /\ c \in Seq(Word) /\ NonEmpty(c)
        /\ c[1] = Rz!RestOf(h[1]) /\ Tail(c) = Tail(h)
    BY RestHash
  <1>2. slot = [attr |-> t, hash |-> c]
    BY DEF SlotOf
  <1> HIDE DEF slot
  <1>3. slot.attr = t /\ slot.hash = c
    BY <1>2
  <1> HIDE DEF c
  <1>4. slot \in SlotSet
    BY <1>1, <1>2, Z3 DEF SlotSet
  <1> QED
    BY <1>1, <1>3, <1>4 DEF slot

LEMMA XorTail ==
  ASSUME NEW x \in Seq(Word), NEW y \in Seq(Word), Len(x) = Len(y), NonEmpty(x)
  PROVE  Tail(XorSeq(x, y)) = XorSeq(Tail(x), Tail(y))
  <1>1. Len(x) \in Nat \ {0} /\ NonEmpty(y)
    BY EmptySeq DEF NonEmpty
  <1>2. /\ DOMAIN x = 1 .. Len(x) /\ \A p \in 1 .. Len(x) : x[p] \in Word /\ y[p] \in Word
    BY LenProperties, ElementOfSeq
  <1> DEFINE z == XorSeq(x, y)
  <1>3. z \in [1 .. Len(x) -> Word] /\ \A p \in 1 .. Len(x) : z[p] = XorWord(x[p], y[p])
    BY <1>2, XorWordLaws DEF XorSeq
  <1> HIDE DEF z
  <1>4. z \in Seq(Word) /\ Len(z) = Len(x)
    BY <1>1, <1>3, FunctionIsSeq
  <1>5. NonEmpty(z)
    BY <1>1, <1>4, EmptySeq DEF NonEmpty
  <1>6. /\ Tail(z) \in Seq(Word) /\ Len(Tail(z)) = Len(x) - 1 /\ \A p \in 1 .. Len(x) - 1 : Tail(z)[p] = z[p + 1]
        /\ Tail(x) \in Seq(Word) /\ Len(Tail(x)) = Len(x) - 1 /\ \A p \in 1 .. Len(x) - 1 : Tail(x)[p] = x[p + 1]
        /\ Tail(y) \in Seq(Word) /\ Len(Tail(y)) = Len(x) - 1 /\ \A p \in 1 .. Len(x) - 1 : Tail(y)[p] = y[p + 1]
    BY <1>1, <1>4, <1>5, HeadTailProperties DEF NonEmpty
  <1> DEFINE u == XorSeq(Tail(x), Tail(y))
  <1>7. DOMAIN Tail(x) = 1 .. Len(x) - 1 /\ \A p \in 1 .. Len(x) - 1 : Tail(x)[p] \in Word /\ Tail(y)[p] \in Word
    BY <1>6, LenProperties, ElementOfSeq
  <1>8. u \in [1 .. Len(x) - 1 -> Word] /\ \A p \in 1 .. Len(x) - 1 : u[p] = XorWord(Tail(x)[p], Tail(y)[p])
    BY <1>7, XorWordLaws DEF XorSeq
  <1> HIDE DEF u
  <1>9. u \in Seq(Word) /\ Len(u) = Len(x) - 1
    <2>1. Len(x) - 1 \in Nat
      BY <1>1
    <2> QED
      BY <1>8, <2>1, FunctionIsSeq
  <1>10. \A p \in 1 .. Len(x) - 1 : Tail(z)[p] = u[p]
    <2>1. \A p \in 1 .. Len(x) - 1 : p + 1 \in 1 .. Len(x)
      BY <1>1
    <2> QED
      BY <1>3, <1>6, <1>8, <2>1
  <1>11. Tail(z) = u
    BY <1>6, <1>9, <1>10, SeqEqual
  <1> QED
    BY <1>11 DEF z, u

\* A leaf stands in the bucket of its first digit.
LEMMA LeafSlotStands ==
  ASSUME digest \in BlockDigests, NEW l \in Rz!Hashed, NEW sl
  PROVE  LET slot == Rz!LeafSlot(l)
             b == Rz!BucketOf(digest[l][1])
         IN /\ b \in Rz!Bucket /\ slot \in SlotSet /\ slot.attr = l
            /\ Unfolded(sl, 0, l) = <<l>>
            /\ SlotStands(digest, sl, 0, b, slot)
  <1> DEFINE g == digest[l]
             slot == Rz!LeafSlot(l)
             b == Rz!BucketOf(g[1])
  <1>1. HasRows(digest, Rz!Hashed) /\ l \in Nat
    BY RzParameters DEF Rz!Hashed
  <1>2. g \in Row /\ K \in Nat /\ K + 1 \in Nat /\ K + 1 >= 1 /\ (K + 1) - 1 = K - 0
    BY <1>1, WordNumbers DEF HasRows
  <1>3. slot = [attr |-> l, hash |-> <<Rz!RestOf(g[1])>> \o Tail(g)]
    BY DEF Rz!LeafSlot
  <1> HIDE DEF g, slot
  <1>4. g \in Seq(Word) /\ Len(g) = K + 1 /\ NonEmpty(g) /\ g[1] \in Word
    <2>1. g \in Seq(Word) /\ Len(g) = K + 1
      BY <1>2, FunctionIsSeq DEF Row
    <2> QED
      BY <1>2, <2>1, EmptySeq, ElementOfSeq DEF NonEmpty
  <1>5. b \in Rz!Bucket /\ Rz!RestOf(g[1]) \in Word /\ b * Rests + Rz!RestOf(g[1]) = g[1]
    BY <1>4, DigitSplits
  <1>6. /\ Tail(g) \in Seq(Word) /\ Len(Tail(g)) = K - 0
        /\ \A p \in 1 .. K - 0 : Tail(g)[p] = g[0 + 1 + p]
    <2>1. /\ Tail(g) \in Seq(Word) /\ Len(Tail(g)) = Len(g) - 1
          /\ \A p \in 1 .. Len(Tail(g)) : Tail(g)[p] = g[p + 1]
      BY <1>4, HeadTailProperties DEF NonEmpty
    <2>2. Len(Tail(g)) = K - 0
      BY <1>2, <1>4, <2>1
    <2>3. \A p \in 1 .. K - 0 : p + 1 = 0 + 1 + p
      BY <1>2
    <2> QED
      BY <2>1, <2>2, <2>3
  <1> HIDE DEF b
  <1>7. Cancelled(g, 0, g[1], Tail(g))
    BY <1>6 DEF Cancelled
  <1>8. /\ slot.hash \in Seq(Word) /\ NonEmpty(slot.hash) /\ slot.attr = l
        /\ slot.hash[1] = Rz!RestOf(g[1]) /\ Tail(slot.hash) = Tail(g)
    BY <1>3, <1>5, <1>6, HashOf
  <1>9. slot \in SlotSet
    BY <1>1, <1>3, <1>8 DEF SlotSet
  <1>10. Unfolded(sl, 0, l) = <<l>>
    BY <1>1, UnfoldedLeaf
  <1>11. RowOf(digest, <<l>>) = g
    BY <1>1, RowOfOne DEF g
  <1>12. SlotStands(digest, sl, 0, b, slot)
    BY <1>5, <1>7, <1>8, <1>10, <1>11, LeafAlone DEF SlotStands
  <1> QED
    BY <1>5, <1>8, <1>9, <1>10, <1>12 DEF slot, b, g

\* Two slots of one bucket with one rest merge into a slot that stands in its bucket,
LEMMA MergedStands ==
  ASSUME NEW d \in BlockDigests, NEW sl, NEW n \in Nat, n + 1 <= K - 1, NEW b \in Rz!Bucket,
         NEW x \in SlotSet, NEW y \in SlotSet,
         SlotStands(d, sl, n, b, x), SlotStands(d, sl, n, b, y), x.hash[1] = y.hash[1],
         NEW t \in Nat,
         Unfolded(sl, n + 1, t) = Rz!OrderIndices(Unfolded(sl, n, x.attr), Unfolded(sl, n, y.attr)),
         NEW h, h = Tail(XorSeq(x.hash, y.hash))
  PROVE  /\ Rz!BucketOf(h[1]) \in Rz!Bucket /\ SlotOf(t, h) \in SlotSet
         /\ SlotStands(d, sl, n + 1, Rz!BucketOf(h[1]), SlotOf(t, h))
  <1> DEFINE v == Unfolded(sl, n, x.attr)
             w == Unfolded(sl, n, y.attr)
             u == Unfolded(sl, n + 1, t)
             a == Tail(x.hash)
             c == Tail(y.hash)
             e == b * Rests + x.hash[1]
  <1>1. K \in Nat /\ n \in 0 .. K - 1 /\ n + 1 <= K /\ K - n >= 2
    BY WordNumbers
  <1>2. /\ LeafList(n, v) /\ Cancelled(RowOf(d, v), n, e, a)
        /\ LeafList(n, w) /\ Cancelled(RowOf(d, w), n, e, c)
        /\ x.hash \in Seq(Word) /\ NonEmpty(x.hash)
        /\ y.hash \in Seq(Word) /\ NonEmpty(y.hash)
    BY DEF SlotStands, SlotSet
  <1> HIDE DEF v, w, a, c, e, u
  <1>3. u = Rz!OrderIndices(v, w)
    BY DEF u, v, w
  <1>4. /\ LeafList(n + 1, u) /\ RowOf(d, v) \in Row /\ RowOf(d, w) \in Row
        /\ RowOf(d, u) = XorSeq(RowOf(d, v), RowOf(d, w))
    BY <1>1, <1>2, <1>3, MergedLeaves
  <1>5. /\ XorWord(a[1], c[1]) \in Word
        /\ Cancelled(RowOf(d, u), n + 1, XorWord(a[1], c[1]), Tail(XorSeq(a, c)))
    BY <1>1, <1>2, <1>4, CancelledMore
  <1>6. a \in Seq(Word) /\ Len(a) = K - n /\ c \in Seq(Word) /\ Len(c) = K - n
    BY <1>2 DEF Cancelled
  <1>7. Len(x.hash) = Len(y.hash)
    <2>1. /\ Len(a) = Len(x.hash) - 1 /\ Len(c) = Len(y.hash) - 1
          /\ Len(x.hash) \in Nat /\ Len(y.hash) \in Nat
      BY <1>2, HeadTailProperties, LenProperties DEF a, c, NonEmpty
    <2> QED
      BY <1>1, <1>6, <2>1
  <1>8. h = XorSeq(a, c)
    BY <1>2, <1>7, XorTail DEF a, c
  <1>9. h \in Seq(Word) /\ Len(h) = K - n /\ h[1] = XorWord(a[1], c[1])
    <2>1. DOMAIN a = 1 .. K - n /\ \A p \in 1 .. K - n : a[p] \in Word /\ c[p] \in Word
      BY <1>6, LenProperties, ElementOfSeq
    <2>2. h = [p \in 1 .. K - n |-> XorWord(a[p], c[p])]
      BY <1>8, <2>1 DEF XorSeq
    <2>4. \A p \in 1 .. K - n : XorWord(a[p], c[p]) \in Word
      BY <2>1, XorWordLaws
    <2>5. h \in [1 .. K - n -> Word] /\ \A p \in 1 .. K - n : h[p] = XorWord(a[p], c[p])
      BY <2>2, <2>4
    <2>3. K - n \in Nat /\ 1 \in 1 .. K - n
      BY <1>1
    <2> QED
      BY <2>3, <2>5, FunctionIsSeq
  <1>10. NonEmpty(h)
    <2>1. Len(h) # 0
      BY <1>1, <1>9
    <2> QED
      BY <1>9, <2>1, EmptySeq DEF NonEmpty
  <1>11. /\ h[1] \in Word /\ SlotOf(t, h) \in SlotSet /\ SlotOf(t, h).attr = t
         /\ NonEmpty(SlotOf(t, h).hash) /\ SlotOf(t, h).hash[1] = Rz!RestOf(h[1]) /\ Tail(SlotOf(t, h).hash) = Tail(h)
    BY <1>9, <1>10, SlotMade
  <1>14. Rz!BucketOf(h[1]) \in Rz!Bucket /\ h[1] = Rz!BucketOf(h[1]) * Rests + Rz!RestOf(h[1])
    BY <1>11, DigitSplits
  <1>15. Cancelled(RowOf(d, u), n + 1, Rz!BucketOf(h[1]) * Rests + SlotOf(t, h).hash[1], Tail(SlotOf(t, h).hash))
    BY <1>5, <1>8, <1>9, <1>11, <1>14
  <1>16. SlotStands(d, sl, n + 1, Rz!BucketOf(h[1]), SlotOf(t, h))
    BY <1>4, <1>11, <1>15 DEF SlotStands, u
  <1> QED
    BY <1>11, <1>14, <1>16

LEMMA TwoWords ==
  ASSUME NEW h \in Seq(Word), NonEmpty(h), Len(Tail(h)) = 1
  PROVE  Len(h) = 2 /\ Tail(h)[1] = h[2]
  <1>1. /\ Len(Tail(h)) = Len(h) - 1 /\ Len(h) \in Nat
        /\ \A p \in 1 .. Len(Tail(h)) : Tail(h)[p] = h[p + 1]
    BY HeadTailProperties, LenProperties DEF NonEmpty
  <1>2. Len(h) = 2
    BY <1>1
  <1>3. 1 \in 1 .. Len(Tail(h)) /\ 1 + 1 = 2
    OBVIOUS
  <1>4. Tail(h)[1] = h[1 + 1]
    BY <1>1, <1>3
  <1> QED
    BY <1>2, <1>3, <1>4

LEMMA CancelledLast ==
  ASSUME NEW n, n = K - 1, NEW g \in Row, NEW h \in Row, NEW b, NEW x, NEW y,
         Cancelled(g, n, b, x), Cancelled(h, n, b, y), XorWord(x[1], y[1]) = 0
  PROVE  XorSeq(g, h) = ZeroRow
  <1>1. n \in 0 .. K - 1
    BY WordNumbers
  <1> DEFINE o == XorWord(x[1], y[1])
             z == XorSeq(g, h)
  <1>2. n = K - 1 /\ o = 0 => z = ZeroRow
    <2> HIDE DEF o, z
    <2> QED
      BY <1>1, CancelledMore DEF o, z
  <1> QED
    BY <1>2

\* and in the last round, with the last word the same, into leaves that cancel.
LEMMA LastCancels ==
  ASSUME NEW d \in BlockDigests, NEW sl, NEW n \in Nat, n = K - 1, NEW b,
         NEW x \in SlotSet, NEW y \in SlotSet,
         SlotStands(d, sl, n, b, x), SlotStands(d, sl, n, b, y), x.hash[1] = y.hash[1],
         Rz!SameTail(x, y),
         NEW u, u = Rz!OrderIndices(Unfolded(sl, n, x.attr), Unfolded(sl, n, y.attr))
  PROVE  LeafList(K, u) /\ RowOf(d, u) = ZeroRow
  <1> DEFINE v == Unfolded(sl, n, x.attr)
             w == Unfolded(sl, n, y.attr)
             a == Tail(x.hash)
             c == Tail(y.hash)
             e == b * Rests + x.hash[1]
  <1>1. K \in Nat /\ n \in 0 .. K - 1 /\ n + 1 = K /\ K - n = 1
    BY WordNumbers
  <1>2. /\ LeafList(n, v) /\ Cancelled(RowOf(d, v), n, e, a)
        /\ LeafList(n, w) /\ Cancelled(RowOf(d, w), n, e, c)
        /\ x.hash \in Seq(Word) /\ NonEmpty(x.hash)
        /\ y.hash \in Seq(Word) /\ NonEmpty(y.hash)
    BY DEF SlotStands, SlotSet
  <1> HIDE DEF v, w, a, c, e
  <1>3. u = Rz!OrderIndices(v, w)
    BY DEF v, w
  <1>4. /\ LeafList(K, u) /\ RowOf(d, v) \in Row /\ RowOf(d, w) \in Row
        /\ RowOf(d, u) = XorSeq(RowOf(d, v), RowOf(d, w))
    <2>1. n + 1 <= K
      BY <1>1
    <2>2. /\ LeafList(n + 1, u) /\ RowOf(d, v) \in Row /\ RowOf(d, w) \in Row
          /\ RowOf(d, u) = XorSeq(RowOf(d, v), RowOf(d, w))
      BY <1>2, <1>3, <2>1, MergedLeaves
    <2> QED
      BY <1>1, <2>2
  <1>5. XorWord(a[1], c[1]) = 0 => XorSeq(RowOf(d, v), RowOf(d, w)) = ZeroRow
    BY <1>1, <1>2, <1>4, CancelledLast
  <1>6. /\ Len(x.hash) = 2 /\ a[1] = x.hash[2] /\ a[1] \in Word
        /\ Len(y.hash) = 2 /\ c[1] = y.hash[2]
    <2>1. a \in Seq(Word) /\ Len(a) = 1 /\ c \in Seq(Word) /\ Len(c) = 1
      BY <1>1, <1>2 DEF Cancelled
    <2>2. Len(x.hash) = 2 /\ a[1] = x.hash[2]
      BY <1>2, <2>1, TwoWords DEF a
    <2>3. Len(y.hash) = 2 /\ c[1] = y.hash[2]
      BY <1>2, <2>1, TwoWords DEF c
    <2>4. 1 \in 1 .. Len(a)
      BY <2>1
    <2>5. a[1] \in Word
      BY <2>1, <2>4, ElementOfSeq
    <2> QED
      BY <2>2, <2>3, <2>5
  <1>7. x.hash[2] = y.hash[2]
    <2>1. Rz!TailWord(x.hash) = Rz!TailWord(y.hash)
      BY DEF Rz!SameTail
    <2>2. Rz!TailWord(x.hash)[2] = x.hash[2] /\ Rz!TailWord(y.hash)[2] = y.hash[2]
      BY <1>6 DEF Rz!TailWord
    <2> QED
      BY <2>1, <2>2
  <1>8. XorWord(a[1], c[1]) = 0
    BY <1>6, <1>7, XorWordLaws
  <1> QED
    BY <1>4, <1>5, <1>8

-----------------------------------------------------------------------------
\* Bucket b of round q, and the leaves of its slot s.
BucketIn(sl, q, b)   == sl[Rz!TreesOf(q)][b]
LeavesIn(sl, q, b, s) == Unfolded(sl, q, BucketIn(sl, q, b)[s].attr)

\* A tree of two slots of bucket b of round n, the first before the second.
PairTree(sl, n, b, t) ==
  \E x, y \in 1 .. Len(BucketIn(sl, n, b)) : x < y /\ t = Rz!TreeFromBid(b, x - 1, y - 1)

\* The trees of round q that its first a blocks or buckets may give.
Made(sl, q, a) ==
  IF q = 0 THEN {l \in Nat : l < a * HashesPerBlake}
  ELSE {t \in Nat : \E b \in Rz!Bucket : b < a /\ PairTree(sl, q - 1, b, t)}

\* The slots of round q stand, for trees in U, no two for one.
RoundOk(d, sl, q, U) ==
  /\ sl[Rz!TreesOf(q)] \in [Rz!Bucket -> Seq(SlotSet)]
  /\ \A b \in Rz!Bucket : Len(BucketIn(sl, q, b)) <= NSlots
  /\ \A b \in Rz!Bucket : \A s \in 1 .. Len(BucketIn(sl, q, b)) :
       SlotStands(d, sl, q, b, BucketIn(sl, q, b)[s]) /\ BucketIn(sl, q, b)[s].attr \in U
  /\ \A b, c \in Rz!Bucket : \A s \in 1 .. Len(BucketIn(sl, q, b)), t \in 1 .. Len(BucketIn(sl, q, c)) :
       BucketIn(sl, q, b)[s].attr = BucketIn(sl, q, c)[t].attr => b = c /\ s = t

RoundSound(d, sl, q) == \E a : RoundOk(d, sl, q, Made(sl, q, a))

\* Different leaves tell the slots of round q apart.
LeavesTell(sl, q) ==
  \A b, c \in Rz!Bucket : \A s \in 1 .. Len(BucketIn(sl, q, b)), t \in 1 .. Len(BucketIn(sl, q, c)) :
    Rz!IsInjective(LeavesIn(sl, q, b, s)) /\ LeavesIn(sl, q, b, s) = LeavesIn(sl, q, c, t)
      => b = c /\ s = t

\* One slot of such a round.
LEMMA RoundSlot ==
  ASSUME NEW d, NEW sl, NEW q, NEW U, RoundOk(d, sl, q, U),
         NEW b \in Rz!Bucket, NEW s \in 1 .. Len(BucketIn(sl, q, b))
  PROVE  /\ BucketIn(sl, q, b) \in Seq(SlotSet) /\ BucketIn(sl, q, b)[s] \in SlotSet
         /\ Len(BucketIn(sl, q, b)) \in Nat /\ Len(BucketIn(sl, q, b)) <= NSlots
         /\ SlotStands(d, sl, q, b, BucketIn(sl, q, b)[s])
         /\ LeafList(q, LeavesIn(sl, q, b, s))
  <1>1. BucketIn(sl, q, b) \in Seq(SlotSet)
    BY DEF RoundOk, BucketIn
  <1>2. Len(BucketIn(sl, q, b)) \in Nat /\ BucketIn(sl, q, b)[s] \in SlotSet
    BY <1>1, LenProperties, ElementOfSeq
  <1>3. Len(BucketIn(sl, q, b)) <= NSlots /\ SlotStands(d, sl, q, b, BucketIn(sl, q, b)[s])
    BY DEF RoundOk
  <1>4. LeafList(q, LeavesIn(sl, q, b, s))
    BY <1>3 DEF SlotStands, LeavesIn
  <1> QED
    BY <1>1, <1>2, <1>3, <1>4

\* A tree of two slots has the leaves of both.
LEMMA TreeLeaves ==
  ASSUME NEW d, NEW sl, NEW q \in Nat, NEW U, RoundOk(d, sl, q, U), NEW b \in Rz!Bucket,
         NEW x \in 1 .. Len(BucketIn(sl, q, b)), NEW y \in 1 .. Len(BucketIn(sl, q, b))
  PROVE  Unfolded(sl, q + 1, Rz!TreeFromBid(b, x - 1, y - 1))
           = Rz!OrderIndices(LeavesIn(sl, q, b, x), LeavesIn(sl, q, b, y))
  <1>1. BucketIn(sl, q, b) \in Seq(SlotSet) /\ Len(BucketIn(sl, q, b)) <= NSlots /\ Len(BucketIn(sl, q, b)) \in Nat
    BY RoundSlot
  <1>2. b \in Nat
    BY DEF Rz!Bucket
  <1>3. NSlots <= Rz!SlotRange /\ NSlots \in Nat /\ Rz!SlotRange \in Nat
    BY RzParameters
  <1>4. Len(BucketIn(sl, q, b)) <= Rz!SlotRange
    BY <1>1, <1>3
  <1> DEFINE tr == sl[Rz!TreesOf(q)][b]
  <1>5. tr \in Seq(SlotSet) /\ x \in 1 .. Len(tr) /\ y \in 1 .. Len(tr) /\ Len(tr) <= Rz!SlotRange
    BY <1>1, <1>4 DEF BucketIn
  <1>6. Unfolded(sl, q + 1, Rz!TreeFromBid(b, x - 1, y - 1))
          = Rz!OrderIndices(Unfolded(sl, q, tr[x].attr), Unfolded(sl, q, tr[y].attr))
    BY <1>2, <1>5, UnfoldedTree
  <1> QED
    BY <1>6 DEF BucketIn, LeavesIn

LEMMA OrderedHalves ==
  ASSUME NEW n \in Nat, NEW v, NEW w, LeafList(n, v), LeafList(n, w),
         Rz!IsInjective(Rz!OrderIndices(v, w))
  PROVE  Rz!IsInjective(v) /\ Rz!IsInjective(w)
  <1>1. v \in Seq(Nat) /\ w \in Seq(Nat) /\ Len(v) >= 1 /\ Len(w) >= 1
    <2>1. v \in Seq(Nat) /\ w \in Seq(Nat) /\ 1 <= Len(v) /\ 1 <= Len(w)
      BY LeafListType
    <2> QED
      BY <2>1, LenProperties
  <1>2. CASE Rz!OrderIndices(v, w) = v \o w
    BY <1>1, <1>2, HalvesDiffer
  <1>3. CASE Rz!OrderIndices(v, w) = w \o v
    BY <1>1, <1>3, HalvesDiffer
  <1> QED
    BY <1>2, <1>3 DEF Rz!OrderIndices

\* So its leaves, if they are different, tell it from the other trees.
LEMMA TreeTells ==
  ASSUME NEW d, NEW sl, NEW q \in Nat, NEW U, RoundOk(d, sl, q, U), LeavesTell(sl, q),
         NEW b \in Rz!Bucket, NEW c \in Rz!Bucket, NEW t, NEW u,
         PairTree(sl, q, b, t), PairTree(sl, q, c, u),
         Rz!IsInjective(Unfolded(sl, q + 1, t)), Unfolded(sl, q + 1, t) = Unfolded(sl, q + 1, u)
  PROVE  t = u
  <1>1. PICK x, y \in 1 .. Len(BucketIn(sl, q, b)) : x < y /\ t = Rz!TreeFromBid(b, x - 1, y - 1)
    BY DEF PairTree
  <1>2. PICK v, w \in 1 .. Len(BucketIn(sl, q, c)) : v < w /\ u = Rz!TreeFromBid(c, v - 1, w - 1)
    BY DEF PairTree
  <1> DEFINE lx == LeavesIn(sl, q, b, x)
             ly == LeavesIn(sl, q, b, y)
             lv == LeavesIn(sl, q, c, v)
             lw == LeavesIn(sl, q, c, w)
  <1>3. Unfolded(sl, q + 1, t) = Rz!OrderIndices(lx, ly) /\ Unfolded(sl, q + 1, u) = Rz!OrderIndices(lv, lw)
    BY <1>1, <1>2, TreeLeaves
  <1>4. LeafList(q, lx) /\ LeafList(q, ly) /\ LeafList(q, lv) /\ LeafList(q, lw)
    BY RoundSlot
  <1> HIDE DEF lx, ly, lv, lw
  <1>5. Rz!IsInjective(lx) /\ Rz!IsInjective(ly)
    BY <1>3, <1>4, OrderedHalves
  <1>6. (lx = lv /\ ly = lw) \/ (lx = lw /\ ly = lv)
    <2>1. Rz!OrderIndices(lx, ly) = Rz!OrderIndices(lv, lw)
      BY <1>3
    <2> QED
      BY <1>4, <2>1, MadeOf
  <1>7. CASE lx = lv /\ ly = lw
    <2>1. b = c /\ x = v /\ y = w
      BY <1>5, <1>7 DEF LeavesTell, lx, ly, lv, lw
    <2> QED
      BY <1>1, <1>2, <2>1
  <1>8. CASE lx = lw /\ ly = lv
    <2>1. x = w /\ y = v
      BY <1>5, <1>8 DEF LeavesTell, lx, ly, lv, lw
    <2>2. x \in Int /\ y \in Int
      OBVIOUS
    <2> QED
      BY <1>1, <1>2, <2>1, <2>2
  <1> QED
    BY <1>6, <1>7, <1>8

\* So do the leaves of every round.
LEMMA RoundsTell ==
  ASSUME NEW d, NEW sl, NEW q \in 0 .. K - 1, \A p \in 0 .. q : RoundSound(d, sl, p)
  PROVE  LeavesTell(sl, q)
  <1> DEFINE T == {p \in 0 .. q : LeavesTell(sl, p)}
  <1>1. 0 \in T
    <2>1. 0 \in 0 .. q /\ 0 \in Nat
      OBVIOUS
    <2>2. PICK a : RoundOk(d, sl, 0, Made(sl, 0, a))
      BY <2>1 DEF RoundSound
    <2>3. ASSUME NEW b \in Rz!Bucket, NEW c \in Rz!Bucket,
                 NEW s \in 1 .. Len(BucketIn(sl, 0, b)), NEW t \in 1 .. Len(BucketIn(sl, 0, c)),
                 LeavesIn(sl, 0, b, s) = LeavesIn(sl, 0, c, t)
          PROVE  b = c /\ s = t
      <3> DEFINE x == BucketIn(sl, 0, b)[s]
                 y == BucketIn(sl, 0, c)[t]
      <3>1. x \in SlotSet /\ y \in SlotSet
        BY <2>2, RoundSlot
      <3>2. x.attr \in Nat /\ y.attr \in Nat
        BY <3>1 DEF SlotSet
      <3>3. <<x.attr>> = <<y.attr>>
        <4> HIDE DEF x, y
        <4> QED
          BY <2>3, <3>2, UnfoldedLeaf DEF LeavesIn, x, y
      <3>4. x.attr = y.attr
        BY <3>3
      <3> QED
        BY <2>2, <3>4 DEF RoundOk
    <2>4. LeavesTell(sl, 0)
      BY <2>3 DEF LeavesTell
    <2> QED
      BY <2>1, <2>4
  <1>2. ASSUME NEW p \in 1 .. q, p - 1 \in T
        PROVE  p \in T
    <2>1. p \in 0 .. q /\ p - 1 \in 0 .. q /\ p - 1 \in Nat /\ (p - 1) + 1 = p /\ p # 0
      OBVIOUS
    <2>2. LeavesTell(sl, p - 1)
      BY <1>2
    <2>3. PICK a : RoundOk(d, sl, p - 1, Made(sl, p - 1, a))
      BY <2>1 DEF RoundSound
    <2>4. PICK e : RoundOk(d, sl, p, Made(sl, p, e))
      BY <2>1 DEF RoundSound
    <2>5. ASSUME NEW b \in Rz!Bucket, NEW c \in Rz!Bucket,
                 NEW s \in 1 .. Len(BucketIn(sl, p, b)), NEW t \in 1 .. Len(BucketIn(sl, p, c)),
                 Rz!IsInjective(LeavesIn(sl, p, b, s)), LeavesIn(sl, p, b, s) = LeavesIn(sl, p, c, t)
          PROVE  b = c /\ s = t
      <3> DEFINE x == BucketIn(sl, p, b)[s].attr
                 y == BucketIn(sl, p, c)[t].attr
      <3>1. x \in Made(sl, p, e) /\ y \in Made(sl, p, e)
        BY <2>4 DEF RoundOk
      <3>2. PICK f \in Rz!Bucket : PairTree(sl, p - 1, f, x)
        BY <2>1, <3>1 DEF Made
      <3>3. PICK g \in Rz!Bucket : PairTree(sl, p - 1, g, y)
        BY <2>1, <3>1 DEF Made
      <3>4. Rz!IsInjective(Unfolded(sl, p, x)) /\ Unfolded(sl, p, x) = Unfolded(sl, p, y)
        BY <2>5 DEF LeavesIn
      <3> HIDE DEF x, y
      <3>5. x = y
        BY <2>1, <2>2, <2>3, <3>2, <3>3, <3>4, TreeTells
      <3> QED
        BY <2>4, <3>5 DEF RoundOk, x, y
    <2>6. LeavesTell(sl, p)
      BY <2>5 DEF LeavesTell
    <2> QED
      BY <2>1, <2>6
  <1> HIDE DEF T
  <1>3. q \in Nat /\ q \in 0 .. q
    BY WordNumbers
  <1>4. q \in T
    BY <1>1, <1>2, <1>3, CountUp
  <1> QED
    BY <1>4 DEF T

-----------------------------------------------------------------------------
\* Rounds above are not read.
LEMMA MadeSame ==
  ASSUME NEW q \in Nat, NEW sl, NEW sm, SameBelow(sl, sm, q), NEW a
  PROVE  Made(sl, q, a) = Made(sm, q, a)
  <1>1. CASE q = 0
    BY <1>1 DEF Made
  <1>2. CASE q # 0
    <2>1. q - 1 \in 0 .. q - 1
      BY <1>2
    <2>2. sl[Rz!TreesOf(q - 1)] = sm[Rz!TreesOf(q - 1)]
      BY <2>1 DEF SameBelow
    <2>3. \A b, t : PairTree(sl, q - 1, b, t) <=> PairTree(sm, q - 1, b, t)
      BY <2>2 DEF PairTree, BucketIn
    <2> QED
      BY <1>2, <2>3 DEF Made
  <1> QED
    BY <1>1, <1>2

LEMMA RoundSame ==
  ASSUME NEW d, NEW q \in Nat, NEW sl, NEW sm, SameBelow(sl, sm, q + 1), NEW U, RoundOk(d, sl, q, U)
  PROVE  RoundOk(d, sm, q, U)
  <1>1. sl[Rz!TreesOf(q)] = sm[Rz!TreesOf(q)]
    <2>1. q \in 0 .. (q + 1) - 1
      OBVIOUS
    <2> QED
      BY <2>1 DEF SameBelow
  <1>2. SameBelow(sl, sm, q)
    <2>1. \A n \in 0 .. q - 1 : n \in 0 .. (q + 1) - 1
      OBVIOUS
    <2> QED
      BY <2>1 DEF SameBelow
  <1>3. \A t : Unfolded(sl, q, t) = Unfolded(sm, q, t)
    BY <1>2, UnfoldedSame
  <1>4. \A b, slot : SlotStands(d, sl, q, b, slot) <=> SlotStands(d, sm, q, b, slot)
    BY <1>3 DEF SlotStands
  <1>5. \A b : BucketIn(sl, q, b) = BucketIn(sm, q, b)
    BY <1>1 DEF BucketIn
  <1> QED
    BY <1>1, <1>4, <1>5 DEF RoundOk

LEMMA RoundMore ==
  ASSUME NEW d, NEW q, NEW sl, NEW U, NEW V, U \subseteq V, RoundOk(d, sl, q, U)
  PROVE  RoundOk(d, sl, q, V)
  BY DEF RoundOk

\* The memory a round writes.
MemorySet == [slots  : [Rz!Tree -> [Rz!Bucket -> Seq(SlotSet)]],
              nslots : [Rz!Tree -> [Rz!Bucket -> Nat]],
              full   : BOOLEAN]

\* The count of a bucket tells its slots.
CountTells(sl, ns, q, b) == Len(BucketIn(sl, q, b)) = Rz!Min2(ns[Rz!TreesOf(q)][b], NSlots)

\* While round q is written, for the trees in U, the others are as in base.
WriteOk(d, base, q, U, m) ==
  /\ m \in MemorySet
  /\ \A p \in 0 .. K - 1 : p # q => /\ m.slots[Rz!TreesOf(p)] = base.slots[Rz!TreesOf(p)]
                                    /\ m.nslots[Rz!TreesOf(p)] = base.nslots[Rz!TreesOf(p)]
  /\ RoundOk(d, m.slots, q, U)
  /\ \A b \in Rz!Bucket : CountTells(m.slots, m.nslots, q, b)

\* A bucket with one slot more, if there is place.
LEMMA SlotAdded ==
  ASSUME NEW old \in Seq(SlotSet), NEW s \in Nat, NEW slot \in SlotSet,
         Len(old) = Rz!Min2(s, NSlots),
         NEW new, new = IF s < NSlots THEN SubSeq(old, 1, s) \o <<slot>> ELSE old
  PROVE  /\ new \in Seq(SlotSet) /\ Len(new) = Rz!Min2(s + 1, NSlots) /\ Len(new) <= NSlots
         /\ \A e \in 1 .. Len(new) : \/ e \in 1 .. Len(old) /\ new[e] = old[e]
                                     \/ e = s + 1 /\ new[e] = slot
  <1>1. NSlots \in Nat /\ Len(old) \in Nat
    BY RzParameters, LenProperties
  <1>2. CASE s < NSlots
    <2>1. Len(old) = s /\ Rz!Min2(s + 1, NSlots) = s + 1
      BY <1>1, <1>2 DEF Rz!Min2
    <2>2. SubSeq(old, 1, s) = old
      BY <2>1, SubSeqFull
    <2>3. new = old \o <<slot>>
      BY <1>2, <2>2
    <2>4. <<slot>> \in Seq(SlotSet) /\ Len(<<slot>>) = 1 /\ <<slot>>[1] = slot
      OBVIOUS
    <2>5. new \in Seq(SlotSet) /\ Len(new) = s + 1
          /\ \A e \in 1 .. s + 1 : new[e] = IF e <= s THEN old[e] ELSE <<slot>>[e - s]
      BY <2>1, <2>3, <2>4, ConcatProperties
    <2>6. ASSUME NEW e \in 1 .. s + 1
          PROVE  \/ e \in 1 .. s /\ new[e] = old[e]
                 \/ e = s + 1 /\ new[e] = slot
      <3>1. CASE e <= s
        BY <2>5, <3>1
      <3>2. CASE ~(e <= s)
        <4>1. e = s + 1 /\ e - s = 1
          BY <3>2
        <4> QED
          BY <2>4, <2>5, <3>2, <4>1
      <3> QED
        BY <3>1, <3>2
    <2>7. s + 1 <= NSlots
      BY <1>1, <1>2
    <2> QED
      BY <2>1, <2>5, <2>6, <2>7
  <1>3. CASE ~(s < NSlots)
    <2>1. Rz!Min2(s, NSlots) = NSlots /\ Rz!Min2(s + 1, NSlots) = NSlots
      BY <1>1, <1>3 DEF Rz!Min2
    <2>2. new = old
      BY <1>3
    <2> QED
      BY <1>1, <2>1, <2>2
  <1> QED
    BY <1>2, <1>3

LEMMA PutForm ==
  ASSUME NEW m \in MemorySet, NEW tree \in Rz!Tree, NEW b \in Rz!Bucket, NEW slot
  PROVE  LET old == m.slots[tree][b]
             c == m.nslots[tree][b]
             x == [m.slots EXCEPT ![tree][b] = IF c < NSlots THEN SubSeq(old, 1, c) \o <<slot>> ELSE old]
             y == [m.nslots EXCEPT ![tree][b] = @ + 1]
         IN /\ Rz!Put(m, tree, b, slot).slots = x /\ Rz!Put(m, tree, b, slot).nslots = y
            /\ /\ x \in [Rz!Tree -> [Rz!Bucket -> Seq(SlotSet)]]
               /\ y \in [Rz!Tree -> [Rz!Bucket -> Nat]]
               => Rz!Put(m, tree, b, slot) \in MemorySet
  <1> DEFINE x == [m.slots EXCEPT ![tree][b] =
                     IF m.nslots[tree][b] < NSlots
                     THEN SubSeq(@, 1, m.nslots[tree][b]) \o <<slot>> ELSE @]
             y == [m.nslots EXCEPT ![tree][b] = @ + 1]
             z == (m.full \/ m.nslots[tree][b] >= NSlots)
             p == Rz!Put(m, tree, b, slot)
  <1>1. p = [m EXCEPT !.nslots = y, !.slots = x, !.full = z]
    BY DEF Rz!Put, MemorySet
  <1>2. z \in BOOLEAN
    OBVIOUS
  <1> HIDE DEF x, y, z, p
  <1>3. p.slots = x /\ p.nslots = y
    BY <1>1 DEF MemorySet
  <1>4. x \in [Rz!Tree -> [Rz!Bucket -> Seq(SlotSet)]] /\ y \in [Rz!Tree -> [Rz!Bucket -> Nat]] => p \in MemorySet
    BY <1>1, <1>2 DEF MemorySet
  <1> QED
    BY <1>3, <1>4 DEF x, y, p

\* A slot that stands, put for a tree not in U.
LEMMA RzPuts ==
  ASSUME NEW d, NEW base, NEW q \in 0 .. K - 1, NEW U, NEW m, WriteOk(d, base, q, U, m),
         NEW b \in Rz!Bucket, NEW slot \in SlotSet, SlotStands(d, m.slots, q, b, slot), slot.attr \notin U
  PROVE  WriteOk(d, base, q, U \cup {slot.attr}, Rz!Put(m, Rz!TreesOf(q), b, slot))
  <1> DEFINE tree == Rz!TreesOf(q)
             old  == BucketIn(m.slots, q, b)
             c0   == m.nslots[tree][b]
             new  == IF c0 < NSlots THEN SubSeq(old, 1, c0) \o <<slot>> ELSE old
             sm   == [m.slots EXCEPT ![tree][b] = new]
             nm   == [m.nslots EXCEPT ![tree][b] = @ + 1]
             m1   == Rz!Put(m, tree, b, slot)
             V    == U \cup {slot.attr}
  <1>1. tree \in Rz!Tree /\ q \in Nat
    BY WordNumbers DEF Rz!Tree
  <1>2. /\ m.slots \in [Rz!Tree -> [Rz!Bucket -> Seq(SlotSet)]]
        /\ m.nslots \in [Rz!Tree -> [Rz!Bucket -> Nat]]
        /\ m \in MemorySet
    BY DEF WriteOk, MemorySet
  <1>3. /\ m1.slots = sm /\ m1.nslots = nm
        /\ sm \in [Rz!Tree -> [Rz!Bucket -> Seq(SlotSet)]] /\ nm \in [Rz!Tree -> [Rz!Bucket -> Nat]]
             => m1 \in MemorySet
    BY <1>1, <1>2, PutForm DEF BucketIn
  <1>4. old \in Seq(SlotSet) /\ c0 \in Nat /\ Len(old) = Rz!Min2(c0, NSlots)
    <2>1. old \in Seq(SlotSet) /\ c0 \in Nat
      BY <1>1, <1>2 DEF BucketIn
    <2>2. CountTells(m.slots, m.nslots, q, b)
      BY DEF WriteOk
    <2> QED
      BY <2>1, <2>2 DEF CountTells
  <1>5. /\ new \in Seq(SlotSet) /\ Len(new) = Rz!Min2(c0 + 1, NSlots) /\ Len(new) <= NSlots
        /\ \A e \in 1 .. Len(new) : \/ e \in 1 .. Len(old) /\ new[e] = old[e]
                                    \/ e = c0 + 1 /\ new[e] = slot
    <2>1. new = IF c0 < NSlots THEN SubSeq(old, 1, c0) \o <<slot>> ELSE old
      OBVIOUS
    <2> HIDE DEF old, c0, new
    <2> QED
      BY <1>4, <2>1, SlotAdded
  <1> HIDE DEF new
  <1>6. /\ sm \in [Rz!Tree -> [Rz!Bucket -> Seq(SlotSet)]]
        /\ sm[tree][b] = new /\ \A c \in Rz!Bucket : c # b => sm[tree][c] = m.slots[tree][c]
        /\ sm[tree] \in [Rz!Bucket -> Seq(SlotSet)]
        /\ \A u \in Rz!Tree : u # tree => sm[u] = m.slots[u]
    BY <1>1, <1>2, <1>5
  <1>7. /\ nm \in [Rz!Tree -> [Rz!Bucket -> Nat]]
        /\ nm[tree][b] = c0 + 1 /\ \A c \in Rz!Bucket : c # b => nm[tree][c] = m.nslots[tree][c]
        /\ \A u \in Rz!Tree : u # tree => nm[u] = m.nslots[u]
    BY <1>1, <1>2, <1>4
  <1> HIDE DEF sm, nm, m1, old, c0
  <1>8. \A p \in Nat : p # q => Rz!TreesOf(p) # tree
    BY <1>1, TreesApart
  <1>9. \A p \in 0 .. K - 1 : p \in Nat /\ Rz!TreesOf(p) \in Rz!Tree
    BY DEF Rz!Tree
  <1>10. SameBelow(m.slots, sm, q)
    <2>1. \A n \in 0 .. q - 1 : n \in 0 .. K - 1 /\ n # q
      BY WordNumbers
    <2> QED
      BY <1>6, <1>8, <1>9, <2>1 DEF SameBelow
  <1>11. \A c, x : SlotStands(d, m.slots, q, c, x) => SlotStands(d, sm, q, c, x)
    BY <1>1, <1>10, UnfoldedSame DEF SlotStands
  <1>12. BucketIn(sm, q, b) = new /\ \A c \in Rz!Bucket : c # b => BucketIn(sm, q, c) = BucketIn(m.slots, q, c)
    BY <1>6 DEF BucketIn
  <1>13. ASSUME NEW c \in Rz!Bucket, NEW e \in 1 .. Len(BucketIn(sm, q, c))
         PROVE  \/ /\ e \in 1 .. Len(BucketIn(m.slots, q, c))
                   /\ BucketIn(sm, q, c)[e] = BucketIn(m.slots, q, c)[e]
                \/ c = b /\ e = c0 + 1 /\ BucketIn(sm, q, c)[e] = slot
    <2>1. CASE c = b
      BY <1>5, <1>12, <2>1 DEF old
    <2>2. CASE c # b
      BY <1>12, <2>2
    <2> QED
      BY <2>1, <2>2
  <1>14. /\ \A c \in Rz!Bucket : Len(BucketIn(m.slots, q, c)) <= NSlots
         /\ \A c \in Rz!Bucket : \A e \in 1 .. Len(BucketIn(m.slots, q, c)) :
              SlotStands(d, m.slots, q, c, BucketIn(m.slots, q, c)[e]) /\ BucketIn(m.slots, q, c)[e].attr \in U
         /\ \A x, y \in Rz!Bucket : \A e \in 1 .. Len(BucketIn(m.slots, q, x)), f \in 1 .. Len(BucketIn(m.slots, q, y)) :
              BucketIn(m.slots, q, x)[e].attr = BucketIn(m.slots, q, y)[f].attr => x = y /\ e = f
    BY DEF WriteOk, RoundOk
  <1>15. RoundOk(d, sm, q, V)
    <2>1. \A c \in Rz!Bucket : Len(BucketIn(sm, q, c)) <= NSlots
      BY <1>5, <1>12, <1>14
    <2>2. ASSUME NEW c \in Rz!Bucket, NEW e \in 1 .. Len(BucketIn(sm, q, c))
          PROVE  SlotStands(d, sm, q, c, BucketIn(sm, q, c)[e]) /\ BucketIn(sm, q, c)[e].attr \in V
      BY <1>11, <1>13, <1>14
    <2>3. ASSUME NEW x \in Rz!Bucket, NEW y \in Rz!Bucket,
                 NEW e \in 1 .. Len(BucketIn(sm, q, x)), NEW f \in 1 .. Len(BucketIn(sm, q, y)),
                 BucketIn(sm, q, x)[e].attr = BucketIn(sm, q, y)[f].attr
          PROVE  x = y /\ e = f
      <3>1. \/ e \in 1 .. Len(BucketIn(m.slots, q, x)) /\ BucketIn(sm, q, x)[e] = BucketIn(m.slots, q, x)[e]
            \/ x = b /\ e = c0 + 1 /\ BucketIn(sm, q, x)[e] = slot
        BY <1>13
      <3>2. \/ f \in 1 .. Len(BucketIn(m.slots, q, y)) /\ BucketIn(sm, q, y)[f] = BucketIn(m.slots, q, y)[f]
            \/ y = b /\ f = c0 + 1 /\ BucketIn(sm, q, y)[f] = slot
        BY <1>13
      <3> QED
        BY <1>14, <2>3, <3>1, <3>2
    <2>4. sm[Rz!TreesOf(q)] \in [Rz!Bucket -> Seq(SlotSet)]
      BY <1>6
    <2> HIDE DEF V
    <2> QED
      BY <2>1, <2>2, <2>3, <2>4 DEF RoundOk
  <1>16. \A c \in Rz!Bucket : CountTells(sm, nm, q, c)
    <2> SUFFICES ASSUME NEW c \in Rz!Bucket
                 PROVE  CountTells(sm, nm, q, c)
      OBVIOUS
    <2>1. CountTells(m.slots, m.nslots, q, c)
      BY DEF WriteOk
    <2>2. CASE c = b
      BY <1>5, <1>7, <1>12, <2>2 DEF CountTells
    <2>3. CASE c # b
      BY <1>7, <1>12, <2>1, <2>3 DEF CountTells
    <2> QED
      BY <2>2, <2>3
  <1>17. \A p \in 0 .. K - 1 : p # q => /\ sm[Rz!TreesOf(p)] = base.slots[Rz!TreesOf(p)]
                                        /\ nm[Rz!TreesOf(p)] = base.nslots[Rz!TreesOf(p)]
    <2>1. \A p \in 0 .. K - 1 : p # q => /\ m.slots[Rz!TreesOf(p)] = base.slots[Rz!TreesOf(p)]
                                         /\ m.nslots[Rz!TreesOf(p)] = base.nslots[Rz!TreesOf(p)]
      BY DEF WriteOk
    <2> QED
      BY <1>6, <1>7, <1>8, <1>9, <2>1
  <1>18. m1 \in MemorySet /\ m1.slots = sm /\ m1.nslots = nm
    BY <1>3, <1>6, <1>7
  <1> HIDE DEF V
  <1>19. WriteOk(d, base, q, V, m1)
    BY <1>15, <1>16, <1>17, <1>18 DEF WriteOk
  <1> QED
    BY <1>19 DEF V, m1, tree

-----------------------------------------------------------------------------
\* The slots remembered before slot s, one at a time.
EarlierStep(bucket, s, n, t) == IF Rz!XHash(bucket[n]) = Rz!XHash(bucket[s]) THEN Append(t, n) ELSE t

EarlierRun(bucket, s) == CHOOSE F : F = [n \in 0 .. s - 1 |-> IF n = 0 THEN << >> ELSE EarlierStep(bucket, s, n, F[n - 1])]

LEMMA EarlierExists ==
  ASSUME NEW bucket, NEW s, s - 1 \in Nat
  PROVE  \E F : F = [n \in 0 .. s - 1 |-> IF n = 0 THEN << >> ELSE EarlierStep(bucket, s, n, F[n - 1])]
  <1> DEFINE Good(m) == \E F : F = [n \in 0 .. m |-> IF n = 0 THEN << >> ELSE EarlierStep(bucket, s, n, F[n - 1])]
             T == {m \in 0 .. s - 1 : Good(m)}
  <1>1. 0 \in T
    <2> DEFINE F == [n \in 0 .. 0 |-> << >>]
    <2>1. F = [n \in 0 .. 0 |-> IF n = 0 THEN << >> ELSE EarlierStep(bucket, s, n, F[n - 1])]
      OBVIOUS
    <2>2. Good(0)
      BY <2>1
    <2> HIDE DEF Good
    <2> QED
      BY <2>2
  <1>2. ASSUME NEW m \in 1 .. s - 1, m - 1 \in T
        PROVE  m \in T
    <2>1. Good(m - 1)
      BY <1>2
    <2>2. PICK F : F = [n \in 0 .. m - 1 |-> IF n = 0 THEN << >> ELSE EarlierStep(bucket, s, n, F[n - 1])]
      BY <2>1
    <2> DEFINE G == [n \in 0 .. m |-> IF n = m THEN EarlierStep(bucket, s, m, F[m - 1]) ELSE F[n]]
    <2>3. ASSUME NEW n \in 0 .. m
          PROVE  G[n] = IF n = 0 THEN << >> ELSE EarlierStep(bucket, s, n, G[n - 1])
      <3>1. CASE n = m
        BY <3>1
      <3>2. CASE n # m
        <4>1. n \in 0 .. m - 1 /\ G[n] = F[n] /\ (n # 0 => G[n - 1] = F[n - 1])
          BY <3>2
        <4>2. F[n] = IF n = 0 THEN << >> ELSE EarlierStep(bucket, s, n, F[n - 1])
          BY <2>2, <4>1
        <4> QED
          BY <4>1, <4>2
      <3> QED
        BY <3>1, <3>2
    <2>4. G = [n \in 0 .. m |-> G[n]]
      OBVIOUS
    <2> HIDE DEF G
    <2>5. G = [n \in 0 .. m |-> IF n = 0 THEN << >> ELSE EarlierStep(bucket, s, n, G[n - 1])]
      BY <2>3, <2>4
    <2>6. Good(m)
      BY <2>5
    <2> HIDE DEF Good
    <2> QED
      BY <2>6
  <1> HIDE DEF T
  <1>3. \A n \in 0 .. s - 1 : n \in T
    BY <1>1, <1>2, CountUp
  <1>4. s - 1 \in 0 .. s - 1
    OBVIOUS
  <1> HIDE DEF Good
  <1>5. Good(s - 1)
    BY <1>3, <1>4 DEF T
  <1> QED
    BY <1>5 DEF Good

LEMMA EarlierRuns ==
  ASSUME NEW bucket, NEW s, s - 1 \in Nat
  PROVE  /\ EarlierRun(bucket, s)[0] = << >>
         /\ \A n \in 1 .. s - 1 : EarlierRun(bucket, s)[n] = EarlierStep(bucket, s, n, EarlierRun(bucket, s)[n - 1])
  <1> DEFINE H == EarlierRun(bucket, s)
  <1>1. H = [n \in 0 .. s - 1 |-> IF n = 0 THEN << >> ELSE EarlierStep(bucket, s, n, H[n - 1])]
    BY EarlierExists DEF EarlierRun
  <1> HIDE DEF H
  <1>2. \A n \in 0 .. s - 1 : H[n] = IF n = 0 THEN << >> ELSE EarlierStep(bucket, s, n, H[n - 1])
    BY <1>1
  <1>3. 0 \in 0 .. s - 1 /\ \A n \in 1 .. s - 1 : n \in 0 .. s - 1 /\ n # 0
    OBVIOUS
  <1> QED
    BY <1>2, <1>3 DEF H

\* They are earlier ones with its rest, each once.
Matching(bucket, s, p, v) ==
  /\ v \in Seq(1 .. p)
  /\ \A e \in 1 .. Len(v) : Rz!XHash(bucket[v[e]]) = Rz!XHash(bucket[s])
  /\ \A e, f \in 1 .. Len(v) : v[e] = v[f] => e = f

LEMMA EarlierMatch ==
  ASSUME NEW bucket, NEW s \in Nat, s >= 1
  PROVE  Matching(bucket, s, s - 1, Rz!Earlier(bucket, s))
  <1> DEFINE H == EarlierRun(bucket, s)
             T == {n \in 0 .. s - 1 : Matching(bucket, s, n, H[n])}
  <1>1. s - 1 \in Nat
    OBVIOUS
  <1>2. Rz!Earlier(bucket, s) = H[s - 1]
    BY DEF Rz!Earlier, EarlierRun, EarlierStep
  <1>3. H[0] = << >> /\ \A n \in 1 .. s - 1 : H[n] = EarlierStep(bucket, s, n, H[n - 1])
    BY <1>1, EarlierRuns
  <1> HIDE DEF H
  <1>4. 0 \in T
    <2> DEFINE v == H[0]
    <2>1. v \in Seq(1 .. 0) /\ Len(v) = 0
      BY <1>3
    <2> HIDE DEF v
    <2>2. Matching(bucket, s, 0, v)
      BY <2>1 DEF Matching
    <2> QED
      BY <1>1, <2>2 DEF v
  <1>5. ASSUME NEW n \in 1 .. s - 1, n - 1 \in T
        PROVE  n \in T
    <2> DEFINE v == H[n - 1]
    <2>1. Matching(bucket, s, n - 1, v) /\ H[n] = EarlierStep(bucket, s, n, v)
      BY <1>3, <1>5
    <2> HIDE DEF v
    <2>2. Len(v) \in Nat /\ \A e \in 1 .. Len(v) : v[e] \in 1 .. n - 1
      BY <2>1, LenProperties, ElementOfSeq DEF Matching
    <2>3. v \in Seq(1 .. n)
      <3>1. 1 .. n - 1 \subseteq 1 .. n
        OBVIOUS
      <3> QED
        BY <2>1, <3>1, SeqMonotonic DEF Matching
    <2>4. CASE Rz!XHash(bucket[n]) = Rz!XHash(bucket[s])
      <3> DEFINE w == Append(v, n)
      <3>1. n \in 1 .. n
        OBVIOUS
      <3>2. /\ w \in Seq(1 .. n) /\ Len(w) = Len(v) + 1 /\ w[Len(v) + 1] = n
            /\ \A e \in 1 .. Len(v) : w[e] = v[e]
        BY <2>3, <3>1, AppendProperties
      <3> HIDE DEF w
      <3>3. \A e \in 1 .. Len(w) : (e \in 1 .. Len(v) /\ w[e] = v[e]) \/ (e = Len(v) + 1 /\ w[e] = n)
        BY <2>2, <3>2
      <3>4. \A e \in 1 .. Len(w) : Rz!XHash(bucket[w[e]]) = Rz!XHash(bucket[s])
        BY <2>1, <2>4, <3>3 DEF Matching
      <3>5. \A e, f \in 1 .. Len(w) : w[e] = w[f] => e = f
        <4>1. \A e \in 1 .. Len(v) : v[e] # n
          BY <2>2
        <4>2. \A e, f \in 1 .. Len(v) : v[e] = v[f] => e = f
          BY <2>1 DEF Matching
        <4> QED
          BY <3>3, <4>1, <4>2
      <3>6. H[n] = w
        BY <2>1, <2>4 DEF EarlierStep, w
      <3>7. Matching(bucket, s, n, w)
        BY <3>2, <3>4, <3>5 DEF Matching
      <3> QED
        BY <3>6, <3>7
    <2>5. CASE Rz!XHash(bucket[n]) # Rz!XHash(bucket[s])
      <3>1. H[n] = v
        BY <2>1, <2>5 DEF EarlierStep
      <3> QED
        BY <2>1, <2>3, <3>1 DEF Matching
    <2> QED
      BY <2>4, <2>5
  <1> HIDE DEF T
  <1>6. s - 1 \in 0 .. s - 1 /\ \A n \in 0 .. s - 1 : n \in T
    BY <1>1, <1>4, <1>5, CountUp
  <1>7. s - 1 \in T
    BY <1>6
  <1> QED
    BY <1>2, <1>7 DEF T

\* The pairs of a bucket, one slot at a time.
PairStep(bucket, most, n, t) == 
  IF Rz!Rank(bucket, n) >= most THEN t
  ELSE LET e == Rz!Earlier(bucket, n) IN t \o [p \in DOMAIN e |-> <<e[p], n>>]

PairRun(bucket, most) == CHOOSE F : F = [n \in 0 .. Len(bucket) |-> IF n = 0 THEN << >> ELSE PairStep(bucket, most, n, F[n - 1])]

LEMMA PairExists ==
  ASSUME NEW bucket, NEW most, Len(bucket) \in Nat
  PROVE  \E F : F = [n \in 0 .. Len(bucket) |-> IF n = 0 THEN << >> ELSE PairStep(bucket, most, n, F[n - 1])]
  <1> DEFINE Good(m) == \E F : F = [n \in 0 .. m |-> IF n = 0 THEN << >> ELSE PairStep(bucket, most, n, F[n - 1])]
             T == {m \in 0 .. Len(bucket) : Good(m)}
  <1>1. 0 \in T
    <2> DEFINE F == [n \in 0 .. 0 |-> << >>]
    <2>1. F = [n \in 0 .. 0 |-> IF n = 0 THEN << >> ELSE PairStep(bucket, most, n, F[n - 1])]
      OBVIOUS
    <2>2. Good(0)
      BY <2>1
    <2> HIDE DEF Good
    <2> QED
      BY <2>2
  <1>2. ASSUME NEW m \in 1 .. Len(bucket), m - 1 \in T
        PROVE  m \in T
    <2>1. Good(m - 1)
      BY <1>2
    <2>2. PICK F : F = [n \in 0 .. m - 1 |-> IF n = 0 THEN << >> ELSE PairStep(bucket, most, n, F[n - 1])]
      BY <2>1
    <2> DEFINE G == [n \in 0 .. m |-> IF n = m THEN PairStep(bucket, most, m, F[m - 1]) ELSE F[n]]
    <2>3. ASSUME NEW n \in 0 .. m
          PROVE  G[n] = IF n = 0 THEN << >> ELSE PairStep(bucket, most, n, G[n - 1])
      <3>1. CASE n = m
        BY <3>1
      <3>2. CASE n # m
        <4>1. n \in 0 .. m - 1 /\ G[n] = F[n] /\ (n # 0 => G[n - 1] = F[n - 1])
          BY <3>2
        <4>2. F[n] = IF n = 0 THEN << >> ELSE PairStep(bucket, most, n, F[n - 1])
          BY <2>2, <4>1
        <4> QED
          BY <4>1, <4>2
      <3> QED
        BY <3>1, <3>2
    <2>4. G = [n \in 0 .. m |-> G[n]]
      OBVIOUS
    <2> HIDE DEF G
    <2>5. G = [n \in 0 .. m |-> IF n = 0 THEN << >> ELSE PairStep(bucket, most, n, G[n - 1])]
      BY <2>3, <2>4
    <2>6. Good(m)
      BY <2>5
    <2> HIDE DEF Good
    <2> QED
      BY <2>6
  <1> HIDE DEF T
  <1>3. \A n \in 0 .. Len(bucket) : n \in T
    BY <1>1, <1>2, CountUp
  <1>4. Len(bucket) \in 0 .. Len(bucket)
    OBVIOUS
  <1> HIDE DEF Good
  <1>5. Good(Len(bucket))
    BY <1>3, <1>4 DEF T
  <1> QED
    BY <1>5 DEF Good

LEMMA PairRuns ==
  ASSUME NEW bucket, NEW most, Len(bucket) \in Nat
  PROVE  /\ PairRun(bucket, most)[0] = << >>
         /\ \A n \in 1 .. Len(bucket) : PairRun(bucket, most)[n] = PairStep(bucket, most, n, PairRun(bucket, most)[n - 1])
  <1> DEFINE H == PairRun(bucket, most)
  <1>1. H = [n \in 0 .. Len(bucket) |-> IF n = 0 THEN << >> ELSE PairStep(bucket, most, n, H[n - 1])]
    BY PairExists DEF PairRun
  <1> HIDE DEF H
  <1>2. \A n \in 0 .. Len(bucket) : H[n] = IF n = 0 THEN << >> ELSE PairStep(bucket, most, n, H[n - 1])
    BY <1>1
  <1>3. 0 \in 0 .. Len(bucket) /\ \A n \in 1 .. Len(bucket) : n \in 0 .. Len(bucket) /\ n # 0
    OBVIOUS
  <1> QED
    BY <1>2, <1>3 DEF H

\* They are pairs with one rest, each once.
RestPaired(bucket, n, v) ==
  /\ v \in Seq(PairSet(Len(bucket)))
  /\ \A e \in 1 .. Len(v) : v[e][2] <= n /\ Rz!XHash(bucket[v[e][1]]) = Rz!XHash(bucket[v[e][2]])
  /\ \A e, f \in 1 .. Len(v) : v[e] = v[f] => e = f

LEMMA PairMatch ==
  ASSUME NEW bucket, Len(bucket) \in Nat, NEW most
  PROVE  RestPaired(bucket, Len(bucket), Rz!PairsUpTo(bucket, most))
  <1> DEFINE N == Len(bucket)
             H == PairRun(bucket, most)
             T == {n \in 0 .. N : RestPaired(bucket, n, H[n])}
  <1>1. Rz!PairsUpTo(bucket, most) = H[N]
    BY DEF Rz!PairsUpTo, PairRun, PairStep
  <1>2. H[0] = << >> /\ \A n \in 1 .. N : H[n] = PairStep(bucket, most, n, H[n - 1])
    BY PairRuns
  <1> HIDE DEF H
  <1>3. 0 \in T
    <2> DEFINE v == H[0]
    <2>1. v \in Seq(PairSet(N)) /\ Len(v) = 0
      BY <1>2
    <2> HIDE DEF v
    <2>2. RestPaired(bucket, 0, v)
      BY <2>1 DEF RestPaired
    <2> QED
      BY <2>2 DEF v
  <1>4. ASSUME NEW n \in 1 .. N, n - 1 \in T
        PROVE  n \in T
    <2> DEFINE v == H[n - 1]
               m == Rz!Earlier(bucket, n)
               w == [p \in DOMAIN m |-> <<m[p], n>>]
    <2>1. RestPaired(bucket, n - 1, v) /\ H[n] = PairStep(bucket, most, n, v)
      BY <1>2, <1>4
    <2>2. Matching(bucket, n, n - 1, m)
      BY EarlierMatch
    <2> HIDE DEF v, m
    <2>3. /\ v \in Seq(PairSet(N)) /\ Len(v) \in Nat
          /\ \A e \in 1 .. Len(v) : /\ v[e] \in PairSet(N) /\ v[e][2] <= n - 1
                                    /\ Rz!XHash(bucket[v[e][1]]) = Rz!XHash(bucket[v[e][2]])
          /\ \A e, f \in 1 .. Len(v) : v[e] = v[f] => e = f
      BY <2>1, LenProperties, ElementOfSeq DEF RestPaired
    <2>4. /\ Len(m) \in Nat /\ DOMAIN m = 1 .. Len(m)
          /\ \A e \in 1 .. Len(m) : m[e] \in 1 .. n - 1 /\ Rz!XHash(bucket[m[e]]) = Rz!XHash(bucket[n])
          /\ \A e, f \in 1 .. Len(m) : m[e] = m[f] => e = f
      BY <2>2, LenProperties, ElementOfSeq DEF Matching
    <2>5. /\ w \in [1 .. Len(m) -> PairSet(N)]
          /\ \A e \in 1 .. Len(m) : w[e] = <<m[e], n>> /\ w[e][1] = m[e] /\ w[e][2] = n
      BY <2>4 DEF PairSet
    <2> HIDE DEF w
    <2>6. w \in Seq(PairSet(N)) /\ Len(w) = Len(m)
      BY <2>4, <2>5, FunctionIsSeq
    <2>7. ASSUME NEW e \in 1 .. Len(v)
          PROVE  v[e][2] <= n /\ v[e][2] # n
      <3>1. v[e][2] \in Int /\ v[e][2] <= n - 1
        BY <2>3 DEF PairSet
      <3> QED
        BY <3>1
    <2>8. CASE Rz!Rank(bucket, n) >= most
      <3>1. H[n] = v
        BY <2>1, <2>8 DEF PairStep
      <3> QED
        BY <2>3, <2>7, <3>1 DEF RestPaired
    <2>9. CASE ~(Rz!Rank(bucket, n) >= most)
      <3> DEFINE u == v \o w
      <3>1. H[n] = u
        BY <2>1, <2>9 DEF PairStep, w, m
      <3>2. /\ u \in Seq(PairSet(N)) /\ Len(u) = Len(v) + Len(w)
            /\ \A e \in 1 .. Len(v) + Len(w) : u[e] = IF e <= Len(v) THEN v[e] ELSE w[e - Len(v)]
        <4>1. v \in Seq(PairSet(N)) /\ w \in Seq(PairSet(N))
          BY <2>3, <2>6
        <4> HIDE DEF N
        <4> QED
          BY <4>1, ConcatProperties
      <3> HIDE DEF u
      <3>3. ASSUME NEW e \in 1 .. Len(u)
            PROVE  \/ e \in 1 .. Len(v) /\ u[e] = v[e]
                   \/ e - Len(v) \in 1 .. Len(m) /\ ~(e <= Len(v)) /\ u[e] = w[e - Len(v)]
        BY <2>3, <2>4, <2>6, <3>2
      <3>4. \A e \in 1 .. Len(u) : u[e][2] <= n /\ Rz!XHash(bucket[u[e][1]]) = Rz!XHash(bucket[u[e][2]])
        <4> SUFFICES ASSUME NEW e \in 1 .. Len(u)
                     PROVE  u[e][2] <= n /\ Rz!XHash(bucket[u[e][1]]) = Rz!XHash(bucket[u[e][2]])
          OBVIOUS
        <4>1. CASE e \in 1 .. Len(v) /\ u[e] = v[e]
          BY <2>3, <2>7, <4>1
        <4>2. CASE e - Len(v) \in 1 .. Len(m) /\ ~(e <= Len(v)) /\ u[e] = w[e - Len(v)]
          <5>1. /\ u[e][1] = m[e - Len(v)] /\ u[e][2] = n
                /\ Rz!XHash(bucket[m[e - Len(v)]]) = Rz!XHash(bucket[n])
            BY <2>4, <2>5, <4>2
          <5> QED
            BY <5>1
        <4> QED
          BY <3>3, <4>1, <4>2
      <3>5. ASSUME NEW e \in 1 .. Len(u), NEW f \in 1 .. Len(u), u[e] = u[f]
            PROVE  e = f
        <4>1. CASE e \in 1 .. Len(v) /\ u[e] = v[e] /\ f \in 1 .. Len(v) /\ u[f] = v[f]
          BY <2>3, <3>5, <4>1
        <4>2. CASE /\ e - Len(v) \in 1 .. Len(m) /\ u[e] = w[e - Len(v)]
                   /\ f - Len(v) \in 1 .. Len(m) /\ u[f] = w[f - Len(v)]
          <5>1. m[e - Len(v)] = m[f - Len(v)]
            BY <2>5, <3>5, <4>2
          <5>2. e - Len(v) = f - Len(v)
            BY <2>4, <4>2, <5>1
          <5> QED
            BY <2>3, <5>2
        <4>3. CASE e \in 1 .. Len(v) /\ u[e] = v[e] /\ f - Len(v) \in 1 .. Len(m) /\ u[f] = w[f - Len(v)]
          <5>1. u[e][2] # n /\ u[f][2] = n
            BY <2>5, <2>7, <4>3
          <5> QED
            BY <3>5, <5>1
        <4>4. CASE f \in 1 .. Len(v) /\ u[f] = v[f] /\ e - Len(v) \in 1 .. Len(m) /\ u[e] = w[e - Len(v)]
          <5>1. u[f][2] # n /\ u[e][2] = n
            BY <2>5, <2>7, <4>4
          <5> QED
            BY <3>5, <5>1
        <4> QED
          BY <3>3, <4>1, <4>2, <4>3, <4>4
      <3> QED
        BY <3>1, <3>2, <3>4, <3>5 DEF RestPaired
    <2> QED
      BY <2>8, <2>9
  <1> HIDE DEF T, N
  <1>5. N \in Nat
    BY DEF N
  <1>6. \A n \in 0 .. N : n \in T
    BY <1>3, <1>4, <1>5, CountUp
  <1>7. N \in T
    BY <1>5, <1>6
  <1> QED
    BY <1>1, <1>7 DEF T, N

LEMMA PairsOf ==
  ASSUME NEW bucket, Len(bucket) \in Nat
  PROVE  LET pairs == Rz!Pairs(bucket)
         IN /\ Len(pairs) \in Nat
            /\ \A e \in 1 .. Len(pairs) :
                 /\ pairs[e] \in PairSet(Len(bucket))
                 /\ bucket[pairs[e][1]].hash[1] = bucket[pairs[e][2]].hash[1]
            /\ \A e, f \in 1 .. Len(pairs) : pairs[e] = pairs[f] => e = f
  <1> DEFINE pairs == Rz!Pairs(bucket)
  <1>1. RestPaired(bucket, Len(bucket), pairs)
    BY PairMatch DEF Rz!Pairs
  <1> HIDE DEF pairs
  <1>2. Len(pairs) \in Nat /\ \A e \in 1 .. Len(pairs) : pairs[e] \in PairSet(Len(bucket))
    BY <1>1, LenProperties, ElementOfSeq DEF RestPaired
  <1> QED
    BY <1>1, <1>2 DEF RestPaired, Rz!XHash, pairs

-----------------------------------------------------------------------------
\* How many blocks or buckets give the trees of round q, and how many have so far.
Whole(q) == IF q = 0 THEN Rz!NBlocks ELSE 2^(Bits - RestBits)

Reached(q) == IF q < r \/ pc = "done" THEN Whole(q) ELSE IF q = r THEN at ELSE 0

\* The solutions in ss come of trees in U, no two of one.
SolsOk(d, sl, ss, n, U) ==
  /\ ss \in Seq(Seq(Nat)) /\ n \in Nat
  /\ Len(ss) = Rz!Min2(n, MaxSols)
  /\ \A e \in 1 .. Len(ss) :
       /\ LeafList(K, ss[e]) /\ Rz!IsInjective(ss[e]) /\ RowOf(d, ss[e]) = ZeroRow
       /\ \E t \in U : ss[e] = Unfolded(sl, K, t)
  /\ \A e, f \in 1 .. Len(ss) : ss[e] = ss[f] => e = f

\* Where the search is,
RzPhase ==
  /\ digest \in BlockDigests
  /\ r \in 0 .. K /\ at \in Nat
  /\ \/ pc = "digit0" /\ r = 0 /\ at < Rz!NBlocks
     \/ pc = "digit" /\ r >= 1 /\ at \in Rz!Bucket
     \/ pc = "done" /\ r = K

\* what it has written, where the counts tell the slots of the buckets not yet read,
Unread(sl, ns, n, a) ==
  \A q \in 0 .. K - 1 : \A b \in Rz!Bucket :
    q >= n \/ (q = n - 1 /\ b >= a) => CountTells(sl, ns, q, b)

RzMemory ==
  /\ Rz!Memory \in MemorySet
  /\ \A q \in 0 .. K - 1 : RoundOk(digest, slots, q, Made(slots, q, Reached(q)))
  /\ pc # "done" => Unread(slots, nslots, r, at)

\* and what it has found.
RzInv ==
  /\ RzPhase
  /\ RzMemory
  /\ SolsOk(digest, slots, sols, nsols, Made(slots, K, Reached(K)))

LEMMA RzMemoryTypes ==
  Rz!Memory \in MemorySet <=> /\ slots \in [Rz!Tree -> [Rz!Bucket -> Seq(SlotSet)]]
                              /\ nslots \in [Rz!Tree -> [Rz!Bucket -> Nat]]
                              /\ full \in BOOLEAN
  BY DEF Rz!Memory, MemorySet

LEMMA BucketNumbers ==
  /\ 2^(Bits - RestBits) \in Nat \ {0}
  /\ Rz!Bucket = {b \in Nat : b < 2^(Bits - RestBits)}
  /\ \A q : Whole(q) \in Nat \ {0}
  <1>1. 2^(Bits - RestBits) \in Nat \ {0}
    <2>1. Bits - RestBits \in Nat
      BY WordNumbers, PartsAssumption DEF Rz!ShapeAssumption
    <2> QED
      BY <2>1, PowerOfTwoPositive
  <1>2. Rz!Bucket = {b \in Nat : b < 2^(Bits - RestBits)}
    BY <1>1 DEF Rz!Bucket
  <1>3. Rz!NBlocks \in Nat \ {0}
    BY RzParameters
  <1> QED
    BY <1>1, <1>2, <1>3 DEF Whole

\* No slot stands for no tree, and an empty round for any.
LEMMA NoTree == ASSUME NEW q, NEW sl PROVE Made(sl, q, 0) = {}
  <1>1. CASE q = 0
    <2>1. HashesPerBlake \in Nat
      BY RzParameters
    <2>2. 0 * HashesPerBlake = 0
      BY <2>1
    <2> QED
      BY <1>1, <2>2 DEF Made
  <1>2. CASE q # 0
    <2>1. \A b \in Rz!Bucket : ~(b < 0)
      BY BucketNumbers
    <2> QED
      BY <1>2, <2>1 DEF Made
  <1> QED
    BY <1>1, <1>2

LEMMA NoSlot ==
  ASSUME NEW d, NEW q, NEW sl, RoundOk(d, sl, q, {}), NEW b \in Rz!Bucket
  PROVE  Len(BucketIn(sl, q, b)) = 0
  <1>1. Len(BucketIn(sl, q, b)) \in Nat
    BY LenProperties DEF RoundOk, BucketIn
  <1>2. \A s \in 1 .. Len(BucketIn(sl, q, b)) : FALSE
    BY DEF RoundOk
  <1> QED
    BY <1>1, <1>2

LEMMA EmptyRound ==
  ASSUME NEW d, NEW q, NEW sl, sl[Rz!TreesOf(q)] \in [Rz!Bucket -> Seq(SlotSet)],
         \A b \in Rz!Bucket : Len(BucketIn(sl, q, b)) = 0, NEW U
  PROVE  RoundOk(d, sl, q, U)
  BY RzParameters DEF RoundOk

LEMMA NoSols ==
  ASSUME NEW d, NEW e, NEW sl, NEW sm, NEW ss, NEW n, SolsOk(d, sl, ss, n, {}), NEW U
  PROVE  SolsOk(e, sm, ss, n, U)
  <1>1. Len(ss) \in Nat
    BY LenProperties DEF SolsOk
  <1>2. \A f \in 1 .. Len(ss) : FALSE
    BY DEF SolsOk
  <1>3. Len(ss) = 0
    BY <1>1, <1>2
  <1> QED
    BY <1>3 DEF SolsOk

\* Initially.
LEMMA RzInitially == Rz!Init => RzInv
  <1> SUFFICES ASSUME Rz!Init
               PROVE  RzInv
    OBVIOUS
  <1>1. /\ digest \in BlockDigests /\ pc = "digit0" /\ r = 0 /\ at = 0
        /\ slots = [t \in Rz!Tree |-> [b \in Rz!Bucket |-> << >>]]
        /\ nslots = [t \in Rz!Tree |-> [b \in Rz!Bucket |-> 0]]
        /\ sols = << >> /\ nsols = 0 /\ full = FALSE
    BY DEF Rz!Init
  <1>2. K \in Nat /\ Rz!NBlocks \in Nat \ {0} /\ NSlots \in Nat /\ MaxSols \in Nat
    BY WordNumbers, RzParameters
  <1>3. RzPhase
    BY <1>1, <1>2 DEF RzPhase
  <1>4. ASSUME NEW q \in 0 .. K - 1
        PROVE  /\ slots[Rz!TreesOf(q)] \in [Rz!Bucket -> Seq(SlotSet)]
               /\ \A b \in Rz!Bucket : BucketIn(slots, q, b) = << >> /\ nslots[Rz!TreesOf(q)][b] = 0
    <2>1. Rz!TreesOf(q) \in Rz!Tree
      BY DEF Rz!Tree
    <2>2. slots[Rz!TreesOf(q)] = [b \in Rz!Bucket |-> << >>] /\ nslots[Rz!TreesOf(q)] = [b \in Rz!Bucket |-> 0]
      BY <1>1, <2>1
    <2>3. << >> \in Seq(SlotSet)
      OBVIOUS
    <2> QED
      BY <2>2, <2>3 DEF BucketIn
  <1>5. RzMemory
    <2>1. Rz!Memory \in MemorySet
      <3>1. << >> \in Seq(SlotSet)
        OBVIOUS
      <3> QED
        BY <1>1, <3>1, RzMemoryTypes
    <2>2. ASSUME NEW q \in 0 .. K - 1
          PROVE  /\ \A b \in Rz!Bucket : Len(BucketIn(slots, q, b)) = 0
                 /\ \A b \in Rz!Bucket : CountTells(slots, nslots, q, b)
      <3>1. Len(<< >>) = 0 /\ Rz!Min2(0, NSlots) = 0
        BY <1>2 DEF Rz!Min2
      <3> QED
        BY <1>4, <3>1 DEF CountTells
    <2>3. \A q \in 0 .. K - 1 : RoundOk(digest, slots, q, Made(slots, q, Reached(q)))
      BY <1>4, <2>2, EmptyRound
    <2> QED
      BY <2>1, <2>2, <2>3 DEF RzMemory, Unread
  <1>6. SolsOk(digest, slots, sols, nsols, Made(slots, K, Reached(K)))
    <2>1. sols \in Seq(Seq(Nat)) /\ Len(sols) = 0 /\ nsols \in Nat /\ Rz!Min2(nsols, MaxSols) = 0
      BY <1>1, <1>2 DEF Rz!Min2
    <2> QED
      BY <2>1 DEF SolsOk
  <1> QED
    BY <1>3, <1>5, <1>6 DEF RzInv

\* What has been reached after one block or bucket more,
Then(q) == IF q < r THEN Whole(q) ELSE IF q = r THEN at + 1 ELSE 0

\* and what is in memory then.
LEMMA Written ==
  ASSUME RzPhase, RzMemory, pc # "done", r < K,
         NEW base, base.slots = slots,
         \A q \in 0 .. K - 1 : q > r => base.nslots[Rz!TreesOf(q)] = nslots[Rz!TreesOf(q)],
         \A q \in 0 .. K - 1 : \A b \in Rz!Bucket :
           q = r - 1 /\ b > at => base.nslots[Rz!TreesOf(q)][b] = nslots[Rz!TreesOf(q)][b],
         NEW m, WriteOk(digest, base, r, Made(slots, r, at + 1), m)
  PROVE  /\ \A q \in 0 .. K - 1 : RoundOk(digest, m.slots, q, Made(m.slots, q, Then(q)))
         /\ Unread(m.slots, m.nslots, r, at + 1)
         /\ \A b \in Rz!Bucket : CountTells(m.slots, m.nslots, r, b)
  <1>1. K \in Nat /\ r \in 0 .. K - 1 /\ at \in Nat
    BY WordNumbers DEF RzPhase
  <1>2. /\ m.slots \in [Rz!Tree -> [Rz!Bucket -> Seq(SlotSet)]]
        /\ \A p \in 0 .. K - 1 : p # r => /\ m.slots[Rz!TreesOf(p)] = slots[Rz!TreesOf(p)]
                                          /\ m.nslots[Rz!TreesOf(p)] = base.nslots[Rz!TreesOf(p)]
        /\ RoundOk(digest, m.slots, r, Made(slots, r, at + 1))
        /\ \A b \in Rz!Bucket : CountTells(m.slots, m.nslots, r, b)
    BY DEF WriteOk, MemorySet
  <1>3. /\ \A q \in 0 .. K - 1 : RoundOk(digest, slots, q, Made(slots, q, Reached(q)))
        /\ Unread(slots, nslots, r, at)
    BY DEF RzMemory
  <1>4. ASSUME NEW q \in 0 .. K - 1
        PROVE  RoundOk(digest, m.slots, q, Made(m.slots, q, Then(q)))
    <2>1. CASE q < r
      <3>1. SameBelow(slots, m.slots, q + 1) /\ SameBelow(slots, m.slots, q)
        <4>1. \A n \in 0 .. q : n \in 0 .. K - 1 /\ n # r
          BY <1>1, <2>1
        <4>2. (q + 1) - 1 = q /\ \A n \in 0 .. q - 1 : n \in 0 .. q
          OBVIOUS
        <4> QED
          BY <1>2, <4>1, <4>2 DEF SameBelow
      <3>2. Reached(q) = Whole(q) /\ Then(q) = Whole(q)
        BY <2>1 DEF Reached, Then
      <3>3. RoundOk(digest, slots, q, Made(slots, q, Whole(q)))
        BY <1>3, <3>2
      <3>4. Made(slots, q, Whole(q)) = Made(m.slots, q, Whole(q))
        BY <3>1, MadeSame
      <3>5. RoundOk(digest, m.slots, q, Made(m.slots, q, Whole(q)))
        BY <3>1, <3>3, <3>4, RoundSame
      <3> QED
        BY <3>2, <3>5
    <2>2. CASE q = r
      <3>1. SameBelow(slots, m.slots, q)
        <4>1. \A n \in 0 .. q - 1 : n \in 0 .. K - 1 /\ n # r
          BY <1>1, <2>2
        <4> QED
          BY <1>2, <4>1 DEF SameBelow
      <3>2. Made(slots, q, at + 1) = Made(m.slots, q, at + 1)
        BY <3>1, MadeSame
      <3>3. Then(q) = at + 1
        BY <1>1, <2>2 DEF Then
      <3> QED
        BY <1>2, <2>2, <3>2, <3>3
    <2>3. CASE q > r
      <3>1. Reached(q) = 0
        BY <1>1, <2>3 DEF Reached
      <3>2. RoundOk(digest, slots, q, {})
        BY <1>3, <3>1, NoTree
      <3>3. m.slots[Rz!TreesOf(q)] = slots[Rz!TreesOf(q)]
        BY <1>1, <1>2, <2>3
      <3>4. \A b \in Rz!Bucket : Len(BucketIn(m.slots, q, b)) = 0
        BY <3>2, <3>3, NoSlot DEF BucketIn
      <3>5. m.slots[Rz!TreesOf(q)] \in [Rz!Bucket -> Seq(SlotSet)]
        BY <3>2, <3>3 DEF RoundOk
      <3> QED
        BY <3>4, <3>5, EmptyRound
    <2> QED
      BY <1>1, <2>1, <2>2, <2>3
  <1>5. Unread(m.slots, m.nslots, r, at + 1)
    <2> SUFFICES ASSUME NEW q \in 0 .. K - 1, NEW b \in Rz!Bucket, q >= r \/ (q = r - 1 /\ b >= at + 1)
                 PROVE  CountTells(m.slots, m.nslots, q, b)
      BY DEF Unread
    <2>1. CASE q = r
      BY <1>2, <2>1
    <2>2. CASE q # r
      <3>1. b \in Nat
        BY BucketNumbers
      <3>2. q > r \/ (q = r - 1 /\ b > at)
        BY <1>1, <2>2, <3>1
      <3>3. CountTells(slots, nslots, q, b)
        <4>1. q >= r \/ (q = r - 1 /\ b >= at)
          BY <1>1, <3>1, <3>2
        <4> QED
          BY <1>3, <4>1 DEF Unread
      <3>4. base.nslots[Rz!TreesOf(q)][b] = nslots[Rz!TreesOf(q)][b]
        BY <3>2
      <3> QED
        BY <1>2, <2>2, <3>3, <3>4 DEF CountTells, BucketIn
    <2> QED
      BY <2>1, <2>2
  <1> QED
    BY <1>2, <1>4, <1>5

-----------------------------------------------------------------------------
\* The leaves of a block, one at a time.
BlockStep(n, t) == Rz!PutLeaf(t, at * HashesPerBlake + n - 1)

BlockRun == CHOOSE F : F = [n \in 0 .. HashesPerBlake |-> IF n = 0 THEN Rz!Memory ELSE BlockStep(n, F[n - 1])]

LEMMA BlockExists ==
  ASSUME HashesPerBlake \in Nat
  PROVE  \E F : F = [n \in 0 .. HashesPerBlake |-> IF n = 0 THEN Rz!Memory ELSE BlockStep(n, F[n - 1])]
  <1> DEFINE Good(m) == \E F : F = [n \in 0 .. m |-> IF n = 0 THEN Rz!Memory ELSE BlockStep(n, F[n - 1])]
             T == {m \in 0 .. HashesPerBlake : Good(m)}
  <1>1. 0 \in T
    <2> DEFINE F == [n \in 0 .. 0 |-> Rz!Memory]
    <2>1. F = [n \in 0 .. 0 |-> IF n = 0 THEN Rz!Memory ELSE BlockStep(n, F[n - 1])]
      OBVIOUS
    <2>2. Good(0)
      BY <2>1
    <2> HIDE DEF Good
    <2> QED
      BY <2>2
  <1>2. ASSUME NEW m \in 1 .. HashesPerBlake, m - 1 \in T
        PROVE  m \in T
    <2>1. Good(m - 1)
      BY <1>2
    <2>2. PICK F : F = [n \in 0 .. m - 1 |-> IF n = 0 THEN Rz!Memory ELSE BlockStep(n, F[n - 1])]
      BY <2>1
    <2> DEFINE G == [n \in 0 .. m |-> IF n = m THEN BlockStep(m, F[m - 1]) ELSE F[n]]
    <2>3. ASSUME NEW n \in 0 .. m
          PROVE  G[n] = IF n = 0 THEN Rz!Memory ELSE BlockStep(n, G[n - 1])
      <3>1. CASE n = m
        BY <3>1
      <3>2. CASE n # m
        <4>1. n \in 0 .. m - 1 /\ G[n] = F[n] /\ (n # 0 => G[n - 1] = F[n - 1])
          BY <3>2
        <4>2. F[n] = IF n = 0 THEN Rz!Memory ELSE BlockStep(n, F[n - 1])
          BY <2>2, <4>1
        <4> QED
          BY <4>1, <4>2
      <3> QED
        BY <3>1, <3>2
    <2>4. G = [n \in 0 .. m |-> G[n]]
      OBVIOUS
    <2> HIDE DEF G
    <2>5. G = [n \in 0 .. m |-> IF n = 0 THEN Rz!Memory ELSE BlockStep(n, G[n - 1])]
      BY <2>3, <2>4
    <2>6. Good(m)
      BY <2>5
    <2> HIDE DEF Good
    <2> QED
      BY <2>6
  <1> HIDE DEF T
  <1>3. \A n \in 0 .. HashesPerBlake : n \in T
    BY <1>1, <1>2, CountUp
  <1>4. HashesPerBlake \in 0 .. HashesPerBlake
    OBVIOUS
  <1> HIDE DEF Good
  <1>5. Good(HashesPerBlake)
    BY <1>3, <1>4 DEF T
  <1> QED
    BY <1>5 DEF Good

LEMMA BlockRuns ==
  ASSUME HashesPerBlake \in Nat
  PROVE  /\ BlockRun[0] = Rz!Memory
         /\ \A n \in 1 .. HashesPerBlake : BlockRun[n] = BlockStep(n, BlockRun[n - 1])
  <1> DEFINE H == BlockRun
  <1>1. H = [n \in 0 .. HashesPerBlake |-> IF n = 0 THEN Rz!Memory ELSE BlockStep(n, H[n - 1])]
    BY BlockExists DEF BlockRun
  <1> HIDE DEF H
  <1>2. \A n \in 0 .. HashesPerBlake : H[n] = IF n = 0 THEN Rz!Memory ELSE BlockStep(n, H[n - 1])
    BY <1>1
  <1>3. 0 \in 0 .. HashesPerBlake /\ \A n \in 1 .. HashesPerBlake : n \in 0 .. HashesPerBlake /\ n # 0
    OBVIOUS
  <1> QED
    BY <1>2, <1>3 DEF H

\* A block puts its leaves.
LEMMA BlockWrites ==
  ASSUME RzInv, pc = "digit0"
  PROVE  WriteOk(digest, Rz!Memory, r, Made(slots, r, at + 1), Rz!BlockPut)
  <1> DEFINE H == BlockRun
             start == at * HashesPerBlake
             U(n) == {l \in Nat : l < start + n}
             T == {n \in 0 .. HashesPerBlake : WriteOk(digest, Rz!Memory, 0, U(n), H[n])}
  <1>1. /\ r = 0 /\ at \in Nat /\ at < Rz!NBlocks /\ digest \in BlockDigests
        /\ K \in Nat /\ 0 \in 0 .. K - 1
        /\ HashesPerBlake \in Nat \ {0} /\ Rz!NBlocks \in Nat
    BY RzParameters, WordNumbers DEF RzInv, RzPhase
  <1>2. start \in Nat /\ start + HashesPerBlake <= Rz!NBlocks * HashesPerBlake
        /\ (at + 1) * HashesPerBlake = start + HashesPerBlake
    <2>1. at * HashesPerBlake \in Nat
      BY <1>1
    <2>2. (at + 1) * HashesPerBlake = at * HashesPerBlake + HashesPerBlake
      BY <1>1
    <2>3. (at + 1) * HashesPerBlake <= Rz!NBlocks * HashesPerBlake
      BY <1>1, SMT
    <2> QED
      BY <2>1, <2>2, <2>3
  <1>3. Rz!BlockPut = H[HashesPerBlake]
    BY DEF Rz!BlockPut, BlockRun, BlockStep
  <1>4. H[0] = Rz!Memory /\ \A n \in 1 .. HashesPerBlake : H[n] = BlockStep(n, H[n - 1])
    BY <1>1, BlockRuns
  <1>5. \A n \in 1 .. HashesPerBlake : BlockStep(n, H[n - 1]) = Rz!PutLeaf(H[n - 1], start + n - 1)
    BY DEF BlockStep
  <1> HIDE DEF H, start
  <1>6. 0 \in T
    <2>1. Reached(0) = at
      BY <1>1 DEF RzInv, RzPhase, Reached
    <2>2. RoundOk(digest, slots, 0, Made(slots, 0, at))
      BY <1>1, <2>1 DEF RzInv, RzMemory
    <2>3. Made(slots, 0, at) = U(0)
      BY <1>2 DEF Made, start
    <2>4. Rz!Memory \in MemorySet /\ Rz!Memory.slots = slots /\ Rz!Memory.nslots = nslots
      BY DEF RzInv, RzMemory, Rz!Memory
    <2>5. \A b \in Rz!Bucket : CountTells(slots, nslots, 0, b)
      BY <1>1 DEF RzInv, RzMemory, Unread
    <2> HIDE DEF U
    <2>6. WriteOk(digest, Rz!Memory, 0, U(0), Rz!Memory)
      BY <2>2, <2>3, <2>4, <2>5 DEF WriteOk
    <2> QED
      BY <1>1, <1>4, <2>6
  <1>7. ASSUME NEW n \in 1 .. HashesPerBlake, n - 1 \in T
        PROVE  n \in T
    <2> DEFINE m == H[n - 1]
               l == start + n - 1
               b == Rz!BucketOf(digest[l][1])
               slot == Rz!LeafSlot(l)
    <2>1. WriteOk(digest, Rz!Memory, 0, U(n - 1), m)
      BY <1>7
    <2>2. l \in Nat /\ l \in Rz!Hashed
      BY <1>1, <1>2 DEF Rz!Hashed
    <2>3. H[n] = Rz!Put(m, Rz!TreesOf(0), b, slot)
      BY <1>4, <1>5 DEF Rz!PutLeaf
    <2> HIDE DEF m
    <2>4. /\ b \in Rz!Bucket /\ slot \in SlotSet /\ slot.attr = l
          /\ SlotStands(digest, m.slots, 0, b, slot)
      <3> HIDE DEF l
      <3> QED
        BY <1>1, <2>2, LeafSlotStands
    <2>5. l \notin U(n - 1) /\ U(n - 1) \cup {l} = U(n)
      BY <1>1, <1>2, <2>2
    <2> HIDE DEF U, l, b, slot
    <2>6. WriteOk(digest, Rz!Memory, 0, U(n - 1) \cup {l}, H[n])
      <3>1. slot.attr \notin U(n - 1) /\ U(n - 1) \cup {l} = U(n - 1) \cup {slot.attr}
        BY <2>4, <2>5
      <3> QED
        BY <1>1, <2>1, <2>3, <2>4, <3>1, RzPuts
    <2> QED
      BY <2>5, <2>6
  <1> HIDE DEF T, U
  <1>8. \A n \in 0 .. HashesPerBlake : n \in T
    BY <1>1, <1>6, <1>7, CountUp
  <1>9. WriteOk(digest, Rz!Memory, 0, U(HashesPerBlake), H[HashesPerBlake])
    BY <1>1, <1>8 DEF T
  <1>10. U(HashesPerBlake) = Made(slots, 0, at + 1)
    BY <1>2 DEF U, Made
  <1> QED
    BY <1>1, <1>3, <1>9, <1>10

LEMMA Digit0Keeps == RzInv /\ Rz!Digit0Block => RzInv'
  <1> SUFFICES ASSUME RzInv, Rz!Digit0Block
               PROVE  RzInv'
    OBVIOUS
  <1>1. PICK m : m = Rz!BlockPut
    OBVIOUS
  <1>2. /\ pc = "digit0" /\ slots' = m.slots /\ nslots' = m.nslots /\ full' = m.full
        /\ digest' = digest /\ sols' = sols /\ nsols' = nsols
        /\ \/ at + 1 < Rz!NBlocks /\ at' = at + 1 /\ pc' = pc /\ r' = r
           \/ ~(at + 1 < Rz!NBlocks) /\ at' = 0 /\ pc' = "digit" /\ r' = 1
    BY <1>1, Zenon DEF Rz!Digit0Block
  <1>3. /\ r = 0 /\ at \in Nat /\ at < Rz!NBlocks /\ digest \in BlockDigests
        /\ K \in Nat /\ K >= 1 /\ Rz!NBlocks \in Nat
    BY <1>2, RzParameters, WordNumbers DEF RzInv, RzPhase
  <1>4. WriteOk(digest, Rz!Memory, r, Made(slots, r, at + 1), m)
    BY <1>1, <1>2, BlockWrites
  <1>5. RzPhase'
    <2>1. 0 \in Rz!Bucket
      BY BucketNumbers
    <2> QED
      BY <1>2, <1>3, <2>1 DEF RzPhase
  <1>6. \A q \in 0 .. K : Reached(q)' = Then(q)
    <2> SUFFICES ASSUME NEW q \in 0 .. K
                 PROVE  Reached(q)' = Then(q)
      OBVIOUS
    <2>1. CASE at + 1 < Rz!NBlocks /\ at' = at + 1 /\ pc' = pc /\ r' = r
      BY <1>2, <1>3, <2>1 DEF Reached, Then, Whole
    <2>2. CASE ~(at + 1 < Rz!NBlocks) /\ at' = 0 /\ pc' = "digit" /\ r' = 1
      <3>1. at + 1 = Rz!NBlocks
        BY <1>3, <2>2
      <3> QED
        BY <1>3, <2>2, <3>1 DEF Reached, Then, Whole
    <2> QED
      BY <1>2, <2>1, <2>2
  <1>7. /\ \A q \in 0 .. K - 1 : RoundOk(digest, m.slots, q, Made(m.slots, q, Then(q)))
        /\ Unread(m.slots, m.nslots, r, at + 1)
        /\ \A b \in Rz!Bucket : CountTells(m.slots, m.nslots, r, b)
    <2>1. RzPhase /\ RzMemory /\ pc # "done" /\ r < K
      BY <1>2, <1>3 DEF RzInv
    <2> DEFINE base == Rz!Memory
    <2>2. base.slots = slots /\ base.nslots = nslots
      BY DEF Rz!Memory
    <2> HIDE DEF base
    <2>3. WriteOk(digest, base, r, Made(slots, r, at + 1), m)
      BY <1>4 DEF base
    <2> QED
      BY <2>1, <2>2, <2>3, Written
  <1>8. RzMemory'
    <2>1. m \in MemorySet
      BY <1>4 DEF WriteOk
    <2>2. Rz!Memory' \in MemorySet
      BY <1>2, <2>1 DEF Rz!Memory, MemorySet
    <2>3. \A q \in 0 .. K - 1 : RoundOk(digest, m.slots, q, Made(m.slots, q, Reached(q)'))
      <3>1. \A q \in 0 .. K - 1 : q \in 0 .. K
        BY <1>3
      <3> QED
        BY <1>6, <1>7, <3>1
    <2>4. Unread(m.slots, m.nslots, r', at')
      <3>1. CASE at' = at + 1 /\ r' = r
        BY <1>7, <3>1
      <3>2. CASE at' = 0 /\ r' = 1
        <4> SUFFICES ASSUME NEW q \in 0 .. K - 1, NEW b \in Rz!Bucket, q >= 1 \/ q = 1 - 1
                     PROVE  CountTells(m.slots, m.nslots, q, b)
          BY <3>2 DEF Unread
        <4>1. q >= 0
          OBVIOUS
        <4> QED
          BY <1>3, <1>7, <4>1 DEF Unread
      <3> QED
        BY <1>2, <3>1, <3>2
    <2> QED
      BY <1>2, <2>2, <2>3, <2>4 DEF RzMemory
  <1>9. SolsOk(digest, slots, sols, nsols, Made(slots, K, Reached(K)))'
    <2>1. Reached(K) = 0
      BY <1>2, <1>3 DEF Reached
    <2>2. SolsOk(digest, slots, sols, nsols, {})
      BY <2>1, NoTree DEF RzInv
    <2>3. SolsOk(digest, slots', sols, nsols, Made(slots', K, Reached(K)'))
      BY <2>2, NoSols
    <2> QED
      BY <1>2, <2>3
  <1> QED
    BY <1>5, <1>8, <1>9 DEF RzInv

-----------------------------------------------------------------------------
\* The bucket at hand is read whole.
LEMMA BucketfulIs ==
  ASSUME RzInv, pc = "digit"
  PROVE  /\ r - 1 \in 0 .. K - 1 /\ r - 1 \in Nat /\ at \in Rz!Bucket /\ at \in Nat /\ r \in Nat
         /\ Rz!Src(r) = Rz!TreesOf(r - 1) /\ Rz!TreesOf(r - 1) \in Rz!Tree
         /\ RoundOk(digest, slots, r - 1, Made(slots, r - 1, Whole(r - 1)))
         /\ Rz!Bucketful = BucketIn(slots, r - 1, at)
  <1>1. K \in Nat /\ r \in 0 .. K /\ r >= 1 /\ at \in Rz!Bucket /\ at \in Nat
    BY WordNumbers, BucketNumbers DEF RzInv, RzPhase
  <1>2. r - 1 \in 0 .. K - 1 /\ r - 1 \in Nat /\ r \in Nat
    BY <1>1
  <1>3. Rz!Src(r) = Rz!TreesOf(r - 1) /\ Rz!TreesOf(r - 1) \in Rz!Tree
    BY <1>2 DEF Rz!Src, Rz!Tree
  <1>4. RoundOk(digest, slots, r - 1, Made(slots, r - 1, Whole(r - 1)))
    <2>1. Reached(r - 1) = Whole(r - 1)
      BY <1>1 DEF Reached
    <2> QED
      BY <1>2, <2>1 DEF RzInv, RzMemory
  <1>5. CountTells(slots, nslots, r - 1, at)
    <2>1. r - 1 = r - 1 /\ at >= at
      BY <1>1
    <2> QED
      BY <1>1, <1>2, <2>1 DEF RzInv, RzMemory, Unread
  <1>6. BucketIn(slots, r - 1, at) \in Seq(SlotSet)
    BY <1>1, <1>4 DEF RoundOk, BucketIn
  <1>7. Rz!Bucketful = SubSeq(BucketIn(slots, r - 1, at), 1, Len(BucketIn(slots, r - 1, at)))
    BY <1>3, <1>5 DEF Rz!Bucketful, Rz!GetNSlots, CountTells, BucketIn
  <1>8. Rz!Bucketful = BucketIn(slots, r - 1, at)
    BY <1>6, <1>7, SubSeqFull
  <1> QED
    BY <1>1, <1>2, <1>3, <1>4, <1>8

\* The pairs it gives, and their trees.
RestPairs   == Rz!Pairs(Rz!Bucketful)
FirstOf(n)  == Rz!Bucketful[RestPairs[n][1]]
SecondOf(n) == Rz!Bucketful[RestPairs[n][2]]
TreeAt(n)   == Rz!TreeFromBid(at, RestPairs[n][1] - 1, RestPairs[n][2] - 1)

LEMMA PairFacts ==
  ASSUME RzInv, pc = "digit", NEW n \in 1 .. Len(RestPairs)
  PROVE  /\ FirstOf(n) \in SlotSet /\ SecondOf(n) \in SlotSet
         /\ SlotStands(digest, slots, r - 1, at, FirstOf(n))
         /\ SlotStands(digest, slots, r - 1, at, SecondOf(n))
         /\ FirstOf(n).hash[1] = SecondOf(n).hash[1]
         /\ TreeAt(n) \in Nat
         /\ Unfolded(slots, r, TreeAt(n))
              = Rz!OrderIndices(Unfolded(slots, r - 1, FirstOf(n).attr), Unfolded(slots, r - 1, SecondOf(n).attr))
         /\ PairTree(slots, r - 1, at, TreeAt(n))
         /\ Rz!TreeBucket(TreeAt(n)) = at
         /\ Rz!TreeSlot0(TreeAt(n)) = RestPairs[n][1] - 1
         /\ Rz!TreeSlot1(TreeAt(n)) = RestPairs[n][2] - 1
         /\ RestPairs[n] \in PairSet(Len(Rz!Bucketful))
  <1> DEFINE bucket == Rz!Bucketful
             x == RestPairs[n][1]
             y == RestPairs[n][2]
             U == Made(slots, r - 1, Whole(r - 1))
  <1>1. /\ r - 1 \in 0 .. K - 1 /\ r - 1 \in Nat /\ at \in Rz!Bucket /\ at \in Nat /\ r \in Nat
        /\ RoundOk(digest, slots, r - 1, U) /\ bucket = BucketIn(slots, r - 1, at)
    BY BucketfulIs
  <1>2. Len(bucket) \in Nat
    BY <1>1, LenProperties DEF RoundOk, BucketIn
  <1>3. RestPairs[n] \in PairSet(Len(bucket)) /\ bucket[x].hash[1] = bucket[y].hash[1]
    BY <1>2, PairsOf DEF RestPairs
  <1> HIDE DEF U, bucket
  <1>4. x \in 1 .. Len(bucket) /\ y \in 1 .. Len(bucket) /\ x < y
    BY <1>3 DEF PairSet
  <1>5. /\ bucket[x] \in SlotSet /\ SlotStands(digest, slots, r - 1, at, bucket[x])
        /\ bucket[y] \in SlotSet /\ SlotStands(digest, slots, r - 1, at, bucket[y])
        /\ Len(bucket) <= NSlots
    BY <1>1, <1>4, RoundSlot
  <1>6. x - 1 \in 0 .. Rz!SlotRange - 1 /\ y - 1 \in 0 .. Rz!SlotRange - 1
    <2>1. NSlots \in Nat /\ Rz!SlotRange \in Nat /\ NSlots <= Rz!SlotRange
      BY RzParameters
    <2> HIDE DEF x, y
    <2> QED
      BY <1>2, <1>4, <1>5, <2>1
  <1>7. /\ TreeAt(n) \in Nat /\ Rz!TreeBucket(TreeAt(n)) = at
        /\ Rz!TreeSlot0(TreeAt(n)) = x - 1 /\ Rz!TreeSlot1(TreeAt(n)) = y - 1
    BY <1>1, <1>6, TreeFields DEF TreeAt
  <1>8. (r - 1) + 1 = r
    BY <1>1
  <1>9. Unfolded(slots, r, TreeAt(n))
          = Rz!OrderIndices(Unfolded(slots, r - 1, bucket[x].attr), Unfolded(slots, r - 1, bucket[y].attr))
    <2>1. Unfolded(slots, (r - 1) + 1, Rz!TreeFromBid(at, x - 1, y - 1))
            = Rz!OrderIndices(LeavesIn(slots, r - 1, at, x), LeavesIn(slots, r - 1, at, y))
      <3> HIDE DEF x, y
      <3> QED
        BY <1>1, <1>4, TreeLeaves
    <2> QED
      BY <1>1, <1>8, <2>1 DEF TreeAt, LeavesIn
  <1>10. PairTree(slots, r - 1, at, TreeAt(n))
    BY <1>1, <1>4 DEF PairTree, TreeAt
  <1> QED
    BY <1>3, <1>5, <1>7, <1>9, <1>10 DEF FirstOf, SecondOf, bucket

\* A tree is made once.
LEMMA TreeIsNew ==
  ASSUME RzInv, pc = "digit", NEW n \in 1 .. Len(RestPairs)
  PROVE  /\ TreeAt(n) \notin Made(slots, r, at) /\ TreeAt(n) \in Made(slots, r, at + 1)
         /\ \A e \in 1 .. Len(RestPairs) : TreeAt(e) = TreeAt(n) => e = n
  <1>1. /\ r \in Nat /\ r # 0 /\ r - 1 \in Nat /\ r - 1 \in 0 .. K - 1 /\ at \in Rz!Bucket /\ at \in Nat
        /\ RoundOk(digest, slots, r - 1, Made(slots, r - 1, Whole(r - 1)))
    BY BucketfulIs
  <1>2. /\ TreeAt(n) \in Nat /\ Rz!TreeBucket(TreeAt(n)) = at /\ PairTree(slots, r - 1, at, TreeAt(n))
    BY PairFacts
  <1>3. TreeAt(n) \notin Made(slots, r, at)
    <2> SUFFICES ASSUME TreeAt(n) \in Made(slots, r, at)
                 PROVE  FALSE
      OBVIOUS
    <2>1. PICK b \in Rz!Bucket : b < at /\ PairTree(slots, r - 1, b, TreeAt(n))
      BY <1>1 DEF Made
    <2>2. PICK x, y \in 1 .. Len(BucketIn(slots, r - 1, b)) : TreeAt(n) = Rz!TreeFromBid(b, x - 1, y - 1)
      BY <2>1 DEF PairTree
    <2>3. Len(BucketIn(slots, r - 1, b)) \in Nat /\ Len(BucketIn(slots, r - 1, b)) <= NSlots /\ b \in Nat
      BY <1>1, <2>2, RoundSlot, BucketNumbers
    <2>4. x - 1 \in 0 .. Rz!SlotRange - 1 /\ y - 1 \in 0 .. Rz!SlotRange - 1
      BY <2>3, RzParameters
    <2>5. Rz!TreeBucket(TreeAt(n)) = b
      BY <2>2, <2>3, <2>4, TreeFields
    <2> QED
      BY <1>1, <1>2, <2>1, <2>3, <2>5
  <1>4. TreeAt(n) \in Made(slots, r, at + 1)
    <2>1. at < at + 1
      BY <1>1
    <2> QED
      BY <1>1, <1>2, <2>1 DEF Made
  <1>5. ASSUME NEW e \in 1 .. Len(RestPairs), TreeAt(e) = TreeAt(n)
        PROVE  e = n
    <2> DEFINE p == RestPairs[e]
               q == RestPairs[n]
               N == Len(Rz!Bucketful)
    <2>1. /\ p \in PairSet(N) /\ q \in PairSet(N)
          /\ p[1] - 1 = q[1] - 1 /\ p[2] - 1 = q[2] - 1
      BY <1>5, PairFacts
    <2>2. Len(Rz!Bucketful) \in Nat
      BY BucketfulIs, LenProperties DEF RoundOk, BucketIn
    <2>3. p = q
      <3> HIDE DEF p, q, N
      <3>1. p \in (1 .. N) \X (1 .. N) /\ q \in (1 .. N) \X (1 .. N)
        BY <2>1 DEF PairSet
      <3>2. p[1] = q[1] /\ p[2] = q[2]
        BY <2>1, <3>1
      <3> QED
        BY <3>1, <3>2
    <2> QED
      BY <2>2, <2>3, PairsOf DEF RestPairs
  <1> QED
    BY <1>3, <1>4, <1>5

\* Its count is reset, and nothing else yet.
LEMMA ClearedIs ==
  ASSUME RzInv, pc = "digit"
  PROVE  /\ Rz!Cleared \in [Rz!Tree -> [Rz!Bucket -> Nat]]
         /\ \A q \in 0 .. K - 1 : q # r - 1 => Rz!Cleared[Rz!TreesOf(q)] = nslots[Rz!TreesOf(q)]
         /\ \A b \in Rz!Bucket : b # at => Rz!Cleared[Rz!TreesOf(r - 1)][b] = nslots[Rz!TreesOf(r - 1)][b]
  <1>1. /\ r - 1 \in Nat /\ at \in Rz!Bucket
        /\ Rz!Src(r) = Rz!TreesOf(r - 1) /\ Rz!TreesOf(r - 1) \in Rz!Tree
    BY BucketfulIs
  <1>2. nslots \in [Rz!Tree -> [Rz!Bucket -> Nat]]
    BY RzMemoryTypes DEF RzInv, RzMemory
  <1> DEFINE tree == Rz!TreesOf(r - 1)
  <1>3. Rz!Cleared = [nslots EXCEPT ![tree][at] = 0]
    BY <1>1 DEF Rz!Cleared
  <1>4. \A q \in 0 .. K - 1 : q # r - 1 => Rz!TreesOf(q) # tree /\ Rz!TreesOf(q) \in Rz!Tree
    <2>1. \A q \in 0 .. K - 1 : q \in Nat
      OBVIOUS
    <2> QED
      BY <1>1, <2>1, TreesApart DEF Rz!Tree
  <1> HIDE DEF tree
  <1>5. tree \in Rz!Tree
    BY <1>1 DEF tree
  <1>6. Rz!Cleared \in [Rz!Tree -> [Rz!Bucket -> Nat]]
    BY <1>1, <1>2, <1>3, <1>5
  <1>7. \A u \in Rz!Tree : u # tree => Rz!Cleared[u] = nslots[u]
    BY <1>2, <1>3, <1>5
  <1>8. \A b \in Rz!Bucket : b # at => Rz!Cleared[tree][b] = nslots[tree][b]
    BY <1>1, <1>2, <1>3, <1>5
  <1> QED
    BY <1>4, <1>6, <1>7, <1>8 DEF tree

-----------------------------------------------------------------------------
LEMMA WriteMore ==
  ASSUME NEW d, NEW base, NEW q, NEW U, NEW V, U \subseteq V, NEW m, WriteOk(d, base, q, U, m)
  PROVE  WriteOk(d, base, q, V, m)
  BY RoundMore DEF WriteOk

\* A pair of the bucket at hand puts its tree, if it is kept.
LEMMA PairMerges ==
  ASSUME RzInv, pc = "digit", r < K, NEW n \in 1 .. Len(RestPairs),
         NEW base, base.slots = slots, NEW U, TreeAt(n) \notin U,
         NEW m, WriteOk(digest, base, r, U, m)
  PROVE  WriteOk(digest, base, r, U \cup {TreeAt(n)}, Rz!Merged(m, RestPairs[n], Rz!Bucketful))
  <1>1. CASE Rz!SameTail(FirstOf(n), SecondOf(n))
    <2>1. Rz!Merged(m, RestPairs[n], Rz!Bucketful) = m
      BY <1>1 DEF Rz!Merged, FirstOf, SecondOf
    <2> QED
      BY <2>1, WriteMore
  <1>2. CASE ~Rz!SameTail(FirstOf(n), SecondOf(n))
    <2> DEFINE h == Tail(XorSeq(FirstOf(n).hash, SecondOf(n).hash))
               b == Rz!BucketOf(h[1])
               slot == SlotOf(TreeAt(n), h)
    <2>1. Rz!Merged(m, RestPairs[n], Rz!Bucketful) = Rz!Put(m, Rz!TreesOf(r), b, slot)
      BY <1>2, RzRows DEF Rz!Merged, Rz!XorSlot, FirstOf, SecondOf, TreeAt, SlotOf
    <2>2. /\ digest \in BlockDigests /\ r - 1 \in Nat /\ at \in Rz!Bucket /\ r \in Nat
          /\ (r - 1) + 1 = r /\ r <= K - 1 /\ r \in 0 .. K - 1
      BY BucketfulIs, WordNumbers DEF RzInv, RzPhase
    <2>3. /\ FirstOf(n) \in SlotSet /\ SecondOf(n) \in SlotSet
          /\ SlotStands(digest, slots, r - 1, at, FirstOf(n))
          /\ SlotStands(digest, slots, r - 1, at, SecondOf(n))
          /\ FirstOf(n).hash[1] = SecondOf(n).hash[1]
          /\ TreeAt(n) \in Nat
          /\ Unfolded(slots, r, TreeAt(n))
               = Rz!OrderIndices(Unfolded(slots, r - 1, FirstOf(n).attr), Unfolded(slots, r - 1, SecondOf(n).attr))
      BY PairFacts
    <2>4. PICK c : c = r - 1
      OBVIOUS
    <2>5. /\ c \in Nat /\ c + 1 <= K - 1 /\ c + 1 = r
          /\ SlotStands(digest, slots, c, at, FirstOf(n)) /\ SlotStands(digest, slots, c, at, SecondOf(n))
          /\ Unfolded(slots, c + 1, TreeAt(n))
               = Rz!OrderIndices(Unfolded(slots, c, FirstOf(n).attr), Unfolded(slots, c, SecondOf(n).attr))
      BY <2>2, <2>3, <2>4
    <2>6. b \in Rz!Bucket /\ slot \in SlotSet /\ SlotStands(digest, slots, r, b, slot)
      <3>1. h = Tail(XorSeq(FirstOf(n).hash, SecondOf(n).hash))
        OBVIOUS
      <3>2. /\ Rz!BucketOf(h[1]) \in Rz!Bucket /\ SlotOf(TreeAt(n), h) \in SlotSet
            /\ SlotStands(digest, slots, c + 1, Rz!BucketOf(h[1]), SlotOf(TreeAt(n), h))
        <4> HIDE DEF h
        <4> QED
          BY <2>2, <2>3, <2>5, <3>1, MergedStands
      <3> QED
        BY <2>5, <3>2
    <2>7. slot.attr = TreeAt(n)
      BY DEF SlotOf
    <2> HIDE DEF h, b, slot
    <2>8. SameBelow(slots, m.slots, r)
      <3>1. \A q \in 0 .. r - 1 : q \in 0 .. K - 1 /\ q # r
        BY <2>2, WordNumbers
      <3> QED
        BY <3>1 DEF SameBelow, WriteOk
    <2>9. SlotStands(digest, m.slots, r, b, slot)
      BY <2>2, <2>6, <2>8, UnfoldedSame DEF SlotStands
    <2> QED
      BY <2>1, <2>2, <2>6, <2>7, <2>9, RzPuts
  <1> QED
    BY <1>1, <1>2

\* The memory as a bucket finds it,
MergeStart == [Rz!Memory EXCEPT !.nslots = Rz!Cleared]

LEMMA MergeStarts ==
  ASSUME RzInv, pc = "digit"
  PROVE  MergeStart \in MemorySet /\ MergeStart.slots = slots /\ MergeStart.nslots = Rz!Cleared
  <1>1. Rz!Cleared \in [Rz!Tree -> [Rz!Bucket -> Nat]]
    BY ClearedIs
  <1>2. slots \in [Rz!Tree -> [Rz!Bucket -> Seq(SlotSet)]] /\ full \in BOOLEAN
    BY RzMemoryTypes DEF RzInv, RzMemory
  <1>3. MergeStart = [slots |-> slots, nslots |-> Rz!Cleared, full |-> full]
    BY DEF MergeStart, Rz!Memory
  <1> QED
    BY <1>1, <1>2, <1>3 DEF MemorySet

\* and one pair after the other.
MergeStep(n, t) == Rz!Merged(t, RestPairs[n], Rz!Bucketful)

MergeRun == CHOOSE F : F = [n \in 0 .. Len(RestPairs) |-> IF n = 0 THEN MergeStart ELSE MergeStep(n, F[n - 1])]

LEMMA MergeExists ==
  ASSUME Len(RestPairs) \in Nat
  PROVE  \E F : F = [n \in 0 .. Len(RestPairs) |-> IF n = 0 THEN MergeStart ELSE MergeStep(n, F[n - 1])]
  <1> DEFINE Good(m) == \E F : F = [n \in 0 .. m |-> IF n = 0 THEN MergeStart ELSE MergeStep(n, F[n - 1])]
             T == {m \in 0 .. Len(RestPairs) : Good(m)}
  <1>1. 0 \in T
    <2> DEFINE F == [n \in 0 .. 0 |-> MergeStart]
    <2>1. F = [n \in 0 .. 0 |-> IF n = 0 THEN MergeStart ELSE MergeStep(n, F[n - 1])]
      OBVIOUS
    <2>2. Good(0)
      BY <2>1
    <2> HIDE DEF Good
    <2> QED
      BY <2>2
  <1>2. ASSUME NEW m \in 1 .. Len(RestPairs), m - 1 \in T
        PROVE  m \in T
    <2>1. Good(m - 1)
      BY <1>2
    <2>2. PICK F : F = [n \in 0 .. m - 1 |-> IF n = 0 THEN MergeStart ELSE MergeStep(n, F[n - 1])]
      BY <2>1
    <2> DEFINE G == [n \in 0 .. m |-> IF n = m THEN MergeStep(m, F[m - 1]) ELSE F[n]]
    <2>3. ASSUME NEW n \in 0 .. m
          PROVE  G[n] = IF n = 0 THEN MergeStart ELSE MergeStep(n, G[n - 1])
      <3>1. CASE n = m
        BY <3>1
      <3>2. CASE n # m
        <4>1. n \in 0 .. m - 1 /\ G[n] = F[n] /\ (n # 0 => G[n - 1] = F[n - 1])
          BY <3>2
        <4>2. F[n] = IF n = 0 THEN MergeStart ELSE MergeStep(n, F[n - 1])
          BY <2>2, <4>1
        <4> QED
          BY <4>1, <4>2
      <3> QED
        BY <3>1, <3>2
    <2>4. G = [n \in 0 .. m |-> G[n]]
      OBVIOUS
    <2> HIDE DEF G
    <2>5. G = [n \in 0 .. m |-> IF n = 0 THEN MergeStart ELSE MergeStep(n, G[n - 1])]
      BY <2>3, <2>4
    <2>6. Good(m)
      BY <2>5
    <2> HIDE DEF Good
    <2> QED
      BY <2>6
  <1> HIDE DEF T
  <1>3. \A n \in 0 .. Len(RestPairs) : n \in T
    BY <1>1, <1>2, CountUp
  <1>4. Len(RestPairs) \in 0 .. Len(RestPairs)
    OBVIOUS
  <1> HIDE DEF Good
  <1>5. Good(Len(RestPairs))
    BY <1>3, <1>4 DEF T
  <1> QED
    BY <1>5 DEF Good

LEMMA MergeRuns ==
  ASSUME Len(RestPairs) \in Nat
  PROVE  /\ MergeRun[0] = MergeStart
         /\ \A n \in 1 .. Len(RestPairs) : MergeRun[n] = MergeStep(n, MergeRun[n - 1])
  <1> DEFINE H == MergeRun
  <1>1. H = [n \in 0 .. Len(RestPairs) |-> IF n = 0 THEN MergeStart ELSE MergeStep(n, H[n - 1])]
    BY MergeExists DEF MergeRun
  <1> HIDE DEF H
  <1>2. \A n \in 0 .. Len(RestPairs) : H[n] = IF n = 0 THEN MergeStart ELSE MergeStep(n, H[n - 1])
    BY <1>1
  <1>3. 0 \in 0 .. Len(RestPairs) /\ \A n \in 1 .. Len(RestPairs) : n \in 0 .. Len(RestPairs) /\ n # 0
    OBVIOUS
  <1> QED
    BY <1>2, <1>3 DEF H

LEMMA BucketWrites ==
  ASSUME RzInv, pc = "digit", r < K
  PROVE  WriteOk(digest, MergeStart, r, Made(slots, r, at + 1), Rz!BucketMerged)
  <1> DEFINE H == MergeRun
             N == Len(RestPairs)
             U(n) == Made(slots, r, at) \cup {TreeAt(e) : e \in 1 .. n}
             T == {n \in 0 .. N : WriteOk(digest, MergeStart, r, U(n), H[n])}
  <1>1. /\ r \in Nat /\ r # 0 /\ r - 1 \in 0 .. K - 1 /\ at \in Nat /\ at \in Rz!Bucket /\ r \in 0 .. K - 1
        /\ N \in Nat
    <2>1. Len(Rz!Bucketful) \in Nat
      BY BucketfulIs, LenProperties DEF RoundOk, BucketIn
    <2> QED
      BY <2>1, BucketfulIs, WordNumbers, PairsOf DEF RestPairs
  <1>2. Rz!BucketMerged = H[N]
    BY DEF Rz!BucketMerged, MergeRun, MergeStep, MergeStart, RestPairs
  <1>3. H[0] = MergeStart /\ \A n \in 1 .. N : H[n] = MergeStep(n, H[n - 1])
    BY <1>1, MergeRuns
  <1>4. \A n \in 1 .. N : H[n] = Rz!Merged(H[n - 1], RestPairs[n], Rz!Bucketful)
    BY <1>3 DEF MergeStep
  <1>5. MergeStart \in MemorySet /\ MergeStart.slots = slots /\ MergeStart.nslots = Rz!Cleared
    BY MergeStarts
  <1> HIDE DEF H, N
  <1>6. 0 \in T
    <2>1. Reached(r) = at
      BY <1>1 DEF Reached
    <2>2. RoundOk(digest, slots, r, Made(slots, r, at))
      BY <1>1, <2>1 DEF RzInv, RzMemory
    <2>3. U(0) = Made(slots, r, at)
      OBVIOUS
    <2>4. \A b \in Rz!Bucket : CountTells(slots, Rz!Cleared, r, b)
      <3>1. \A b \in Rz!Bucket : CountTells(slots, nslots, r, b)
        BY <1>1 DEF RzInv, RzMemory, Unread
      <3>2. Rz!Cleared[Rz!TreesOf(r)] = nslots[Rz!TreesOf(r)]
        BY <1>1, ClearedIs
      <3> QED
        BY <3>1, <3>2 DEF CountTells
    <2> HIDE DEF U
    <2>5. WriteOk(digest, MergeStart, r, U(0), MergeStart)
      BY <1>5, <2>2, <2>3, <2>4 DEF WriteOk
    <2> QED
      BY <1>1, <1>3, <2>5
  <1>7. ASSUME NEW n \in 1 .. N, n - 1 \in T
        PROVE  n \in T
    <2> DEFINE m == H[n - 1]
    <2>1. WriteOk(digest, MergeStart, r, U(n - 1), m)
      BY <1>7
    <2>2. n \in 1 .. Len(RestPairs)
      BY DEF N
    <2>3. TreeAt(n) \notin U(n - 1)
      <3>1. \A e \in 1 .. n - 1 : e \in 1 .. Len(RestPairs) /\ e # n
        BY <1>1, <2>2
      <3> QED
        BY <2>2, <3>1, TreeIsNew
    <2>4. U(n - 1) \cup {TreeAt(n)} = U(n)
      <3>1. 1 .. n = (1 .. n - 1) \cup {n}
        BY <1>1
      <3> QED
        BY <3>1
    <2>5. H[n] = Rz!Merged(m, RestPairs[n], Rz!Bucketful)
      BY <1>4
    <2> HIDE DEF U, m
    <2>6. WriteOk(digest, MergeStart, r, U(n - 1) \cup {TreeAt(n)}, H[n])
      BY <1>5, <2>1, <2>2, <2>3, <2>5, PairMerges
    <2>7. WriteOk(digest, MergeStart, r, U(n), H[n])
      BY <2>4, <2>6
    <2>8. n \in 0 .. N
      BY <1>1
    <2> QED
      BY <2>7, <2>8
  <1> HIDE DEF T
  <1>8. \A n \in 0 .. N : n \in T
    BY <1>1, <1>6, <1>7, CountUp
  <1>9. WriteOk(digest, MergeStart, r, U(N), H[N])
    <2>1. N \in T
      BY <1>1, <1>8
    <2> HIDE DEF U
    <2> QED
      BY <2>1 DEF T
  <1>10. U(N) \subseteq Made(slots, r, at + 1)
    <2>1. Made(slots, r, at) \subseteq Made(slots, r, at + 1)
      <3>1. \A b \in Rz!Bucket : b < at => b < at + 1
        BY <1>1, BucketNumbers
      <3> QED
        BY <1>1, <3>1 DEF Made
    <2>2. \A e \in 1 .. N : TreeAt(e) \in Made(slots, r, at + 1)
      BY TreeIsNew DEF N
    <2> QED
      BY <2>1, <2>2
  <1> HIDE DEF U
  <1> QED
    BY <1>2, <1>9, <1>10, WriteMore

LEMMA DigitKeeps == RzInv /\ Rz!DigitBucket => RzInv'
  <1> SUFFICES ASSUME RzInv, Rz!DigitBucket
               PROVE  RzInv'
    OBVIOUS
  <1>1. PICK m : m = Rz!BucketMerged
    OBVIOUS
  <1>2. /\ pc = "digit" /\ r < K /\ slots' = m.slots /\ nslots' = m.nslots
        /\ full' \in BOOLEAN
        /\ pc' = pc /\ digest' = digest /\ sols' = sols /\ nsols' = nsols
        /\ \/ at + 1 \in Rz!Bucket /\ at' = at + 1 /\ r' = r
           \/ at + 1 \notin Rz!Bucket /\ at' = 0 /\ r' = r + 1
    <2>1. full' = (m.full \/ ~Rz!Remembered(Rz!Bucketful))
      BY <1>1, Zenon DEF Rz!DigitBucket
    <2>2. full' \in BOOLEAN
      BY <2>1
    <2> QED
      BY <1>1, <2>2, Zenon DEF Rz!DigitBucket
  <1>3. /\ r \in Nat /\ r >= 1 /\ at \in Nat /\ at \in Rz!Bucket /\ digest \in BlockDigests
        /\ K \in Nat /\ K >= 1 /\ r \in 0 .. K
    BY <1>2, WordNumbers, BucketfulIs DEF RzInv, RzPhase
  <1>4. WriteOk(digest, MergeStart, r, Made(slots, r, at + 1), m)
    BY <1>1, <1>2, BucketWrites
  <1>5. /\ 2^(Bits - RestBits) \in Nat \ {0}
        /\ \A b \in Nat : b \in Rz!Bucket <=> b < 2^(Bits - RestBits)
    BY BucketNumbers
  <1>6. RzPhase'
    BY <1>2, <1>3, <1>5 DEF RzPhase
  <1>7. \A q \in 0 .. K : Reached(q)' = Then(q)
    <2> SUFFICES ASSUME NEW q \in 0 .. K
                 PROVE  Reached(q)' = Then(q)
      OBVIOUS
    <2>1. CASE at' = at + 1 /\ r' = r
      BY <1>2, <1>3, <2>1 DEF Reached, Then, Whole
    <2>2. CASE at + 1 \notin Rz!Bucket /\ at' = 0 /\ r' = r + 1
      <3>1. at + 1 = 2^(Bits - RestBits)
        BY <1>3, <1>5, <2>2
      <3> QED
        BY <1>2, <1>3, <2>2, <3>1 DEF Reached, Then, Whole
    <2> QED
      BY <1>2, <2>1, <2>2
  <1>8. /\ \A q \in 0 .. K - 1 : RoundOk(digest, m.slots, q, Made(m.slots, q, Then(q)))
        /\ Unread(m.slots, m.nslots, r, at + 1)
        /\ \A b \in Rz!Bucket : CountTells(m.slots, m.nslots, r, b)
    <2>1. RzPhase /\ RzMemory /\ pc # "done" /\ r < K
      BY <1>2, <1>3 DEF RzInv
    <2>2. PICK base : base = MergeStart
      OBVIOUS
    <2>3. base.slots = slots /\ base.nslots = Rz!Cleared
      BY <1>2, <2>2, MergeStarts
    <2>4. /\ \A q \in 0 .. K - 1 : q # r - 1 => Rz!Cleared[Rz!TreesOf(q)] = nslots[Rz!TreesOf(q)]
          /\ \A b \in Rz!Bucket : b # at => Rz!Cleared[Rz!TreesOf(r - 1)][b] = nslots[Rz!TreesOf(r - 1)][b]
      BY <1>2, ClearedIs
    <2>5. \A q \in 0 .. K - 1 : q > r => base.nslots[Rz!TreesOf(q)] = nslots[Rz!TreesOf(q)]
      <3>1. \A q \in 0 .. K - 1 : q > r => q # r - 1
        BY <1>3
      <3> QED
        BY <2>3, <2>4, <3>1
    <2>6. \A q \in 0 .. K - 1 : \A b \in Rz!Bucket :
            q = r - 1 /\ b > at => base.nslots[Rz!TreesOf(q)][b] = nslots[Rz!TreesOf(q)][b]
      <3>1. \A b \in Rz!Bucket : b > at => b # at
        BY <1>3, BucketNumbers
      <3> QED
        BY <2>3, <2>4, <3>1
    <2>7. WriteOk(digest, base, r, Made(slots, r, at + 1), m)
      BY <1>4, <2>2
    <2>8. base.slots = slots
      BY <2>3
    <2> QED
      BY <2>1, <2>5, <2>6, <2>7, <2>8, Written
  <1>9. RzMemory'
    <2>1. m \in MemorySet
      BY <1>4 DEF WriteOk
    <2>2. Rz!Memory' \in MemorySet
      BY <1>2, <2>1 DEF Rz!Memory, MemorySet
    <2>3. \A q \in 0 .. K - 1 : RoundOk(digest, m.slots, q, Made(m.slots, q, Reached(q)'))
      <3>1. \A q \in 0 .. K - 1 : q \in 0 .. K
        BY <1>3
      <3> QED
        BY <1>7, <1>8, <3>1
    <2>4. Unread(m.slots, m.nslots, r', at')
      <3>1. CASE at' = at + 1 /\ r' = r
        BY <1>8, <3>1
      <3>2. CASE at' = 0 /\ r' = r + 1
        <4> SUFFICES ASSUME NEW q \in 0 .. K - 1, NEW b \in Rz!Bucket, q >= r + 1 \/ q = (r + 1) - 1
                     PROVE  CountTells(m.slots, m.nslots, q, b)
          BY <3>2 DEF Unread
        <4>1. q >= r
          BY <1>3
        <4> QED
          BY <1>8, <4>1 DEF Unread
      <3> QED
        BY <1>2, <3>1, <3>2
    <2> QED
      BY <1>2, <2>2, <2>3, <2>4 DEF RzMemory
  <1>10. SolsOk(digest, slots, sols, nsols, Made(slots, K, Reached(K)))'
    <2>1. Reached(K) = 0
      BY <1>2, <1>3 DEF Reached
    <2>2. SolsOk(digest, slots, sols, nsols, {})
      BY <2>1, NoTree DEF RzInv
    <2>3. SolsOk(digest, slots', sols, nsols, Made(slots', K, Reached(K)'))
      BY <2>2, NoSols
    <2> QED
      BY <1>2, <2>3
  <1> QED
    BY <1>6, <1>9, <1>10 DEF RzInv

-----------------------------------------------------------------------------
LEMMA SolsMore ==
  ASSUME NEW d, NEW sl, NEW ss, NEW n, NEW U, NEW V, U \subseteq V, SolsOk(d, sl, ss, n, U)
  PROVE  SolsOk(d, sl, ss, n, V)
  BY DEF SolsOk

\* A solution more, if there is place.
LEMMA SolAdded ==
  ASSUME NEW d, NEW sl, NEW ss, NEW n, NEW U, SolsOk(d, sl, ss, n, U),
         NEW t, NEW v, v = Unfolded(sl, K, t),
         LeafList(K, v), Rz!IsInjective(v), RowOf(d, v) = ZeroRow,
         \A e \in 1 .. Len(ss) : ss[e] # v,
         NEW new, new = IF n < MaxSols THEN Append(ss, v) ELSE ss
  PROVE  SolsOk(d, sl, new, n + 1, U \cup {t})
  <1>1. /\ ss \in Seq(Seq(Nat)) /\ n \in Nat /\ Len(ss) \in Nat
        /\ MaxSols \in Nat /\ Len(ss) = Rz!Min2(n, MaxSols)
        /\ v \in Seq(Nat)
    BY LenProperties, RzParameters, LeafListType, WordNumbers DEF SolsOk
  <1>2. /\ \A e \in 1 .. Len(ss) : /\ LeafList(K, ss[e]) /\ Rz!IsInjective(ss[e]) /\ RowOf(d, ss[e]) = ZeroRow
                                   /\ \E u \in U : ss[e] = Unfolded(sl, K, u)
        /\ \A e, f \in 1 .. Len(ss) : ss[e] = ss[f] => e = f
    BY DEF SolsOk
  <1>3. CASE n < MaxSols
    <2>1. Len(ss) = n /\ Rz!Min2(n + 1, MaxSols) = n + 1
      BY <1>1, <1>3 DEF Rz!Min2
    <2>2. new = Append(ss, v)
      BY <1>3
    <2>3. new \in Seq(Seq(Nat)) /\ Len(new) = n + 1 /\ new[n + 1] = v /\ \A e \in 1 .. Len(ss) : new[e] = ss[e]
      BY <1>1, <2>1, <2>2, AppendProperties
    <2>4. \A e \in 1 .. Len(new) : (e \in 1 .. Len(ss) /\ new[e] = ss[e]) \/ (e = n + 1 /\ new[e] = v)
      BY <1>1, <2>1, <2>3
    <2>5. ASSUME NEW e \in 1 .. Len(new)
          PROVE  /\ LeafList(K, new[e]) /\ Rz!IsInjective(new[e]) /\ RowOf(d, new[e]) = ZeroRow
                 /\ \E u \in U \cup {t} : new[e] = Unfolded(sl, K, u)
      <3>1. CASE e \in 1 .. Len(ss) /\ new[e] = ss[e]
        BY <1>2, <3>1
      <3>2. CASE e = n + 1 /\ new[e] = v
        BY <3>2
      <3> QED
        BY <2>4, <3>1, <3>2
    <2>6. \A e, f \in 1 .. Len(new) : new[e] = new[f] => e = f
      BY <1>2, <2>4
    <2>7. n + 1 \in Nat
      BY <1>1
    <2> QED
      BY <2>1, <2>3, <2>5, <2>6, <2>7 DEF SolsOk
  <1>4. CASE ~(n < MaxSols)
    <2>1. Rz!Min2(n, MaxSols) = Rz!Min2(n + 1, MaxSols) /\ n + 1 \in Nat
      BY <1>1, <1>4 DEF Rz!Min2
    <2>2. new = ss
      BY <1>4
    <2>3. SolsOk(d, sl, ss, n + 1, U)
      BY <1>1, <2>1 DEF SolsOk
    <2> QED
      BY <2>2, <2>3, SolsMore
  <1> QED
    BY <1>3, <1>4

\* In the last round a pair of the bucket at hand may be a solution.
LEMMA PairTried ==
  ASSUME RzInv, pc = "digit", r = K, NEW n \in 1 .. Len(RestPairs),
         NEW U, U \subseteq Made(slots, K, at + 1), TreeAt(n) \notin U,
         NEW ss, NEW c, SolsOk(digest, slots, ss, c, U),
         NEW acc, acc.sols = ss, acc.nsols = c
  PROVE  LET new == Rz!Tried(acc, RestPairs[n], Rz!Bucketful)
         IN SolsOk(digest, slots, new.sols, new.nsols, U \cup {TreeAt(n)})
  <1> DEFINE new == Rz!Tried(acc, RestPairs[n], Rz!Bucketful)
             v == Unfolded(slots, K, TreeAt(n))
  <1>1. SolsOk(digest, slots, ss, c, U \cup {TreeAt(n)})
    BY SolsMore
  <1>2. CASE ~Rz!SameTail(FirstOf(n), SecondOf(n))
    <2>1. new = acc
      BY <1>2 DEF Rz!Tried, FirstOf, SecondOf
    <2> QED
      BY <1>1, <2>1
  <1>3. CASE Rz!SameTail(FirstOf(n), SecondOf(n))
    <2>1. new = Rz!Candidate(acc, TreeAt(n))
      BY <1>3 DEF Rz!Tried, FirstOf, SecondOf, TreeAt
    <2>2. Rz!ListIndices(K, TreeAt(n)) = v
      BY ListIndicesAre
    <2>3. CASE ~Rz!IsInjective(v)
      <3>1. new = acc
        BY <2>1, <2>2, <2>3 DEF Rz!Candidate
      <3> QED
        BY <1>1, <3>1
    <2>4. CASE Rz!IsInjective(v)
      <3>1. /\ new.sols = IF c < MaxSols THEN Append(ss, v) ELSE ss
            /\ new.nsols = c + 1
        BY <2>1, <2>2, <2>4 DEF Rz!Candidate
      <3>2. /\ digest \in BlockDigests /\ K - 1 \in Nat /\ K - 1 \in 0 .. K - 1 /\ (K - 1) + 1 = K /\ K # 0
        BY BucketfulIs, WordNumbers DEF RzInv, RzPhase
      <3>3. /\ FirstOf(n) \in SlotSet /\ SecondOf(n) \in SlotSet
            /\ SlotStands(digest, slots, K - 1, at, FirstOf(n))
            /\ SlotStands(digest, slots, K - 1, at, SecondOf(n))
            /\ FirstOf(n).hash[1] = SecondOf(n).hash[1]
            /\ v = Rz!OrderIndices(Unfolded(slots, K - 1, FirstOf(n).attr), Unfolded(slots, K - 1, SecondOf(n).attr))
            /\ PairTree(slots, K - 1, at, TreeAt(n))
        BY PairFacts
      <3> HIDE DEF v, new
      <3>4. LeafList(K, v) /\ RowOf(digest, v) = ZeroRow
        <4>1. PICK q : q = K - 1
          OBVIOUS
        <4>2. /\ q \in Nat /\ SlotStands(digest, slots, q, at, FirstOf(n)) /\ SlotStands(digest, slots, q, at, SecondOf(n))
              /\ v = Rz!OrderIndices(Unfolded(slots, q, FirstOf(n).attr), Unfolded(slots, q, SecondOf(n).attr))
          BY <3>2, <3>3, <4>1
        <4> QED
          BY <1>3, <3>2, <3>3, <4>1, <4>2, LastCancels
      <3>5. at \in Rz!Bucket /\ RoundOk(digest, slots, K - 1, Made(slots, K - 1, Whole(K - 1)))
        BY BucketfulIs
      <3>6. LeavesTell(slots, K - 1)
        <4>1. \A p \in 0 .. K - 1 : RoundSound(digest, slots, p)
          BY DEF RzInv, RzMemory, RoundSound
        <4> QED
          BY <3>2, <4>1, RoundsTell
      <3>7. ASSUME NEW e \in 1 .. Len(ss), ss[e] = v
            PROVE  FALSE
        <4>1. PICK t \in U : ss[e] = Unfolded(slots, K, t)
          BY DEF SolsOk
        <4>2. PICK b \in Rz!Bucket : PairTree(slots, K - 1, b, t)
          BY <3>2 DEF Made
        <4>3. Unfolded(slots, K, TreeAt(n)) = Unfolded(slots, K, t) /\ Rz!IsInjective(Unfolded(slots, K, TreeAt(n)))
          BY <2>4, <3>7, <4>1 DEF v
        <4>4. PICK q : q = K - 1
          OBVIOUS
        <4>5. /\ q \in Nat /\ q + 1 = K /\ PairTree(slots, q, b, t) /\ PairTree(slots, q, at, TreeAt(n))
              /\ RoundOk(digest, slots, q, Made(slots, q, Whole(q))) /\ LeavesTell(slots, q)
          BY <3>2, <3>3, <3>5, <3>6, <4>2, <4>4
        <4>6. /\ Unfolded(slots, q + 1, TreeAt(n)) = Unfolded(slots, q + 1, t)
              /\ Rz!IsInjective(Unfolded(slots, q + 1, TreeAt(n)))
          BY <4>3, <4>5
        <4>7. TreeAt(n) = t
          BY <3>5, <4>5, <4>6, TreeTells
        <4> QED
          BY <4>1, <4>7
      <3>8. v = Unfolded(slots, K, TreeAt(n))
        BY DEF v
      <3>9. SolsOk(digest, slots, new.sols, c + 1, U \cup {TreeAt(n)})
        BY <2>4, <3>1, <3>4, <3>7, <3>8, SolAdded
      <3> QED
        BY <3>1, <3>9 DEF new
    <2> QED
      BY <2>3, <2>4
  <1> QED
    BY <1>2, <1>3

TryStart == [sols |-> sols, nsols |-> nsols]

\* One pair after the other.
TryStep(n, t) == Rz!Tried(t, RestPairs[n], Rz!Bucketful)

TryRun == CHOOSE F : F = [n \in 0 .. Len(RestPairs) |-> IF n = 0 THEN TryStart ELSE TryStep(n, F[n - 1])]

LEMMA TryExists ==
  ASSUME Len(RestPairs) \in Nat
  PROVE  \E F : F = [n \in 0 .. Len(RestPairs) |-> IF n = 0 THEN TryStart ELSE TryStep(n, F[n - 1])]
  <1> DEFINE Good(m) == \E F : F = [n \in 0 .. m |-> IF n = 0 THEN TryStart ELSE TryStep(n, F[n - 1])]
             T == {m \in 0 .. Len(RestPairs) : Good(m)}
  <1>1. 0 \in T
    <2> DEFINE F == [n \in 0 .. 0 |-> TryStart]
    <2>1. F = [n \in 0 .. 0 |-> IF n = 0 THEN TryStart ELSE TryStep(n, F[n - 1])]
      OBVIOUS
    <2>2. Good(0)
      BY <2>1
    <2> HIDE DEF Good
    <2> QED
      BY <2>2
  <1>2. ASSUME NEW m \in 1 .. Len(RestPairs), m - 1 \in T
        PROVE  m \in T
    <2>1. Good(m - 1)
      BY <1>2
    <2>2. PICK F : F = [n \in 0 .. m - 1 |-> IF n = 0 THEN TryStart ELSE TryStep(n, F[n - 1])]
      BY <2>1
    <2> DEFINE G == [n \in 0 .. m |-> IF n = m THEN TryStep(m, F[m - 1]) ELSE F[n]]
    <2>3. ASSUME NEW n \in 0 .. m
          PROVE  G[n] = IF n = 0 THEN TryStart ELSE TryStep(n, G[n - 1])
      <3>1. CASE n = m
        BY <3>1
      <3>2. CASE n # m
        <4>1. n \in 0 .. m - 1 /\ G[n] = F[n] /\ (n # 0 => G[n - 1] = F[n - 1])
          BY <3>2
        <4>2. F[n] = IF n = 0 THEN TryStart ELSE TryStep(n, F[n - 1])
          BY <2>2, <4>1
        <4> QED
          BY <4>1, <4>2
      <3> QED
        BY <3>1, <3>2
    <2>4. G = [n \in 0 .. m |-> G[n]]
      OBVIOUS
    <2> HIDE DEF G
    <2>5. G = [n \in 0 .. m |-> IF n = 0 THEN TryStart ELSE TryStep(n, G[n - 1])]
      BY <2>3, <2>4
    <2>6. Good(m)
      BY <2>5
    <2> HIDE DEF Good
    <2> QED
      BY <2>6
  <1> HIDE DEF T
  <1>3. \A n \in 0 .. Len(RestPairs) : n \in T
    BY <1>1, <1>2, CountUp
  <1>4. Len(RestPairs) \in 0 .. Len(RestPairs)
    OBVIOUS
  <1> HIDE DEF Good
  <1>5. Good(Len(RestPairs))
    BY <1>3, <1>4 DEF T
  <1> QED
    BY <1>5 DEF Good

LEMMA TryRuns ==
  ASSUME Len(RestPairs) \in Nat
  PROVE  /\ TryRun[0] = TryStart
         /\ \A n \in 1 .. Len(RestPairs) : TryRun[n] = TryStep(n, TryRun[n - 1])
  <1> DEFINE H == TryRun
  <1>1. H = [n \in 0 .. Len(RestPairs) |-> IF n = 0 THEN TryStart ELSE TryStep(n, H[n - 1])]
    BY TryExists DEF TryRun
  <1> HIDE DEF H
  <1>2. \A n \in 0 .. Len(RestPairs) : H[n] = IF n = 0 THEN TryStart ELSE TryStep(n, H[n - 1])
    BY <1>1
  <1>3. 0 \in 0 .. Len(RestPairs) /\ \A n \in 1 .. Len(RestPairs) : n \in 0 .. Len(RestPairs) /\ n # 0
    OBVIOUS
  <1> QED
    BY <1>2, <1>3 DEF H

LEMMA BucketTries ==
  ASSUME RzInv, pc = "digit", r = K
  PROVE  SolsOk(digest, slots, Rz!BucketTried.sols, Rz!BucketTried.nsols, Made(slots, K, at + 1))
  <1> DEFINE H == TryRun
             N == Len(RestPairs)
             U(n) == Made(slots, K, at) \cup {TreeAt(e) : e \in 1 .. n}
             T == {n \in 0 .. N : SolsOk(digest, slots, H[n].sols, H[n].nsols, U(n))}
  <1>1. /\ r \in Nat /\ r # 0 /\ at \in Nat /\ at \in Rz!Bucket /\ N \in Nat
    <2>1. Len(Rz!Bucketful) \in Nat
      BY BucketfulIs, LenProperties DEF RoundOk, BucketIn
    <2> QED
      BY <2>1, BucketfulIs, WordNumbers, PairsOf DEF RestPairs
  <1>2. Rz!BucketTried = H[N]
    BY DEF Rz!BucketTried, TryRun, TryStep, TryStart, RestPairs
  <1>3. H[0] = TryStart /\ \A n \in 1 .. N : H[n] = TryStep(n, H[n - 1])
    BY <1>1, TryRuns
  <1>4. \A n \in 1 .. N : H[n] = Rz!Tried(H[n - 1], RestPairs[n], Rz!Bucketful)
    BY <1>3 DEF TryStep
  <1>5. TryStart.sols = sols /\ TryStart.nsols = nsols
    BY DEF TryStart
  <1>6. Made(slots, K, at) \subseteq Made(slots, K, at + 1)
    <2>1. \A b \in Rz!Bucket : b < at => b < at + 1
      BY <1>1, BucketNumbers
    <2> QED
      BY <1>1, <2>1 DEF Made
  <1>7. ASSUME NEW n \in 0 .. N
        PROVE  U(n) \subseteq Made(slots, K, at + 1)
    <2>1. \A e \in 1 .. n : e \in 1 .. Len(RestPairs)
      BY <1>1
    <2>2. \A e \in 1 .. n : TreeAt(e) \in Made(slots, K, at + 1)
      BY <2>1, TreeIsNew
    <2> QED
      BY <1>6, <2>2
  <1> HIDE DEF H, N
  <1>8. 0 \in T
    <2>1. Reached(K) = at
      BY <1>1 DEF Reached
    <2>2. SolsOk(digest, slots, sols, nsols, Made(slots, K, at))
      BY <2>1 DEF RzInv
    <2>3. U(0) = Made(slots, K, at)
      OBVIOUS
    <2> HIDE DEF U
    <2>4. SolsOk(digest, slots, H[0].sols, H[0].nsols, U(0))
      BY <1>3, <1>5, <2>2, <2>3
    <2>5. 0 \in 0 .. N
      BY <1>1
    <2> QED
      BY <2>4, <2>5
  <1>9. ASSUME NEW n \in 1 .. N, n - 1 \in T
        PROVE  n \in T
    <2> DEFINE m == H[n - 1]
    <2>1. SolsOk(digest, slots, m.sols, m.nsols, U(n - 1))
      BY <1>9
    <2>2. n \in 1 .. Len(RestPairs)
      BY DEF N
    <2>3. TreeAt(n) \notin U(n - 1)
      <3>1. \A e \in 1 .. n - 1 : e \in 1 .. Len(RestPairs) /\ e # n
        BY <1>1, <2>2
      <3> QED
        BY <2>2, <3>1, TreeIsNew
    <2>4. U(n - 1) \cup {TreeAt(n)} = U(n)
      <3>1. 1 .. n = (1 .. n - 1) \cup {n}
        BY <1>1
      <3> QED
        BY <3>1
    <2>5. H[n] = Rz!Tried(m, RestPairs[n], Rz!Bucketful)
      BY <1>4
    <2>6. U(n - 1) \subseteq Made(slots, K, at + 1)
      <3>1. n - 1 \in 0 .. N
        BY <1>1
      <3> QED
        BY <1>7, <3>1
    <2> HIDE DEF U, m
    <2>7. SolsOk(digest, slots, H[n].sols, H[n].nsols, U(n - 1) \cup {TreeAt(n)})
      BY <2>1, <2>2, <2>3, <2>5, <2>6, PairTried
    <2>8. SolsOk(digest, slots, H[n].sols, H[n].nsols, U(n))
      BY <2>4, <2>7
    <2>9. n \in 0 .. N
      BY <1>1
    <2> QED
      BY <2>8, <2>9
  <1> HIDE DEF T
  <1>10. N \in T /\ N \in 0 .. N
    <2>1. \A n \in 0 .. N : n \in T
      BY <1>1, <1>8, <1>9, CountUp
    <2> QED
      BY <1>1, <2>1
  <1> HIDE DEF U
  <1>11. SolsOk(digest, slots, H[N].sols, H[N].nsols, U(N))
    BY <1>10 DEF T
  <1> QED
    BY <1>2, <1>7, <1>10, <1>11, SolsMore

LEMMA DigitKKeeps == RzInv /\ Rz!DigitKBucket => RzInv'
  <1> SUFFICES ASSUME RzInv, Rz!DigitKBucket
               PROVE  RzInv'
    OBVIOUS
  <1>1. /\ pc = "digit" /\ r = K /\ slots' = slots /\ nslots' = Rz!Cleared
        /\ full' \in BOOLEAN
        /\ r' = r /\ digest' = digest
        /\ sols' = Rz!BucketTried.sols /\ nsols' = Rz!BucketTried.nsols
        /\ \/ at + 1 \in Rz!Bucket /\ at' = at + 1 /\ pc' = pc
           \/ at + 1 \notin Rz!Bucket /\ at' = 0 /\ pc' = "done"
    <2>1. full' = (full \/ ~Rz!Remembered(Rz!Bucketful))
      BY DEF Rz!DigitKBucket
    <2>2. full' \in BOOLEAN
      BY <2>1
    <2> QED
      BY <2>2, Zenon DEF Rz!DigitKBucket
  <1>2. /\ at \in Nat /\ at \in Rz!Bucket /\ digest \in BlockDigests
        /\ K \in Nat /\ K >= 1 /\ r \in 0 .. K
    BY <1>1, WordNumbers, BucketfulIs DEF RzInv, RzPhase
  <1>3. /\ 2^(Bits - RestBits) \in Nat \ {0}
        /\ \A b \in Nat : b \in Rz!Bucket <=> b < 2^(Bits - RestBits)
    BY BucketNumbers
  <1>4. RzPhase'
    BY <1>1, <1>2, <1>3 DEF RzPhase
  <1>5. /\ \A q \in 0 .. K - 1 : Reached(q)' = Reached(q)
        /\ Reached(K)' = at + 1
    <2>1. CASE at' = at + 1 /\ pc' = pc
      BY <1>1, <1>2, <2>1 DEF Reached, Whole
    <2>2. CASE at + 1 \notin Rz!Bucket /\ at' = 0 /\ pc' = "done"
      <3>1. at + 1 = 2^(Bits - RestBits)
        BY <1>2, <1>3, <2>2
      <3> QED
        BY <1>1, <1>2, <2>2, <3>1 DEF Reached, Whole
    <2> QED
      BY <1>1, <2>1, <2>2
  <1>6. RzMemory'
    <2>1. Rz!Memory' \in MemorySet
      <3>1. Rz!Cleared \in [Rz!Tree -> [Rz!Bucket -> Nat]]
        BY <1>1, ClearedIs
      <3>2. slots \in [Rz!Tree -> [Rz!Bucket -> Seq(SlotSet)]]
        BY RzMemoryTypes DEF RzInv, RzMemory
      <3> QED
        BY <1>1, <3>1, <3>2 DEF Rz!Memory, MemorySet
    <2>2. \A q \in 0 .. K - 1 : RoundOk(digest, slots, q, Made(slots, q, Reached(q)'))
      BY <1>5 DEF RzInv, RzMemory
    <2>3. ASSUME pc' # "done"
          PROVE  Unread(slots, Rz!Cleared, K, at + 1)
      <3> SUFFICES ASSUME NEW q \in 0 .. K - 1, NEW b \in Rz!Bucket, q >= K \/ (q = K - 1 /\ b >= at + 1)
                   PROVE  CountTells(slots, Rz!Cleared, q, b)
        BY DEF Unread
      <3>1. q = K - 1 /\ b >= at /\ b # at
        BY <1>2, BucketNumbers
      <3>2. CountTells(slots, nslots, q, b)
        BY <1>1, <3>1 DEF RzInv, RzMemory, Unread
      <3>3. Rz!Cleared[Rz!TreesOf(q)][b] = nslots[Rz!TreesOf(q)][b]
        BY <1>1, <3>1, ClearedIs
      <3> QED
        BY <3>2, <3>3 DEF CountTells
    <2>4. pc' # "done" => at' = at + 1
      BY <1>1
    <2> QED
      BY <1>1, <2>1, <2>2, <2>3, <2>4 DEF RzMemory
  <1>7. SolsOk(digest, slots, sols, nsols, Made(slots, K, Reached(K)))'
    <2>1. SolsOk(digest, slots, Rz!BucketTried.sols, Rz!BucketTried.nsols, Made(slots, K, at + 1))
      BY <1>1, BucketTries
    <2>2. SolsOk(digest, slots, sols', nsols', Made(slots, K, Reached(K)'))
      BY <1>1, <1>5, <2>1
    <2> QED
      BY <1>1, <2>2
  <1> QED
    BY <1>4, <1>6, <1>7 DEF RzInv

-----------------------------------------------------------------------------
\* A step that changes none of it.
LEMMA RzStays == RzInv /\ UNCHANGED Rz!vars => RzInv'
  <1> SUFFICES ASSUME RzInv, UNCHANGED Rz!vars
               PROVE  RzInv'
    OBVIOUS
  <1>1. /\ pc' = pc /\ digest' = digest /\ r' = r /\ at' = at /\ slots' = slots
        /\ nslots' = nslots /\ sols' = sols /\ nsols' = nsols /\ full' = full
    BY DEF Rz!vars
  <1>2. RzPhase'
    BY <1>1 DEF RzInv, RzPhase
  <1>3. \A q : Reached(q)' = Reached(q)
    BY <1>1 DEF Reached
  <1>4. RzMemory'
    BY <1>1, <1>3 DEF RzInv, RzMemory, Rz!Memory
  <1>5. SolsOk(digest, slots, sols, nsols, Made(slots, K, Reached(K)))'
    BY <1>1, <1>3 DEF RzInv
  <1> QED
    BY <1>2, <1>4, <1>5 DEF RzInv

LEMMA RzAlways == Spec => [](part = "rz" => RzInv)
  <1> DEFINE Inv == part = "rz" => RzInv
  <1>1. Init => Inv
    BY RzInitially DEF Init
  <1>2. Inv /\ [Next]_vars => Inv'
    <2> SUFFICES ASSUME Inv, [Next]_vars, part' = "rz"
                 PROVE  RzInv'
      OBVIOUS
    <2>1. part = "rz" /\ RzInv
      BY DEF Next, vars
    <2>2. Rz!Next \/ UNCHANGED Rz!vars
      BY <2>1 DEF Next, vars, rzVars, Rz!vars
    <2>3. CASE Rz!Next
      BY <2>1, <2>3, Digit0Keeps, DigitKeeps, DigitKKeeps DEF Rz!Next
    <2> QED
      BY <2>1, <2>2, <2>3, RzStays
  <1> QED
    BY <1>1, <1>2, PTL DEF Spec

\* So a slot stands for the leaves its tree leads to through the slots of all rounds,
LEMMA SlotsDoStand == RzInv => Rz!SlotsStand
  <1> SUFFICES ASSUME RzInv, NEW q \in 0 .. K - 1, NEW b \in Rz!Bucket,
                      NEW s \in DOMAIN slots[Rz!TreesOf(q)][b]
               PROVE  Rz!RowOf(digest, Rz!ListIndices(q, slots[Rz!TreesOf(q)][b][s].attr))
                        = [d \in 1 .. q |-> 0]
                            \o <<b * 2^RestBits + slots[Rz!TreesOf(q)][b][s].hash[1]>>
                            \o Tail(slots[Rz!TreesOf(q)][b][s].hash)
    BY DEF Rz!SlotsStand
  <1>1. digest \in BlockDigests /\ RoundOk(digest, slots, q, Made(slots, q, Reached(q)))
    BY DEF RzInv, RzPhase, RzMemory
  <1>2. s \in 1 .. Len(BucketIn(slots, q, b))
    <2>1. BucketIn(slots, q, b) \in Seq(SlotSet)
      BY <1>1 DEF RoundOk, BucketIn
    <2> QED
      BY <2>1, LenProperties DEF BucketIn
  <1> DEFINE slot == BucketIn(slots, q, b)[s]
             v == Unfolded(slots, q, slot.attr)
             w == b * Rests + slot.hash[1]
  <1>3. /\ LeafList(q, v) /\ Cancelled(RowOf(digest, v), q, w, Tail(slot.hash))
    BY <1>1, <1>2, RoundSlot DEF SlotStands
  <1>4. Rz!ListIndices(q, slot.attr) = v
    BY ListIndicesAre
  <1> HIDE DEF v, w
  <1>5. q \in Nat /\ HasRows(digest, Rz!Hashed)
    BY <1>1, RzParameters
  <1>6. RowOf(digest, v) \in Row
    BY <1>3, <1>5, RowOfType, LeafListType
  <1>7. w \in Word
    <2>1. q + 1 \in 1 .. K + 1
      BY WordNumbers
    <2>2. RowOf(digest, v)[q + 1] = w
      BY <1>3 DEF Cancelled
    <2> QED
      BY <1>6, <2>1, <2>2 DEF Row
  <1>8. RowOf(digest, v) = [d \in 1 .. q |-> 0] \o <<w>> \o Tail(slot.hash)
    <2> HIDE DEF slot
    <2> QED
      BY <1>3, <1>6, <1>7, RowSpelled
  <1>9. Rz!RowOf(digest, v) = RowOf(digest, v)
    BY RzRows
  <1> QED
    BY <1>4, <1>8, <1>9 DEF slot, w, BucketIn, Rests

\* and the solutions are what they should be.
LEMMA SolutionsAreSound == RzInv => Rz!SolutionsSound
  <1> SUFFICES ASSUME RzInv
               PROVE  Rz!SolutionsSound
    OBVIOUS
  <1>1. SolsOk(digest, slots, sols, nsols, Made(slots, K, Reached(K))) /\ K \in Nat
    BY WordNumbers DEF RzInv
  <1>2. /\ sols \in Seq(Seq(Nat)) /\ Len(sols) = Rz!Min2(nsols, MaxSols)
        /\ \A e \in 1 .. Len(sols) :
             LeafList(K, sols[e]) /\ Rz!IsInjective(sols[e]) /\ RowOf(digest, sols[e]) = ZeroRow
        /\ \A e, f \in 1 .. Len(sols) : sols[e] = sols[f] => e = f
    BY <1>1 DEF SolsOk
  <1>3. DOMAIN sols = 1 .. Len(sols)
    BY <1>2, LenProperties
  <1>4. Rz!IsInjective(sols)
    BY <1>2, <1>3 DEF Rz!IsInjective
  <1>5. ASSUME NEW s \in Rz!Range(sols)
        PROVE  /\ Len(s) = 2^K /\ Rz!IsInjective(s)
               /\ Rz!RowOf(digest, s) = Rz!ZeroRow
               /\ s = Rz!InOrder(s)
    <2>1. PICK e \in 1 .. Len(sols) : s = sols[e]
      BY <1>3 DEF Rz!Range
    <2>2. LeafList(K, s) /\ Rz!IsInjective(s) /\ RowOf(digest, s) = ZeroRow
      BY <1>2, <2>1
    <2>3. Rz!RowOf(digest, s) = Rz!ZeroRow
      BY <2>2, RzRows
    <2>4. Len(s) = 2^K /\ Orders[K][s] = s
      BY <2>2 DEF LeafList
    <2> QED
      BY <2>2, <2>3, <2>4, InOrderIs
  <1> QED
    BY <1>2, <1>4, <1>5 DEF Rz!SolutionsSound

\* Whatever the hash functions, bucket sizes, list lengths and bounds, a slot of
\* Tromp's solver stands for the leaves its packed tree leads to through the slots of
\* all earlier rounds, and its solutions are at most MaxSols, cancel, have 2^K leaves
\* in order, none of them twice, and differ.
THEOREM BucketsAreSound == Spec => []BucketsSound
  <1>1. (part = "rz" => RzInv) => BucketsSound
    BY SlotsDoStand, SolutionsAreSound DEF BucketsSound
  <1> QED
    BY <1>1, RzAlways, PTL

=============================================================================
