-------------------------- MODULE LeafHasherGate --------------------------
(***************************************************************************)
(* Seam A (rust/src/hash): the scalar leaf hasher, a batched candidate,    *)
(* the self-test by which autodetect chooses between them, and batches     *)
(* hashed with the one chosen.  A digest is what was hashed, and to how    *)
(* many bytes; the candidate may be wrong for some keys, in some lane of a *)
(* group of Lanes jobs, in a group that is not full, or in its length.     *)
(***************************************************************************)
EXTENDS Naturals, Sequences

CONSTANTS
  OutputLen,    \* 64
  BatteryKeys,  \* keys of the self-test, 64
  BatteryK,     \* classes they are spread over, 5
  Lanes,        \* jobs the batched hasher takes at once
  Candidates,   \* [built, len, class, counter, lane, tail]
  Batches       \* [k, count]: leaves hashed by a caller

\* The self-test has a key of each of its classes and one for each lane.
GateAssumption ==
  /\ OutputLen \in Nat
  /\ BatteryKeys \in Nat /\ BatteryK \in 1 .. BatteryKeys /\ Lanes \in 1 .. BatteryKeys
  /\ Candidates \subseteq
       [built: BOOLEAN, len: Nat, class: Nat, counter: Nat, lane: Nat, tail: BOOLEAN]
  /\ Batches \subseteq [k: Nat \ {0}, count: Nat]

VARIABLES
  pc,
  cand,    \* the candidate of this build, and whether it is built in (feature simd)
  chosen,  \* "scalar" or "simd"
  batch,
  out      \* the digests of the batch, by place

vars == <<pc, cand, chosen, batch, out>>

-----------------------------------------------------------------------------
KeysOf(count, k) == [p \in 1 .. count |-> <<(p - 1) % k, (p - 1) \div k>>]

HashOne(key, len) == [key |-> key, len |-> len]

\* The trait's loop over hash_one.
ScalarMany(keys) == [p \in DOMAIN keys |-> HashOne(keys[p], OutputLen)]

InShortGroup(p, count) == p > Lanes * (count \div Lanes)

\* The jobs of the batched hasher.
SimdMany(keys) ==
  [p \in DOMAIN keys |->
     IF \/ keys[p][1] >= cand.class
        \/ keys[p][2] >= cand.counter
        \/ (p - 1) % Lanes = cand.lane
        \/ cand.tail /\ InShortGroup(p, Len(keys))
     THEN [key |-> << >>, len |-> cand.len]
     ELSE HashOne(keys[p], cand.len)]

HashMany(hasher, keys) == IF hasher = "scalar" THEN ScalarMany(keys) ELSE SimdMany(keys)

\* Slip: the first group alone is compared.
AgreesWithReference_FirstGroup ==
  LET keys == KeysOf(Lanes, BatteryK)
  IN cand.len = OutputLen /\ ScalarMany(keys) = SimdMany(keys)

AgreesWithReference ==
  LET keys == KeysOf(BatteryKeys, BatteryK)
  IN cand.len = OutputLen /\ ScalarMany(keys) = SimdMany(keys)

Init ==
  /\ cand \in Candidates
  /\ pc = "start" /\ chosen = "" /\ batch = << >> /\ out = << >>

Autodetect ==
  /\ pc = "start"
  /\ chosen' = IF cand.built /\ AgreesWithReference THEN "simd" ELSE "scalar"
  /\ pc' = "ready"
  /\ UNCHANGED <<cand, batch, out>>

Hash ==
  /\ pc = "ready"
  /\ \E b \in Batches :
       /\ batch' = b
       /\ out' = HashMany(chosen, KeysOf(b.count, b.k))
  /\ UNCHANGED <<pc, cand, chosen>>

Next == Autodetect \/ Hash

Spec == Init /\ [][Next]_vars

-----------------------------------------------------------------------------
\* Whatever candidate of the declared family was built in, every digest is the scalar
\* one, at its leaf's place, but where the self-test does not reach: a class or a
\* counter that no key of it has, or a group that is not full, which the battery, a
\* multiple of any number of lanes in use, never leaves.  A fault that needs class and
\* counter together, or a part of the stream's prefix, is not of the family.
GateSound ==
  \A p \in DOMAIN out :
    LET key == KeysOf(batch.count, batch.k)[p] IN
      \/ out[p] = HashOne(key, OutputLen)
      \/ key[1] >= BatteryK
      \/ key[2] > (BatteryKeys - 1) \div BatteryK
      \/ InShortGroup(p, batch.count) /\ BatteryKeys % Lanes = 0

=============================================================================
