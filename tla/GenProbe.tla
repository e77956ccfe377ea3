------------------------------ MODULE GenProbe ------------------------------
(***************************************************************************)
(* The generation probe (probe.rs): every leaf hashed, iterated m times and *)
(* written to its row, in the loop shape of the hash backend (batched,     *)
(* streamed by class, leaf by leaf), for real or with a phase stubbed out. *)
(* A digest is what it was computed from.                                  *)
(***************************************************************************)
EXTENDS Integers, Sequences

CONSTANTS
  Class,      \* the values of k considered: leaf i is in class i % k
  LeafCount,  \* leaf_count
  Degree,     \* the values of MAX_DEGREE, jobs hashed side by side
  Iterations  \* the values of m considered

ProbeAssumption ==
  /\ Class \subseteq Nat \ {0} /\ Degree \subseteq Nat \ {0}
  /\ Iterations \subseteq Nat \ {0} /\ LeafCount \in Nat

VARIABLES
  pc,
  probe,   \* [kind, keying, m, k, degree, variant]
  at,      \* the next leaf
  class,   \* the class being streamed
  reader,  \* its XOF stream: the place of the next read; -1 is no stream
  inputs,  \* the messages of the batch, reused from batch to batch
  writes   \* the rows of the sink written, in order, with what was written

vars == <<pc, probe, at, class, reader, inputs, writes>>

-----------------------------------------------------------------------------
KeyingWords(i) ==
  IF probe.keying = "regular" THEN <<i % probe.k, i \div probe.k>> ELSE <<i>>

\* input || nonce || (le16(m) when m >= 2).
Prefix == IF probe.m >= 2 THEN <<probe.m % 2^16>> ELSE << >>

Hashed(message) == [of |-> message]

Again(d, i) == [digest |-> d, words |-> KeyingWords(i)]

XofAt(key, place) == [stream |-> key, place |-> place]

Iterated(first, i) ==
  LET D[q \in 1 .. probe.m] == IF q = 1 THEN first ELSE Again(D[q - 1], i)
  IN D[probe.m]

\* The digest of leaf i; the blake3 stream is placed by the leaf's number in
\* its class, or by its own.
Leaf(i) ==
  Iterated(IF probe.kind # "blake3" THEN Hashed(Prefix \o KeyingWords(i))
           ELSE IF probe.keying = "regular" THEN XofAt(<<i % probe.k>>, i \div probe.k)
           ELSE XofAt(<< >>, i),
           i)

\* What a variant writes to a row: a whole row, a constant one, or a byte.
Written(row, digest) ==
  <<row, probe.variant, IF probe.variant = "stub_hash" THEN << >> ELSE <<digest>>>>

Shape ==
  IF probe.kind = "simd" /\ probe.m = 1 THEN "batched"
  ELSE IF probe.kind = "blake3" /\ probe.m = 1 /\ probe.keying = "regular" THEN "streamed"
  ELSE "per_leaf"

-----------------------------------------------------------------------------
Init ==
  /\ probe \in [kind: {"blake2b", "simd", "blake3"}, keying: {"regular", "single"},
                m: Iterations, k: Class, degree: Degree,
                variant: {"real", "stub_hash", "stub_assembly"}]
  /\ pc = "gen"
  /\ at = 0 /\ class = 0 /\ reader = -1
  /\ inputs = [j \in 1 .. probe.degree |-> << >>]
  /\ writes = << >>

\* Slip: the digests of the whole group are written, also of a batch that is not full.
Batch_Full == probe.degree

Batch == IF probe.degree <= LeafCount - at THEN probe.degree ELSE LeafCount - at

GenBatch ==
  /\ pc = "gen"
  /\ Shape = "batched"
  /\ at < LeafCount
  /\ inputs' = [j \in DOMAIN inputs |->
                  IF j <= Batch THEN Prefix \o KeyingWords(at + j - 1) ELSE inputs[j]]
  /\ writes' = writes \o [j \in 1 .. Batch |-> Written(at + j - 1, Hashed(inputs'[j]))]
  /\ at' = at + Batch
  /\ UNCHANGED <<pc, probe, class, reader>>

\* The stub that does not hash opens no stream.
StreamClass ==
  /\ pc = "gen"
  /\ Shape = "streamed"
  /\ class < probe.k
  /\ reader' = IF probe.variant = "stub_hash" THEN -1 ELSE 0
  /\ at' = class
  /\ pc' = "class"
  /\ UNCHANGED <<probe, class, inputs, writes>>

StreamLeaf ==
  /\ pc = "class"
  /\ at < LeafCount
  /\ writes' = Append(writes, Written(at, XofAt(<<class>>, reader)))
  /\ reader' = IF probe.variant = "stub_hash" THEN reader ELSE reader + 1
  /\ at' = at + probe.k
  /\ UNCHANGED <<pc, probe, class, inputs>>

EndClass ==
  /\ pc = "class"
  /\ at >= LeafCount
  /\ class' = class + 1
  /\ pc' = "gen"
  /\ UNCHANGED <<probe, at, reader, inputs, writes>>

GenLeaf ==
  /\ pc = "gen"
  /\ Shape = "per_leaf"
  /\ at < LeafCount
  /\ writes' = Append(writes, Written(at, Leaf(at)))
  /\ at' = at + 1
  /\ UNCHANGED <<pc, probe, class, reader, inputs>>

GenDone ==
  /\ pc = "gen"
  /\ IF Shape = "streamed" THEN class >= probe.k ELSE at >= LeafCount
  /\ pc' = "done"
  /\ UNCHANGED <<probe, at, class, reader, inputs, writes>>

Next == GenBatch \/ StreamClass \/ StreamLeaf \/ EndClass \/ GenLeaf \/ GenDone

Spec == Init /\ [][Next]_vars /\ WF_vars(Next)

-----------------------------------------------------------------------------
\* The order in which the real variant visits the rows.
Visits ==
  IF Shape # "streamed" THEN [p \in 1 .. LeafCount |-> p - 1]
  ELSE LET classes ==
             [c \in 1 .. probe.k |->
                [q \in 1 .. (LeafCount - c + probe.k) \div probe.k |-> c - 1 + (q - 1) * probe.k]]
           Walk[c \in 1 .. probe.k] ==
             IF c = 1 THEN classes[c] ELSE Walk[c - 1] \o classes[c]
       IN Walk[probe.k]

\* Each row is written once, with the digest that leaf derives alone, in whatever
\* groups or streams it was hashed; and the stubbed variants walk the rows in the
\* order of the real one, without which their time differences say nothing.
RowsExact ==
  pc = "done" => writes = [p \in DOMAIN Visits |-> Written(Visits[p], Leaf(Visits[p]))]

=============================================================================
