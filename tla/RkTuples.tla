------------------------------ MODULE RkTuples ------------------------------
(***************************************************************************)
(* Khovratovich's solver (SOLVER_CORPUS/rk): tuples bucketed by their next *)
(* word in lists of a fixed length, forks that name the two tuples they    *)
(* came from, and a search over nonces for a proof without duplicates.     *)
(* The hash function of every nonce is free.                               *)
(***************************************************************************)
EXTENDS XorRows

CONSTANTS
  ListLength,      \* LIST_LENGTH: tuples kept in a bucket
  ForkMultiplier,  \* FORK_MULTIPLIER: forks kept in a round, per bucket
  MaxNonce,        \* MAX_NONCE
  Digests          \* the hash functions considered

CheckNk(n, k) == k >= 1 /\ n % (k + 1) = 0 /\ n \div (k + 1) <= 32

FillCount == 4 * 2^(Bits - 1)

PointAssumption ==
  /\ CheckNk(Bits * (K + 1), K)
  /\ MaxNonce \in Nat
  /\ \A d \in Digests : \A l \in 0 .. FillCount - 1 : d[l] \in [1 .. K + 1 -> Word]

VARIABLES
  mode,    \* "find": find_proof, "single": single_attempt
  pc, nonce, digest,
  at,      \* the next leaf to hash, or the next bucket to resolve
  tuples,  \* tuple_list cut to filled_list
  next,    \* collision_list cut to new_filled_list
  forks,   \* the forks of the rounds done
  made,    \* new_forks cut to new_colls
  sols,    \* the inputs of solutions
  proof,   \* the inputs of the proof returned
  full     \* some tuple of this attempt found no place

vars == <<mode, pc, nonce, digest, at, tuples, next, forks, made, sols, proof, full>>

-----------------------------------------------------------------------------
NoTuples  == [b \in Word |-> << >>]
MaxForks  == Cardinality(Word) * ForkMultiplier

\* A slot of a fork list that was never written holds the default fork.
ForkAt(level, ref) ==
  IF ref < Len(forks[level]) THEN forks[level][ref + 1] ELSE <<0, 0>>

ResolveTreeByLevel(fork, level) ==
  LET Leaves[n \in 0 .. level] ==
        [f \in Nat \X Nat |->
           IF n = 0 THEN <<f[1], f[2]>>
           ELSE Leaves[n - 1][ForkAt(n, f[1])] \o Leaves[n - 1][ForkAt(n, f[2])]]
  IN Leaves[level][fork]

ResolveTree(fork) == ResolveTreeByLevel(fork, Len(forks))

\* Proof::test.
Test(inputs) == inputs # << >> /\ RowOf(digest, inputs) = ZeroRow

\* A merged tuple is kept while its bucket and the forks of the round have room;
\* its reference is the number of its fork.
Keep(acc, index, a, b) ==
  IF Len(acc.next[index]) < ListLength /\ Len(acc.made) < MaxForks
  THEN [acc EXCEPT
          !.next[index] = Append(@, [blocks |-> Tail(XorSeq(a.blocks, b.blocks)),
                                     ref |-> Len(acc.made)]),
          !.made = Append(@, <<a.ref, b.ref>>)]
  ELSE [acc EXCEPT !.full = TRUE]

Solve(acc, index, a, b) ==
  IF index = 0 THEN [acc EXCEPT !.sols = Append(@, ResolveTree(<<a.ref, b.ref>>))]
  ELSE acc

LastRound == Len(forks) + 1 = K

\* The pairs of a bucket of n tuples in the order of the two loops.
Pairs(n) ==
  LET P[j \in 0 .. n] ==
        IF j = 0 THEN << >> ELSE P[j - 1] \o [m \in 1 .. n - j |-> <<j, j + m>>]
  IN P[n]

Resolved(bucket) ==
  LET pairs == Pairs(Len(bucket))
      Acc[n \in 0 .. Len(pairs)] ==
        IF n = 0 THEN [next |-> next, made |-> made, sols |-> sols, full |-> full]
        ELSE LET a == bucket[pairs[n][1]]
                 b == bucket[pairs[n][2]]
                 index == XorWord(a.blocks[1], b.blocks[1])
             IN IF LastRound THEN Solve(Acc[n - 1], index, a, b)
                ELSE Keep(Acc[n - 1], index, a, b)
  IN Acc[Len(pairs)]

-----------------------------------------------------------------------------
Init ==
  /\ mode \in {"find", "single"}
  /\ pc = "search"
  /\ nonce = 1
  /\ digest = << >>
  /\ at = 0
  /\ tuples = NoTuples /\ next = NoTuples
  /\ forks = << >> /\ made = << >>
  /\ sols = << >> /\ proof = << >>
  /\ full = FALSE

\* The nonce is advanced before it is used; memory is initialized anew.
Attempt ==
  /\ pc = "search"
  /\ nonce < MaxNonce
  /\ nonce' = nonce + 1
  /\ digest' \in Digests
  /\ tuples' = NoTuples
  /\ forks' = << >>
  /\ sols' = << >>
  /\ full' = FALSE
  /\ pc' = "fill"
  /\ UNCHANGED <<mode, at, next, made, proof>>

FillLeaf ==
  /\ pc = "fill"
  /\ LET row == digest[at]
         room == Len(tuples[row[1]]) < ListLength
     IN /\ tuples' = IF room
                     THEN [tuples EXCEPT ![row[1]] =
                             Append(@, [blocks |-> Tail(row), ref |-> at])]
                     ELSE tuples
        /\ full' = (full \/ ~room)
  /\ IF at + 1 < FillCount THEN at' = at + 1 /\ pc' = pc ELSE at' = 0 /\ pc' = "resolve"
  /\ UNCHANGED <<mode, nonce, digest, next, forks, made, sols, proof>>

PushForks(new) == Append(forks, new)

\* One bucket of a round; after the last the lists of the round are swapped in.
ResolveCollisions ==
  /\ pc = "resolve"
  /\ LET acc == Resolved(tuples[at]) IN
       /\ sols' = acc.sols
       /\ full' = acc.full
       /\ IF at + 1 < Cardinality(Word)
          THEN /\ at' = at + 1
               /\ next' = acc.next
               /\ made' = acc.made
               /\ UNCHANGED <<pc, tuples, forks>>
          ELSE /\ at' = 0
               /\ tuples' = acc.next
               /\ forks' = PushForks(acc.made)
               /\ next' = NoTuples
               /\ made' = << >>
               /\ pc' = IF LastRound THEN "check" ELSE pc
  /\ UNCHANGED <<mode, nonce, digest, proof>>

\* single_attempt leaves its solutions unchecked.
SingleDone ==
  /\ pc = "check"
  /\ mode = "single"
  /\ pc' = "done"
  /\ UNCHANGED <<mode, nonce, digest, at, tuples, next, forks, made, sols, proof, full>>

\* Slip: the first solution is returned, duplicates or not.
DuplicateFree_Unsorted(s) == s # << >>

DuplicateFree(s) == IsInjective(s)

Found ==
  /\ pc = "check"
  /\ mode = "find"
  /\ \E s \in DOMAIN sols :
       /\ DuplicateFree(sols[s])
       /\ \A t \in 1 .. s - 1 : ~DuplicateFree(sols[t])
       /\ proof' = sols[s]
  /\ pc' = "done"
  /\ UNCHANGED <<mode, nonce, digest, at, tuples, next, forks, made, sols, full>>

TryNext ==
  /\ pc = "check"
  /\ mode = "find"
  /\ \A s \in DOMAIN sols : ~DuplicateFree(sols[s])
  /\ pc' = "search"
  /\ UNCHANGED <<mode, nonce, digest, at, tuples, next, forks, made, sols, proof, full>>

\* The nonces are exhausted: the proof stays empty.
GiveUp ==
  /\ pc = "search"
  /\ nonce >= MaxNonce
  /\ pc' = "done"
  /\ UNCHANGED <<mode, nonce, digest, at, tuples, next, forks, made, sols, proof, full>>

Next ==
  \/ Attempt \/ FillLeaf \/ ResolveCollisions
  \/ SingleDone \/ Found \/ TryNext \/ GiveUp

Spec == Init /\ [][Next]_vars /\ WF_vars(Next)

-----------------------------------------------------------------------------
\* The leaves a tuple stands for.
LeavesOf(tuple) ==
  IF forks = << >> THEN <<tuple.ref>>
  ELSE ResolveTreeByLevel(ForkAt(Len(forks), tuple.ref), Len(forks) - 1)

\* A tuple's reference resolves, through the forks of every earlier round, to
\* the leaves whose rows XOR to it: cancelled in the words of the rounds done,
\* equal to the bucket in the next word, to its blocks in the rest.  Dropping
\* what overflows a list never shifts the numbers of what is kept.
TuplesStand ==
  pc = "resolve" =>
    \A b \in Word : \A t \in DOMAIN tuples[b] :
      LET tuple == tuples[b][t] IN
        RowOf(digest, LeavesOf(tuple)) =
          [s \in 1 .. Len(forks) |-> 0] \o <<b>> \o tuple.blocks

\* find_proof returns no proof or one that its own test accepts under the nonce
\* reported, of 2^K leaves none of which is used twice.
ProofTests ==
  pc = "done" /\ proof # << >> =>
    Test(proof) /\ IsInjective(proof) /\ Len(proof) = 2^K /\ nonce <= MaxNonce

\* An attempt in which nothing overflowed has found every solution of its nonce,
\* and nothing else without duplicates.
NothingMissed ==
  pc = "check" /\ ~full =>
    {InOrder(s) : s \in {t \in Range(sols) : IsInjective(t)}}
      = Trees(digest, 0 .. FillCount - 1, LAMBDA g, h, r : TRUE)

=============================================================================
