----------------------------- MODULE RzBuckets -----------------------------
(***************************************************************************)
(* Tromp's solver (SOLVER_CORPUS/rz): rows in buckets of a fixed number of *)
(* slots, trees packed into one word as (bucket, slot, slot), collisions   *)
(* found per bucket through lists of the slots with equal rest bits.  The  *)
(* two parities of rounds keep their trees apart.                          *)
(*                                                                         *)
(* A word of a row is a digit: its high bits choose the bucket, its        *)
(* RestBits low bits are matched inside it.                                *)
(***************************************************************************)
EXTENDS XorRows, Integers

CONSTANTS
  RestBits,       \* RESTBITS
  HashesPerBlake, \* HASHESPERBLAKE: leaves cut from one hash call
  NSlots,         \* NSLOTS: slots of a bucket
  XFull,          \* XFULL: slots remembered per rest value
  MaxSols,        \* MAXSOLS
  TailBits,       \* bits of the last digit but one that share its hash word
  Digests         \* the hash functions considered

NHashes == 2 * 2^Bits
NBlocks == (NHashes + HashesPerBlake - 1) \div HashesPerBlake
Hashed  == 0 .. NBlocks * HashesPerBlake - 1

\* candidate unfolds the last round's trees as odd; a bucket's slots are numbered
\* in RestBits + 2 bits; the last hash word holds all rest bits in the last round.
ShapeAssumption ==
  /\ K % 2 = 1
  /\ RestBits \in 0 .. Bits - 1
  /\ {NSlots, XFull, MaxSols, TailBits} \subseteq Nat /\ HashesPerBlake \in Nat \ {0}
  /\ NSlots <= 2^(RestBits + 2)
  /\ TailBits >= RestBits
  /\ \A d \in Digests : \A l \in Hashed : d[l] \in [1 .. K + 1 -> Word]

VARIABLES
  pc, digest,
  r,        \* the digit being collided
  at,       \* the next block to hash, or the next bucket
  slots,    \* trees0 and trees1: the slots written, by tree and bucket
  nslots,   \* their fill counts, which pass NSlots
  sols,     \* sols
  nsols,    \* nsols
  full      \* some row found no slot or was not remembered

vars == <<pc, digest, r, at, slots, nslots, sols, nsols, full>>

-----------------------------------------------------------------------------
Bucket == 0 .. 2^(Bits - RestBits) - 1

BucketOf(d) == d \div 2^RestBits
RestOf(d)   == d % 2^RestBits

\* Round q's trees: trees0 holds the even rounds, trees1 the odd ones.
TreesOf(q) == <<q % 2, q \div 2>>
Tree == {TreesOf(q) : q \in 0 .. K - 1}

Src(q) == TreesOf(q - 1)

\* tree_from_bid and its inverses, with a slot number in SlotRange.
SlotRange == 2^(RestBits + 2)
TreeFromBid(b, s0, s1) == (b * SlotRange + s0) * SlotRange + s1
TreeBucket(t) == t \div (SlotRange * SlotRange)

\* Slip: the bits of the bucket are not masked off.
TreeSlot0_Unmasked(t) == t \div SlotRange

TreeSlot0(t) == (t \div SlotRange) % SlotRange
TreeSlot1(t) == t % SlotRange

\* A slot that was never written holds attribute 0.
Attr(tree, b, s) == IF s < Len(slots[tree][b]) THEN slots[tree][b][s + 1].attr ELSE 0

OrderIndices(v, w) == IF v[1] > w[1] THEN w \o v ELSE v \o w

\* listindices0 and listindices1, which alternate on the way down.
ListIndices(q, t) ==
  LET List[n \in 0 .. q] ==
        [u \in Nat |->
           IF n = 0 THEN <<u>>
           ELSE OrderIndices(List[n - 1][Attr(Src(n), TreeBucket(u), TreeSlot0(u))],
                             List[n - 1][Attr(Src(n), TreeBucket(u), TreeSlot1(u))])]
  IN List[q][t]

\* getslot advances the count whether or not there is a slot left.
Put(acc, tree, b, slot) ==
  LET s == acc.nslots[tree][b] IN
    [acc EXCEPT
       !.nslots[tree][b] = @ + 1,
       !.slots[tree][b] = IF s < NSlots THEN SubSeq(@, 1, s) \o <<slot>> ELSE @,
       !.full = @ \/ s >= NSlots]

Min2(a, b) == IF a < b THEN a ELSE b

GetNSlots(tree, b) == Min2(nslots[tree][b], NSlots)

Memory == [slots |-> slots, nslots |-> nslots, full |-> full]

-----------------------------------------------------------------------------
(* A slot's hash is the rest of its digit and the digits after it.         *)

LeafSlot(l) ==
  [attr |-> l,
   hash |-> <<RestOf(digest[l][1])>> \o Tail(digest[l])]

\* The last hash word: the last digit and some low bits of the one before it.
TailWord(hash) == <<hash[Len(hash) - 1] % 2^TailBits, hash[Len(hash)]>>

SameTail(a, b) == TailWord(a.hash) = TailWord(b.hash)

XHash(slot) == slot.hash[1]

\* The number of slots before s with its rest bits.
Rank(bucket, s) == Cardinality({p \in 1 .. s - 1 : XHash(bucket[p]) = XHash(bucket[s])})

Earlier(bucket, s) ==
  LET E[p \in 0 .. s - 1] ==
        IF p = 0 THEN << >>
        ELSE IF XHash(bucket[p]) = XHash(bucket[s]) THEN Append(E[p - 1], p) ELSE E[p - 1]
  IN E[s - 1]

\* addslot and next: a slot is remembered, and paired with those remembered for
\* its rest bits, unless so many of them are.
PairsUpTo(bucket, most) ==
  LET P[s \in 0 .. Len(bucket)] ==
        IF s = 0 THEN << >>
        ELSE IF Rank(bucket, s) >= most THEN P[s - 1]
        ELSE LET e == Earlier(bucket, s) IN P[s - 1] \o [p \in DOMAIN e |-> <<e[p], s>>]
  IN P[Len(bucket)]

\* Slip: the last place of a list is not used.
Pairs_ShortList(bucket) == PairsUpTo(bucket, XFull - 1)

Pairs(bucket) == PairsUpTo(bucket, XFull)

Remembered(bucket) == \A s \in DOMAIN bucket : Rank(bucket, s) < XFull

\* The merged slot: the digit collided is dropped, the next one chooses the bucket.
XorSlot(acc, b, p, bucket) ==
  LET h == Tail(XorSeq(bucket[p[1]].hash, bucket[p[2]].hash)) IN
    Put(acc, TreesOf(r), BucketOf(h[1]),
        [attr |-> TreeFromBid(b, p[1] - 1, p[2] - 1),
         hash |-> [h EXCEPT ![1] = RestOf(@)]])

\* A tree with a leaf used twice is refused; the count passes MaxSols.
Candidate(acc, t) ==
  LET prf == ListIndices(K, t) IN
    IF ~IsInjective(prf) THEN acc
    ELSE [sols |-> IF acc.nsols < MaxSols THEN Append(acc.sols, prf) ELSE acc.sols,
          nsols |-> acc.nsols + 1]

-----------------------------------------------------------------------------
Init ==
  /\ digest \in Digests
  /\ pc = "digit0"
  /\ r = 0 /\ at = 0
  /\ slots = [t \in Tree |-> [b \in Bucket |-> << >>]]
  /\ nslots = [t \in Tree |-> [b \in Bucket |-> 0]]
  /\ sols = << >> /\ nsols = 0
  /\ full = FALSE

PutLeaf(acc, l) == Put(acc, TreesOf(0), BucketOf(digest[l][1]), LeafSlot(l))

\* One hash call: HashesPerBlake leaves, the last block's included whole.
BlockPut ==
  LET Acc[n \in 0 .. HashesPerBlake] ==
        IF n = 0 THEN Memory ELSE PutLeaf(Acc[n - 1], at * HashesPerBlake + n - 1)
  IN Acc[HashesPerBlake]

Digit0Block ==
  /\ pc = "digit0"
  /\ LET acc == BlockPut
     IN /\ slots' = acc.slots
        /\ nslots' = acc.nslots
        /\ full' = acc.full
  /\ IF at + 1 < NBlocks THEN at' = at + 1 /\ UNCHANGED <<pc, r>>
     ELSE at' = 0 /\ pc' = "digit" /\ r' = 1
  /\ UNCHANGED <<digest, sols, nsols>>

\* The bucket at hand as far as it is filled, and its count reset.
Bucketful == SubSeq(slots[Src(r)][at], 1, GetNSlots(Src(r), at))
Cleared   == [nslots EXCEPT ![Src(r)][at] = 0]

\* A pair whose last words are the same is not kept.
Merged(acc, p, bucket) ==
  IF SameTail(bucket[p[1]], bucket[p[2]]) THEN acc ELSE XorSlot(acc, at, p, bucket)

BucketMerged ==
  LET pairs == Pairs(Bucketful)
      Acc[n \in 0 .. Len(pairs)] ==
        IF n = 0 THEN [Memory EXCEPT !.nslots = Cleared]
        ELSE Merged(Acc[n - 1], pairs[n], Bucketful)
  IN Acc[Len(pairs)]

\* One bucket of digitodd or digiteven.
DigitBucket ==
  /\ pc = "digit"
  /\ r < K
  /\ LET acc == BucketMerged
     IN /\ slots' = acc.slots
        /\ nslots' = acc.nslots
        /\ full' = (acc.full \/ ~Remembered(Bucketful))
  /\ IF at + 1 \in Bucket THEN at' = at + 1 /\ r' = r ELSE at' = 0 /\ r' = r + 1
  /\ UNCHANGED <<pc, digest, sols, nsols>>

\* In the last round such a pair is a candidate.
Tried(acc, p, bucket) ==
  IF SameTail(bucket[p[1]], bucket[p[2]])
  THEN Candidate(acc, TreeFromBid(at, p[1] - 1, p[2] - 1))
  ELSE acc

BucketTried ==
  LET pairs == Pairs(Bucketful)
      Acc[n \in 0 .. Len(pairs)] ==
        IF n = 0 THEN [sols |-> sols, nsols |-> nsols]
        ELSE Tried(Acc[n - 1], pairs[n], Bucketful)
  IN Acc[Len(pairs)]

\* One bucket of digit_k.
DigitKBucket ==
  /\ pc = "digit"
  /\ r = K
  /\ LET acc == BucketTried
     IN sols' = acc.sols /\ nsols' = acc.nsols
  /\ nslots' = Cleared
  /\ full' = (full \/ ~Remembered(Bucketful))
  /\ IF at + 1 \in Bucket THEN at' = at + 1 /\ pc' = pc ELSE at' = 0 /\ pc' = "done"
  /\ UNCHANGED <<digest, r, slots>>

Next == Digit0Block \/ DigitBucket \/ DigitKBucket

Spec == Init /\ [][Next]_vars /\ WF_vars(Next)

-----------------------------------------------------------------------------
\* Every slot a bucket counts stands, through the trees of all earlier rounds of
\* either parity, for leaves whose rows XOR to it: cancelled up to its round,
\* equal to its bucket and rest bits in its digit, to its hash in the rest.  A
\* tree written over a count that passed the capacity, or read from the wrong
\* parity, would name other leaves.
SlotsStand ==
  \A q \in 0 .. K - 1 : \A b \in Bucket : \A s \in DOMAIN slots[TreesOf(q)][b] :
    LET slot == slots[TreesOf(q)][b][s]
        h == slot.hash
    IN RowOf(digest, ListIndices(q, slot.attr)) =
         [d \in 1 .. q |-> 0] \o <<b * 2^RestBits + h[1]>> \o Tail(h)

\* At most MaxSols solutions are kept, each of 2^K different leaves that cancel,
\* its subtrees in canonical order, and none twice; the count tells what was
\* left out.
SolutionsSound ==
  /\ Len(sols) = Min2(nsols, MaxSols)
  /\ IsInjective(sols)
  /\ \A s \in Range(sols) :
       /\ Len(s) = 2^K /\ IsInjective(s)
       /\ RowOf(digest, s) = ZeroRow
       /\ s = InOrder(s)

\* Where no bucket and no list overflowed, the solutions are exactly the trees
\* none of whose inner nodes cancels the last hash word before its turn: no
\* colliding pair of a bucket is lost or met in the wrong round.
NothingMissed ==
  pc = "done" /\ ~full /\ nsols <= MaxSols =>
    Range(sols) =
      Trees(digest, Hashed, LAMBDA g, h, q : q < K => TailWord(g) # TailWord(h))

-----------------------------------------------------------------------------
(* The bytes a slot holds, at the parameters of the code: WN = 144, WK = 5 *)
(* and RESTBITS = 4, so that a digit is three bytes.                       *)

HashSize(q) == (144 - (q + 1) * 24 + 4 + 7) \div 8
HashWords(bytes) == (bytes + 3) \div 4

\* Slip: the hash is aligned to the front of its words.
NextBo_Front(q) == 0

NextBo(q) == HashWords(HashSize(q)) * 4 - HashSize(q)
DUnits(q) == HashWords(HashSize(q - 1)) - HashWords(HashSize(q))

\* The byte of the leaf hash at place p of a slot written in round q; -1 is none.
ByteAt(q, p) ==
  LET At[n \in 0 .. 4] ==
        [m \in 0 .. 15 |->
           IF n = 0 THEN IF m \in NextBo(0) .. NextBo(0) + HashSize(0) - 1
                         THEN 18 - HashSize(0) + m - NextBo(0) ELSE -1
           ELSE IF m < 4 * HashWords(HashSize(n)) THEN At[n - 1][m + 4 * DUnits(n)] ELSE -1]
  IN At[q][p]

\* Round q reads, at fixed places of a slot of round q - 1, the low nibble that
\* ends digit q - 1, the twenty bits of digit q that name a bucket, and in the
\* last word the last four bytes of the hash: after the words of the rounds
\* before were dropped, the bytes are still those of the right digits.
LayoutExact ==
  \A q \in 1 .. 5 :
    LET pb == NextBo(q - 1)
        last == 4 * HashWords(HashSize(q - 1))
    IN /\ ByteAt(q - 1, pb) = 3 * q - 1
       /\ q < 5 => \A n \in 1 .. 3 : ByteAt(q - 1, pb + n) = 3 * q + n - 1
       /\ \A n \in 1 .. 4 : ByteAt(q - 1, last - n) = 18 - n

=============================================================================
