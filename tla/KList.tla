------------------------------- MODULE KList -------------------------------
(***************************************************************************)
(* The paper's k-list solver (SOLVER_CORPUS/cs-rs): the k lists of 2^ell   *)
(* items are merged like the carries of a binary counter, each merge       *)
(* matching the low bits of two lists and shifting them out.  A value is a *)
(* big-endian sequence of bytes; the hash function is free.                *)
(***************************************************************************)
EXTENDS Naturals, Sequences, FiniteSets, FiniteSetsExt

CONSTANTS
  ByteBits,   \* bits of a byte
  Points,     \* the (n, k) the constructor is given
  Digests(_)  \* the hash functions considered for a point

VARIABLES
  pc,
  point,   \* [n, k]
  digest,  \* compute_item: from (list, item) to bytes
  i,       \* lists hashed
  depth,   \* current_depth
  merged,  \* merged_list
  stack,   \* lists with their depths, the last on top
  sols,    \* the index vectors returned
  verdict  \* verify_results of them

vars == <<pc, point, digest, i, depth, merged, stack, sols, verdict>>

-----------------------------------------------------------------------------
(* Big-endian byte strings.                                                *)

ByteRange == 0 .. 2^ByteBits - 1

XorByte ==
  [x \in ByteRange |-> [y \in ByteRange |->
     MapThenSumSet(LAMBDA b : 2^b * (((x \div 2^b) + (y \div 2^b)) % 2), 0 .. ByteBits - 1)]]

BigXor(a, b) == [p \in DOMAIN a |-> XorByte[a[p]][b[p]]]

\* Slip: the bits of the next byte up are not shifted in.
BigShr_NoCarry(v, bits) ==
  [p \in DOMAIN v |->
     LET src == p - bits \div ByteBits IN
       IF p <= bits \div ByteBits THEN 0 ELSE v[src] \div 2^(bits % ByteBits)]

\* Byte p of the result joins the high bits of byte src with the low bits of the
\* byte before it, the more significant one.
BigShr(v, bits) ==
  [p \in DOMAIN v |->
     LET src   == p - bits \div ByteBits
         shift == bits % ByteBits
         above == IF p - 1 <= bits \div ByteBits THEN 0 ELSE v[src - 1]
     IN IF p <= bits \div ByteBits THEN 0
        ELSE IF shift = 0 THEN v[src]
        ELSE (v[src] \div 2^shift) + ((above * 2^(ByteBits - shift)) % 2^ByteBits)]

\* The low bits of a value, gathered from its last byte on.
LowBitsKey(v, bits) ==
  MapThenSumSet(
    LAMBDA p :
      LET taken == (Len(v) - p) * ByteBits
          take  == IF taken + ByteBits <= bits THEN ByteBits ELSE bits - taken
      IN IF taken >= bits THEN 0 ELSE (v[p] % 2^take) * 2^taken,
    DOMAIN v)

IsAllZero(v) == \A p \in DOMAIN v : v[p] = 0

-----------------------------------------------------------------------------
(* The constructor.                                                        *)

Lg(k)  == IF k = 0 THEN 0 ELSE CHOOSE l \in 0 .. k : 2^l <= k /\ k < 2^(l + 1)
LgK    == Lg(point.k)
Ell    == point.n \div (LgK + 1)

Accepts(n, k) == n % ByteBits = 0 /\ 2^Lg(k) = k /\ n % (Lg(k) + 1) = 0

ComputeItem(list, j) == digest[list, j]

HashList(list) ==
  [j \in 1 .. 2^Ell |-> [value |-> ComputeItem(list, j - 1), index |-> <<j - 1>>]]

-----------------------------------------------------------------------------
Joined(a, b) == a.index \o b.index

\* Every pair that agrees on its low bits, in the order of the second list.
HashMerge(l1, l2, bits) ==
  LET Made[q \in 0 .. Len(l2)] ==
        IF q = 0 THEN << >>
        ELSE LET bucket == SelectSeq(l1, LAMBDA a : LowBitsKey(a.value, bits)
                                                      = LowBitsKey(l2[q].value, bits))
             IN Made[q - 1] \o
                  [p \in DOMAIN bucket |->
                     [value |-> BigShr(BigXor(bucket[p].value, l2[q].value), bits),
                      index |-> Joined(bucket[p], l2[q])]]
  IN Made[Len(l2)]

\* The last merge matches the rest of the value, two blocks of it.
MaskBits == IF depth = LgK - 1 THEN 2 * Ell ELSE Ell

Top == stack[Len(stack)]

Carries == stack # << >> /\ Top.depth = depth

Verify(solutions) ==
  \/ solutions = << >>
  \/ /\ \A s \in DOMAIN solutions : Len(solutions[s]) = point.k
     /\ \A s \in DOMAIN solutions :
          LET Acc[l \in 0 .. point.k] ==
                IF l = 0 THEN [b \in 1 .. point.n \div ByteBits |-> 0]
                ELSE BigXor(Acc[l - 1], ComputeItem(l - 1, solutions[s][l]))
          IN IsAllZero(Acc[point.k])

-----------------------------------------------------------------------------
Init ==
  /\ pc = "new"
  /\ point \in Points
  /\ digest = << >>
  /\ i = 0 /\ depth = 0
  /\ merged = << >> /\ stack = << >>
  /\ sols = << >>
  /\ verdict = FALSE

Refuse ==
  /\ pc = "new"
  /\ ~Accepts(point.n, point.k)
  /\ pc' = "refused"
  /\ UNCHANGED <<point, digest, i, depth, merged, stack, sols, verdict>>

New ==
  /\ pc = "new"
  /\ Accepts(point.n, point.k)
  /\ digest' \in Digests(point)
  /\ pc' = "start"
  /\ UNCHANGED <<point, i, depth, merged, stack, sols, verdict>>

FirstList ==
  /\ pc = "start"
  /\ stack' = <<[list |-> HashList(0), depth |-> 0]>>
  /\ i' = 1
  /\ pc' = "lists"
  /\ UNCHANGED <<point, digest, depth, merged, sols, verdict>>

NextList ==
  /\ pc = "lists"
  /\ i < point.k
  /\ merged' = HashList(i)
  /\ depth' = 0
  /\ pc' = "carry"
  /\ UNCHANGED <<point, digest, i, stack, sols, verdict>>

Carry ==
  /\ pc = "carry"
  /\ Carries
  /\ merged' = HashMerge(Top.list, merged, MaskBits)
  /\ depth' = depth + 1
  /\ stack' = SubSeq(stack, 1, Len(stack) - 1)
  /\ UNCHANGED <<pc, point, digest, i, sols, verdict>>

Push ==
  /\ pc = "carry"
  /\ ~Carries
  /\ stack' = Append(stack, [list |-> merged, depth |-> depth])
  /\ i' = i + 1
  /\ pc' = "lists"
  /\ UNCHANGED <<point, digest, depth, merged, sols, verdict>>

SingleRoot == Len(stack) = 1 /\ stack[1].depth = LgK

\* The expect on the merge tree's invariant, then the root's index vectors.
Finish ==
  /\ pc = "lists"
  /\ i >= point.k
  /\ IF SingleRoot
     THEN /\ sols' = [s \in DOMAIN stack[1].list |-> stack[1].list[s].index]
          /\ pc' = "solved"
     ELSE pc' = "panic" /\ UNCHANGED sols
  /\ UNCHANGED <<point, digest, i, depth, merged, stack, verdict>>

VerifyResults ==
  /\ pc = "solved"
  /\ verdict' = Verify(sols)
  /\ pc' = "done"
  /\ UNCHANGED <<point, digest, i, depth, merged, stack, sols>>

Next ==
  \/ Refuse \/ New \/ FirstList \/ NextList \/ Carry \/ Push
  \/ Finish \/ VerifyResults

Spec == Init /\ [][Next]_vars /\ WF_vars(Next)

-----------------------------------------------------------------------------
(* What a list of the stack stands for, over integers.                     *)

IntOf(v) == MapThenSumSet(LAMBDA p : v[p] * 2^(ByteBits * (Len(v) - p)), DOMAIN v)

\* The XOR of the digests of v over the lists from first.
XorOf(first, v, len) ==
  LET X[l \in 0 .. Len(v)] ==
        IF l = 0 THEN [b \in 1 .. len |-> 0]
        ELSE BigXor(X[l - 1], ComputeItem(first + l - 1, v[l]))
  IN X[Len(v)]

XorInt(first, v) == IntOf(XorOf(first, v, point.n \div ByteBits))

\* The vectors over the lists from first whose every node of height h below d
\* cancels its low h * Ell bits; the root of the whole tree cancels all bits.  Over
\* is by height e, over the m-th 2^e lists from first.
Consistent(first, d) ==
  LET Over[e \in 0 .. d] ==
        [m \in 0 .. 2^(d - e) - 1 |->
           IF e = 0 THEN {<<j>> : j \in 0 .. 2^Ell - 1}
           ELSE {v \in {a \o b : a \in Over[e - 1][2 * m], b \in Over[e - 1][2 * m + 1]} :
                   XorInt(first + m * 2^e, v) % 2^((IF e = LgK THEN e + 1 ELSE e) * Ell) = 0}]
  IN Over[d][0]

\* The order of the merges: by the last index, then the one before it, ...
Before(v, w) ==
  \E p \in DOMAIN v : v[p] < w[p] /\ \A q \in p + 1 .. Len(v) : v[q] = w[q]

Exactly(vectors, first, d) ==
  /\ Range(vectors) = Consistent(first, d)
  /\ \A p \in 1 .. Len(vectors) - 1 : Before(vectors[p], vectors[p + 1])

FirstOf(p) == MapThenSumSet(LAMBDA q : 2^stack[q].depth, 1 .. p - 1)

\* Between lists the stack is the binary counter of the lists hashed: depths fall
\* from bottom to top and add up to i.  The list at depth d is, once and in order,
\* every vector over its own 2^d lists whose nodes all cancel, with what is left
\* of its XOR: no carry mixes levels and no shift loses or keeps a bit too many.
StackIsCounter ==
  pc = "lists" /\ point.k > 1 =>
    /\ \A p \in 1 .. Len(stack) - 1 : stack[p].depth > stack[p + 1].depth
    /\ FirstOf(Len(stack) + 1) = i
    /\ \A p \in DOMAIN stack :
         LET list  == stack[p].list
             first == FirstOf(p)
         IN /\ Exactly([e \in DOMAIN list |-> list[e].index], first, stack[p].depth)
            /\ \A e \in DOMAIN list :
                 IntOf(list[e].value) =
                   IF stack[p].depth = LgK THEN 0
                   ELSE XorInt(first, list[e].index) \div 2^(stack[p].depth * Ell)

\* solve never hits its expect, and what it returns for two lists or more passes
\* verify_results.  For one list every item is returned, zero or not.
SolvedVerifies ==
  /\ pc # "panic"
  /\ pc = "done" /\ point.k > 1 => verdict

=============================================================================
