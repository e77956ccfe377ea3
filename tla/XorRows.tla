------------------------------ MODULE XorRows ------------------------------
(***************************************************************************)
(* Rows of K + 1 words of Bits bits, and the binary trees of leaves whose  *)
(* rows cancel word by word: what the solvers of the corpus look for.  A   *)
(* hash function is any function from leaf numbers to rows.                *)
(***************************************************************************)
EXTENDS Naturals, Sequences, FiniteSets, Functions

CONSTANTS
  K,    \* height of the tree: a solution has 2^K leaves
  Bits  \* bits of a word, collided in one round

ASSUME WordsAssumption == K \in Nat \ {0} /\ Bits \in Nat \ {0}

Word == 0 .. 2^Bits - 1

\* Bit by bit: the XOR of the low b bits.
XorBits[b \in 0 .. Bits] ==
  [x \in Word |-> [y \in Word |->
     IF b = 0 THEN 0 ELSE 2 * XorBits[b - 1][x \div 2][y \div 2] + ((x + y) % 2)]]

XorTable == XorBits[Bits]

XorWord(x, y) == XorTable[x][y]

XorSeq(g, h) == [s \in DOMAIN g |-> XorWord(g[s], h[s])]

ZeroRow == [s \in 1 .. K + 1 |-> 0]

\* The XOR of the rows of the leaves listed in v.
RowOf(digest, v) ==
  LET X[n \in 0 .. Len(v)] == IF n = 0 THEN ZeroRow ELSE XorSeq(X[n - 1], digest[v[n]])
  IN X[Len(v)]

-----------------------------------------------------------------------------
(* The reference definition: trees built bottom-up from sets, children in  *)
(* the order of their first leaves, no leaf used twice.                    *)

Disjoint(v, w) == Range(v) \cap Range(w) = {}

\* The trees over a set of leaves whose node of height r cancels word r, as far
\* as the nodes pass Keep(row of the left child, row of the right child, r).
Trees(digest, leaves, Keep(_, _, _)) ==
  LET T[r \in 0 .. K] ==
        IF r = 0 THEN {<< <<l>>, digest[l] >> : l \in leaves}
        ELSE {<<p[1][1] \o p[2][1], XorSeq(p[1][2], p[2][2])>> :
                p \in {q \in T[r - 1] \X T[r - 1] :
                         /\ q[1][1][1] < q[2][1][1]
                         /\ q[1][2][r] = q[2][2][r]
                         /\ Disjoint(q[1][1], q[2][1])
                         /\ Keep(q[1][2], q[2][2], r)}}
  IN {t[1] : t \in {u \in T[K] : u[2] = ZeroRow}}

\* The same tree with the children of every node in order.
InOrder(v) ==
  LET Half(u, h) == SubSeq(u, h * (Len(u) \div 2) + 1, (h + 1) * (Len(u) \div 2))
      Sorted[h \in 0 .. K] ==
        [u \in Seq(Nat) |->
           IF h = 0 THEN u
           ELSE LET a == Sorted[h - 1][Half(u, 0)]
                    b == Sorted[h - 1][Half(u, 1)]
                IN IF a[1] < b[1] THEN a \o b ELSE b \o a]
  IN Sorted[K][v]

=============================================================================
