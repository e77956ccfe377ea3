---------------------------- MODULE MCCrossCheck ----------------------------
(* The cross-check on small trees, on the widths at the edges, and the     *)
(* parameters around them.                                                 *)
EXTENDS CrossCheck, FiniteSets

CONSTANTS MaxN, MaxK, MinTree, MaxTree, Masks

CONSTANT LargeK

(* Parameters: around every multiple of 8, with every k about the last     *)
(* valid one, and a few beyond the largest n.                              *)
MCRequests ==
  [n : {m \in 0..MaxN : m % 8 \in {0, 1}}, k : 0..MaxK]
    \cup [n : {0, 512}, k : LargeK]

Bits(v) == {b \in 0..15 : (v \div 2^b) % 2 = 1}
Differ(a, b) == (a \ b) \cup (b \ a)

(* Distinct indices counted up from a pattern, of cbl + 1 bits.            *)
Pattern(k, cbl, mask) ==
  [t \in 1..2^k |-> Differ(Bits(t - 1), mask) \cap 0..cbl]

(* Every parameter set of small trees, and of trees of 128 leaves those at *)
(* both ends and just past the upper one.                                  *)
MCSolutions(n, k) ==
  IF k \in MinTree..MaxTree
  THEN {Pattern(k, CollisionBits(n, k), mask) : mask \in Masks}
  ELSE IF k = 7 /\ n \in {64, 200, 208}
  THEN {Pattern(k, CollisionBits(n, k), 0..31)}
  ELSE {}

MCDigests(bytes) ==
  {[t \in 1..bytes |-> Differ(Bits(t), mask) \cap LowByte] : mask \in Masks}

Odd == {1, 3, 5, 7, 9, 11, 13, 15, 17, 19, 21, 23, 25, 27, 29, 31}
MCMasks == {0..31, Odd}
=============================================================================
