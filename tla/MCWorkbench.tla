---------------------------- MODULE MCWorkbench ----------------------------
(***************************************************************************)
(* An instance of Workbench: small solvers on a family of hash functions,  *)
(* chosen so that lists fill up, forks run out, duplicates come before and *)
(* after solutions, and some functions have complete attempts.             *)
(***************************************************************************)
EXTENDS Workbench, TLC

CONSTANTS b1, b2, b3

Mixed(z, l, s) ==
  (z * (l + 1) * (7 * s + 3) + 5 * (l + 1) * (l + 1) * (l + 1) + s * s * l * z + 11 * s * z * z)
    % 251

Row(z, l) == [s \in 1 .. K + 1 |-> (Mixed(z, l, s) \div 3) % 2^Bits]

MCRowDigests == {[l \in 0 .. 2^(Bits + 1) - 1 |-> Row(z, l)] : z \in 1 .. 200}

MCBlockDigests == {[l \in 0 .. 2^(Bits + 1) + HashesPerBlake - 1 |-> Row(z, l)] : z \in 1 .. 200}

MCPoints ==
  {[n |-> 6, k |-> 4], [n |-> 12, k |-> 8], [n |-> 6, k |-> 2], [n |-> 9, k |-> 4],
   [n |-> 3, k |-> 1], [n |-> 5, k |-> 2], [n |-> 6, k |-> 3], [n |-> 6, k |-> 8]}

ToBytes(x, len) == [p \in 1 .. len |-> (x \div 2^(ByteBits * (len - p))) % 2^ByteBits]

MCListDigests(p) ==
  {[x \in (0 .. p.k - 1) \X (0 .. 2^(p.n \div (Cs!Lg(p.k) + 1)) - 1) |->
      ToBytes(((Mixed(z, x[2], x[1]) \div 2) * 37
               + (Mixed(z + 5, x[2] + 1, x[1] + 2) \div 2)) % 2^p.n,
              p.n \div ByteBits)] : z \in 1 .. 40}

MCCandidates ==
  [built: BOOLEAN, len: {2, 3}, class: 0 .. 4, counter: 1 .. 5, lane: {0, 3, Lanes}, tail: BOOLEAN]

MCBatches == {[k |-> 2, count |-> 8], [k |-> 3, count |-> 10]}

MCSizeOf == b1 :> 1 @@ b2 :> 1 @@ b3 :> 2

MCKey == <<"solve", "verify">>

MCSamples == {<<100, 112, 124>>, <<140, 141, 142>>}

MCTornKeys == {"verify", "solv{"}

=============================================================================
