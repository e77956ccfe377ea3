----------------------------- MODULE MCBackends -----------------------------
EXTENDS Backends

\* Leaves whose segments are spread by a small mixing function, so that lists
\* neither empty nor explode: segment s of leaf l is a[s] * l + c[s] * l^2 \div 2.
BitsOf(n) == {b \in Bit : (n \div 2^b) % 2 = 1}
LeafOf(key) == key[2] * K + key[1]
SpreadDigests ==
  {[key \in Key |-> [s \in 1 .. K + 1 |->
       BitsOf(a[s] * LeafOf(key) + c[s] * ((LeafOf(key)^2) \div 2))]] :
     a \in [1 .. K + 1 -> 1 .. 3], c \in [1 .. K + 1 -> 0 .. 1]}

\* Leaves collide in pairs in the first round and nothing collides after it.
DeadEndDigest ==
  [key \in Key |-> [s \in 1 .. K + 1 |->
     IF s = 1 \/ LeafOf(key) % 2 = 1 THEN BitsOf(LeafOf(key) \div 2) ELSE {}]]

MixedDigests == SpreadDigests \cup {DeadEndDigest}

\* One hash function on which no list runs empty: filling takes most states.
SomeDigests ==
  {[key \in Key |-> [s \in 1 .. K + 1 |-> BitsOf(LeafOf(key))]]}

\* Functions on which runs of two to four rows with equal segments come in both
\* rounds, and up to three solutions.
TiedDigests ==
  {[key \in Key |-> [s \in 1 .. K + 1 |->
       LET l == LeafOf(key) + 1
       IN  BitsOf(((z * l * (7 * s + 3) + 5 * l^3 + s * s * (l - 1) * z) % 251) \div 3)]] :
     z \in {2, 4, 5, 8, 9, 12, 22}}

=============================================================================
