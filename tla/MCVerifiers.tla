---------------------------- MODULE MCVerifiers ----------------------------
EXTENDS Verifiers

\* One segment of at most two leaves is {0}, everything else is zero.
FewMarkedDigests ==
  {[key \in Key |-> [s \in 1 .. K + 1 |->
       IF s = t /\ key \in {one, other} THEN {0} ELSE {}]] :
     one \in Key, other \in Key, t \in 1 .. K + 1}

\* The leaves 0 .. 2^K - 1 in order, with the children of any set of nodes of
\* the tree exchanged: the node of height t + 1 above position p is
\* <<t, p \div 2^(t + 1)>>.
TreeNodes == {<<t, n>> \in (0 .. K - 1) \X (0 .. 2^K - 1) : n < 2^(K - t - 1)}
Swapped(swap) ==
  [q \in 1 .. 2^K |->
      MapThenSumSet(LAMBDA t :
        2^t * (((((q - 1) \div 2^t) % 2) + swap[<<t, (q - 1) \div 2^(t + 1)>>]) % 2),
        0 .. K - 1)]

\* The same with at most two nodes exchanged.
FewSwaps ==
  {Swapped([node \in TreeNodes |-> IF node \in {one, other} THEN 1 ELSE 0]) :
     one \in TreeNodes \cup {<<K, 0>>}, other \in TreeNodes}
    \cup {Swapped([node \in TreeNodes |-> 0])}

\* Vectors refused before hashing, for each set of the three reasons to refuse.
Malformed ==
  {[q \in 1 .. 2^K - 1 |-> q - 1],
   [q \in 1 .. 2^K - 1 |-> (q - 1) \div 2],
   [q \in 1 .. 2^K + 1 |-> InitSize - 2^K + q],
   [q \in 1 .. 2^K - 1 |-> InitSize],
   [q \in 1 .. 2^K |-> (q - 1) \div 2],
   [q \in 1 .. 2^K |-> InitSize - 2^K + q],
   [q \in 1 .. 2^K |-> IF q = 2^K THEN InitSize ELSE (q - 1) \div 2]}

FewTreeInputs == FewSwaps \cup Malformed

=============================================================================
