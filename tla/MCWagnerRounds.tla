--------------------------- MODULE MCWagnerRounds ---------------------------
EXTENDS WagnerRounds

\* Rows that are zero but for at most one set bit: they share segments
\* pairwise, so collisions, zero roots and non-zero roots all occur.
RowPool ==
  {[s \in 1 .. K + 1 |-> IF s = t THEN {0} ELSE {}] : t \in 0 .. K + 1}

PoolDigests == [Key -> RowPool]

=============================================================================
