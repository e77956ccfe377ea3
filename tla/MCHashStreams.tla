---------------------------- MODULE MCHashStreams ----------------------------
EXTENDS HashStreams

UpTo(n) == UNION {[1 .. len -> Byte] : len \in 0 .. n}
Pieces == UpTo(MaxMessage)
=============================================================================
