----------------------------- MODULE MCUniBlake -----------------------------
EXTENDS UniBlake, TLC

Piece == {<<1, 0, 1>>}
SelfTestStrings == {<<>>, <<1>>, <<1, 1>>, <<1, 0, 1>>}
\* The second kernel is wrong throughout, or only past the low counter word.
NeonFaults ==
  {[k \in Kernel |-> IF k = "neon" THEN how ELSE "none"] : how \in {"wrong", "high"}}
NoFault == [Kernel -> {"none"}]
Slots == Permutations(Slot)
=============================================================================
