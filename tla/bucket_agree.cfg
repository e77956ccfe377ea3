SPECIFICATION Spec
CONSTANTS
  K = 2
  CollisionBits = 2
  Digests <- MixedDigests
  ParallelDigests = {}
  CppDigests = {}
  BucketBits = {1}
  Main = main
  Worker = {w1}
  Idle = Idle
INVARIANT
  SameSolutions
CHECK_DEADLOCK FALSE
