SPECIFICATION Spec
CONSTANTS
  K = 2
  CollisionBits = 2
  Digests <- MixedDigests
  ParallelDigests <- SomeDigests
  CppDigests <- TiedDigests
  BucketBits = {0, 1}
  Main = main
  Worker = {w1, w2}
  Idle = Idle
INVARIANTS
  SameSolutions
  NoDuplicates
  BuffersAgree
  PointersSound
PROPERTIES
  SameAsReference
  ImplementsRounds
  Joins
CHECK_DEADLOCK FALSE
