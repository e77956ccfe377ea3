SPECIFICATION Spec
CONSTANTS
  K = 2
  CollisionBits = 1
  Digests <- PoolDigests
INVARIANTS
  TypeOK
  RowsAreXors
  FoundValid
CHECK_DEADLOCK FALSE
