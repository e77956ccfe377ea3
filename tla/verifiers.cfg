SPECIFICATION Spec
CONSTANTS
  K = 3
  CollisionBits = 2
  Digests <- FewMarkedDigests
  Inputs <- FewTreeInputs
INVARIANTS
  OkIffValid
  ErrorIsFirst
  FoldShape
  TakenOnce
PROPERTIES
  SameAsReference
  Returns
CHECK_DEADLOCK FALSE
