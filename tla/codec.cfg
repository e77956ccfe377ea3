CONSTANTS
  ParamWord = 65536
  MaxN = 520
  MaxK = 70
  LargeK = {127, 255, 511, 1023, 2047, 2600, 2621, 8190, 8191, 8192, 65535}
  MinTree = 1
  MaxTree = 4
  Masks <- MCMasks
  Requests <- MCRequests
  Solutions <- MCSolutions
  Digests <- MCDigests

SPECIFICATION Spec
CHECK_DEADLOCK FALSE

INVARIANTS
  NoBitLost
  NoPanic
  OutputExact
  BoundsExact
  CrossCheckExact
