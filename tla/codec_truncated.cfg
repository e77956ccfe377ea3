CONSTANTS
  ParamWord = 65536
  MaxN = 104
  MaxK = 4
  LargeK = {127, 255, 511, 1023, 2047, 2600}
  MinTree = 1
  MaxTree = 4
  Masks <- MCMasks
  Requests <- MCRequests
  Solutions <- MCSolutions
  Digests <- MCDigests

SPECIFICATION Spec
CHECK_DEADLOCK FALSE

INVARIANTS
  RoundTrips
