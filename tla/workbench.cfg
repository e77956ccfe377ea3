SPECIFICATION Spec
CONSTANTS
  K = 3
  Bits = 3
  ByteBits = 3
  Points <- MCPoints
  ListDigests <- MCListDigests
  ListLength = 4
  ForkMultiplier = 2
  MaxNonce = 3
  RowDigests <- MCRowDigests
  RestBits = 1
  HashesPerBlake = 3
  NSlots = 6
  XFull = 4
  MaxSols = 2
  TailBits = 2
  BlockDigests <- MCBlockDigests
  Class = {2, 3, 5}
  LeafCount = 8
  Degree = {1, 3, 4}
  Iterations = {1, 2, 3}
  OutputLen = 2
  BatteryKeys = 8
  BatteryK = 3
  Lanes = 4
  Candidates <- MCCandidates
  Batches <- MCBatches
  Thread = {t1, t2}
  Measurer = t1
  SizeOf <- MCSizeOf
  Usize = 16
  MaxResets = 1
  Key <- MCKey
  Samples <- MCSamples
  BandPct = 5
  TornKeys <- MCTornKeys
  Tens = {10}
  MaxRuns = 5
  b1 = b1
  b2 = b2
  b3 = b3
INVARIANTS
  TuplesSound
  BucketsSound
  OnlyFullListsLose
  LayoutExact
  RowsExact
  GateSound
  PeakCovers
  EntriesEarlier
  VerdictRobust
CHECK_DEADLOCK FALSE
