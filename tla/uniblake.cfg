SPECIFICATION Spec
CONSTANTS
  BlockBytes = 2
  WordValues = 6
  OutBytes = 2
  Byte = {0, 1}
  Kernel = {"ref", "neon"}
  Default = "ref"
  Faults <- NeonFaults
  Environment = {"", "neon"}
  Battery <- SelfTestStrings
  Slot = {s1, s2}
  OutLens = {1, 3}
  Personals = {"ReqPoW"}
  Inputs <- Piece
  MaxMessage = 6
  Unset = Unset
SYMMETRY Slots
INVARIANTS
  DigestsRight
  NeverMisread
CHECK_DEADLOCK FALSE
