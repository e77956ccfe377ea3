SPECIFICATION Spec
CONSTANTS
  BlockBytes = 2
  WordValues = 6
  OutBytes = 2
  Byte = {0, 1}
  Kernel = {"ref"}
  Default = "ref"
  Faults <- NoFault
  Environment = {""}
  Battery <- SelfTestStrings
  Slot = {"s1"}
  OutLens = {1}
  Personals = {"ReqPoW"}
  Inputs <- Piece
  MaxMessage = 6
  Unset = Unset
INVARIANT
  ImportUsable
CHECK_DEADLOCK FALSE
