SPECIFICATION StreamsSpec
CONSTANTS
  BlockBytes = 2
  WordValues = 3
  OutBytes = 2
  Byte = {0, 1}
  OutLens = {1}
  Personals = {"ReqPoW"}
  MaxMessage = 7
  Inputs <- Pieces
INVARIANTS
  TypeOK
  ChainIsMessage
  LastBlockHeld
PROPERTIES
  ImplementsObject
  Returns
CHECK_DEADLOCK FALSE
