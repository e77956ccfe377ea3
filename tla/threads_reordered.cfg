SPECIFICATION Spec
CONSTANTS
  Thread = {t1, t2}
  Kernel = {"ref", "neon"}
  Chosen = "ref"
  Forcing = {}
  InOrder = FALSE
  MaxCalls = 1
INVARIANTS
  NeverNull
CHECK_DEADLOCK FALSE
