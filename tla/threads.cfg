SPECIFICATION Spec
CONSTANTS
  Thread = {t1, t2, t3}
  Kernel = {"ref", "neon"}
  Chosen = "ref"
  Forcing = {t3}
  InOrder = TRUE
  MaxCalls = 2
INVARIANTS
  NeverNull
  OneKernel
CHECK_DEADLOCK FALSE
