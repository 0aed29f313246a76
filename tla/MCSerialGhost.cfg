\* The pending half of equiv_config, asserted on entry to every handler.
CONSTANTS
  Values <- MCValues
  Constructors = {"in_out", "out", "sink"}
  LoopSize = 2
  MaxOut = 1
SPECIFICATION Spec
INVARIANT GhostPendingAgrees
