\* Driver accesses in any order on the device built by any constructor.
CONSTANTS
  Values <- MCValues
  Constructors = {"in_out", "out", "sink"}
  LoopSize = 2
  MaxOut = 1
SPECIFICATION Spec
INVARIANT TypeOK
INVARIANT GhostRegistersAgree
INVARIANT IirWellFormed
INVARIANT DataBitMatchesBuffer
