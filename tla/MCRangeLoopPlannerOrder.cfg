\* spec.md 8 additive-offset ordering against the order `check` emits.
CONSTANTS
  Starts <- MCStarts
  Ends <- MCEnds
  Types <- MCTypes
  Locals = {"n", "m"}
  Values = {0, 1, 2, 3}
  VecLens = {2, 3, 4}
  Indexed = "v"
  OtherColl = "w"
  OtherLen = 3
SPECIFICATION Spec
INVARIANT AdditiveOffsetTakeBeforeSkip
\* One call of `check` decides once; nothing follows the decision.
CHECK_DEADLOCK FALSE
