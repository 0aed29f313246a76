\* The rewrite of `check` against the meaning of the loop.
CONSTANTS
  Starts <- MCStarts
  Ends <- MCEnds
  Types <- MCTypes
  Locals = {"n", "m"}
  Values = {0, 1, 2, 3}
  VecLens = {2, 3, 4}
  Indexed = "v"
  OtherColl = "w"
  OtherLen = 3
SPECIFICATION Spec
INVARIANT SuggestionVisitsLoopIndices
INVARIANT MutableRewriteNeverNamesCollection
\* One call of `check` decides once; nothing follows the decision.
CHECK_DEADLOCK FALSE
