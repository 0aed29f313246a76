\* Matcher, walk, gate and rewrite together, bodies of up to 4 nodes.
CONSTANTS
  Bindings <- MCBindings
  Consts <- MCConsts
  NameOf <- MCNameOf
  ScopeOf <- MCScopeOf
  TyOf <- MCTyOf
  None = None
  Leaves <- ShadowLeaves
  Unaries = {}
  Binaries <- ShadowBinaries
  MaxNodes = 6
  Candidates <- MCCandidates
  Shapes <- MCShapes
  PatScope = "loop"
SPECIFICATION Spec
INVARIANT ScopeOrdering
\* One call of `check` ends with its decision.
CHECK_DEADLOCK FALSE
