\* Matcher, walk, gate and rewrite together, bodies of up to 4 nodes and
\* two-index bodies of 5 and 6 nodes.
CONSTANTS
  Bindings <- MCBindings
  Consts <- MCConsts
  NameOf <- MCNameOf
  ScopeOf <- MCScopeOf
  TyOf <- MCTyOf
  None = None
  Leaves <- SoundLeaves
  Unaries <- SoundUnaries
  Binaries <- SoundBinaries
  MaxNodes = 4
  Bodies <- [HirBody] SoundBodies
  Candidates <- MCCandidates
  Shapes <- MCShapes
  PatScope = "loop"
SPECIFICATION Spec
INVARIANT RewriteIsSound
\* One call of `check` ends with its decision.
CHECK_DEADLOCK FALSE
