\* Every expression kind, bodies of up to 4 nodes.
CONSTANTS
  Bindings <- MCBindings
  Consts <- MCConsts
  NameOf <- MCNameOf
  ScopeOf <- MCScopeOf
  TyOf <- MCTyOf
  None = None
  Leaves <- AllLeaves
  Unaries <- AllUnaries
  Binaries <- AllBinaries
  MaxNodes = 4
SPECIFICATION Spec
INVARIANT TypeOK
INVARIANT ContextAtVisit
PROPERTY WalkImplementsClassification
\* The walk of one loop body ends; nothing follows it in this module.
CHECK_DEADLOCK FALSE
