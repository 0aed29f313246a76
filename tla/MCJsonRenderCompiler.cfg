\* fatal on the JSON the compiler emits.
CONSTANTS
  Outputs <- MCCompilerOutputs
SPECIFICATION Spec
INVARIANT CompilerJsonNeverPanics
CHECK_DEADLOCK FALSE
