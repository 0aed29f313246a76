\* An RMC test run by a compiletest that inherited RUSTFLAGS.
CONSTANTS
  Modes = {"RMC"}
  Headers <- MCHeaders
  Paths <- MCPaths
  ConfigEditions = {"none"}
  EnvRustflags <- MCExportedRustflags
SPECIFICATION Spec
INVARIANT SameFlagsEveryCompilation
\* One test ends with its verdict.
CHECK_DEADLOCK FALSE
