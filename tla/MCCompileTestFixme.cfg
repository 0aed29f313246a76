\* The rmc-fixme suite: its tests should fail until they are fixed.
CONSTANTS
  Modes = {"RmcFixme"}
  Headers <- MCHeaders
  Paths <- MCPaths
  ConfigEditions = {"none"}
  EnvRustflags <- MCEnvRustflags
SPECIFICATION Spec
INVARIANT VerdictReflectsTest
\* One test ends with its verdict.
CHECK_DEADLOCK FALSE
