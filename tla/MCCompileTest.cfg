\* The RMC, Stub, Expected and CargoRMC suites.
CONSTANTS
  Modes = {"RMC", "Stub", "Expected", "CargoRMC"}
  Headers <- MCHeaders
  Paths <- MCPaths
  ConfigEditions = {"none", "cfg"}
  EnvRustflags <- MCEnvRustflags
SPECIFICATION Spec
INVARIANT VerdictReflectsTest SameFlagsEveryCompilation
\* One test ends with its verdict.
CHECK_DEADLOCK FALSE
