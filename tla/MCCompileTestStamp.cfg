\* Stamps, in the suites where a header can ask for a failure.
CONSTANTS
  Modes = {"RMC", "RmcFixme"}
  Headers <- MCHeaders
  Paths <- MCPaths
  ConfigEditions = {"none"}
  EnvRustflags <- MCEnvRustflags
SPECIFICATION Spec
INVARIANT StampOnlyForPassedTests
\* One test ends with its verdict.
CHECK_DEADLOCK FALSE
