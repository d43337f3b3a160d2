SPECIFICATION Spec
CONSTANTS
  UnknownFlags = {"-x"}
  Words = {"a", "c", "d", "d/a", "f", "l", "lo", "m"}
  Hidden = {".h"}
  MaxArgs = 4
  Base <- MCBase
  References <- MCReferences
  Home <- MCHome
  Defaults <- MCDefaults
  Inputs <- MCInputs
INVARIANTS SetupTypeOK ArgumentsAsMeant ExitCodeSaysWhy ErrorsMatchFaults PolicyIsLayered EndpointsRunnable
