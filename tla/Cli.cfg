SPECIFICATION CliFairSpec
CONSTANTS
  once = once
  twice = twice
  Endpoints <- Both
  NumFiles = 1
  Protocol <- ProtocolOf
  Attempts <- AttemptsOf
  MaxConsecutiveConnectFailures <- LimitOf
  Overwrite <- OverwriteOf
  StallTimeout <- Unguarded
  NoVerify = FALSE
  LocallyDenied <- Nothing
  Chunks = 0
  MaxSignals = 3
INVARIANTS CliTypeOK ExitCodeTruthful FirstSignalStillReports
PROPERTIES SecondSignalExits
