SPECIFICATION FairSpec
CONSTANTS
  patient = patient
  hasty = hasty
  unknown = unknown
  Endpoints <- Edges
  NumFiles = 2
  Protocol <- ProtocolOf
  Attempts <- AttemptsOf
  MaxConsecutiveConnectFailures <- LimitOf
  Overwrite <- OverwriteOf
  StallTimeout <- AllGuarded
  NoVerify = TRUE
  LocallyDenied <- Second
  Chunks = 1
INVARIANTS
  TallyIsExact FailuresExplained AttemptBudget
  ChannelDiscipline
PROPERTIES Terminates ImplementsFairContract RemoteFilesKept
