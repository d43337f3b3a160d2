SPECIFICATION Spec
CONSTANTS
  patient = patient
  hasty = hasty
  unknown = unknown
  Endpoints <- Deep
  NumFiles = 3
  Protocol <- ProtocolOf
  Attempts <- AttemptsOf
  MaxConsecutiveConnectFailures <- LimitOf
  Overwrite <- OverwriteOf
  StallTimeout <- AllGuarded
  NoVerify = FALSE
  LocallyDenied <- Nothing
  Chunks = 1
INVARIANTS NoNewTransferAfterCancel
