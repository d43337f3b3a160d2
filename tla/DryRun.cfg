SPECIFICATION FairSpec
CONSTANTS
  plain = plain
  secure = secure
  unknown = unknown
  Endpoints <- All
  Protocol <- ProtocolOf
  Settings <- WithAndWithout
INVARIANTS TypeOK OneEventEach NothingLeftOpen SFTPLeftoverReported ExitTellsVerdicts
PROPERTIES Terminates
