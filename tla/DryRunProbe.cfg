SPECIFICATION FairSpec
CONSTANTS
  plain = plain
  secure = secure
  unknown = unknown
  Endpoints <- OnlyFTP
  Protocol <- ProtocolOf
  Settings <- WithAndWithout
INVARIANTS WritableMeansProbeGone
