SPECIFICATION FairSpec
CONSTANTS
  ConnectTimeouts = {1, 2}
  StallTimeouts = {0, 1, 3}
  MaxOps = 2
INVARIANTS StallTypeOK ConnectWithinTwice TimeoutMeansIdle OneUnguardedRead
PROPERTIES ConnectEnds CallsEnd
