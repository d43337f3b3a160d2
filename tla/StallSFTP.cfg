SPECIFICATION FairSpec
CONSTANTS
  ConnectTimeouts = {1}
  StallTimeouts = {2}
  MaxOps = 2
PROPERTIES StalledCallFails
