CONSTANTS
  Asks = {"a", "b"}
  Channels = {"w"}
  QueueDepth = 2
  MaxAsks = 3
  MaxPanics = 1
  Devices = {"phone", "pad", "desk"}
  Phones = {"phone", "pad"}
  Kinds = {"item", "access", "secret", "question", "permission", "completion"}
  NoOne = "-"
  MaxGrants = 1
  PhoneIds = {"p"}
  MaxTokens = 2
  MaxPushes = 2
  MaxRequests = 2
  MaxFaults = 2
SPECIFICATION FairSpec
INVARIANTS TypeOK 
PROPERTIES QueuedResolutionSettles
CHECK_DEADLOCK FALSE
