CONSTANTS
  ChanCap = 1
  PipeCap = 1
  Turns = {"t", "u"}
  Refreshers = {"r"}
  Notes = 1
  MaxProcs = 2
  MaxLines = 3
  TurnNotes = 2
  Commands = {"c"}
  Patches = {"f"}
  MaxRequests = 1
  MaxRepeats = 1
  QueueCap = 1
  Profiles = {"work"}
  MinGap = 1
  StaleRetry = 1
  BackoffBase = 1
  BackoffCap = 2
  RetryAfter = 2
  Interval = 2
  Cooldown = 2
  CliTimeout = 1
  CarryMax = 1
  MaxTime = 2
  MaxEvents = 1
  Attempts = {1, 2}
  Submits = {"x", "y"}
  MaxRejects = 1
  Names = {"n", "m"}
  Handlers = {"x"}
  MaxApps = 1
  MaxOps = 3
  Chatter = {"log", "event"}
  TestPipeCap = 2
  MaxChatter = 2
SPECIFICATION FairSpec
INVARIANTS TypeOK   OneCliPerToken SeesAssigned
 
CHECK_DEADLOCK FALSE
