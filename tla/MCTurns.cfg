CONSTANTS
  Says <- BlankNarration
  Blank = "_"
  MaxEvents = 6
  MaxParts = 2
  Targets = {"a", "b"}
  Home = "a"
  Chain <- ChainOfThree
  Modes = {"ask", "auto"}
  FirstMode = "ask"
  MaxTurns = 2
  MaxAttempts = 3
  MaxNotes = 1
  MaxEdits = 1
  Recent = 4
  MinMessages = 6
  Interval = 3
  MaxMessages = 10
  MaxJobs = 2
  Callers = {"x", "y"}
  Plans = {"p", "q"}
  NoPlan = "-"
  MaxOps = 4
  Permissions = {}
  Questions = {"q1"}
  Devices = {"d1", "d2"}
  QueueCap = 1
  MaxCards = 2
SPECIFICATION FairSpec
INVARIANTS TypeOK NotesInOrder HandleOfProject  RestoredOncePerCard
PROPERTIES TurnEnds KeepsContract
CHECK_DEADLOCK FALSE
