CONSTANTS
  Names = {"n"}
  NoFile = NoFile
  Timings = {"a", "b"}
  Poll = "poll"
  Callers = {"c1"}
  Slots = {1}
  MaxFileEdits = 2
  MaxBoots = 1
  Devices = {"d1"}
  Sessions = {1, 2, 3, 4}
  MaxTaskEdits = 2
  MaxCrashes = 1
  Dreamers = {"n", "m"}
  Nightly = "n"
  Dreamt = {1, 2}
  MaxWipes = 1
  MaxTurns = 1
  MaxMishaps = 2
  Calls = {"x", "y"}
  Topics = {"who", "how"}
  MaxQuestions = 3
  MaxResumes = 2
  Handlers = {"x", "y"}
  Notes = {"n1", "n2"}
  Items = {"i"}
  Metrics = {"a", "b"}
  MaxDirectives = 1
  MaxCalls = 5
SPECIFICATION FairSpec
INVARIANTS TypeOK  AgreementsStand
 
CHECK_DEADLOCK FALSE
