CONSTANTS
  Handlers = {"x", "y"}
  None = "-"
  Schemas = {5, 13, 19, 23, 42}
  MaxRows = 1
  MaxUpgrades = 1
  Daemons = {"d"}
  Runs = {"r", "q"}
  Lan = TRUE
  MaxBoots = 3
  Clients = {"a", "b"}
  MaxRotations = 2
  MaxEvents = 2
  MaxRestarts = 1
  Profiles = {"p"}
  Sessions = {"s"}
  Absent = "absent"
  MaxSettings = 4
  Writers = {"x", "y"}
  Photos = {"p"}
  MaxSeq = 2
  Cli = "cli"
  Releases = {1, 2}
  MaxMishaps = 1
  Tools = {"t", "u"}
  Legacy = {"t", "u"}
  MaxCrashes = 1
  MaxInstalls = 2
  Sources = {"a", "b"}
  NoSkill = NoSkill
  Own = Own
  MaxHeads = 1
  MaxSkillCalls = 3
  GitOps = {o1, o2}
  Nobody = Nobody
  MaxHistories = 2
  MaxSeconds = 2
  MaxGitCalls = 2
SYMMETRY GitSymmetry
SPECIFICATION Spec
INVARIANTS TypeOK   OldSocketsClose
CHECK_DEADLOCK FALSE
