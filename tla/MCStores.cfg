\* Plans: two clients, three days, three plans. Documents: two, two faults, free
\* rankings. Skills: two uploads, two toggles, a deletion, a crash.
\* Every store comes to rest when its bounds are used up.
SPECIFICATION Spec
CONSTANTS
  Clients = {"graph", "mcp"}
  Days = {1, 2, 3}
  MaxPlans = 3
  MaxMarks = 4
  Docs <- TwoDocs
  Chunks <- FourChunks
  TopK = 3
  FinalK = 2
  MaxPerDoc = 2
  K = 60
  WVector = 3
  WKeyword = 100
  MaxFaults = 2
  rich = rich
  plain = plain
  odd = odd
  broken = broken
  NoPackage = NoPackage
  Packages = {rich, plain, odd, broken}
  Ships <- MCShips
  Refs <- MCRefs
  ListOrder <- MCListOrder
  MaxInstalls = 2
  MaxToggles = 2
  MaxDeletes = 1
  MaxCrash = 1
INVARIANTS PlanMarks StoresAgree AnswersRanked SkillWhole
PROPERTY RejectedKeepsOld
CHECK_DEADLOCK FALSE
