CONSTANTS
  Backend = "kro"
  Versions = {"v1", "v2"}
  Endpoints = {"e1", "e2"}
  Statuses <- StatusesBasic
  Changing = {"version", "backend", "lost", "rgd", "cfg"}
  MaxLag = 2
  MaxUid = 1
  MaxEnv = 3
  MaxFail = 1
SPECIFICATION FairSpec
INVARIANTS TypeOK SettledIsProjected
PROPERTIES KeepsContract Converges
CHECK_DEADLOCK FALSE
