CONSTANTS
  Backend = "external"
  Versions = {"v1"}
  Endpoints = {"e1"}
  Statuses <- StatusesKubeconfig
  Changing = {"cluster", "source", "target", "backend"}
  MaxLag = 3
  MaxUid = 2
  MaxEnv = 3
  MaxFail = 2
SPECIFICATION Spec
INVARIANTS SettledIsProjected
CHECK_DEADLOCK FALSE
