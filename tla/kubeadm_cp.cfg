CONSTANTS
  Versions = {1, 2, 3}
  Endpoints = {"e1"}
  Changing = {"upgrade", "link", "cluster", "infra", "template", "probe", "machine"}
  MaxLag = 3
  MaxEnv = 6
  MaxFail = 1
SPECIFICATION FairSpec
INVARIANTS TypeOK MachineHasParts SettledIsBuilt
PROPERTIES KeepsContract BecomesReady
CHECK_DEADLOCK FALSE
