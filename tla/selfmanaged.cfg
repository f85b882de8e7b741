CONSTANTS
  Backend = "kubeadm"
  Versions = {"v1", "v2"}
  VersionNames <- MCVersionNames
  Endpoints = {"e1"}
  Statuses = {}
  Changing = {"version", "owner"}
  KChanging = {"machine"}
  MaxLag = 2
  MaxUid = 1
  MaxEnv = 3
  MaxFail = 0
SPECIFICATION SSpec
INVARIANTS ReadyIsBuilt SettledIsBuilt
CHECK_DEADLOCK FALSE
PROPERTIES KeepsContract
