CONSTANTS
  KroSpecs = {"s1", "s2"}
  Changing = {"mode", "spec", "link", "cluster", "rgd", "reports"}
  MaxLag = 2
  MaxEnv = 4
  MaxFail = 1
SPECIFICATION FairSpec
INVARIANTS TypeOK InstanceIsIdentified SettledIsMirrored
PROPERTIES Mirrors
CHECK_DEADLOCK FALSE
