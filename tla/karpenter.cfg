CONSTANTS
  Chain <- MCChain
  Instances = {}
  Missings = {{}, {"flux", "crs"}}
  Rotator = TRUE
  Initial <- MCBoth
  Installed = {FALSE}
  Reporting = {}
  Edits = {"delete", "toggle", "takeover", "object"}
  MaxEnv = 1
  MaxLag = 1
  MaxFail = 0
SPECIFICATION Spec
PROPERTIES ForeignIsKept CreatedIsGuarded
CHECK_DEADLOCK FALSE
