CONSTANTS
  Chain <- MCChain
  Instances = {}
  Missings = {{}}
  Rotator = TRUE
  Initial <- MCPlain
  Installed = {FALSE}
  Reporting = {"ack", "profiles", "kubeconfig"}
  Edits = {}
  MaxEnv = 0
  MaxLag = 0
  MaxFail = 1
SPECIFICATION Spec
INVARIANTS BothGroupsPatched
CHECK_DEADLOCK FALSE
