CONSTANTS
  Chain <- MCChain
  Instances = {i1, i2}
  Missings = {{}}
  Rotator = TRUE
  Initial <- MCPlain
  Installed = {TRUE}
  Reporting = {}
  Edits = {"delete"}
  MaxEnv = 1
  MaxLag = 0
  MaxFail = 1
SPECIFICATION FairSpec
INVARIANTS TypeOK
PROPERTIES ReleasedIsClean DeletionCompletes
CHECK_DEADLOCK FALSE
