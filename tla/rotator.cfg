CONSTANTS
  me = me
  other = other
  Policy <- MCPolicy
  DefaultPolicy <- MCDefault
  Life = 6
  Delay = 1
  MaxLost = 2
  MaxEnv = 2
  MaxTime = 6
  Keys = {me, other}
  Me = me
  Signatures = {"notReady", "tokenError", "probeForeign", "execForeign", "probeTakenOver", "execTakenOver", "synced"}
  TTL = 1
  MaxEntries = 1
SPECIFICATION ESpec
INVARIANTS TypeOK TokenNeverExpires LastEventIsCurrent ProblemsAreRepeated CacheIsBounded
PROPERTIES ForeignIsKept NeverSleeps
CHECK_DEADLOCK FALSE
