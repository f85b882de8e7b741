CONSTANTS
  c1 = c1
  c2 = c2
  Clusters = {c1, c2}
  Hubs = {"h1", "h2"}
  Issuers = {"i1", "i2"}
  Changing = {"enable", "hub", "takeover", "delete", "apis", "ack", "roles"}
  Off = {c1}
  MaxUid = 2
  MaxEvents = 2

SPECIFICATION FairSpec
INVARIANTS TypeOK SteadyIsProvisioned
PROPERTIES ForeignIsKept Provisions
CHECK_DEADLOCK FALSE
