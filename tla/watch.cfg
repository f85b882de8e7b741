CONSTANTS
  Kinds = {"a", "b"}
  Keys = {"a1","a2","b1"}
  kindOf <- ThreeObjects
  Callers = {"c1"}
  Cap = 1
  MaxEvents = 2
SPECIFICATION FairSpec
INVARIANTS TypeOK NoEventLost RegisteredRuns
PROPERTIES KeepsPromise
