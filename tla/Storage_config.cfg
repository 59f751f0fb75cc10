\* Two data connections and two CA bundles; both controllers.
SPECIFICATION FairSpec
CONSTANTS
  Connections = {"c1", "c2"}
  ConnectionSpecs <- MCConnectionSpecs
  Bundles = {"b1"}
  Absent = Absent
  MaxChanges = 3
CHECK_DEADLOCK FALSE
INVARIANTS DerivedCurrent
PROPERTIES UnmanagedKept ComesToRest
