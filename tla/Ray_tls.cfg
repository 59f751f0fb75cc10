\* Two multi-node ServingRuntimes in a namespace, and two Pods.
SPECIFICATION FairSpec
CONSTANTS
  Runtimes = {"r1", "r2"}
  Pods = {"p1", "p2"}
  IPs = {1, 2}
  MaxCA = 6
  Absent = Absent
  MaxChanges = 2
CHECK_DEADLOCK FALSE
INVARIANTS RuntimeServed PodsServed
PROPERTIES OthersKept ComesToRest
