CONSTANTS
  s1 = s1
  s2 = s2
  r1 = r1
  r2 = r2
  Services = {s1, s2}
  Routes = {r1, r2}
  DefaultRoute <- MCDefaultRoute
  Specs <- MCSpecs
  BaseRefs <- MCBaseRefs
  Absent = absent
  MaxChanges = 2
SPECIFICATION FairSpec
CHECK_DEADLOCK FALSE
INVARIANTS  MismatchReported
PROPERTIES ComesToRest
