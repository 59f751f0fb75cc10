CONSTANTS
  g1 = g1
  g2 = g2
  s1 = s1
  c1 = c1
  c2 = c2
  nil = nil
  Gateways <- MCGateways
  Services <- MCServices
  Configs = {c1, c2}
  GwNs <- MCGwNs
  SvcNs <- MCSvcNs
  SystemNs = "system"
  NoGateway = nil
  Absent = absent
  Profiles <- MCProfiles
  Specs <- PermSpecs
  RefSets <- MCRefSets
  Start <- PermStart
  MaxChanges = 1
SPECIFICATION Spec
CHECK_DEADLOCK FALSE
INVARIANT InheritedGatewaysProtected
