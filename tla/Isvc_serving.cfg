\* One service with rich specs, another with the same ServiceAccount, one graph.
SPECIFICATION FairSpec
CONSTANTS
  Services <- MCServices
  Graphs = {"g1"}
  Specs <- MCSpecs
  GraphSpecs <- MCGraphSpecs
  RuntimeSpecs <- MCRuntimeSpecs
  Backends <- MCBackends
  Existing <- MCExisting
  Absent = Absent
  MaxChanges = 2
CHECK_DEADLOCK FALSE
INVARIANTS PoliciesCurrent RouterAdmitted 
PROPERTIES ForeignPolicyRespected  ComesToRest
