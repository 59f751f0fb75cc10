\* Fresh reads: the informers deliver before the next step. Gateways are not
\* symmetric here, TLC does not combine symmetry with liveness.
SPECIFICATION FairSpec
CONSTANTS
    Gateways = {g1, g2}
    MaxIncarnations = 2
    MaxIds = 6
    MaxEvents = 2
    StaleReads = FALSE
    PairChoices = {"off", "invalid", "badCred", "plain", "metrics"}
    AdminKinds = {"role", "provider"}
    AllowRelabel = TRUE
    None = None
CHECK_DEADLOCK FALSE
 
PROPERTIES  FinalizerRemovedLast OtherFinalizersKept PublicationsConverge
