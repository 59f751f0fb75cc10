SPECIFICATION FairSpec
CONSTANTS
    MaxIncarnations = 2
    MaxGen = 2
    MaxIds = 6
    MaxEvents = 2
    StaleReads = FALSE
    Happenings = {"create", "delete", "finalizer", "spec", "key", "force", "airGapped",
                  "drift", "ageKey", "ageConfig", "fail", "restart", "removed"}
CHECK_DEADLOCK FALSE
INVARIANTS SettledHealthyOrClean OwnsOnlyWhenHeld ValidationHasTime
PROPERTIES AccountsConverge
