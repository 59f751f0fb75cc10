SPECIFICATION FairSpec
CONSTANTS
    MaxIncarnations = 1
    MaxGen = 1
    MaxIds = 6
    MaxEvents = 1
    StaleReads = FALSE
    Happenings = {"ageKey"}
CHECK_DEADLOCK FALSE
PROPERTY EventuallyRevalidated
