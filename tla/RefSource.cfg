SPECIFICATION FairSourceSpec
CONSTANTS
    Owners = {o1, o2}
    Refs = {r1, r2}
    NoRef = NoRef
    Callers = {c1, c2}
    Starter = Starter
    MaxCalls = 4
CHECK_DEADLOCK FALSE
INVARIANTS WatchesReferences OneInformer
PROPERTIES ImplementsPromise SourceConverges
