\* Two repeating events (one @now and of a system type) in one life of the process; calls fail.
SPECIFICATION FairSpec
CONSTANTS
    Crons = {c1, c2}
    Once = {c2}
    System = {c2}
    Alike = {}
    Bare = {}
    Deleters = {d1}
    TypeDeleters = {}
    PageSize = 10
    Failures = TRUE
    Crashes = FALSE
    None = None
    Types <- MCTypes
    TypeOf <- MCTypeOf
    SystemTypes <- MCSystemTypes
INVARIANTS
    TypeOK JobsCanBeStopped
PROPERTIES
    StoppedStaysStopped RemovedEntryGoes
CHECK_DEADLOCK FALSE
