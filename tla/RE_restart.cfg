\* One repeating event across crashes, restarts and failed calls.
SPECIFICATION Spec
CONSTANTS
    Crons = {c1}
    Once = {}
    System = {}
    Alike = {}
    Bare = {}
    Deleters = {d1, d2}
    TypeDeleters = {x1}
    PageSize = 10
    Failures = TRUE
    Crashes = TRUE
    None = None
    Types <- MCTypes
    TypeOf <- MCTypeOf
    SystemTypes <- MCSystemTypes
INVARIANTS
    JobsCanBeStopped CreatedIsScheduled CreatedIsPersistent StoppedIsForgotten
PROPERTY
    StoppedStaysStopped
CHECK_DEADLOCK FALSE
