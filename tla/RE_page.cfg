\* Two repeating events, of which a restart loads one page of one.
SPECIFICATION Spec
CONSTANTS
    Crons = {c1, c2}
    Once = {}
    System = {}
    Alike = {}
    Bare = {}
    Deleters = {}
    TypeDeleters = {}
    PageSize = 1
    Failures = FALSE
    Crashes = TRUE
    None = None
    Types <- MCTypes
    TypeOf <- MCTypeOf
    SystemTypes <- MCSystemTypes
INVARIANT
    CreatedIsScheduled
CHECK_DEADLOCK FALSE
