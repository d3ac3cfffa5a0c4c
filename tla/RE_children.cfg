\* Two repeating events of one type and a restart.
SPECIFICATION Spec
CONSTANTS
    Crons = {c1, c2}
    Once = {}
    System = {}
    Alike = {c1, c2}
    Bare = {}
    Deleters = {}
    TypeDeleters = {}
    PageSize = 10
    Failures = FALSE
    Crashes = TRUE
    None = None
    Types <- MCTypes
    TypeOf <- MCTypeOf
    SystemTypes <- MCSystemTypes
INVARIANT
    ChildrenNameTheirEvent
CHECK_DEADLOCK FALSE
