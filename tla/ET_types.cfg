\* Two event types of one name, a trigger and an event that refer to them, and
\* a deleter; calls fail, the process dies.
SPECIFICATION Spec
CONSTANTS
    TypeIds = {x1, x2}
    System = {}
    Triggers = {t1}
    Events = {v1}
    Deleters = {d1}
    Failures = TRUE
    Crashes = TRUE
    None = None
    NameOf <- MCNameOf
    SystemNames <- MCSystemNames
INVARIANTS
    TypeOK NamesStayTaken RefusedLeavesNothing TypesHaveMapping
    VisibleRefsProtect
CHECK_DEADLOCK FALSE
