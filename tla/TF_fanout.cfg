\* One event, two triggers of its type: the goroutines race.
SPECIFICATION Spec
CONSTANTS
    Events = {e1}
    Triggers = {t1, t2}
    Editors = {c1}
    Foreign = {}
    NoTrigger = NoTrigger
    EventTypeOf <- MCEventTypeOf
    TriggerTypeOf <- MCTriggerTypeOf
    Matches <- MCMatches
    Failures = TRUE
    Crashes = FALSE
INVARIANTS
    TypeOK CreatedMeansFired NothingAfterResponse FailureReported StoresAgree
PROPERTY
    HonoursContract
SYMMETRY TriggersAlike
CHECK_DEADLOCK FALSE
