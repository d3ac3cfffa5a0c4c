\* One event, one trigger deleted meanwhile; no call fails.
SPECIFICATION Spec
CONSTANTS
    Events = {e1}
    Triggers = {t1}
    Editors = {c1}
    Foreign = {}
    NoTrigger = NoTrigger
    EventTypeOf <- MCEventTypeOf
    TriggerTypeOf <- MCTriggerTypeOf
    Matches <- MCMatches
    Failures = FALSE
    Crashes = FALSE
INVARIANT
    MissingTriggerIsNoFailure
CHECK_DEADLOCK FALSE
