\* Two events of different types, one trigger, two editors: edits of a trigger race with each other
\* and with the events it fires for.
SPECIFICATION Spec
CONSTANTS
    Events = {e1, e2}
    Triggers = {t1}
    Editors = {c1, c2}
    Foreign = {e2}
    NoTrigger = NoTrigger
    EventTypeOf <- MCEventTypeOf
    TriggerTypeOf <- MCTriggerTypeOf
    Matches <- MCMatches
    Failures = FALSE
    Crashes = TRUE
INVARIANTS
    AlertsFollowJobs DeletedStaysSilent CreatedStaysArmed
SYMMETRY EditorsAlike
CHECK_DEADLOCK FALSE
