\* One event, one trigger, two editors: a PostEvent that is being served is answered.
SPECIFICATION FairSpec
CONSTANTS
    Events = {e1}
    Triggers = {t1}
    Editors = {c1, c2}
    Foreign = {}
    NoTrigger = NoTrigger
    EventTypeOf <- MCEventTypeOf
    TriggerTypeOf <- MCTriggerTypeOf
    Matches <- MCMatches
    Failures = TRUE
    Crashes = TRUE
PROPERTIES
    EventsAnswered
CHECK_DEADLOCK FALSE
