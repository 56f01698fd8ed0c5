SPECIFICATION MCSpec
CONSTANTS
    a1 = a1
    a2 = a2
    Prompts = {p1, p2, p3}
    Sessions = {s1}
    Texts = {t1}
    Limit = 2
    Journaling = FALSE
    StatusEvents = FALSE
    Failures = TRUE
    Reordering = FALSE
    Rebinding = FALSE
    MaxTopics = 1
    MaxForeign = 0
    MaxRestarts = 0
INVARIANTS BusyIsHonest OneByOne
PROPERTIES TasksComeToRest AcceptedSettles
CHECK_DEADLOCK FALSE
