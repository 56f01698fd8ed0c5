SPECIFICATION Spec
CONSTANTS
    Prompts = {p1, p2}
    Sessions = {s1}
    Texts = {t1}
    Limit = 2
    Journaling = FALSE
    StatusEvents = FALSE
    Failures = FALSE
    Reordering = FALSE
    Rebinding = FALSE
    MaxTopics = 2
    MaxForeign = 1
    MaxRestarts = 0
INVARIANTS SentOnce
CHECK_DEADLOCK FALSE
