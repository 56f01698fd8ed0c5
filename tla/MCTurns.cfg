SPECIFICATION MCSpec
CONSTANTS
    s1 = s1
    p1 = p1
    p2 = p2
    p3 = p3
    t1 = t1
    t2 = t2
    Prompts = {p1, p2}
    Sessions = {s1, s2}
    Texts = {t1}
    Limit = 2
    Journaling = FALSE
    StatusEvents = FALSE
    Failures = TRUE
    Reordering = TRUE
    Rebinding = TRUE
    MaxTopics = 2
    MaxForeign = 0
    MaxRestarts = 0
SYMMETRY Symmetric
INVARIANTS BindingIsSaved NothingLost OrderIsKept QueueIsDense
PROPERTIES DrainsOnlyBoundAndActive KeepsPromise
CHECK_DEADLOCK FALSE
