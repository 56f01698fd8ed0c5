SPECIFICATION Spec
CONSTANTS
    Approvals = {a1}
    Questions = {}
    Sessions = {s1, s2}
    Backends = {"codex"}
    AutoApprove = TRUE
    Failures = FALSE
    MaxTopics = 1
PROPERTIES ResolvedNotReplayed
CHECK_DEADLOCK FALSE
