SPECIFICATION Spec
CONSTANTS
    Approvals = {a1}
    Questions = {}
    Sessions = {s1}
    Backends = {"opencode"}
    AutoApprove = TRUE
    Failures = TRUE
    MaxTopics = 1
INVARIANTS ManualReviewPossible
CHECK_DEADLOCK FALSE
