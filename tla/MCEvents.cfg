SPECIFICATION MCSpec
CONSTANTS
    first = first
    other = other
    managed = managed
    Approvals = {a1}
    Questions = {q1}
    Sessions = {s1, s2}
    Backends = {"codex", "opencode", "omp", "claude"}
    AutoApprove = TRUE
    Failures = TRUE
    MaxTopics = 1
SYMMETRY Symmetric
INVARIANTS ResolvedOnce ClientsAgree PendingIsTrue RoutingIsTrue
PROPERTIES ResolvedStaysResolved
CHECK_DEADLOCK FALSE
