SPECIFICATION MCSpec
CONSTANTS
    Conns = {c1, c2}
    Sids = {s1, s2}
    Omp = TRUE
    MaxDeeds = 2
    MaxPipe = 1
SYMMETRY Symmetric
INVARIANTS ServedOnce TurnsShownEnd PromptsAccounted AnswersCanCome
    StatusShownIsNewest AgentsShownAreNewest
CHECK_DEADLOCK FALSE
