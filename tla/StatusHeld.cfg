SPECIFICATION Spec
CONSTANTS
    Sessions = {s1}
    Lists = {"no agents"}
    MaxChanges = 3
    MaxActions = 1
INVARIANTS BusyIsNewest
CHECK_DEADLOCK FALSE
