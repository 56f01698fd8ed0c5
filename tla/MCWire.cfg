SPECIFICATION MCSpec
CONSTANTS
    ssh = ssh
    codex = codex
    opencode = opencode
    Static = {main}
    Managed = {dedicated}
    Talk = {dedicated}
    MaxTroubles = 1
    MaxSaid = 2
INVARIANTS LinkSettles SaidBeforeClose HelpersAreOwned ReassemblyIsHonest
CHECK_DEADLOCK FALSE
