SPECIFICATION MCSpec
CONSTANTS
    Texts = {x}
    Retries = 1
    MaxPrompts = 2
    MaxCalls = 2
    MaxTroubles = 1
    MaxPipe = 1
INVARIANTS NobodyWaitsInVain PromptRunsOnce EchoesMatched ThreadShownTrue
    FollowIsFaithful TakesTurns
CHECK_DEADLOCK FALSE
