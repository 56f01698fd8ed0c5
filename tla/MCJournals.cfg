SPECIFICATION MCSpec
CONSTANTS
    ClientIds = {c1}
    VoiceIds = {v1}
    ControlIds = {k1}
    MaxEpoch = 2
    MaxGeneration = 2
INVARIANTS TypeOK AtMostOnce OutcomesHonest ReceiptsHonest OneOwner
    HistoryHasNoGap PagesAgree
PROPERTIES TerminalIsFinal StaleNeverStarts
CHECK_DEADLOCK FALSE
