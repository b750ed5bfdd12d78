SPECIFICATION MCConvSpec
CONSTANTS
    Requests = {1, 2, 3}
    Messages = {m1, m2}
    StopTexts = {m1}
    Checks = {1, 2}
    MaxFaults = 1
    Notices = {n1, n2}
    Ticks = {x, y}
    MaxAttempts = 3
    Concurrency = 1
    MaxNoticeFaults = 1
INVARIANTS
    LateRetryIsSkipped
    LatestReplyDecides
    WaitIsMeasuredFromStart
    EscalationIsFlagged
    StampHasAlert
    OneAlertPerFlag
    RedeliveryInv
    RetriesBounded
    NeverSilentlyLost
    DeadIsAlerted
PROPERTIES
    FlagIsAlerted
    DeadIsFinal
    PendingEnds
CHECK_DEADLOCK FALSE
