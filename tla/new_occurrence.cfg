SPECIFICATION MCConvSpec
CONSTANTS
    Requests = {1, 2, 3}
    Messages = {m1}
    StopTexts = {m1}
    Checks = {1, 2}
    MaxFaults = 0
    Notices = {}
    Ticks = {}
    MaxAttempts = 2
    Concurrency = 1
    MaxNoticeFaults = 0
INVARIANTS
    NewOccurrenceIsAlerted
CHECK_DEADLOCK FALSE
