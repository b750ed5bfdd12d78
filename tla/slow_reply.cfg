SPECIFICATION ConvSpec
CONSTANTS
    Requests = {1, 2}
    Messages = {m1}
    StopTexts = {}
    Checks = {1}
    MaxFaults = 0
INVARIANTS
    RetryIsSkipped
CHECK_DEADLOCK FALSE
