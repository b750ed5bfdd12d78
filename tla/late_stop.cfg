SPECIFICATION BookSpec
CONSTANTS
    Phones = {p1}
    Emails = {}
    Jobs = {1}
    Sweeps = {s1}
    MaxRows = 1
    MaxLines = 1
    MaxBookFaults = 0
PROPERTIES
    OptOutsAreKept
CHECK_DEADLOCK FALSE
