SPECIFICATION Spec
CONSTANTS
    Leads = {l1, l2}
    Ticks = {tick}
    ManualRuns = {manual}
    NoRun = NoRun
    NoPlan = NoPlan
    MaxFollowUps = 2
    FollowUpIntervalDays <- EveryTick
    WinBackCooldownDays = 1
    ReminderWindow = 1
    LastChanceWindow = 0
    Slots = {}
    QuietTimes = {1}
    Horizon = 4
    MaxReplies = 1
    MaxOperatorActs = 0
    MaxFaults = 1
INVARIANTS
    TypeOK
    BoundedOutreach
    RunsAreCurrent
PROPERTIES
    ClosedLeadsStayClosed
CHECK_DEADLOCK FALSE
SYMMETRY LeadSymmetry
