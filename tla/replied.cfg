SPECIFICATION Spec
CONSTANTS
    Leads = {l1}
    Ticks = {tick}
    ManualRuns = {manual}
    NoRun = NoRun
    NoPlan = NoPlan
    MaxFollowUps = 1
    FollowUpIntervalDays <- EveryTick
    WinBackCooldownDays = 1
    ReminderWindow = 1
    LastChanceWindow = 0
    Slots = {}
    QuietTimes = {1}
    Horizon = 3
    MaxReplies = 1
    MaxOperatorActs = 0
    MaxFaults = 0
INVARIANTS
    RepliedLeadsLeaveFollowUps
CHECK_DEADLOCK FALSE
