SPECIFICATION FairSpec
CONSTANTS
    Leads = {l1, l2}
    Ticks = {tick}
    ManualRuns = {manual}
    NoRun = NoRun
    NoPlan = NoPlan
    MaxFollowUps = 1
    FollowUpIntervalDays <- EveryTick
    WinBackCooldownDays = 1
    ReminderWindow = 1
    LastChanceWindow = 0
    Slots = {}
    QuietTimes = {1}
    Horizon = 2
    MaxReplies = 0
    MaxOperatorActs = 1
    MaxFaults = 1
PROPERTIES
    DueLeadIsTried
    WaitingRunGetsIn
CHECK_DEADLOCK FALSE
