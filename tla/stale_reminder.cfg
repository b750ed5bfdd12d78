SPECIFICATION Spec
CONSTANTS
    Leads = {l1}
    Ticks = {tick}
    ManualRuns = {manual}
    NoRun = NoRun
    NoPlan = NoPlan
    MaxFollowUps = 0
    FollowUpIntervalDays <- EveryTick
    WinBackCooldownDays = 1
    ReminderWindow = 2
    LastChanceWindow = 1
    Slots = {1, 2}
    QuietTimes = {}
    Horizon = 2
    MaxReplies = 0
    MaxOperatorActs = 1
    MaxFaults = 0
PROPERTIES
    ReminderStampMatchesAppointment
CHECK_DEADLOCK FALSE
