SPECIFICATION Spec
CONSTANTS
    Leads = {l1}
    Ticks = {tick}
    ManualRuns = {manual}
    NoRun = NoRun
    NoPlan = NoPlan
    MaxFollowUps = 1
    FollowUpIntervalDays <- EveryTick
    WinBackCooldownDays = 1
    ReminderWindow = 2
    LastChanceWindow = 1
    Slots = {1, 2}
    QuietTimes = {0}
    Horizon = 2
    MaxReplies = 1
    MaxOperatorActs = 2
    MaxFaults = 0
INVARIANTS
    NoDuplicateReminder
    WinBackRateBounded
    AtMostOneAfterStop
    RunsArePaced
PROPERTIES
    ImplementsLifecycle
CHECK_DEADLOCK FALSE
