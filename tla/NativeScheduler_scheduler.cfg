SPECIFICATION FairSpec
CONSTANTS
    Schedules = {s1}
    Period = 2
    NoSchedule = NoSchedule
    MaxTime = 4
    MaxChanges = 2
    MaxFaults = 2
INVARIANT WatermarkIsHonest
INVARIANT NoGapAfterCatchUp
PROPERTY NothingBeforeActivation
PROPERTY ScheduledTimesAreExecuted
