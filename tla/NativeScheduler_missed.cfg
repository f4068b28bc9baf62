SPECIFICATION Spec
CONSTANTS
    Schedules = {s1}
    Period = 2
    NoSchedule = NoSchedule
    MaxTime = 5
    MaxChanges = 0
    MaxFaults = 1
INVARIANT MissedAreCaughtUp
