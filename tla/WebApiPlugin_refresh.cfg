SPECIFICATION FairSpec
CONSTANTS
    Ids = {t1, t2}
    SyncWorkers = {w1}
    Idle = Idle
    MaxSystemFailures = 1
    Setups <- MCTurns
    Quota = 1
    Projects = {}
    ProjectQuota = 1
    MaxFaults = 3
PROPERTY TasksEnd
