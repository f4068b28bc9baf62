SPECIFICATION Spec
CONSTANTS
    Ids = {t1, t2, t3}
    SyncWorkers = {w1}
    Idle = Idle
    MaxSystemFailures = 0
    Setups <- MCCrowd
    Quota = 1
    Projects = {{t1, t2, t3}}
    ProjectQuota = 1
    MaxFaults = 1
CONSTRAINT MCFewBatches
SYMMETRY MCSymmetry
INVARIANT QuotaOvershootIsBounded
 
 
