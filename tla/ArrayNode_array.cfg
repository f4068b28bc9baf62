SPECIFICATION FairSpec
CONSTANTS
    Size = 2
    Setups <- MCSetups
    Null = Null
    MaxAttempts = 3
    ArrayAttempts = 1
    MaxNodeRetriesOnSystemFailures = 0
    IgnoreRetryCause = FALSE
    MaxWorkflowRetries = 1
    PermanentKinds = {"user", "system", "stuck"}
    MaxFaults = 1
INVARIANT ParallelismIsRespected
INVARIANT LeavesOnlyFailures
INVARIANT AdminSeesTheEnd
PROPERTY ArrayEnds
