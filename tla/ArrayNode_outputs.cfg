SPECIFICATION Spec
CONSTANTS
    Size = 2
    Setups <- MCInTurn
    Null = Null
    MaxAttempts = 1
    ArrayAttempts = 1
    MaxNodeRetriesOnSystemFailures = 1
    IgnoreRetryCause = FALSE
    MaxWorkflowRetries = 1
    PermanentKinds = {"user", "system", "stuck"}
    MaxFaults = 1
INVARIANT OutputsAlign
