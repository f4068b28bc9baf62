SPECIFICATION FairSpec
CONSTANTS
    s = s
    x = x
    y = y
    j = j
    Nodes = {s, x, y, j}
    Start = s
    None = None
    Graphs <- AllGraphs
    Policies = {"FailImmediately", "FailAfterExecutable"}
    Outcomes = {"Succeeding", "Failing", "TimingOut", "RetryableFailure"}
    MaxParallelism = 1
    MaxRetries = 1
    MaxFaults = 1
INVARIANT StartsAfterUpstream
INVARIANT OutcomeIsHonest
INVARIANT NoPayloadOutlivesWorkflow
PROPERTY ExecutableNodesComplete
PROPERTY WorkflowEnds
