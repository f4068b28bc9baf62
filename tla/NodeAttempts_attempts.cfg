CONSTANTS
    MinAttempts = {0, 1, 2}
    DefaultMaxAttempts = 1
    MaxNodeRetriesOnSystemFailures = 1
    InterruptibleFailureThreshold <- LastAttemptOnly
    ActiveDeadline = 3
    ExecutionDeadline = 1
    Word = 16
    LastAttempt = 2
    MaxFaults = 2
SPECIFICATION FairSpec
INVARIANT TypeOK
INVARIANT RetryBudgetsHold
INVARIANT OnlyTheCurrentAttemptRuns
INVARIANT NothingRunsOn
INVARIANT PreemptionIsRetried
PROPERTY RetriesHaveTheirTime
PROPERTY ImplementsVisits
PROPERTY NodeEnds
