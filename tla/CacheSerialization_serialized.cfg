SPECIFICATION FairSpec
CONSTANTS
    Nodes = {a, b}
    Nobody = Nobody
    Grace = 2
    MaxCall = 1
    MaxAttempts = 2
    MaxFaults = 1
INVARIANTS TypeOK FirstAttemptsSerialized
PROPERTIES ImplementsLease NobodyWaitsForever
CHECK_DEADLOCK FALSE
