SPECIFICATION Spec
CONSTANTS
    Instances = {p1}
    MaxWorkflowRetries = 1
    MaxStreakLength = 3
    HasFailureNode = FALSE
    Outcomes = {"Succeeding", "Failing"}
    LostRows = {"absent", "elsewhere"}
    Versions <- MCVersions
    VersionCount = 7
    MaxLag = 2
    MaxFaults = 1
INVARIANTS TypeOK LabelAndFinalizerAreHonest PayloadsAreRecorded SuccessIsRecorded NoOrphanedNodes
PROPERTIES CompletedIsFinal NothingVanishesUnreported
CHECK_DEADLOCK FALSE
