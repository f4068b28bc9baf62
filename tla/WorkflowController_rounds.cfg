SPECIFICATION FairSpec
CONSTANTS
    Instances = {p1}
    MaxWorkflowRetries = 0
    MaxStreakLength = 1
    HasFailureNode = TRUE
    Outcomes = {"Failing"}
    LostRows = {}
    Versions <- MCVersions
    VersionCount = 6
    MaxLag = 1
    MaxFaults = 1
PROPERTIES DeletionCompletes FailingCompletes
CHECK_DEADLOCK FALSE
