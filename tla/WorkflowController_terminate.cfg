SPECIFICATION FairSpec
CONSTANTS
    Instances = {p1}
    MaxWorkflowRetries = 1
    MaxStreakLength = 1
    HasFailureNode = FALSE
    Outcomes = {"Succeeding"}
    LostRows = {}
    Versions <- MCVersions
    VersionCount = 6
    MaxLag = 1
    MaxFaults = 0
PROPERTY TerminalRowIsFinal
CHECK_DEADLOCK FALSE
