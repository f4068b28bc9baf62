----------------------- MODULE MCWorkflowController -----------------------
(* Model values for WorkflowController: as many resource versions as can   *)
(* be held at once, and one to spare for the next write.                   *)
EXTENDS WorkflowController

CONSTANT VersionCount

MCVersions == 1..VersionCount

ASSUME EnoughVersions ==
    VersionCount >= 2 + Cardinality(Instances) * (3 + MaxLag)
============================================================================
