-------------------------- MODULE ExecutionPhases --------------------------
(***************************************************************************)
(* The phases an execution goes through, as the two sides of Flyte name    *)
(* them: the FlyteWorkflow resource that propeller drives, and the         *)
(* execution row that flyteadmin keeps.  Also how admin answers an event   *)
(* that reports a phase.  Constant operators only: every module of the     *)
(* project that speaks about an execution takes its vocabulary from here.  *)
(***************************************************************************)

---------------------------------------------------------------------------
(* The phase stored in FlyteWorkflow.Status.                               *)

WorkflowPhases ==
    {"Ready", "Running", "Succeeding", "Success", "Failing", "Failed",
     "Aborted", "HandlingFailureNode"}

IsTerminated(phase) == phase \in {"Success", "Failed", "Aborted"}

---------------------------------------------------------------------------
(* The phase of the execution row.  Rows are created UNDEFINED, and QUEUED *)
(* is what a cluster announces when an execution is (re)assigned to it.    *)

AdminPhases ==
    {"UNDEFINED", "QUEUED", "RUNNING", "SUCCEEDING", "FAILING", "ABORTING",
     "SUCCEEDED", "FAILED", "ABORTED"}

IsExecutionTerminal(phase) == phase \in {"SUCCEEDED", "FAILED", "ABORTED"}

(* The event that reports a move of the resource to `phase'; a failure     *)
(* node is part of failing as far as admin can tell.                       *)
EventPhase ==
    [phase \in WorkflowPhases \ {"Ready"} |->
        CASE phase = "Running"             -> "RUNNING"
          [] phase = "Succeeding"          -> "SUCCEEDING"
          [] phase = "Success"             -> "SUCCEEDED"
          [] phase = "Failing"             -> "FAILING"
          [] phase = "HandlingFailureNode" -> "FAILING"
          [] phase = "Failed"              -> "FAILED"
          [] phase = "Aborted"             -> "ABORTED"]

Events == {"RUNNING", "SUCCEEDING", "FAILING", "SUCCEEDED", "FAILED", "ABORTED"}

---------------------------------------------------------------------------
(* What admin knows of the execution an event is about: its row is here    *)
(* and names the sending cluster, it names another cluster, or there is    *)
(* no row (never, no longer, or not yet inserted).                         *)

Rows == {"here", "elsewhere", "absent", "pending"}

Replies ==
    {"OK", "AlreadyExists", "NotFound", "IncompatibleCluster",
     "AlreadyInTerminalState", "FailedPrecondition"}

(* The checks of CreateWorkflowEvent, in their order.                      *)
EventReply(row, phase, event) ==
    IF row \in {"absent", "pending"} THEN "NotFound"
    ELSE IF event # "QUEUED" /\ phase = event THEN "AlreadyExists"
    ELSE IF event # "QUEUED" /\ row = "elsewhere" THEN "IncompatibleCluster"
    ELSE IF IsExecutionTerminal(phase) THEN "AlreadyInTerminalState"
    ELSE IF \/ phase = "RUNNING" /\ event = "QUEUED"
            \/ phase = "ABORTING" /\ ~IsExecutionTerminal(event)
    THEN "FailedPrecondition"
    ELSE "OK"
============================================================================
