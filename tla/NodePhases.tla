---------------------------- MODULE NodePhases ----------------------------
(***************************************************************************)
(* One visit of the node executor to one task node: where it may move the  *)
(* node's recorded phase, what it tells the traversal above it, and what   *)
(* it does to the payload running outside propeller (a pod, a job).        *)
(* Constant operators only.                                                *)
(***************************************************************************)

(* Phases of a NodeStatus.  "Retrying" is phase Running with the task      *)
(* state cleared, which is how handleRetryableFailure leaves a node: the   *)
(* next visit starts a new payload instead of polling the old one.         *)
NodePhases ==
    {"NotYetStarted", "Queued", "Running", "Retrying", "RetryableFailure",
     "Failing", "Failed", "TimingOut", "TimedOut", "Succeeding", "Succeeded"}

(* The phases in which a visit goes to HandleNode, not to the downstream.  *)
CanHandleNode(phase) ==
    phase \in NodePhases \ {"Failed", "TimedOut", "Succeeded"}

(* What a visit returns to the traversal (interfaces.NodeStatus).          *)
NodeStatuses ==
    {"Pending", "Queued", "Running", "Success", "Complete", "Failed", "TimedOut"}

Visit(to, returns, payload) == [to |-> to, returns |-> returns, payload |-> payload]

(* handleNotYetStartedNode: queued, failed to resolve its inputs, or a     *)
(* cache hit.  None of them starts anything.                               *)
NotYetStartedVisitsAtOnce == {Visit("Running", "Running", "start")}  \* mutant: no write-ahead

NotYetStartedVisits ==
    {Visit("Queued", "Queued", "none"), Visit("Failing", "Pending", "none"),
     Visit("Succeeded", "Pending", "none")}

(* handleQueuedOrRunningNode: the handler leaves the node where it is,     *)
(* starts (or keeps) the payload, or reports one of the outcomes that this *)
(* node can have.  A failed or timed-out payload may still be running when *)
(* it is reported.                                                         *)
NodeOutcomes == {"Succeeding", "Failing", "TimingOut", "RetryableFailure"}

QueuedOrRunningVisits(phase, outcomes) ==
    {Visit(phase, "Running", "none"), Visit("Running", "Running", "start")}
    \cup {Visit(to, "Running", IF to = "Succeeding" THEN "finish" ELSE "none") : to \in outcomes}

(* A queued node that has waited for a cache reservation is answered from  *)
(* the cache.  Its handler is not asked: a payload that an earlier, lost   *)
(* visit started is left as it is.                                         *)
CacheHit == Visit("Succeeded", "Success", "leave")

(* RecursiveNodeHandler and HandleNode on a node whose predecessors are    *)
(* done and that has no successor.                                         *)
Visits(phase, outcomes) ==
    CASE phase = "NotYetStarted"    -> NotYetStartedVisits
      [] phase = "Queued"           -> QueuedOrRunningVisits(phase, outcomes) \cup {CacheHit}
      [] phase = "Retrying"         -> QueuedOrRunningVisits(phase, outcomes)
      [] phase = "Running"          ->
            {v \in QueuedOrRunningVisits(phase, outcomes) : v.payload # "start"}
      [] phase = "RetryableFailure" -> {Visit("Retrying", "Pending", "abort")}
      [] phase = "Failing"          -> {Visit("Failed", "Failed", "abort")}
      [] phase = "TimingOut"        -> {Visit("TimedOut", "TimedOut", "abort")}
      [] phase = "Succeeding"       -> {Visit("Succeeded", "Success", "none")}
      [] phase = "Failed"           -> {Visit("Failed", "Failed", "none")}
      [] phase = "TimedOut"         -> {Visit("TimedOut", "TimedOut", "none")}
      [] phase = "Succeeded"        -> {Visit("Succeeded", "Complete", "none")}

(* Whether the visit reports the move to admin before it records it.       *)
SendsNodeEvent(phase, v) ==
    /\ phase \in {"NotYetStarted", "Queued", "Running", "Retrying"}
    /\ v.to \notin {phase, "RetryableFailure"}
    /\ ~(phase = "Retrying" /\ v.to = "Running")

(* AbortHandler: the node is aborted if it has started and is not over.    *)
IsAborted(phase) == CanHandleNode(phase) /\ phase # "NotYetStarted"
============================================================================
