--------------------------- MODULE NodeTraversal ---------------------------
(***************************************************************************)
(* One workflow's DAG, walked again and again by RecursiveNodeHandler: a   *)
(* round visits nodes depth first from the start node, with a counter of   *)
(* its own for the parallelism limit, and is stored as a whole or not at   *)
(* all.  What a visit makes of one node is NodePhases; conditional nodes   *)
(* (branches) hold the cases that they choose from.                        *)
(***************************************************************************)
EXTENDS Naturals, Sequences, FiniteSets, SequencesExt, NodePhases

CONSTANTS
    Nodes,              \* the nodes, the start node and the cases of branches included
    Start,              \* the start node
    None,               \* no node
    Graphs,             \* DAGs: [down : downstream nodes in order, cases : cases of branches,
                        \*        needs : nodes upstream of a case]
    Policies,           \* onFailure policies that are looked at
    Outcomes,           \* outcomes of tasks that are looked at
    MaxParallelism,     \* ExecutionConfig.MaxParallelism, 0 is no limit
    MaxRetries,         \* bound: retries of a node
    MaxFaults           \* bound: rounds that are lost, terminations included

ASSUME NodesAssumption == Start \in Nodes /\ None \notin Nodes

(* What the compiler lets through.  The cases of a branch are part of it   *)
(* (ThenNode), so that a case is in one branch, branches nest to a finite  *)
(* depth, and a case is downstream of no node (GetOrCreateNodeBuilder does *)
(* not add it to the workflow's nodes).  The nodes that its bindings refer *)
(* to are upstream of it all the same (AddEdges, EdgeDirectionUpstream).   *)
(* The start node is no branch and on no cycle; all nodes that are no      *)
(* cases are reachable from it (validateReachable).                        *)
IsCompiled(g) ==
    LET IsCase(n) == \E b \in Nodes : n \in g.cases[b] IN
    /\ \A b, c \in Nodes : b # c => g.cases[b] \cap g.cases[c] = {}
    /\ \A S \in SUBSET Nodes : S # {} => \E n \in S : \A b \in S : n \notin g.cases[b]
    /\ \A n \in Nodes : IsCase(n) =>
           n # Start /\ g.down[n] = <<>> /\ \A m \in Nodes : n \notin ToSet(g.down[m])
    /\ \A n \in Nodes : ~IsCase(n) => g.needs[n] = {}
    /\ g.cases[Start] = {} /\ \A m \in Nodes : Start \notin ToSet(g.down[m])
    /\ \A S \in SUBSET Nodes :
           (Start \in S /\ \A n \in S : ToSet(g.down[n]) \subseteq S) =>
               \A n \in Nodes : n \in S \/ IsCase(n)

ASSUME GraphsAssumption ==
    /\ Graphs \subseteq [down : [Nodes -> Seq(Nodes)], cases : [Nodes -> SUBSET Nodes],
                         needs : [Nodes -> SUBSET Nodes]]
    /\ \A g \in Graphs : IsCompiled(g)
ASSUME PoliciesAssumption == Policies \subseteq {"FailImmediately", "FailAfterExecutable"}
ASSUME OutcomesAssumption == Outcomes \subseteq NodeOutcomes
ASSUME BoundsAssumption ==
    MaxParallelism \in Nat /\ MaxRetries \in Nat /\ MaxFaults \in Nat

VARIABLES
    graph,              \* the DAG
    policy,             \* WorkflowSpec.OnFailurePolicy
    workflow,           \* phase of the workflow
    stored,             \* status of every node in the stored resource
    status,             \* status of every node in the round's copy
    dirty,              \* nodes whose status the round has changed
    parallelism,        \* controlFlow.parallelism of the round
    stack,              \* calls of handleDownstream and of a branch's handler, innermost first
    payload,            \* what runs outside for a node's current attempt
    faults              \* rounds that may still be lost, terminations included

round == <<status, dirty, parallelism, stack>>
vars == <<graph, policy, workflow, stored, round, payload, faults>>

Down(n) == graph.down[n]
Cases(n) == graph.cases[n]
IsBranch(n) == Cases(n) # {}

(* The branch that has n as a case, if there is one, and ToNode without    *)
(* it: for a case, the nodes that its bindings refer to.                   *)
Parents(n) == {b \in Nodes : n \in Cases(b)}
Up(n) == {m \in Nodes : n \in ToSet(Down(m)) \/ m \in graph.needs[n]} \ Parents(n)

TraversalPhases == NodePhases \cup {"Skipped"}

(* "answered" is history: the node has succeeded by an answer of the cache *)
(* while it was queued.                                                    *)
Status == [phase : TraversalPhases, taken : Nodes \cup {None}, attempts : 0..MaxRetries,
           answered : {"no", "yes"}]

IsDone(p) == p \in {"Succeeded", "Skipped"}
HasFailed(p) == p \in {"Failed", "TimedOut"}
IsOver(p) == IsDone(p) \/ HasFailed(p)

Frames == [node : Nodes, kind : {"down", "case"}, next : Nat, stopped : BOOLEAN,
           allCompleted : BOOLEAN, partial : BOOLEAN, failure : {"none", "Failed", "TimedOut"}]

TypeOK ==
    /\ graph \in Graphs
    /\ policy \in Policies
    /\ workflow \in {"Running", "Failing", "Failed", "Succeeding"}
    /\ stored \in [Nodes -> Status]
    /\ status \in [Nodes -> Status]
    /\ dirty \subseteq Nodes
    /\ parallelism \in Nat
    /\ stack \in Seq(Frames)
    /\ payload \in [Nodes -> {"none", "live", "ended"}]
    /\ faults \in 0..MaxFaults

(* The workflow is running and its start node, which has no payload, is    *)
(* over.                                                                   *)
Init ==
    /\ graph \in Graphs
    /\ policy \in Policies
    /\ workflow = "Running"
    /\ stored = [n \in Nodes |->
                    [phase |-> IF n = Start THEN "Succeeded" ELSE "NotYetStarted",
                     taken |-> None, attempts |-> 0, answered |-> "no"]]
    /\ status = stored
    /\ dirty = {}
    /\ parallelism = 0
    /\ stack = <<>>
    /\ payload = [n \in Nodes |-> "none"]
    /\ faults = MaxFaults

Phase(n) == status[n].phase

---------------------------------------------------------------------------
(* Results of handleDownstream.                                            *)

Frame(n, kind) ==
    [node |-> n, kind |-> kind, next |-> 1, stopped |-> FALSE,
     allCompleted |-> TRUE, partial |-> FALSE, failure |-> "none"]

Children(f) == IF f.kind = "case" THEN <<status[f.node].taken>> ELSE Down(f.node)

AbsorbStopping(f, result) ==  \* mutant: the first failure ends the loop under both policies
    [f EXCEPT !.next = @ + 1, !.stopped = HasFailed(result),
              !.failure = IF HasFailed(result) THEN result ELSE @,
              !.allCompleted = @ /\ (HasFailed(result) \/ result = "Complete"),
              !.partial = @ \/ result = "Success"]

AbsorbQueued(f, result) ==  \* mutant: a node that waits for another counts as completed
    [f EXCEPT !.next = @ + 1, !.stopped = HasFailed(result) /\ policy = "FailImmediately",
              !.failure = IF HasFailed(result) THEN result ELSE @,
              !.allCompleted = @ /\ result # "Running",
              !.partial = @ \/ result = "Success"]

(* The loop's body after the call for one downstream node.                 *)
Absorb(f, result) ==
    LET failed == HasFailed(result) IN
    [f EXCEPT !.next = @ + 1,
              !.stopped = failed /\ policy = "FailImmediately",
              !.failure = IF failed THEN result ELSE @,
              !.allCompleted = @ /\ (failed \/ result = "Complete"),
              !.partial = @ \/ result = "Success"]

Result(f) ==
    IF HasFailed(Phase(f.node)) THEN Phase(f.node)
    ELSE IF f.failure # "none" /\ (f.stopped \/ f.allCompleted) THEN f.failure
    ELSE IF f.allCompleted THEN "Complete"
    ELSE IF f.partial THEN "Success" ELSE "Pending"

---------------------------------------------------------------------------
(* Visits to a node that is not over.                                      *)

IsMaxParallelismAchieved(n) ==
    MaxParallelism # 0 /\ ~IsBranch(n) /\ parallelism >= MaxParallelism

CanExecuteOnDirty(n) ==  \* mutant: what the round itself has changed counts
    CASE \E m \in Up(n) : ~IsOver(Phase(m)) -> "NotReady"
      [] \A m \in Up(n) : Phase(m) = "Succeeded" -> "Ready"
      [] OTHER -> "Skip"

(* The branch around a case has been decided when the case is visited.     *)
CanExecute(n) ==
    IF \/ (Up(n) \cup Parents(n)) \cap dirty # {}
       \/ \E m \in Up(n) : ~IsOver(Phase(m))
    THEN "NotReady"
    ELSE IF \A m \in Up(n) : Phase(m) = "Succeeded" THEN "Ready" ELSE "Skip"

(* The status of n changes to phase p, and the caller sees the result.     *)
Moves(n, p, result) ==
    /\ status' = [status EXCEPT ![n].phase = p]
    /\ dirty' = dirty \cup {n}
    /\ stack' = <<Absorb(Head(stack), result)>> \o Tail(stack)

(* Nothing is done for the node in this round.                             *)
Passes(result) ==
    /\ stack' = <<Absorb(Head(stack), result)>> \o Tail(stack)
    /\ UNCHANGED <<status, dirty, parallelism, payload>>

(* handleNotYetStartedNode.  Being queued counts.                          *)
HandleNotYetStarted(n) ==
    /\ Phase(n) = "NotYetStarted"
    /\ CASE CanExecute(n) = "NotReady" -> Passes("Pending")
         [] CanExecute(n) = "Skip"     ->
                Moves(n, "Skipped", "Success") /\ UNCHANGED <<parallelism, payload>>
         [] CanExecute(n) = "Ready"    ->
                \E v \in NotYetStartedVisits :
                    /\ v.to = "Failing" => "Failing" \in Outcomes
                    /\ v.to = "Succeeded" => ~IsBranch(n)
                    /\ Moves(n, v.to, v.returns)
                    /\ parallelism' = parallelism + (IF v.to = "Queued" THEN 1 ELSE 0)
                    /\ UNCHANGED payload

(* A visit that this node can have: a task succeeds when its payload has   *)
(* ended, and stays as it is only while the payload is at work.            *)
TaskVisits(n) ==
    {v \in Visits(Phase(n), Outcomes) :
        /\ v.to = "Succeeding" => Phase(n) = "Running" /\ payload[n] = "ended"
        /\ v.to = Phase(n) => Phase(n) = "Running" /\ payload[n] = "live"
        /\ v.to = "RetryableFailure" => status[n].attempts < MaxRetries}

PayloadAfter(n, v) ==
    CASE v.payload = "start" -> IF payload[n] = "none" THEN "live" ELSE payload[n]
      [] v.payload = "abort" -> "none"
      [] OTHER               -> payload[n]

(* The task handler counts every task that its plugin has not ended; a     *)
(* deadline, or an event that is refused, ends the node later than that.   *)
Counts(n, v) ==
    IF Phase(n) \notin {"Queued", "Retrying", "Running"} \/ v.to = "Succeeding" THEN {0}
    ELSE IF v.to = "Running" THEN {1}
    ELSE {0, 1}

HandleTask(n) ==
    /\ ~IsBranch(n) /\ Phase(n) # "NotYetStarted"
    /\ \E v \in TaskVisits(n) :
           /\ status' = [status EXCEPT ![n].phase = v.to,
                                       ![n].attempts = @ + (IF v.to = "Retrying" THEN 1 ELSE 0),
                                       ![n].answered = IF v = CacheHit THEN "yes" ELSE @]
           /\ dirty' = dirty \cup {n}
           /\ stack' = <<Absorb(Head(stack), v.returns)>> \o Tail(stack)
           /\ \E i \in Counts(n, v) : parallelism' = parallelism + i
           /\ payload' = [payload EXCEPT ![n] = PayloadAfter(n, v)]

(* HandleBranchNode, first time: the other cases are skipped; the chosen   *)
(* one learns of its parent, so that it is looked at in the next round.  A *)
(* branch needs no finalization: it is over at once when it cannot decide, *)
(* and when its active deadline has passed.                                *)
DecideBranch(n) ==
    /\ IsBranch(n) /\ Phase(n) \in {"Queued", "Running"} /\ status[n].taken = None
    /\ \E c \in Cases(n) \cup {None}, to \in {"Running", "Failed", "TimedOut"} :
           /\ c = None <=> to = "Failed"
           /\ to = "Failed" => "Failing" \in Outcomes
           /\ to = "TimedOut" => "TimingOut" \in Outcomes
           /\ status' = [m \in Nodes |->
                  IF m = n THEN [status[n] EXCEPT !.phase = to, !.taken = c]
                  ELSE IF m \in Cases(n) \ {c} THEN [status[m] EXCEPT !.phase = "Skipped"]
                  ELSE status[m]]
           /\ stack' = <<Absorb(Head(stack), to)>> \o Tail(stack)
    /\ dirty' = dirty \cup Cases(n) \cup {n}
    /\ UNCHANGED <<parallelism, payload>>

(* HandleBranchNode again: the chosen case is visited.                     *)
EnterCase(n) ==
    /\ IsBranch(n) /\ Phase(n) \in {"Queued", "Running"} /\ status[n].taken # None
    /\ stack' = <<Frame(n, "case")>> \o stack
    /\ UNCHANGED <<status, dirty, parallelism, payload>>

AbortGoesNotToCases(n) ==  \* mutant: a branch has nothing to abort
    IF IsDone(Phase(n)) THEN ToSet(Down(n)) ELSE {}

(* AbortHandler passes the call on from a node that is done to those       *)
(* downstream of it, and from a branch at work to its chosen case.         *)
AbortGoesTo(n) ==
    IF IsDone(Phase(n)) THEN ToSet(Down(n))
    ELSE IF IsAborted(Phase(n)) THEN {status[n].taken} \ {None}
    ELSE {}

(* Whatever the recursion reaches from n is aborted if it is at work.      *)
AbortReach(n) ==
    {m \in Nodes : \A S \in SUBSET Nodes :
        (n \in S /\ \A k \in S : AbortGoesTo(k) \subseteq S) => m \in S}

AbortedWith(n) == {m \in AbortReach(n) : IsAborted(Phase(m))}

AbortsWith(n) == payload' = [m \in Nodes |-> IF m \in AbortedWith(n) THEN "none" ELSE payload[m]]

HandleFailingBranch(n) ==
    /\ IsBranch(n) /\ Phase(n) = "Failing"
    /\ Moves(n, "Failed", "Failed")
    /\ AbortsWith(n)
    /\ UNCHANGED parallelism

(* handleRetryableFailure: the case is aborted, but the branch keeps its   *)
(* decision and the case its status.                                       *)
HandleRetryableBranch(n) ==
    /\ IsBranch(n) /\ Phase(n) = "RetryableFailure"
    /\ status' = [status EXCEPT ![n].phase = "Running", ![n].attempts = @ + 1]
    /\ dirty' = dirty \cup {n}
    /\ stack' = <<Absorb(Head(stack), "Pending")>> \o Tail(stack)
    /\ AbortsWith(n)
    /\ UNCHANGED parallelism

(* RecursiveNodeHandler for the next child of the innermost call.          *)
VisitNext ==
    /\ stack # <<>>
    /\ LET f == Head(stack)
           n == Children(f)[f.next]
       IN  /\ ~f.stopped /\ f.next =< Len(Children(f))
           /\ \/ /\ IsOver(Phase(n)) /\ f.kind = "down"
                 /\ stack' = <<Frame(n, "down")>> \o stack
                 /\ UNCHANGED <<status, dirty, parallelism, payload>>
              \/ /\ IsOver(Phase(n)) /\ f.kind = "case"
                 /\ Passes(IF HasFailed(Phase(n)) THEN Phase(n) ELSE "Complete")
              \/ /\ ~IsOver(Phase(n))
                 /\ IF n \in dirty \/ IsMaxParallelismAchieved(n)
                    THEN Passes("Running")
                    ELSE \/ HandleNotYetStarted(n) \/ HandleTask(n)
                         \/ DecideBranch(n) \/ EnterCase(n)
                         \/ HandleFailingBranch(n) \/ HandleRetryableBranch(n)
    /\ UNCHANGED <<graph, policy, workflow, stored, faults>>

(* execute's deadlines for a branch whose case is at work: the active one  *)
(* ends it at once, and so does that of the attempt unless it is retried.  *)
BranchDeadlines(n) ==
    {to \in {"TimedOut", "Failed", "RetryableFailure"} :
        /\ to = "TimedOut" => "TimingOut" \in Outcomes
        /\ to = "Failed" => "Failing" \in Outcomes
        /\ to = "RetryableFailure" =>
               "RetryableFailure" \in Outcomes /\ status[n].attempts < MaxRetries}

(* The innermost call returns to its caller.  A branch is what its case    *)
(* is, or, while the case is at work, what its deadlines make of it.       *)
BranchPhases(f) ==
    CASE Result(f) = "Complete"  -> {"Succeeded"}
      [] HasFailed(Result(f))    -> {"Failed"}
      [] OTHER                   -> {Phase(f.node)} \cup BranchDeadlines(f.node)

ReturnFromCase(f, callers) ==
    \E to \in BranchPhases(f) :
        /\ status' = [status EXCEPT ![f.node].phase = to]
        /\ dirty' = IF to = Phase(f.node) THEN dirty ELSE dirty \cup {f.node}
        /\ LET returns == CASE to = "Succeeded" -> "Success"
                            [] HasFailed(to)    -> to
                            [] OTHER            -> "Running"
           IN  stack' = <<Absorb(Head(callers), returns)>> \o Tail(callers)

Return ==
    /\ Len(stack) > 1
    /\ LET f == Head(stack) callers == Tail(stack) IN
       /\ f.stopped \/ f.next > Len(Children(f))
       /\ \/ f.kind = "case" /\ ReturnFromCase(f, callers)
          \/ /\ f.kind = "down"
             /\ stack' = <<Absorb(Head(callers), Result(f))>> \o Tail(callers)
             /\ UNCHANGED <<status, dirty>>
    /\ UNCHANGED <<graph, policy, workflow, stored, parallelism, payload, faults>>

---------------------------------------------------------------------------
(* Rounds.                                                                 *)

BeginRound ==
    /\ workflow = "Running" /\ stack = <<>>
    /\ stack' = <<Frame(Start, "down")>>
    /\ UNCHANGED <<graph, policy, workflow, stored, status, dirty, parallelism, payload, faults>>

EndRoundKeepingCount ==  \* mutant: the counter is not the round's own
    /\ Len(stack) = 1
    /\ LET f == Head(stack) IN
       /\ f.stopped \/ f.next > Len(Children(f))
       /\ workflow' = CASE HasFailed(Result(f))     -> "Failing"
                        [] Result(f) = "Complete"   -> "Succeeding"
                        [] OTHER                    -> "Running"
    /\ stored' = status
    /\ dirty' = {} /\ stack' = <<>>
    /\ UNCHANGED <<graph, policy, status, parallelism, payload, faults>>

(* handleRunningWorkflow, and the resource is stored.                      *)
EndRound ==
    /\ Len(stack) = 1
    /\ LET f == Head(stack) IN
       /\ f.stopped \/ f.next > Len(Children(f))
       /\ workflow' = CASE HasFailed(Result(f))     -> "Failing"
                        [] Result(f) = "Complete"   -> "Succeeding"
                        [] OTHER                    -> "Running"
    /\ stored' = status
    /\ dirty' = {} /\ parallelism' = 0 /\ stack' = <<>>
    /\ UNCHANGED <<graph, policy, status, payload, faults>>

(* An error in some handler, a crash or a conflict: nothing is stored.     *)
LoseRound ==
    /\ stack # <<>> /\ faults > 0
    /\ faults' = faults - 1
    /\ status' = stored
    /\ dirty' = {} /\ parallelism' = 0 /\ stack' = <<>>
    /\ UNCHANGED <<graph, policy, workflow, stored, payload>>

(* The execution is terminated between rounds.                             *)
Terminate ==
    /\ workflow = "Running" /\ stack = <<>> /\ faults > 0
    /\ workflow' = "Failing" /\ faults' = faults - 1
    /\ UNCHANGED <<graph, policy, stored, round, payload>>

(* cleanupRunningNodes: AbortHandler from the start node.                  *)
AbortWorkflow ==
    /\ workflow = "Failing"
    /\ AbortsWith(Start)
    /\ workflow' = "Failed"
    /\ UNCHANGED <<graph, policy, stored, round, faults>>

PayloadEnds(n) ==
    /\ payload[n] = "live"
    /\ payload' = [payload EXCEPT ![n] = "ended"]
    /\ UNCHANGED <<graph, policy, workflow, stored, round, faults>>

Done ==
    /\ workflow \in {"Failed", "Succeeding"}
    /\ UNCHANGED vars

Next ==
    \/ BeginRound \/ VisitNext \/ Return \/ EndRound \/ LoseRound
    \/ Terminate \/ AbortWorkflow \/ Done
    \/ \E n \in Nodes : PayloadEnds(n)

Spec == Init /\ [][Next]_vars

(* Workflows are put back on the queue and a round runs to its end;        *)
(* payloads end.                                                           *)
FairSpec ==
    /\ Spec
    /\ WF_vars(BeginRound) /\ WF_vars(VisitNext) /\ WF_vars(Return) /\ WF_vars(EndRound)
    /\ WF_vars(AbortWorkflow)
    /\ \A n \in Nodes : WF_vars(PayloadEnds(n))
---------------------------------------------------------------------------
(* Properties.                                                             *)

Top == {n \in Nodes : Parents(n) = {}}

(* A node is taken up only when everything upstream of it has succeeded in *)
(* the stored resource, and a case only when the resource says that it was *)
(* chosen: a lost round never leaves a node started before its inputs are  *)
(* recorded (CanExecute's dirty checks).                                   *)
StartsAfterUpstream ==
    \A n \in Nodes : Phase(n) \notin {"NotYetStarted", "Skipped"} =>
        /\ \A m \in Up(n) : stored[m].phase = "Succeeded"
        /\ \A b \in Parents(n) : stored[b].taken = n

(* A node is left out only for a reason that the resource records: an      *)
(* upstream node that did not succeed, or a branch that chose otherwise.   *)
(* A workflow succeeds only if each of its nodes succeeded or was left out.*)
OutcomeIsHonest ==
    /\ \A n \in Nodes : stored[n].phase = "Skipped" =>
           \/ \E m \in Up(n) : stored[m].phase \in {"Skipped", "Failed", "TimedOut"}
           \/ \E b \in Parents(n) : stored[b].taken # n /\ stored[b].phase # "NotYetStarted"
    /\ workflow = "Succeeding" => \A n \in Top : IsDone(stored[n].phase)

(* With FAIL_AFTER_EXECUTABLE_NODES_COMPLETE, failed nodes fail the        *)
(* workflow only when no node is left that runs or could run               *)
(* (handleDownstream); with neither policy does it fail for nothing.       *)
ExecutableNodesComplete ==
    [][(workflow = "Running" /\ workflow' = "Failing" /\ faults' = faults) =>
          /\ \E n \in Top : HasFailed(stored'[n].phase)
          /\ policy = "FailAfterExecutable" =>
                 \A n \in Top : (\A m \in Up(n) : stored'[m].phase = "Succeeded") => IsOver(stored'[n].phase)]_vars

(* The chosen case of branch b, that case's own if it is a branch, ...     *)
Chosen(b) ==
    {n \in Nodes : \A S \in SUBSET Nodes :
        (b \in S /\ \A m \in S : {stored[m].taken} \ {None} \subseteq S) => n \in S}

(* A branch that a deadline ended before its case was over.                *)
EndedEarly(b) ==
    /\ HasFailed(stored[b].phase)
    /\ stored[b].taken # None /\ ~IsOver(stored[stored[b].taken].phase)

(* Nothing runs on for a workflow that is over, wherever its rounds were   *)
(* lost, with two exceptions.  A branch that a deadline ends is over at    *)
(* once, and neither its end nor an abort reaches its case; and an answer  *)
(* of the cache leaves what a lost visit started.                          *)
NoPayloadOutlivesWorkflow ==
    workflow \in {"Failed", "Succeeding"} =>
        \A n \in Nodes : payload[n] = "live" =>
            \/ stored[n].answered = "yes"
            \/ \E b \in Nodes \ {n} : EndedEarly(b) /\ n \in Chosen(b)

(* Every workflow ends: no node waits for ever for another, for a place    *)
(* under the parallelism limit, or for a visit.                            *)
WorkflowEnds == <>(workflow \in {"Failed", "Succeeding"})

(* What IsMaxParallelismAchieved says of itself: at most MaxParallelism    *)
(* task nodes are executed concurrently.                                   *)
ParallelismIsBounded ==
    MaxParallelism # 0 => Cardinality({n \in Nodes : payload[n] = "live"}) =< MaxParallelism
============================================================================
