----------------------------- MODULE ArrayNode -----------------------------
(***************************************************************************)
(* One array (map) node: its handler keeps the status of every subnode in  *)
(* compact arrays of its own, drives a bounded number of them per round    *)
(* through the node executor, decides when the array has succeeded or      *)
(* failed, gathers the outputs and reports all subnodes to admin in one    *)
(* task event.  A round acts on the payloads and tells admin before its    *)
(* state is stored with the workflow; a round that ends in an error, a     *)
(* panic or a crash leaves both as it made them.                           *)
(***************************************************************************)
EXTENDS Integers, FiniteSets, Sequences, NodePhases

CONSTANTS
    Size,               \* length of the inputs
    Setups,             \* successes needed, parallelism asked for (Null, 0 for unlimited, or a
                        \* limit), DefaultParallelismBehavior, and faults that happen
    Null,
    MaxAttempts,        \* attempts of a subnode, from its own retry strategy
    ArrayAttempts,      \* attempts that the retry strategy of the array node has
    MaxNodeRetriesOnSystemFailures,
    IgnoreRetryCause,   \* whether the kind of a failure matters for retries
    MaxWorkflowRetries, \* rounds of the workflow that may end in an error
    PermanentKinds,     \* kinds of error a task may report as permanent
    MaxFaults           \* bound: rounds that fail or are lost, outputs that cannot be read

ASSUME SizeAssumption == Size \in Nat
ASSUME AttemptsAssumption ==
    /\ MaxAttempts \in Nat \ {0} /\ ArrayAttempts \in Nat \ {0}
    /\ MaxNodeRetriesOnSystemFailures \in Nat /\ IgnoreRetryCause \in BOOLEAN
    /\ MaxWorkflowRetries \in Nat
ASSUME KindsAssumption == PermanentKinds \subseteq {"user", "system", "stuck"}
ASSUME FaultsAssumption == MaxFaults \in Nat
ASSUME SetupsAssumption ==
    /\ Null \notin Nat
    /\ Setups \subseteq [minSuccesses : Nat, parallelism : Nat \cup {Null},
                          behavior : {"workflow", "hybrid", "unlimited"}, faults : 0..MaxFaults]

VARIABLES
    spec,           \* the setup: the node's spec and the configured behavior
    node,           \* phase of the array node itself in the node executor
    workflow,       \* running, aborting its nodes (and handling none), aborted, or failed
                    \* although its nodes could not be aborted
    tries,          \* Status.FailedAttempts of the workflow
    phase,          \* ArrayNodeState.Phase
    sub,            \* the compact arrays: the recorded status of every subnode
    version,        \* ArrayNodeState.TaskPhaseVersion
    payload,        \* payload[i]: attempts of subnode i whose pod is at work
    outputs,        \* the collection written to the node's outputs file
    admin,          \* the array's task execution in admin
    faults          \* faults that may still happen

state == <<phase, sub, version>>
vars == <<spec, node, workflow, tries, state, payload, outputs, admin, faults>>

Indexes == 0..Size-1
Attempts == 0..(MaxAttempts + MaxNodeRetriesOnSystemFailures)

(* SubNodeTaskPhases, as far as it matters: none yet, two that the pod     *)
(* goes through, and the final ones.  CleanupOnFailure has no array and is *)
(* forgotten.                                                              *)
SubNodeStatuses ==
    [phase : NodePhases, task : {"none", "starting", "running", "ended"},
     attempts : Attempts, systemFailures : Nat]

HasEnded(s) == s.task = "ended"

IsTerminalNodePhase(p) == p \in {"Succeeded", "Failed", "TimedOut"}
IsTerminalTaskPhase(p) == p \in {"SUCCEEDED", "FAILED", "ABORTED"}
TaskPhases == {"UNDEFINED", "QUEUED", "RUNNING", "SUCCEEDED", "FAILED", "ABORTED"}

(* An entry of the gathered collection.                                    *)
NilLiteral == [index |-> Null, attempt |-> Null]
OutputOf(i) == [index |-> i, attempt |-> sub[i].attempts]

TypeOK ==
    /\ spec \in Setups
    /\ node \in {"Running", "Failing", "Failed", "Succeeding", "Succeeded"}
    /\ workflow \in {"running", "aborting", "aborted", "failed"} /\ tries \in Nat
    /\ phase \in {"None", "Executing", "Failing", "Succeeding"}
    /\ sub \in [Indexes -> SubNodeStatuses]
    /\ version \in Nat
    /\ payload \in [Indexes -> SUBSET Attempts]
    /\ outputs \in Seq([index : Indexes, attempt : Attempts] \cup {NilLiteral})
    /\ admin \in [phase : TaskPhases, version : Nat, subs : [Indexes -> TaskPhases]]
    /\ faults \in 0..MaxFaults

NotStarted ==
    [phase |-> "NotYetStarted", task |-> "none", attempts |-> 0, systemFailures |-> 0]

Init ==
    /\ spec \in Setups
    /\ node = "Running"
    /\ workflow = "running" /\ tries = 0
    /\ phase = "None"
    /\ sub = [i \in Indexes |-> NotStarted]
    /\ version = 0
    /\ payload = [i \in Indexes |-> {}]
    /\ outputs = << >>
    /\ admin = [phase |-> "UNDEFINED", version |-> 0, subs |-> [i \in Indexes |-> "UNDEFINED"]]
    /\ faults = spec.faults

---------------------------------------------------------------------------
(* The compact arrays: SetItem panics on a value that does not fit.        *)

BitsNeeded(max) == CHOOSE k \in 0..max : 2^k >= max + 1 /\ \A l \in 0..k-1 : 2^l < max + 1
MaxItem(max) == 2^BitsNeeded(max) - 1

(* The sizes come from the array node's retry strategy.                    *)
MaxAttemptsValue ==
    ArrayAttempts + (IF IgnoreRetryCause THEN 0 ELSE MaxNodeRetriesOnSystemFailures)
MaxSystemFailuresValue ==
    IF IgnoreRetryCause THEN ArrayAttempts ELSE MaxNodeRetriesOnSystemFailures

Fits(s) ==
    /\ s.attempts =< MaxItem(MaxAttemptsValue)
    /\ s.systemFailures =< MaxItem(MaxSystemFailuresValue)

---------------------------------------------------------------------------
(* What admin makes of a task event.                                       *)

(* CreateTaskExecutionEvent: an event that is not news is refused, and the *)
(* refusal of a terminal one is ignored by the recorder.                   *)
AdminAccepts(taskPhase, taskVersion) ==
    /\ ~(admin.phase = taskPhase /\ admin.version >= taskVersion)
    /\ ~IsTerminalTaskPhase(admin.phase)

Reports(taskPhase, taskVersion, subs) ==
    admin' = IF AdminAccepts(taskPhase, taskVersion)
             THEN [phase |-> taskPhase, version |-> taskVersion, subs |-> subs]
             ELSE admin

(* mapNodePhaseToNodeExecutionPhase, mapNodeExecutionPhaseToTaskExecutionPhase. *)
ToTaskPhase(p) ==
    CASE p = "NotYetStarted"           -> "UNDEFINED"
      [] p = "Queued"                  -> "QUEUED"
      [] p \in {"Running", "Retrying"} -> "RUNNING"
      [] p \in {"Succeeding", "Succeeded"} -> "SUCCEEDED"
      [] p \in {"RetryableFailure", "Failing", "Failed", "TimingOut", "TimedOut"} -> "FAILED"

UpdateNoSubnodePhases(news) ==  \* mutant: only what this round has to say
    [i \in Indexes |-> IF news[i] # "none" THEN news[i] ELSE admin.subs[i]]

(* updateExternalResourceSubnodePhases: a terminal event tells the latest  *)
(* state of the subnodes that this round has no news of.                   *)
UpdateSubnodePhases(news) ==
    [i \in Indexes |-> IF news[i] # "none" THEN news[i] ELSE ToTaskPhase(sub[i].phase)]

---------------------------------------------------------------------------
(* One visit of the node executor to one subnode.                          *)

Visited(s, effect, event) == [sub |-> s, effect |-> effect, event |-> event]

IsEligibleForRetry(s, kind) ==
    IF IgnoreRetryCause THEN s.attempts + 1 < MaxAttempts
    ELSE IF kind = "system" THEN s.systemFailures < MaxNodeRetriesOnSystemFailures
    ELSE s.attempts + 1 - s.systemFailures < MaxAttempts

(* The status of the task is cleared.                                      *)
Retryable(s, kind) ==
    [s EXCEPT !.phase = "RetryableFailure", !.task = "none",
              !.systemFailures = @ + (IF kind = "system" THEN 1 ELSE 0)]

(* A deadline leaves the task phase as it is; retries that are exhausted   *)
(* are an error of the user, a permanent error of the system counts twice. *)
Failing(s, kind, counted) ==
    [s EXCEPT !.phase = "Failing", !.task = IF kind = "deadline" THEN @ ELSE "ended",
              !.systemFailures = @ + counted]

FailedSubNode(s, kind, effect) ==
    LET event == IF kind = "deadline" THEN "none" ELSE "FAILED" IN
    {Visited(IF IsEligibleForRetry(s, kind) THEN Retryable(s, kind) ELSE Failing(s, kind, 0),
             effect, event)}
    \cup {Visited(Failing(s, k, IF k = "system" THEN 2 ELSE 0), effect, event) :
            k \in {kind} \cap PermanentKinds}

(* The task has ended, its pod cannot start but exists ("stuck", a failure *)
(* with CleanupOnFailure), or the attempt's deadline has expired.          *)
FailedSubNodes(s) ==
    FailedSubNode(s, "user", "finish") \cup FailedSubNode(s, "system", "finish")
    \cup FailedSubNode(s, "stuck", "none") \cup FailedSubNode(s, "deadline", "none")

AbortEffect(s) == IF HasEnded(s) THEN "none" ELSE "finish"

(* RecursiveNodeHandler on a subnode.  Its inputs are mocked and need no   *)
(* resolution, and QueuedAt is not kept: it never times out.               *)
SubNodeVisits(s) ==
    CASE s.phase = "NotYetStarted" ->
            {Visited([s EXCEPT !.phase = "Queued"], "none", "none"),
             Visited([s EXCEPT !.phase = "Succeeded"], "none", "SUCCEEDED")}
      [] s.phase \in {"Queued", "Retrying"} ->
            {Visited(s, "none", "none"),
             Visited([s EXCEPT !.phase = "Running", !.task = "starting"], "start", "RUNNING")}
            \cup FailedSubNode(s, "user", "none")
      [] s.phase = "Running" ->
            {Visited(s, "none", "none"),
             Visited([s EXCEPT !.phase = "Succeeding", !.task = "ended"], "finish", "SUCCEEDED")}
            \cup {Visited([s EXCEPT !.task = "running"], "none", "RUNNING") : t \in {s.task} \cap {"starting"}}
            \cup FailedSubNodes(s)
      [] s.phase = "RetryableFailure" ->
            {Visited([s EXCEPT !.phase = "Retrying", !.attempts = @ + 1], AbortEffect(s), "none")}
      [] s.phase = "Failing" -> {Visited([s EXCEPT !.phase = "Failed"], AbortEffect(s), "none")}
      [] s.phase = "Succeeding" -> {Visited([s EXCEPT !.phase = "Succeeded"], "none", "none")}

Payloads(i, effect) ==
    CASE effect = "start"  -> payload[i] \cup {sub[i].attempts}
      [] effect = "finish" -> payload[i] \ {sub[i].attempts}
      [] effect = "none"   -> payload[i]

---------------------------------------------------------------------------
(* Handle.                                                                 *)

Handling(p) == workflow = "running" /\ node = "Running" /\ phase = p

CountsNothing ==  \* mutant: FailedAttempts is not stored
    UNCHANGED <<tries, workflow>>

(* The round ends in an error or a panic: the workflow is given up when    *)
(* there were too many of them.                                            *)
Counts ==
    /\ tries' = tries + 1
    /\ workflow' = IF tries' > MaxWorkflowRetries THEN "aborting" ELSE workflow

(* The node's state is not stored: the round ends in an error, or in a     *)
(* crash or a write that fails.                                            *)
Lost ==
    /\ faults > 0
    /\ faults' = faults - 1
    /\ Counts \/ UNCHANGED <<tries, workflow>>
    /\ UNCHANGED <<node, state>>

Stored == UNCHANGED <<workflow, tries, faults>>

(* The handler says that the node is running; the node executor may find   *)
(* that its deadline has expired.                                          *)
Runs == node' \in {"Running", "Failing"} /\ Stored

(* ArrayNodePhaseNone: the inputs are no arrays of one length, or the      *)
(* compact arrays are made and the subnodes reported.                      *)
HandleNone ==
    /\ Handling("None")
    /\ \/ /\ node' = "Failing" /\ Stored
          /\ UNCHANGED <<state, admin>>
       \/ /\ IF Size > 0
             THEN Reports("QUEUED", version, [i \in Indexes |-> "UNDEFINED"])
             ELSE UNCHANGED admin
          /\ \/ phase' = "Executing" /\ Runs /\ UNCHANGED <<sub, version>>
             \/ Lost
    /\ UNCHANGED <<spec, payload, outputs>>

(* inferParallelism; the workflow's remaining parallelism is what the      *)
(* other nodes have left of it.                                            *)
InferParallelism(remaining) ==
    IF spec.parallelism \notin {Null, 0} THEN spec.parallelism
    ELSE IF spec.behavior = "workflow" \/ (spec.behavior = "hybrid" /\ spec.parallelism = Null)
         THEN remaining
    ELSE Size

NonTerminal == {i \in Indexes : ~IsTerminalNodePhase(sub[i].phase)}

FirstIgnoringEarlier(limit) ==  \* mutant: only the subnodes that run are counted
    {i \in NonTerminal :
        Cardinality({j \in 0..i-1 : sub[j].phase = "Running"}) < limit}

FirstNonTerminal(limit) ==
    {i \in NonTerminal : Cardinality({j \in NonTerminal : j < i}) < limit}

Count(subs, phases) == Cardinality({i \in Indexes : subs[i].phase \in phases})

NextPhaseWaitingForNone(subs) ==  \* mutant: running subnodes are not waited for
    IF Size - Count(subs, {"Failed", "TimedOut"}) < spec.minSuccesses THEN "Failing"
    ELSE IF Count(subs, {"Succeeded"}) >= spec.minSuccesses THEN "Succeeding"
    ELSE "Executing"

(* A subnode that is Failing is neither running nor failed.                *)
NextPhase(subs) ==
    IF Size - Count(subs, {"Failed", "TimedOut"}) < spec.minSuccesses THEN "Failing"
    ELSE IF /\ Count(subs, {"Succeeded"}) >= spec.minSuccesses
            /\ \A i \in Indexes : subs[i].phase \in {"Succeeded", "Failing", "Failed", "TimedOut"}
         THEN "Succeeding"
    ELSE "Executing"

(* finalize, when there is an event to send.  The version counts rounds    *)
(* that changed a subnode and starts again with the phase.                 *)
SentVersion(changed) == IF changed THEN version + 1 ELSE version

ReportsRound(visits, changed) ==
    IF \E i \in DOMAIN visits : visits[i].event # "none"
    THEN Reports("RUNNING", SentVersion(changed),
                 [i \in Indexes |->
                     IF i \in DOMAIN visits /\ visits[i].event # "none"
                     THEN visits[i].event ELSE admin.subs[i]])
    ELSE UNCHANGED admin

StoresRound(visits, changed) ==
    LET subs == [i \in Indexes |-> IF i \in DOMAIN visits THEN visits[i].sub ELSE sub[i]]
        sends == \E i \in DOMAIN visits : visits[i].event # "none" IN
    /\ sub' = subs
    /\ phase' = NextPhase(subs)
    /\ version' = IF ~sends THEN version
                  ELSE IF phase' # phase THEN 0 ELSE SentVersion(changed)

(* SetItem panics in the round: on a counter, or on the time at which a    *)
(* subnode has started, which may be too late for its array.               *)
Panics(visits) ==
    \E i \in DOMAIN visits : ~Fits(visits[i].sub) \/ visits[i].effect = "start"

(* The requests of a round are answered by the workers; an answer that is  *)
(* an error, or a panic of SetItem, ends the round before the event.       *)
Round(visits) ==
    LET changed == \E i \in DOMAIN visits : visits[i].sub # sub[i] IN
    \/ /\ payload' = [i \in Indexes |-> IF i \in DOMAIN visits
                                        THEN Payloads(i, visits[i].effect) ELSE payload[i]]
       /\ \/ /\ \A i \in DOMAIN visits : Fits(visits[i].sub)
             /\ ReportsRound(visits, changed)
             /\ (StoresRound(visits, changed) /\ Runs) \/ Lost
          \/ Panics(visits) /\ Counts /\ UNCHANGED <<node, state, admin, faults>>
    \/ /\ \E reached \in SUBSET DOMAIN visits :
              payload' = [i \in Indexes |-> IF i \in reached
                                            THEN Payloads(i, visits[i].effect) ELSE payload[i]]
       /\ Lost
       /\ UNCHANGED admin

HandleExecuting ==
    /\ Handling("Executing")
    /\ \E limit \in {InferParallelism(remaining) : remaining \in 0..Size} :
           LET answers == [i \in FirstNonTerminal(limit) |-> SubNodeVisits(sub[i])] IN
           \E visits \in [DOMAIN answers -> UNION {answers[i] : i \in DOMAIN answers}] :
               (\A i \in DOMAIN visits : visits[i] \in answers[i]) /\ Round(visits)
    /\ UNCHANGED <<spec, outputs>>

---------------------------------------------------------------------------
(* Abort and Finalize.                                                     *)

(* Subnodes that Abort turns to: started and not in a terminal state.      *)
Abortable ==
    {i \in NonTerminal : phase \in {"Executing", "Failing"} /\ sub[i].phase # "NotYetStarted"}

AbortedPhase == IF phase = "Failing" THEN "FAILED" ELSE "ABORTED"

(* Every subnode is tried, the errors are collected, and admin is told     *)
(* only when there is none.                                                *)
AbortsSubNodes(succeeding) ==
    payload' = [i \in Indexes |-> IF i \in succeeding
                                  THEN Payloads(i, AbortEffect(sub[i])) ELSE payload[i]]

Abort ==
    /\ AbortsSubNodes(Abortable)
    /\ Reports(AbortedPhase, 0,
               UpdateSubnodePhases([i \in Indexes |-> IF i \in Abortable THEN "ABORTED" ELSE "none"]))

AbortsSome ==
    /\ \E succeeding \in SUBSET Abortable : AbortsSubNodes(succeeding)
    /\ UNCHANGED admin

(* ArrayNodePhaseFailing: abort what still runs, then fail.                *)
HandleFailing ==
    /\ Handling("Failing")
    /\ \/ Abort /\ ((node' = "Failing" /\ Stored /\ UNCHANGED state) \/ Lost)
       \/ AbortsSome /\ Lost
    /\ UNCHANGED <<spec, outputs>>

(* The node executor on a node that is failing: Abort and Finalize, which  *)
(* for a subnode only releases the pod's finalizer.                        *)
NodeFailing ==
    /\ workflow = "running" /\ node = "Failing"
    /\ \/ Abort /\ ((node' = "Failed" /\ Stored /\ UNCHANGED state) \/ Lost)
       \/ AbortsSome /\ Lost
    /\ UNCHANGED <<spec, outputs>>

(* The workflow is aborted, or another node of it has failed: that is      *)
(* recorded first, and AbortHandler is called until it succeeds.           *)
AbortWorkflow ==
    /\ workflow = "running" /\ node \notin {"Failed", "Succeeded"}
    /\ workflow' = "aborting"
    /\ UNCHANGED <<spec, node, tries, state, payload, outputs, admin, faults>>

(* HandleAbortedWorkflow: for a workflow that is given up the clean-up is  *)
(* best effort.                                                            *)
GivesUp ==
    /\ tries > MaxWorkflowRetries /\ faults > 0
    /\ faults' = faults - 1
    /\ workflow' = "failed"
    /\ UNCHANGED <<node, tries, state>>

AbortNode ==
    /\ workflow = "aborting"
    /\ \/ /\ Abort
          /\ (workflow' = "aborted" /\ UNCHANGED <<node, tries, state, faults>>) \/ Lost
       \/ AbortsSome /\ (GivesUp \/ Lost)
    /\ UNCHANGED <<spec, outputs>>

---------------------------------------------------------------------------
(* Outputs.                                                                *)

Gathered ==
    [n \in 1..Size |-> IF sub[n-1].phase = "Succeeded" THEN OutputOf(n-1) ELSE NilLiteral]

(* The worker drops the error of an output that it cannot read: it answers *)
(* with no literals, and the handler appends nothing for the subnode.      *)
GatheredWithout(i) == SubSeq(Gathered, 1, i) \o SubSeq(Gathered, i + 2, Size)

Succeeds == Reports("SUCCEEDED", 0, UpdateSubnodePhases([i \in Indexes |-> "none"]))

(* ArrayNodePhaseSucceeding: gather, write, report.                        *)
HandleSucceeding ==
    /\ Handling("Succeeding")
    /\ \/ /\ outputs' = Gathered
          /\ Succeeds
          /\ (node' = "Succeeding" /\ Stored /\ UNCHANGED state) \/ Lost
       \/ \E i \in Indexes :
              /\ sub[i].phase = "Succeeded" /\ faults > 0
              /\ outputs' = GatheredWithout(i)
              /\ Succeeds
              /\ node' = "Succeeding"
              /\ faults' = faults - 1
              /\ UNCHANGED <<workflow, tries, state>>
    /\ UNCHANGED <<spec, payload>>

(* The node executor on a node that is succeeding: Finalize only.          *)
NodeSucceeding ==
    /\ workflow = "running" /\ node = "Succeeding"
    /\ (node' = "Succeeded" /\ Stored /\ UNCHANGED state) \/ Lost
    /\ UNCHANGED <<spec, payload, outputs, admin>>

---------------------------------------------------------------------------
Over == node \in {"Failed", "Succeeded"} \/ workflow \in {"aborted", "failed"}

Done == Over /\ UNCHANGED vars

Next ==
    \/ HandleNone \/ HandleExecuting \/ HandleFailing \/ HandleSucceeding
    \/ NodeFailing \/ NodeSucceeding \/ AbortWorkflow \/ AbortNode \/ Done

Spec == Init /\ [][Next]_vars

(* The workflow is visited again and again, and an attempt of a subnode    *)
(* does not run for ever: its pod ends or the execution deadline expires.  *)
Advances == \E i \in Indexes : sub'[i] # sub[i]

FairSpec ==
    /\ Spec
    /\ WF_vars(HandleNone /\ state' # state)
    /\ WF_vars(HandleExecuting /\ (Advances \/ phase' # phase \/ tries' # tries))
    /\ WF_vars(HandleFailing /\ node' # node)
    /\ WF_vars(HandleSucceeding /\ node' # node)
    /\ WF_vars(NodeFailing /\ node' # node)
    /\ WF_vars(NodeSucceeding /\ node' # node)
    /\ WF_vars(AbortNode /\ workflow' # workflow)

---------------------------------------------------------------------------
(* Properties.                                                             *)

(* handler.go:297-354, inferParallelism: the limit that the node asks for  *)
(* bounds the pods at work, those of lost rounds and of earlier attempts   *)
(* included, although a round only looks at recorded phases.  A task that  *)
(* is recorded as ended counts no more.                                    *)
ParallelismIsRespected ==
    spec.parallelism \notin {Null, 0} =>
        Cardinality({w \in Indexes \X Attempts : w[2] \in payload[w[1]] /\ ~HasEnded(sub[w[1]])})
            =< spec.parallelism

(* An array that is over has left no pod behind, but for the two cases in  *)
(* which the handler never aborts one: a subnode still Failing when the    *)
(* array succeeds, and a task recorded as failed whose CleanupOnFailure    *)
(* has been forgotten.  A workflow that was given up and whose abort       *)
(* failed, too, is not cleaned up.                                         *)
LeavesOnlyFailures ==
    Over /\ workflow # "failed" =>
        \A i \in Indexes :
            payload[i] # {} =>
                HasEnded(sub[i]) \/ (phase = "Succeeding" /\ sub[i].phase = "Failing")

(* "eventual subnode phase consistency when the array node reaches a       *)
(* terminal phase" (event_recorder.go): events of repeated rounds are      *)
(* refused for their version, yet a terminal task execution shows every    *)
(* subnode as it ended.                                                    *)
AdminSeesTheEnd ==
    IsTerminalTaskPhase(admin.phase) =>
        \A i \in Indexes :
            \/ sub[i].phase = "Succeeded" /\ admin.subs[i] = "SUCCEEDED"
            \/ sub[i].phase = "Failed" /\ admin.subs[i] = "FAILED"
            \/ sub[i].phase = "NotYetStarted" /\ admin.subs[i] = "UNDEFINED"
            \/ i \in NonTerminal /\ admin.subs[i] \in {"ABORTED", "FAILED"}

(* Every array node ends.                                                  *)
ArrayEnds == <>Over

(* handler.go, "if any workers failed then return the error": the outputs  *)
(* of an array are those of its subnodes, in their order.                  *)
OutputsAlign ==
    node = "Succeeded" =>
        /\ Len(outputs) = Size
        /\ \A i \in Indexes :
               outputs[i+1] = IF sub[i].phase = "Succeeded" THEN OutputOf(i) ELSE NilLiteral
============================================================================
