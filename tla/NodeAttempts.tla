--------------------------- MODULE NodeAttempts ---------------------------
(***************************************************************************)
(* One task node over all its attempts: the node executor's retries,       *)
(* deadlines and aborts, the task handler, and the Kubernetes plugin that  *)
(* runs attempt n in a pod named after n.  A visit acts on the pods first  *)
(* and records the node's status afterwards, with the workflow; a visit    *)
(* that is lost (a failed event, a conflict, a crash, an error after the   *)
(* call to Kubernetes) leaves the pods as it made them.                    *)
(***************************************************************************)
EXTENDS Integers, NodePhases

CONSTANTS
    MinAttempts,                        \* attempts a node may ask for; 1 is also "not set"
    DefaultMaxAttempts,                 \* NodeConfig.DefaultMaxAttempts
    MaxNodeRetriesOnSystemFailures,     \* NodeConfig.MaxNodeRetriesOnSystemFailures
    InterruptibleFailureThreshold,      \* NodeConfig.InterruptibleFailureThreshold
    ActiveDeadline,                     \* ticks from queueing to the end of the node, 0 is none
    ExecutionDeadline,                  \* ticks for one attempt, 0 is none
    Word,                               \* 2^32
    LastAttempt,                        \* bound: no attempt has a higher number
    MaxFaults                           \* bound: lost visits and pods deleted by others

ASSUME MinAttemptsAssumption == MinAttempts \subseteq Nat
ASSUME DefaultAssumption == DefaultMaxAttempts \in Nat \ {0}
ASSUME SystemAssumption == MaxNodeRetriesOnSystemFailures \in Nat
ASSUME ThresholdAssumption == InterruptibleFailureThreshold \in Int
ASSUME DeadlinesAssumption == ActiveDeadline \in Nat /\ ExecutionDeadline \in Nat
ASSUME LastAttemptAssumption ==
    /\ LastAttempt \in Nat
    /\ \A n \in MinAttempts \cup {DefaultMaxAttempts} :
           n + MaxNodeRetriesOnSystemFailures =< LastAttempt + 1
ASSUME WordAssumption == Word \in Nat /\ LastAttempt + 1 < Word
ASSUME FaultsAssumption == MaxFaults \in Nat

VARIABLES
    policy,             \* the node's retry strategy and the IgnoreRetryCause it runs under
    phase,              \* NodeStatus.Phase
    attempts,           \* NodeStatus.Attempts
    systemFailures,     \* NodeStatus.SystemFailures
    queuedFor,          \* ticks since NodeStatus.QueuedAt, or Never
    attemptFor,         \* ticks since NodeStatus.LastAttemptStartedAt, or Never
    task,               \* NodeStatus.TaskNodeStatus: what the plugin has recorded
    error,              \* NodeStatus.Error: kind of the last failure
    waiting,            \* NodeStatus.Message: queued behind another owner's reservation
    aborted,            \* the workflow has aborted the node and visits it no more
    pod,                \* pod[n]: the pod of attempt n
    interruptible,      \* attempts whose pod was built to run on an interruptible machine
    age,                \* history: ticks since the current attempt began
    left,               \* history: attempts said to be over, unasked, with their pod at work
    faults              \* faults that may still happen

status == <<phase, attempts, systemFailures, queuedFor, attemptFor, task, error, waiting>>
cluster == <<pod, interruptible>>
vars == <<policy, status, aborted, cluster, age, left, faults>>

Attempts == 0..LastAttempt
Never == 0 - 1

Phases == NodePhases \ {"Retrying"}
IsTerminal(p) == p \in {"Failed", "TimedOut", "Succeeded"}

(* What the status says of the task: no resource created, resource         *)
(* created, or a final phase of the plugin; "unclean" is a failure with    *)
(* CleanupOnFailure.                                                       *)
Tasks == {"none", "started", "failed", "unclean", "succeeded"}

(* A pod is absent, at work, at work but deleted, or done.  "killed" is a  *)
(* pod that the system ended (preemption, SIGKILL).                        *)
Pods == {"none", "live", "deleted", "succeeded", "failed", "killed"}

Errors == {"none", "user", "system", "unknown", "deadline"}

TypeOK ==
    /\ policy \in [minAttempts : MinAttempts, ignoreRetryCause : BOOLEAN]
    /\ phase \in Phases
    /\ attempts \in Attempts
    /\ systemFailures \in Nat
    /\ queuedFor \in Nat \cup {Never}
    /\ attemptFor \in Nat \cup {Never}
    /\ task \in Tasks
    /\ error \in Errors
    /\ waiting \in BOOLEAN
    /\ aborted \in BOOLEAN
    /\ pod \in [Attempts -> Pods]
    /\ interruptible \subseteq Attempts
    /\ age \in Nat
    /\ left \subseteq Attempts
    /\ faults \in 0..MaxFaults

Init ==
    /\ policy \in [minAttempts : MinAttempts, ignoreRetryCause : BOOLEAN]
    /\ phase = "NotYetStarted"
    /\ attempts = 0
    /\ systemFailures = 0
    /\ queuedFor = Never
    /\ attemptFor = Never
    /\ task = "none"
    /\ error = "none"
    /\ waiting = FALSE
    /\ aborted = FALSE
    /\ pod = [n \in Attempts |-> "none"]
    /\ interruptible = {}
    /\ age = 0
    /\ left = {}
    /\ faults = MaxFaults

---------------------------------------------------------------------------
(* Retries and deadlines.                                                  *)

Uint(n) == n % Word

MaxAttempts ==
    IF policy.minAttempts # 1 THEN policy.minAttempts ELSE DefaultMaxAttempts

IsEligibleForRetryCountingFromZero(kind) ==  \* mutant: off by one
    IF kind = "system" /\ ~policy.ignoreRetryCause
    THEN systemFailures =< MaxNodeRetriesOnSystemFailures
    ELSE IF policy.ignoreRetryCause THEN attempts < MaxAttempts
    ELSE Uint(attempts - systemFailures) < MaxAttempts

(* A system failure has a budget of its own unless its cause is ignored.   *)
IsEligibleForRetry(kind) ==
    IF kind = "system" /\ ~policy.ignoreRetryCause
    THEN systemFailures < MaxNodeRetriesOnSystemFailures
    ELSE IF policy.ignoreRetryCause THEN attempts + 1 < MaxAttempts
    ELSE Uint(attempts + 1 - systemFailures) < MaxAttempts

IsTimeoutExpiredUnlessSet(ticks, deadline) ==  \* mutant: IsZero the wrong way round
    ticks = Never /\ deadline # 0 /\ ticks > deadline

IsTimeoutExpired(ticks, deadline) == ticks # Never /\ deadline # 0 /\ ticks > deadline

IsBeyondInterruptibleFailureThreshold(failures, max) ==  \* mutant: off by one
    failures > Uint(max + InterruptibleFailureThreshold)

IsAboveInterruptibleFailureThreshold(failures, max) ==
    IF InterruptibleFailureThreshold > 0
    THEN failures >= InterruptibleFailureThreshold
    ELSE failures >= Uint(max + InterruptibleFailureThreshold)

(* BuildNodeExecutionContext, for a node that asks to be interruptible.    *)
IsInterruptible ==
    IF policy.ignoreRetryCause
    THEN ~(attempts > 0 /\ IsAboveInterruptibleFailureThreshold(attempts, MaxAttempts))
    ELSE ~IsAboveInterruptibleFailureThreshold(
              systemFailures, MaxNodeRetriesOnSystemFailures + 1)

---------------------------------------------------------------------------
(* The task handler and the Kubernetes plugin.                             *)

Report(says, kind, recorded) == [says |-> says, kind |-> kind, task |-> recorded]

(* launchResource: created (or found, created by a visit that was lost),   *)
(* waiting for quota, forbidden, or impossible to build.  The last two do  *)
(* not ask for a cleanup, although a lost visit may have created the pod.  *)
LaunchReports ==
    {Report("running", "none", "started"), Report("running", "none", "none")}
    \cup {Report(says, "user", "failed") : says \in {"retryable", "permanent"}}

(* A pod that cannot start fails with CleanupOnFailure while it exists.    *)
StuckReports ==
    {Report(says, "user", "unclean") : says \in {"retryable", "permanent"}}
    \cup {Report("retryable", "system", "unclean")}

(* invokePlugin's limit on phase versions fails a task that is at work    *)
(* and does not ask for a cleanup.                                         *)
TooManyPluginPhaseVersions == {Report("permanent", "unknown", "failed")}

(* ValidateOutput on a success: an error file of the task says otherwise.  *)
OutputReports ==
    {Report("success", "none", "succeeded")}
    \cup {Report(says, kind, "failed") :
            says \in {"retryable", "permanent"}, kind \in {"user", "system"}}

CheckReports ==
    CASE pod[attempts] = "live"      -> {Report("running", "none", "started")}
                                        \cup StuckReports \cup TooManyPluginPhaseVersions
      [] pod[attempts] = "deleted"   -> {Report("retryable", "system", "failed")} \cup StuckReports
      [] pod[attempts] = "succeeded" -> OutputReports
      [] pod[attempts] = "failed"    -> {Report("retryable", "user", "failed")}
      [] pod[attempts] \in {"killed", "none"} -> {Report("retryable", "system", "failed")}

PluginReports == IF task = "none" THEN LaunchReports ELSE CheckReports

(* The pod that a launch creates; one of that name that exists is kept.    *)
Creates(r) == task = "none" /\ r.task = "started" /\ pod[attempts] = "none"

Launch(r) ==
    IF Creates(r)
    THEN /\ pod' = [pod EXCEPT ![attempts] = "live"]
         /\ interruptible' = IF IsInterruptible THEN interruptible \cup {attempts}
                             ELSE interruptible \ {attempts}
    ELSE UNCHANGED cluster

NeedsAbortIgnoringCleanup == task \in {"none", "started"}  \* mutant: every final phase

(* Handler.Abort does nothing to a task that has ended by itself.          *)
NeedsAbort == task \in {"none", "started", "unclean"}

StopsPodOf(n) ==
    pod' = IF NeedsAbort /\ pod[n] = "live" THEN [pod EXCEPT ![n] = "deleted"] ELSE pod

(* Abort: the pod of the recorded attempt is deleted, then finalized.      *)
AbortPod == StopsPodOf(attempts) /\ UNCHANGED interruptible

---------------------------------------------------------------------------
(* The node executor's visits.                                             *)

(* The visit's status is not recorded.                                     *)
Lost ==
    /\ faults > 0
    /\ faults' = faults - 1
    /\ UNCHANGED <<status, aborted, age, left>>

(* handleNotYetStartedNode: queued, inputs that cannot be resolved, or a   *)
(* hit in the catalog.                                                     *)
HandleNotYetStarted ==
    /\ phase = "NotYetStarted" /\ ~aborted
    /\ \E v \in NotYetStartedVisits :
           /\ phase' = v.to
           /\ queuedFor' = IF v.to = "Queued" THEN 0 ELSE queuedFor
           /\ error' = IF v.to = "Failing" THEN "user" ELSE error
    /\ UNCHANGED <<attempts, systemFailures, attemptFor, task, waiting>>
    /\ UNCHANGED <<aborted, cluster, age, left, faults>>

(* execute: a deadline replaces whatever is not final, a retryable failure *)
(* included.                                                               *)
AfterDeadlines(r) ==
    IF r.says \in {"success", "permanent"} THEN r
    ELSE IF IsTimeoutExpired(queuedFor, ActiveDeadline)
         THEN Report("timedOut", "none", r.task)
    ELSE IF IsTimeoutExpired(attemptFor, ExecutionDeadline)
         THEN Report("retryable", "deadline", r.task)
    ELSE r

KeepsRunning(r) ==
    /\ r.says = "running"
    /\ phase' = "Running"
    /\ attemptFor' = IF attemptFor = Never THEN 0 ELSE attemptFor
    /\ age' = IF attemptFor = Never THEN 0 ELSE age
    /\ task' = r.task
    /\ UNCHANGED <<systemFailures, error>>

RetriesWithoutClearing(r) ==  \* mutant: the attempt's start is not cleared
    /\ r.says = "retryable" /\ IsEligibleForRetry(r.kind)
    /\ phase' = "RetryableFailure"
    /\ systemFailures' = systemFailures + (IF r.kind = "system" THEN 1 ELSE 0)
    /\ error' = r.kind
    /\ UNCHANGED <<task, attemptFor, age>>

(* ClearNodeStatus drops the visit's task state: the status keeps the one  *)
(* that was recorded before.                                               *)
Retries(r) ==
    /\ r.says = "retryable" /\ IsEligibleForRetry(r.kind)
    /\ phase' = "RetryableFailure"
    /\ systemFailures' = systemFailures + (IF r.kind = "system" THEN 1 ELSE 0)
    /\ attemptFor' = Never
    /\ error' = r.kind
    /\ UNCHANGED <<task, age>>

EndsAtOnce(r) ==  \* mutant: a failed node is not finalized
    /\ r.says \in {"retryable", "permanent"} /\ ~(r.says = "retryable" /\ IsEligibleForRetry(r.kind))
    /\ phase' = "Failed"
    /\ error' = r.kind
    /\ task' = r.task
    /\ UNCHANGED <<systemFailures, attemptFor, age>>

(* A permanent failure of the system is counted twice; retries that are    *)
(* exhausted are a failure of the user.                                    *)
Ends(r) ==
    /\ r.says # "running" /\ ~(r.says = "retryable" /\ IsEligibleForRetry(r.kind))
    /\ phase' = CASE r.says = "success"  -> "Succeeding"
                  [] r.says = "timedOut" -> "TimingOut"
                  [] r.says \in {"retryable", "permanent"} -> "Failing"
    /\ systemFailures' =
           systemFailures + (IF r.says = "permanent" /\ r.kind = "system" THEN 2 ELSE 0)
    /\ error' = IF r.kind = "none" THEN error ELSE r.kind
    /\ task' = r.task
    /\ UNCHANGED <<attemptFor, age>>

(* The event about the new phase is too large or invalid.                  *)
EventIsRefused(r) ==
    /\ ~(r.says = "running" /\ phase = "Running")
    /\ ~(r.says = "retryable" /\ IsEligibleForRetry(r.kind))
    /\ phase' = "Failing"
    /\ systemFailures' =
           systemFailures + (IF r.says = "permanent" /\ r.kind = "system" THEN 2 ELSE 0)
    /\ error' = "user"
    /\ task' = r.task
    /\ UNCHANGED <<attemptFor, age>>

(* The recorded attempt is over for the executor: a final phase of the     *)
(* task, without CleanupOnFailure, is not aborted any more.                *)
LeavesPodAtWork == left' = left \cup {n \in {attempts} : pod[n] = "live"}
Leaves(r) == IF r.task \in {"failed", "succeeded"} THEN LeavesPodAtWork ELSE UNCHANGED left

HandleQueuedOrRunning(reports) ==
    /\ phase \in {"Queued", "Running"} /\ ~aborted
    /\ \E r \in reports :
           /\ Launch(r)
           /\ \/ LET v == AfterDeadlines(r) IN
                 /\ \/ (KeepsRunning(v) \/ Retries(v)) /\ UNCHANGED left
                    \/ (Ends(v) \/ EventIsRefused(v)) /\ Leaves(v)
                 /\ waiting' = FALSE
                 /\ UNCHANGED <<attempts, queuedFor, aborted, faults>>
              \/ Lost

(* Another owner holds the reservation: the handler is not asked, and      *)
(* neither are the deadlines.                                              *)
WaitForReservation ==
    /\ phase = "Queued" /\ ~aborted
    /\ waiting' = TRUE
    /\ UNCHANGED <<phase, attempts, systemFailures, queuedFor, attemptFor, task, error>>
    /\ UNCHANGED <<aborted, cluster, age, left, faults>>

(* UpdatePhase to a terminal phase clears most of the status.              *)
Clears ==
    /\ queuedFor' = Never
    /\ attemptFor' = Never
    /\ task' = "none"
    /\ waiting' = FALSE
    /\ UNCHANGED <<attempts, systemFailures, error, aborted, age, faults>>

(* A node that has waited finds its outputs in the catalog.  Its handler   *)
(* is not asked: a pod that a lost visit created runs on.                  *)
AnswerFromCache ==
    /\ phase = "Queued" /\ waiting /\ ~aborted
    /\ phase' = CacheHit.to
    /\ Clears
    /\ LeavesPodAtWork
    /\ UNCHANGED cluster

BeginNextAttempt ==
    /\ attempts' = attempts + 1
    /\ phase' = "Running"
    /\ attemptFor' = IF attemptFor = Never THEN 0 ELSE attemptFor
    /\ age' = 0
    /\ task' = "none"
    /\ UNCHANGED <<systemFailures, queuedFor, error, waiting, aborted, left, faults>>

HandleRetryableFailureCountingFirst ==  \* mutant: aborts the attempt that is next
    /\ phase = "RetryableFailure" /\ ~aborted
    /\ StopsPodOf(attempts + 1) /\ UNCHANGED interruptible
    /\ BeginNextAttempt \/ Lost

(* handleRetryableFailure: abort the attempt, and only then count it.      *)
HandleRetryableFailure ==
    /\ phase = "RetryableFailure" /\ ~aborted
    /\ AbortPod
    /\ BeginNextAttempt \/ Lost

(* The visit that follows an end: the handler has been aborted, or only    *)
(* finalized.                                                              *)
Finish(from, to) ==
    /\ phase = from /\ ~aborted
    /\ \/ phase' = to /\ Clears /\ UNCHANGED left
       \/ Lost

HandleFailing == Finish("Failing", "Failed") /\ AbortPod
HandleTimingOut == Finish("TimingOut", "TimedOut") /\ AbortPod
HandleSucceeding == Finish("Succeeding", "Succeeded") /\ UNCHANGED cluster

(* AbortHandler, when the workflow fails or is aborted.                    *)
AbortNode ==
    /\ ~IsTerminal(phase) /\ ~aborted
    /\ IF IsAborted(phase) THEN AbortPod ELSE UNCHANGED cluster
    /\ \/ aborted' = TRUE /\ UNCHANGED <<status, age, left, faults>>
       \/ Lost

HandleNode(reports) ==
    \/ HandleNotYetStarted \/ HandleQueuedOrRunning(reports) \/ HandleRetryableFailure
    \/ HandleFailing \/ HandleTimingOut \/ HandleSucceeding

---------------------------------------------------------------------------
(* Kubernetes and the clock.                                               *)

PodEnds(n) ==
    /\ pod[n] \in {"live", "deleted"}
    /\ \E end \in {"succeeded", "failed", "killed"} : pod' = [pod EXCEPT ![n] = end]
    /\ UNCHANGED <<status, aborted, interruptible, age, left, faults>>

(* A deleted pod disappears once it has stopped.                           *)
PodDisappears(n) ==
    /\ pod[n] = "deleted"
    /\ pod' = [pod EXCEPT ![n] = "none"]
    /\ UNCHANGED <<status, aborted, interruptible, age, left, faults>>

(* Somebody else deletes the pod: a user, a drained machine.               *)
PodIsDeleted(n) ==
    /\ pod[n] \notin {"none", "deleted"}
    /\ pod' = [pod EXCEPT ![n] = IF pod[n] = "live" THEN "deleted" ELSE "none"]
    /\ faults > 0
    /\ faults' = faults - 1
    /\ UNCHANGED <<status, aborted, interruptible, age, left>>

(* Ticks beyond a deadline are not told apart.                             *)
Older(ticks, deadline) ==
    IF ticks = Never \/ ticks > deadline THEN ticks ELSE ticks + 1

Tick ==
    /\ ~IsTerminal(phase) /\ ~aborted
    /\ queuedFor' = Older(queuedFor, ActiveDeadline)
    /\ attemptFor' = Older(attemptFor, ExecutionDeadline)
    /\ age' = Older(age, ExecutionDeadline)
    /\ UNCHANGED <<phase, attempts, systemFailures, task, error, waiting>>
    /\ UNCHANGED <<aborted, cluster, left, faults>>

Done == (IsTerminal(phase) \/ aborted) /\ UNCHANGED <<status, aborted, cluster, age, left, faults>>

Next ==
    /\ \/ HandleNode(PluginReports) \/ WaitForReservation \/ AnswerFromCache
       \/ AbortNode \/ Tick \/ Done
       \/ \E n \in Attempts : PodEnds(n) \/ PodDisappears(n) \/ PodIsDeleted(n)
    /\ UNCHANGED policy

Spec == Init /\ [][Next]_vars

(* Rounds come again and again (resync), time passes, and a reservation is *)
(* acquired in the end (CacheSerialization).  Nothing is assumed of the    *)
(* cluster: quota may never be free, a pod may hang.                       *)
PatientReports ==
    IF task = "none" THEN {Report("running", "none", "none")}
    ELSE IF pod[attempts] = "live" THEN {Report("running", "none", "started")}
    ELSE CheckReports

FairSpec ==
    /\ Spec
    /\ WF_vars(HandleNode(PatientReports) /\ UNCHANGED policy)
    /\ WF_vars(Tick /\ UNCHANGED policy)

---------------------------------------------------------------------------
(* Properties.                                                             *)

IsRetrying == phase \in {"Queued", "Running", "RetryableFailure"}

(* isEligibleForRetry subtracts unsigned numbers and must not wrap, and    *)
(* the two budgets bound the attempts together: a node is retried at most  *)
(* MaxNodeRetriesOnSystemFailures times for failures of the system and     *)
(* MaxAttempts - 1 times for others, or MaxAttempts - 1 times in all when  *)
(* the cause is ignored, however many visits get lost on the way.          *)
RetryBudgetsHold ==
    LET counted == attempts + (IF phase = "RetryableFailure" THEN 1 ELSE 0)
        others == IF MaxAttempts = 0 THEN 0 ELSE MaxAttempts - 1
    IN  /\ IsRetrying => systemFailures =< counted
        /\ IsRetrying /\ ~policy.ignoreRetryCause =>
               /\ systemFailures =< MaxNodeRetriesOnSystemFailures
               /\ counted - systemFailures =< others
        /\ policy.ignoreRetryCause => attempts =< others
        /\ attempts =< others + MaxNodeRetriesOnSystemFailures

(* handleRetryableFailure ("It is important to increment attempts only     *)
(* after abort has been called"): a pod that nobody has told to stop is    *)
(* that of the recorded attempt, so two attempts never both run on, even   *)
(* when the visit that created or aborted one was not recorded.            *)
OnlyTheCurrentAttemptRuns == \A n \in Attempts : pod[n] = "live" => n = attempts

(* A node that has ended, or whose workflow has aborted it, leaves no pod  *)
(* at work, except one that the executor was made to take for over: a      *)
(* report of a final phase without CleanupOnFailure (too many phase        *)
(* versions, a launch refused after a lost one), or an answer of the       *)
(* cache.  Every other pod is told to stop, also one whose creation was    *)
(* not recorded, one past a deadline, and one whose abort was lost.        *)
NothingRunsOn ==
    IsTerminal(phase) \/ aborted => \A n \in Attempts : pod[n] = "live" => n \in left

(* cleanupOnFailure ("applies to situations where a task is marked a       *)
(* failure but is still running"): without it a failed task has stopped by *)
(* itself, so that a node that is over leaves no pod at work at all.       *)
EveryPodIsStopped ==
    IsTerminal(phase) \/ aborted => \A n \in Attempts : pod[n] # "live"

(* execute's deadline for an attempt is measured from that attempt's own   *)
(* start: a retry has the whole of it, whatever the attempts before used.  *)
RetriesHaveTheirTime ==
    [][phase' # phase /\ error' = "deadline" /\ phase' \in {"RetryableFailure", "Failing"}
          => age > ExecutionDeadline]_vars

(* BuildNodeExecutionContext ("-1 means last attempt is                    *)
(* non-interruptible"): when the pod of the attempt is preempted, a        *)
(* further attempt is left.  The exception is the first attempt of a node  *)
(* that is counted without regard to cause.                                *)
SystemRetryIsLeft ==
    IF policy.ignoreRetryCause THEN attempts = 0 \/ attempts + 1 < MaxAttempts
    ELSE systemFailures < MaxNodeRetriesOnSystemFailures

PreemptionIsRetried ==
    /\ InterruptibleFailureThreshold < 0
    /\ phase \in {"Queued", "Running"}
    /\ attempts \in interruptible
    => SystemRetryIsLeft

(* What the workflow sees of the node is what NodePhases allows.  A node   *)
(* that waits for quota is one that has not started its payload.           *)
AbstractPhase ==
    IF phase = "Running" /\ task = "none"
    THEN IF attempts = 0 THEN "Queued" ELSE "Retrying"
    ELSE phase

(* Every recorded visit is one of NodePhases, the abstraction that the     *)
(* workflow controller's model is built on.                                *)
ImplementsVisits ==
    [][\E v \in Visits(AbstractPhase, NodeOutcomes) : AbstractPhase' = v.to]_AbstractPhase

(* With a deadline for attempts the node ends, even if every pod hangs and *)
(* quota is never free: deadlines turn into retries and retries run out.   *)
NodeEnds == <>(IsTerminal(phase) \/ aborted)
============================================================================
