------------------------ MODULE NodeAttemptsProofs ------------------------
(***************************************************************************)
(* NodeAttempts for any retry strategies, budgets, deadlines and faults.   *)
(***************************************************************************)
EXTENDS NodeAttempts, TLAPS

---------------------------------------------------------------------------
(* What the plugin can report, and what the deadlines make of it.          *)

Says == {"running", "retryable", "permanent", "success", "timedOut"}
Reports == [says : Says, kind : Errors, task : Tasks]

(* A report that leaves a node running records no final phase of the task, *)
(* and one of a final phase creates no pod.                                *)
LEMMA PluginReportFacts ==
    ASSUME TypeOK, NEW r \in PluginReports
    PROVE  /\ r \in Reports
           /\ r.kind # "deadline" /\ r.says # "timedOut"
           /\ r.says = "running" => r.task \in {"none", "started"}
           /\ r.says = "running" /\ task = "started" => r.task = "started"
           /\ r.says = "success" => pod[attempts] = "succeeded"
           /\ r.says \in {"retryable", "permanent"} => r.kind # "none"
           /\ r.task \in {"failed", "succeeded"} => ~Creates(r)
           /\ r.says = "success" => ~Creates(r)
<1> USE DEF Report, Says, Reports, Errors, Tasks
<1>1. CASE task = "none"
  BY <1>1 DEF PluginReports, LaunchReports, Creates
<1>2. CASE task # "none"
  <2>1. r \in CheckReports
    BY <1>2 DEF PluginReports
  <2>2. pod[attempts] \in Pods
    BY DEF TypeOK
  <2>3. ~Creates(r)
    BY <1>2 DEF Creates
  <2>4. CASE pod[attempts] = "live"
    BY <2>1, <2>3, <2>4 DEF CheckReports, StuckReports, TooManyPluginPhaseVersions
  <2>5. CASE pod[attempts] = "deleted"
    BY <2>1, <2>3, <2>5 DEF CheckReports, StuckReports
  <2>6. CASE pod[attempts] = "succeeded"
    BY <2>1, <2>3, <2>6 DEF CheckReports, OutputReports
  <2>7. CASE pod[attempts] \in {"failed", "killed", "none"}
    BY <2>1, <2>3, <2>7 DEF CheckReports
  <2> QED
    BY <2>2, <2>4, <2>5, <2>6, <2>7 DEF Pods
<1> QED
  BY <1>1, <1>2

(* A deadline keeps what the visit recorded of the task.                   *)
LEMMA VerdictFacts ==
    ASSUME TypeOK, NEW r \in PluginReports
    PROVE  LET v == AfterDeadlines(r) IN
           /\ v \in Reports
           /\ v.task = r.task
           /\ v.says = "running" => r.says = "running"
           /\ v.says = "success" => r.says = "success"
           /\ v.kind = "deadline" => attemptFor > ExecutionDeadline /\ attemptFor # Never
           /\ v.says \in {"retryable", "permanent"} => v.kind # "none"
<1>1. /\ r \in Reports /\ r.kind # "deadline" /\ r.says # "timedOut"
      /\ r.says \in {"retryable", "permanent"} => r.kind # "none"
  BY PluginReportFacts
<1> QED
  BY <1>1 DEF AfterDeadlines, Reports, Says, Errors, Report, IsTimeoutExpired

---------------------------------------------------------------------------
(* Types and budgets.  The types need the budgets: no attempt has a higher *)
(* number than LastAttempt because the retries run out.                    *)

Counted == attempts + (IF phase = "RetryableFailure" THEN 1 ELSE 0)
OtherRetries == IF MaxAttempts = 0 THEN 0 ELSE MaxAttempts - 1

Counters ==
    /\ phase = "NotYetStarted" => attempts = 0 /\ systemFailures = 0 /\ task = "none"
    /\ phase = "Queued" => attempts = 0
    /\ IsRetrying => systemFailures =< Counted
    /\ IsRetrying /\ ~policy.ignoreRetryCause =>
           /\ systemFailures =< MaxNodeRetriesOnSystemFailures
           /\ Counted - systemFailures =< OtherRetries
    /\ IsRetrying /\ policy.ignoreRetryCause => Counted =< OtherRetries
    /\ policy.ignoreRetryCause => attempts =< OtherRetries
    /\ attempts =< OtherRetries + MaxNodeRetriesOnSystemFailures

LEMMA ModOfSmall ==
    ASSUME NEW n \in Nat, NEW w \in Nat \ {0}, n < w PROVE n % w = n
BY SMTT(30)

LEMMA UintOfSmall == ASSUME NEW n \in Nat, n < Word PROVE Uint(n) = n
<1>1. Word \in Nat \ {0}
  BY WordAssumption, LastAttemptAssumption
<1> QED
  BY <1>1, ModOfSmall DEF Uint

LEMMA MaxAttemptsFacts ==
    ASSUME TypeOK
    PROVE  /\ MaxAttempts \in Nat
           /\ OtherRetries \in Nat
           /\ OtherRetries + MaxNodeRetriesOnSystemFailures =< LastAttempt
<1>1. MaxAttempts \in MinAttempts \cup {DefaultMaxAttempts}
  BY DEF TypeOK, MaxAttempts
<1> QED
  BY <1>1, MinAttemptsAssumption, DefaultAssumption, SystemAssumption, LastAttemptAssumption
  DEF OtherRetries

LEMMA InitCounters == Init => TypeOK /\ Counters
<1> SUFFICES ASSUME Init PROVE TypeOK /\ Counters
  OBVIOUS
<1>1. TypeOK
  <2>1. aborted \in BOOLEAN /\ waiting \in BOOLEAN
    BY Zenon DEF Init
  <2>2. pod \in [Attempts -> Pods]
    BY DEF Init, Pods
  <2>3. attempts \in Attempts /\ faults \in 0..MaxFaults
    BY LastAttemptAssumption, FaultsAssumption DEF Init, Attempts
  <2> QED
    BY <2>1, <2>2, <2>3
    DEF Init, TypeOK, Phases, NodePhases, Tasks, Errors
<1> QED
  BY <1>1, MaxAttemptsFacts, SystemAssumption DEF Init, Counters, Counted, IsRetrying

(* What the executor may do to the counters in one visit of a node that is *)
(* queued or running.                                                      *)
LEMMA EligibleFacts ==
    ASSUME TypeOK, Counters, phase \in {"Queued", "Running"},
           NEW kind \in Errors, IsEligibleForRetry(kind)
    PROVE  LET failures == systemFailures + (IF kind = "system" THEN 1 ELSE 0) IN
           /\ failures =< attempts + 1
           /\ ~policy.ignoreRetryCause =>
                  /\ failures =< MaxNodeRetriesOnSystemFailures
                  /\ attempts + 1 - failures =< OtherRetries
           /\ policy.ignoreRetryCause => attempts + 1 =< OtherRetries
           /\ attempts + 1 =< OtherRetries + MaxNodeRetriesOnSystemFailures
<1>1. /\ attempts \in Nat /\ attempts =< LastAttempt /\ systemFailures \in Nat
      /\ systemFailures =< attempts /\ IsRetrying
      /\ LastAttempt \in Nat
      /\ MaxNodeRetriesOnSystemFailures \in Nat
  BY LastAttemptAssumption, SystemAssumption
  DEF TypeOK, Attempts, Counters, Counted, IsRetrying
<1>2. Uint(attempts + 1 - systemFailures) = attempts + 1 - systemFailures
  <2>1. /\ attempts + 1 - systemFailures \in Nat
        /\ attempts + 1 - systemFailures < Word
    BY <1>1, WordAssumption
  <2> QED
    BY <2>1, UintOfSmall
<1>3. MaxAttempts \in Nat /\ OtherRetries \in Nat
  BY MaxAttemptsFacts
<1>4. ~policy.ignoreRetryCause =>
          /\ systemFailures =< MaxNodeRetriesOnSystemFailures
          /\ attempts - systemFailures =< OtherRetries
  BY <1>1 DEF Counters, Counted
<1>5. CASE policy.ignoreRetryCause
  <2>1. attempts + 1 < MaxAttempts
    BY <1>5 DEF IsEligibleForRetry
  <2> QED
    BY <1>1, <1>3, <1>5, <2>1 DEF OtherRetries
<1>6. CASE ~policy.ignoreRetryCause /\ kind = "system"
  <2>1. systemFailures < MaxNodeRetriesOnSystemFailures
    BY <1>6 DEF IsEligibleForRetry
  <2> QED
    BY <1>1, <1>3, <1>4, <1>6, <2>1
<1>7. CASE ~policy.ignoreRetryCause /\ kind # "system"
  <2>1. attempts + 1 - systemFailures < MaxAttempts
    BY <1>2, <1>7 DEF IsEligibleForRetry
  <2> QED
    BY <1>1, <1>3, <1>4, <1>7, <2>1 DEF OtherRetries
<1> QED
  BY <1>5, <1>6, <1>7

---------------------------------------------------------------------------
(* Steps.  Most of them leave the counters alone or end the retries.       *)

LEMMA PolicyKept ==
    ASSUME policy' = policy
    PROVE  MaxAttempts' = MaxAttempts /\ OtherRetries' = OtherRetries
BY DEF MaxAttempts, OtherRetries

LEMMA CountersKept ==
    ASSUME TypeOK, Counters, policy' = policy, attempts' = attempts,
           systemFailures' = systemFailures, phase' = phase, task' = task
    PROVE  Counters'
BY PolicyKept DEF Counters, Counted, IsRetrying

LEMMA RetriesAreOver ==
    ASSUME TypeOK, Counters, policy' = policy, attempts' = attempts,
           phase' \notin {"NotYetStarted", "Queued", "Running", "RetryableFailure"}
    PROVE  Counters'
BY PolicyKept DEF Counters, IsRetrying

LEMMA LostTypes ==
    ASSUME TypeOK, Counters, Lost, policy' = policy,
           pod' \in [Attempts -> Pods], interruptible' \subseteq Attempts
    PROVE  TypeOK' /\ Counters'
<1>1. TypeOK'
  BY FaultsAssumption DEF Lost, TypeOK, status
<1> QED
  BY <1>1, CountersKept DEF Lost, status

LEMMA LaunchTypes ==
    ASSUME TypeOK, NEW r, Launch(r)
    PROVE  pod' \in [Attempts -> Pods] /\ interruptible' \subseteq Attempts
<1>1. CASE Creates(r)
  BY <1>1 DEF Launch, TypeOK, Pods
<1>2. CASE ~Creates(r)
  BY <1>2 DEF Launch, TypeOK, cluster
<1> QED
  BY <1>1, <1>2

LEMMA AbortTypes ==
    ASSUME TypeOK, AbortPod
    PROVE  pod' \in [Attempts -> Pods] /\ interruptible' \subseteq Attempts
BY DEF AbortPod, StopsPodOf, TypeOK, Pods

LEMMA NotYetStartedTypes ==
    ASSUME TypeOK, Counters, HandleNotYetStarted, policy' = policy
    PROVE  TypeOK' /\ Counters'
<1>1. PICK v \in NotYetStartedVisits :
           /\ phase' = v.to
           /\ queuedFor' = IF v.to = "Queued" THEN 0 ELSE queuedFor
           /\ error' = IF v.to = "Failing" THEN "user" ELSE error
  BY DEF HandleNotYetStarted
<1>2. v.to \in {"Queued", "Failing", "Succeeded"}
  BY DEF NotYetStartedVisits, Visit
<1>3. TypeOK'
  BY <1>1, <1>2 DEF HandleNotYetStarted, TypeOK, cluster, Phases, NodePhases, Errors
<1>4. CASE v.to = "Queued"
  BY <1>1, <1>3, <1>4, PolicyKept, MaxAttemptsFacts, SystemAssumption
  DEF HandleNotYetStarted, Counters, Counted, IsRetrying
<1>5. CASE v.to # "Queued"
  <2>1. /\ attempts' = attempts
        /\ phase' \notin {"NotYetStarted", "Queued", "Running", "RetryableFailure"}
    BY <1>1, <1>2, <1>5 DEF HandleNotYetStarted
  <2> QED
    BY <1>3, <2>1, RetriesAreOver
<1> QED
  BY <1>3, <1>4, <1>5

LEMMA QueuedOrRunningTypes ==
    ASSUME TypeOK, Counters, HandleQueuedOrRunning(PluginReports), policy' = policy
    PROVE  TypeOK' /\ Counters'
<1>1. PICK r \in PluginReports :
           /\ Launch(r)
           /\ \/ LET v == AfterDeadlines(r) IN
                 /\ KeepsRunning(v) \/ Retries(v) \/ Ends(v) \/ EventIsRefused(v)
                 /\ waiting' = FALSE /\ left' \subseteq Attempts
                 /\ UNCHANGED <<attempts, queuedFor, aborted, faults>>
              \/ Lost
  BY DEF HandleQueuedOrRunning, Leaves, LeavesPodAtWork, TypeOK
<1>2. pod' \in [Attempts -> Pods] /\ interruptible' \subseteq Attempts
  BY <1>1, LaunchTypes
<1>3. phase \in {"Queued", "Running"} /\ IsRetrying
  BY DEF HandleQueuedOrRunning, IsRetrying
<1> DEFINE v == AfterDeadlines(r)
<1>4. v.says \in Says /\ v.kind \in Errors /\ v.task \in Tasks
  BY VerdictFacts DEF Reports
<1> HIDE DEF v
<1>5. CASE Lost
  BY <1>2, <1>5, LostTypes
<1>9. waiting' = FALSE => waiting' \in BOOLEAN
  BY Zenon
<1>6. ASSUME waiting' = FALSE, left' \subseteq Attempts,
             UNCHANGED <<attempts, queuedFor, aborted, faults>>, KeepsRunning(v)
      PROVE  TypeOK' /\ Counters'
  <2>1. TypeOK'
    BY <1>2, <1>4, <1>6, <1>9 DEF KeepsRunning, TypeOK, Phases, NodePhases
  <2>2. attempts' = attempts /\ systemFailures' = systemFailures /\ phase' = "Running"
    BY <1>6 DEF KeepsRunning
  <2> QED
    BY <1>3, <2>1, <2>2, PolicyKept DEF Counters, Counted, IsRetrying
<1>7. ASSUME waiting' = FALSE, left' \subseteq Attempts,
             UNCHANGED <<attempts, queuedFor, aborted, faults>>, Retries(v)
      PROVE  TypeOK' /\ Counters'
  <2>1. TypeOK'
    BY <1>2, <1>4, <1>7, <1>9 DEF Retries, TypeOK, Phases, NodePhases
  <2>2. /\ attempts' = attempts /\ phase' = "RetryableFailure"
        /\ systemFailures' = systemFailures + (IF v.kind = "system" THEN 1 ELSE 0)
        /\ IsEligibleForRetry(v.kind)
    BY <1>7 DEF Retries
  <2>3. /\ systemFailures' =< attempts + 1
        /\ ~policy.ignoreRetryCause =>
               /\ systemFailures' =< MaxNodeRetriesOnSystemFailures
               /\ attempts + 1 - systemFailures' =< OtherRetries
        /\ policy.ignoreRetryCause => attempts + 1 =< OtherRetries
        /\ attempts + 1 =< OtherRetries + MaxNodeRetriesOnSystemFailures
    BY <1>3, <1>4, <2>2, EligibleFacts
  <2>4. Counted' = attempts + 1
    BY <2>2 DEF Counted
  <2>5. (policy.ignoreRetryCause => attempts =< OtherRetries)
        /\ attempts =< OtherRetries + MaxNodeRetriesOnSystemFailures
    BY DEF Counters
  <2>6. MaxAttempts' = MaxAttempts /\ OtherRetries' = OtherRetries
    BY PolicyKept
  <2>7. /\ attempts \in Nat /\ systemFailures' \in Nat /\ OtherRetries \in Nat
        /\ MaxNodeRetriesOnSystemFailures \in Nat
    BY <2>1, MaxAttemptsFacts, SystemAssumption, LastAttemptAssumption DEF TypeOK, Attempts
  <2> QED
    BY <2>1, <2>2, <2>3, <2>4, <2>5, <2>6, <2>7 DEF Counters
<1>8. ASSUME waiting' = FALSE, left' \subseteq Attempts,
             UNCHANGED <<attempts, queuedFor, aborted, faults>>, Ends(v) \/ EventIsRefused(v)
      PROVE  TypeOK' /\ Counters'
  <2>1. phase' \in {"Succeeding", "TimingOut", "Failing"}
    BY <1>4, <1>8 DEF Ends, EventIsRefused, Says
  <2>2. TypeOK'
    BY <1>2, <1>4, <1>8, <1>9, <2>1 DEF Ends, EventIsRefused, TypeOK, Phases, NodePhases, Errors
  <2> QED
    BY <1>8, <2>1, <2>2, RetriesAreOver
<1> QED
  BY <1>1, <1>5, <1>6, <1>7, <1>8 DEF v

LEMMA RetryableFailureTypes ==
    ASSUME TypeOK, Counters, HandleRetryableFailure, policy' = policy
    PROVE  TypeOK' /\ Counters'
<1>1. pod' \in [Attempts -> Pods] /\ interruptible' \subseteq Attempts
  BY AbortTypes DEF HandleRetryableFailure
<1>2. CASE Lost
  BY <1>1, <1>2, LostTypes
<1>3. /\ attempts \in Nat /\ systemFailures \in Nat /\ OtherRetries \in Nat
      /\ MaxNodeRetriesOnSystemFailures \in Nat
  BY MaxAttemptsFacts, SystemAssumption, LastAttemptAssumption DEF TypeOK, Attempts
<1>4. CASE BeginNextAttempt
  <2>1. /\ phase = "RetryableFailure" /\ IsRetrying /\ Counted = attempts + 1
        /\ phase' = "Running" /\ attempts' = attempts + 1 /\ systemFailures' = systemFailures
    BY <1>4 DEF HandleRetryableFailure, BeginNextAttempt, IsRetrying, Counted
  <2>2. /\ systemFailures =< attempts + 1
        /\ ~policy.ignoreRetryCause =>
               /\ systemFailures =< MaxNodeRetriesOnSystemFailures
               /\ attempts + 1 - systemFailures =< OtherRetries
        /\ policy.ignoreRetryCause => attempts + 1 =< OtherRetries
    BY <1>3, <2>1 DEF Counters
  <2>3. attempts + 1 =< OtherRetries + MaxNodeRetriesOnSystemFailures
    BY <2>2, MaxAttemptsFacts, SystemAssumption, LastAttemptAssumption DEF TypeOK, Attempts
  <2>4. attempts + 1 \in Attempts
    BY <2>3, MaxAttemptsFacts, SystemAssumption, LastAttemptAssumption DEF TypeOK, Attempts
  <2>5. TypeOK'
    BY <1>1, <1>4, <2>4 DEF BeginNextAttempt, TypeOK, Phases, NodePhases, Tasks
  <2>6. Counted' = attempts + 1
    BY <2>1, <2>4 DEF Counted, Attempts
  <2> QED
    BY <1>3, <2>1, <2>2, <2>3, <2>5, <2>6, PolicyKept DEF Counters, IsRetrying
<1> QED
  BY <1>2, <1>4 DEF HandleRetryableFailure

LEMMA ClearsTypes ==
    ASSUME TypeOK, Counters, policy' = policy, Clears,
           phase' \in {"Failed", "TimedOut", "Succeeded"}, left' \subseteq Attempts,
           pod' \in [Attempts -> Pods], interruptible' \subseteq Attempts
    PROVE  TypeOK' /\ Counters'
<1>1. waiting' \in BOOLEAN
  BY Zenon DEF Clears
<1>2. TypeOK'
  BY <1>1 DEF Clears, TypeOK, Phases, NodePhases, Tasks
<1> QED
  BY <1>2, RetriesAreOver DEF Clears

LEMMA FinishTypes ==
    ASSUME TypeOK, Counters, policy' = policy,
           HandleFailing \/ HandleTimingOut \/ HandleSucceeding
    PROVE  TypeOK' /\ Counters'
<1>1. pod' \in [Attempts -> Pods] /\ interruptible' \subseteq Attempts
  <2>1. CASE HandleFailing \/ HandleTimingOut
    BY <2>1, AbortTypes DEF HandleFailing, HandleTimingOut
  <2>2. CASE HandleSucceeding
    BY <2>2 DEF HandleSucceeding, cluster, TypeOK
  <2> QED
    BY <2>1, <2>2
<1>2. CASE Lost
  BY <1>1, <1>2, LostTypes
<1>3. CASE ~Lost
  <2>1. /\ phase' \in {"Failed", "TimedOut", "Succeeded"}
        /\ Clears /\ left' = left
    BY <1>3 DEF HandleFailing, HandleTimingOut, HandleSucceeding, Finish
  <2> QED
    BY <1>1, <2>1, ClearsTypes DEF TypeOK
<1> QED
  BY <1>2, <1>3

(* Waiting for a reservation, and the answer of the cache.                 *)
LEMMA CacheTypes ==
    ASSUME TypeOK, Counters, policy' = policy, WaitForReservation \/ AnswerFromCache
    PROVE  TypeOK' /\ Counters'
<1>1. CASE WaitForReservation
  <2>1. waiting' \in BOOLEAN
    BY <1>1, Zenon DEF WaitForReservation
  <2>2. TypeOK'
    BY <1>1, <2>1 DEF WaitForReservation, TypeOK, cluster
  <2> QED
    BY <1>1, <2>2, CountersKept DEF WaitForReservation
<1>2. CASE AnswerFromCache
  BY <1>2, ClearsTypes DEF AnswerFromCache, LeavesPodAtWork, CacheHit, Visit, TypeOK, cluster
<1> QED
  BY <1>1, <1>2

LEMMA AbortNodeTypes ==
    ASSUME TypeOK, Counters, AbortNode, policy' = policy
    PROVE  TypeOK' /\ Counters'
<1>1. pod' \in [Attempts -> Pods] /\ interruptible' \subseteq Attempts
  BY AbortTypes DEF AbortNode, cluster, TypeOK
<1>2. CASE Lost
  BY <1>1, <1>2, LostTypes
<1>3. CASE aborted' = TRUE /\ UNCHANGED <<status, age, left, faults>>
  <2>1. aborted' \in BOOLEAN
    BY <1>3, Zenon
  <2>2. TypeOK'
    BY <1>1, <1>3, <2>1 DEF TypeOK, status
  <2> QED
    BY <1>3, <2>2, CountersKept DEF status
<1> QED
  BY <1>2, <1>3 DEF AbortNode

LEMMA TickTypes ==
    ASSUME TypeOK, Counters, Tick, policy' = policy
    PROVE  TypeOK' /\ Counters'
<1>1. TypeOK'
  BY DeadlinesAssumption DEF Tick, Older, TypeOK, cluster, Never
<1> QED
  BY <1>1, CountersKept DEF Tick

LEMMA PodTypes ==
    ASSUME TypeOK, Counters, policy' = policy, NEW n \in Attempts,
           PodEnds(n) \/ PodDisappears(n) \/ PodIsDeleted(n)
    PROVE  TypeOK' /\ Counters'
<1>1. /\ pod' \in [Attempts -> Pods]
      /\ faults' \in 0..MaxFaults
      /\ UNCHANGED <<status, aborted, interruptible, age, left>>
  BY FaultsAssumption DEF PodEnds, PodDisappears, PodIsDeleted, TypeOK, Pods
<1>2. TypeOK'
  BY <1>1 DEF TypeOK, status
<1> QED
  BY <1>1, <1>2, CountersKept DEF status

LEMMA StepCounters ==
    ASSUME TypeOK, Counters, [Next]_vars
    PROVE  TypeOK' /\ Counters'
<1>1. CASE UNCHANGED vars
  <2>1. TypeOK'
    BY <1>1 DEF vars, status, cluster, TypeOK
  <2> QED
    BY <1>1, <2>1, CountersKept DEF vars, status
<1>2. CASE Next
  <2>1. policy' = policy
    BY <1>2 DEF Next
  <2>2. CASE HandleNode(PluginReports)
    BY <2>1, <2>2, NotYetStartedTypes, QueuedOrRunningTypes, RetryableFailureTypes, FinishTypes
    DEF HandleNode
  <2>3. CASE AbortNode \/ Tick \/ WaitForReservation \/ AnswerFromCache
    BY <2>1, <2>3, AbortNodeTypes, TickTypes, CacheTypes
  <2>4. CASE Done
    <3>1. TypeOK'
      BY <2>1, <2>4 DEF Done, status, cluster, TypeOK
    <3> QED
      BY <2>1, <2>4, <3>1, CountersKept DEF Done, status
  <2>5. CASE \E n \in Attempts : PodEnds(n) \/ PodDisappears(n) \/ PodIsDeleted(n)
    BY <2>1, <2>5, PodTypes
  <2> QED
    BY <1>2, <2>2, <2>3, <2>4, <2>5 DEF Next
<1> QED
  BY <1>1, <1>2

LEMMA CountersAlways == Spec => [](TypeOK /\ Counters)
<1>1. TypeOK /\ Counters /\ [Next]_vars => (TypeOK /\ Counters)'
  BY StepCounters
<1> QED
  BY <1>1, InitCounters, PTL DEF Spec

(* Every reachable state of the node has its types; in particular no       *)
(* attempt has a number beyond the bound that the two budgets set.         *)
THEOREM TypeCorrect == Spec => []TypeOK
BY CountersAlways, PTL

LEMMA CountersBound == ASSUME TypeOK, Counters PROVE RetryBudgetsHold
<1>1. /\ attempts \in Nat /\ systemFailures \in Nat /\ MaxAttempts \in Nat
      /\ MaxNodeRetriesOnSystemFailures \in Nat
  BY MaxAttemptsFacts, SystemAssumption, LastAttemptAssumption DEF TypeOK, Attempts
<1> QED
  BY <1>1 DEF Counters, Counted, OtherRetries, RetryBudgetsHold

(* isEligibleForRetry, for every retry strategy and both ways to count:    *)
(* the unsigned subtraction never wraps while the node can be retried, and *)
(* the budgets are kept whatever visits are lost and whatever pods do.     *)
THEOREM BudgetsHold == Spec => []RetryBudgetsHold
<1>1. TypeOK /\ Counters => RetryBudgetsHold
  BY CountersBound
<1> QED
  BY <1>1, CountersAlways, PTL

---------------------------------------------------------------------------
(* The pods.  A task that can still be retried has recorded no final       *)
(* phase, so the abort before the next attempt is never skipped.           *)

OneAtWork ==
    /\ OnlyTheCurrentAttemptRuns
    /\ IsRetrying => task \in {"none", "started"}

(* What is over has stopped or was left to itself, and what is about to be *)
(* over will be aborted if it is neither.                                  *)
StopsInTheEnd ==
    /\ (phase \in {"NotYetStarted", "Succeeding"} \/ IsTerminal(phase) \/ aborted)
           => (pod[attempts] = "live" => attempts \in left)
    /\ phase \in {"Failing", "TimingOut"} /\ pod[attempts] = "live"
           => NeedsAbort \/ attempts \in left

(* Of all steps only a launch adds a pod at work: that of the attempt.     *)
LEMMA LaunchAddsOne ==
    ASSUME TypeOK, NEW r, Launch(r), NEW n \in Attempts, pod'[n] = "live"
    PROVE  pod[n] = "live" \/ n = attempts
BY DEF Launch, TypeOK, cluster

LEMMA AbortAddsNone ==
    ASSUME TypeOK, AbortPod, NEW n \in Attempts, pod'[n] = "live"
    PROVE  pod[n] = "live"
BY DEF AbortPod, StopsPodOf, TypeOK

LEMMA AbortStops ==
    ASSUME TypeOK, OnlyTheCurrentAttemptRuns, AbortPod,
           NeedsAbort \/ pod[attempts] # "live"
    PROVE  \A n \in Attempts : pod'[n] # "live"
BY DEF AbortPod, StopsPodOf, TypeOK, OnlyTheCurrentAttemptRuns

LEMMA ClusterAddsNone ==
    ASSUME TypeOK, NEW m \in Attempts, PodEnds(m) \/ PodDisappears(m) \/ PodIsDeleted(m),
           NEW n \in Attempts, pod'[n] = "live"
    PROVE  pod[n] = "live"
BY DEF PodEnds, PodDisappears, PodIsDeleted, TypeOK

LEMMA InitPods == Init => OneAtWork /\ StopsInTheEnd
BY LastAttemptAssumption
DEF Init, OneAtWork, StopsInTheEnd, OnlyTheCurrentAttemptRuns, IsRetrying, Attempts

(* A step that is no visit to a queued or running node and no new attempt. *)
LEMMA QuietStep ==
    ASSUME TypeOK, Counters, [Next]_vars,
           ~HandleQueuedOrRunning(PluginReports), ~HandleRetryableFailure
    PROVE  /\ \A n \in Attempts : pod'[n] = "live" => pod[n] = "live"
           /\ attempts' = attempts
           /\ IsRetrying' => (IsRetrying \/ phase = "NotYetStarted") /\ task' = task
<1>1. CASE UNCHANGED vars
  BY <1>1 DEF vars, status, cluster, IsRetrying
<1>2. CASE HandleNotYetStarted
  BY <1>2 DEF HandleNotYetStarted, cluster
<1>3. CASE HandleFailing \/ HandleTimingOut
  <2>1. AbortPod
    BY <1>3 DEF HandleFailing, HandleTimingOut
  <2>2. attempts' = attempts /\ ~IsRetrying'
    BY <1>3 DEF HandleFailing, HandleTimingOut, Finish, Clears, Lost, status, IsRetrying
  <2> QED
    BY <2>1, <2>2, AbortAddsNone
<1>4. CASE HandleSucceeding \/ AnswerFromCache
  BY <1>4 DEF HandleSucceeding, AnswerFromCache, CacheHit, Visit, Finish, Clears, Lost, status,
     IsRetrying, cluster
<1>5. CASE AbortNode
  <2>1. \A n \in Attempts : pod'[n] = "live" => pod[n] = "live"
    BY <1>5, AbortAddsNone DEF AbortNode, cluster
  <2> QED
    BY <1>5, <2>1 DEF AbortNode, Lost, status, IsRetrying
<1>6. CASE Tick \/ Done \/ WaitForReservation
  BY <1>6 DEF Tick, Done, WaitForReservation, status, cluster, IsRetrying
<1>7. CASE \E m \in Attempts : PodEnds(m) \/ PodDisappears(m) \/ PodIsDeleted(m)
  <2>1. \A n \in Attempts : pod'[n] = "live" => pod[n] = "live"
    BY <1>7, ClusterAddsNone
  <2> QED
    BY <1>7, <2>1 DEF PodEnds, PodDisappears, PodIsDeleted, status, IsRetrying
<1> QED
  BY <1>1, <1>2, <1>3, <1>4, <1>5, <1>6, <1>7 DEF Next, HandleNode

LEMMA StepOneAtWork ==
    ASSUME TypeOK, Counters, OneAtWork, [Next]_vars
    PROVE  OneAtWork'
<1>1. CASE HandleQueuedOrRunning(PluginReports)
  <2>1. PICK r \in PluginReports :
             /\ Launch(r)
             /\ \/ LET v == AfterDeadlines(r) IN
                   /\ KeepsRunning(v) \/ Retries(v) \/ Ends(v) \/ EventIsRefused(v)
                   /\ UNCHANGED <<attempts, queuedFor, aborted, faults>>
                \/ Lost
    BY <1>1 DEF HandleQueuedOrRunning
  <2>2. attempts' = attempts
    BY <2>1 DEF Lost, status
  <2>3. OnlyTheCurrentAttemptRuns'
    BY <2>1, <2>2, LaunchAddsOne DEF OneAtWork, OnlyTheCurrentAttemptRuns
  <2> DEFINE v == AfterDeadlines(r)
  <2>4. v.says = "running" => v.task \in {"none", "started"}
    BY VerdictFacts, PluginReportFacts
  <2>5. v.says \in Says
    BY VerdictFacts DEF Reports
  <2> HIDE DEF v
  <2>6. task \in {"none", "started"}
    BY <1>1 DEF HandleQueuedOrRunning, OneAtWork, IsRetrying
  <2>7. IsRetrying' => task' \in {"none", "started"}
    <3>1. CASE Lost
      BY <2>6, <3>1 DEF Lost, status
    <3>2. CASE KeepsRunning(v)
      BY <2>4, <3>2 DEF KeepsRunning
    <3>3. CASE Retries(v)
      BY <2>6, <3>3 DEF Retries
    <3>4. CASE Ends(v) \/ EventIsRefused(v)
      BY <2>5, <3>4 DEF Ends, EventIsRefused, Says, IsRetrying
    <3> QED
      BY <2>1, <3>1, <3>2, <3>3, <3>4 DEF v
  <2> QED
    BY <2>3, <2>7 DEF OneAtWork
<1>2. CASE HandleRetryableFailure
  <2>1. AbortPod /\ NeedsAbort /\ task \in {"none", "started"}
    BY <1>2 DEF HandleRetryableFailure, OneAtWork, IsRetrying, NeedsAbort
  <2>2. \A n \in Attempts : pod'[n] # "live"
    BY <2>1, AbortStops DEF OneAtWork
  <2>3. task' \in {"none", "started"}
    BY <1>2, <2>1 DEF HandleRetryableFailure, BeginNextAttempt, Lost, status
  <2> QED
    BY <2>2, <2>3 DEF OneAtWork, OnlyTheCurrentAttemptRuns
<1>3. CASE ~HandleQueuedOrRunning(PluginReports) /\ ~HandleRetryableFailure
  <2>1. /\ \A n \in Attempts : pod'[n] = "live" => pod[n] = "live"
        /\ attempts' = attempts
        /\ IsRetrying' => (IsRetrying \/ phase = "NotYetStarted") /\ task' = task
    BY <1>3, QuietStep
  <2>2. OnlyTheCurrentAttemptRuns'
    BY <2>1 DEF OneAtWork, OnlyTheCurrentAttemptRuns
  <2>3. IsRetrying' => task' \in {"none", "started"}
    BY <2>1 DEF OneAtWork, Counters
  <2> QED
    BY <2>2, <2>3 DEF OneAtWork
<1> QED
  BY <1>1, <1>2, <1>3

LEMMA OneAtWorkAlways == Spec => [](TypeOK /\ Counters /\ OneAtWork)
<1>1. Init => TypeOK /\ Counters /\ OneAtWork
  BY InitCounters, InitPods
<1>2. TypeOK /\ Counters /\ OneAtWork /\ [Next]_vars => (TypeOK /\ Counters /\ OneAtWork)'
  BY StepCounters, StepOneAtWork
<1> QED
  BY <1>1, <1>2, PTL DEF Spec

(* handleRetryableFailure aborts an attempt before it counts it: for any   *)
(* number of attempts, two pods are never both left at work, even though   *)
(* the visits that create and delete pods may be lost.                     *)
THEOREM AttemptsDoNotOverlap == Spec => []OnlyTheCurrentAttemptRuns
<1>1. OneAtWork => OnlyTheCurrentAttemptRuns
  BY DEF OneAtWork
<1> QED
  BY <1>1, OneAtWorkAlways, PTL

LEMMA StepStopsInTheEnd ==
    ASSUME TypeOK, Counters, OneAtWork, StopsInTheEnd, TypeOK', OneAtWork',
           [Next]_vars
    PROVE  StopsInTheEnd'
<1>1. attempts \in Attempts /\ attempts' \in Attempts
  BY DEF TypeOK
<1>2. CASE HandleQueuedOrRunning(PluginReports)
  <2>1. PICK r \in PluginReports :
             /\ Launch(r)
             /\ \/ LET v == AfterDeadlines(r) IN
                   /\ \/ KeepsRunning(v) \/ Retries(v)
                      \/ (Ends(v) \/ EventIsRefused(v)) /\ Leaves(v)
                   /\ UNCHANGED <<attempts, queuedFor, aborted, faults>>
                \/ Lost
    BY <1>2 DEF HandleQueuedOrRunning
  <2>2. /\ attempts' = attempts /\ aborted' = aborted /\ ~aborted
        /\ phase \in {"Queued", "Running"}
    BY <1>2, <2>1 DEF HandleQueuedOrRunning, Lost, status
  <2> DEFINE v == AfterDeadlines(r)
  <2>3. v.says \in Says /\ v.task = r.task /\ (v.says = "success" => r.says = "success")
    BY VerdictFacts DEF Reports
  <2>4. /\ r.says = "success" => pod'[attempts] # "live"
        /\ r.task \in {"failed", "succeeded"} => pod' = pod
    <3>1. /\ r.task \in {"failed", "succeeded"} \/ r.says = "success" => ~Creates(r)
          /\ r.says = "success" => pod[attempts] = "succeeded"
      BY PluginReportFacts
    <3>2. ~Creates(r) => pod' = pod
      BY <2>1 DEF Launch, cluster
    <3> QED
      BY <3>1, <3>2
  <2>5. r.task \in Tasks
    BY PluginReportFacts DEF Reports
  <2> HIDE DEF v
  <2>6. CASE phase' \in {"Queued", "Running", "RetryableFailure"}
    BY <2>2, <2>6 DEF StopsInTheEnd, IsTerminal
  <2>7. CASE phase' \notin {"Queued", "Running", "RetryableFailure"}
    <3>1. (Ends(v) \/ EventIsRefused(v)) /\ Leaves(v)
      BY <2>1, <2>2, <2>7 DEF Lost, status, KeepsRunning, Retries, v
    <3>2. /\ phase' \in {"Succeeding", "TimingOut", "Failing"}
          /\ task' = r.task
          /\ phase' = "Succeeding" => r.says = "success"
      BY <2>3, <3>1 DEF Ends, EventIsRefused, Says
    <3>3. pod'[attempts] = "live" => NeedsAbort' \/ attempts \in left'
      <4>1. CASE r.task \in {"failed", "succeeded"}
        BY <2>3, <2>4, <3>1, <4>1 DEF Leaves, LeavesPodAtWork
      <4>2. CASE r.task \notin {"failed", "succeeded"}
        BY <2>5, <3>2, <4>2 DEF NeedsAbort, Tasks
      <4> QED
        BY <4>1, <4>2
    <3> QED
      BY <2>2, <2>4, <3>2, <3>3 DEF StopsInTheEnd, IsTerminal
  <2> QED
    BY <2>6, <2>7
<1>3. CASE HandleRetryableFailure
  <2>1. AbortPod /\ NeedsAbort
    BY <1>3 DEF HandleRetryableFailure, OneAtWork, IsRetrying, NeedsAbort
  <2>2. \A n \in Attempts : pod'[n] # "live"
    BY <2>1, AbortStops DEF OneAtWork
  <2> QED
    BY <1>1, <2>2 DEF StopsInTheEnd
<1>4. CASE HandleFailing \/ HandleTimingOut \/ (AbortNode /\ IsAborted(phase))
  <2>1. AbortPod /\ attempts' = attempts /\ left' = left
    BY <1>4 DEF HandleFailing, HandleTimingOut, AbortNode, Finish, Clears, Lost, status
  <2>2. NeedsAbort \/ pod[attempts] # "live" \/ attempts \in left
    BY <1>4 DEF HandleFailing, HandleTimingOut, Finish, AbortNode, IsAborted, CanHandleNode,
       StopsInTheEnd, OneAtWork, IsRetrying, NeedsAbort, NodePhases, Phases, TypeOK
  <2>3. pod'[attempts] = "live" => attempts \in left
    BY <1>1, <2>1, <2>2, AbortStops DEF OneAtWork
  <2> QED
    BY <2>1, <2>3 DEF StopsInTheEnd
<1>5. CASE HandleNotYetStarted \/ HandleSucceeding \/ (AbortNode /\ ~IsAborted(phase))
  <2>1. pod' = pod /\ attempts' = attempts /\ left' = left
    BY <1>5 DEF HandleNotYetStarted, HandleSucceeding, Finish, Clears, Lost, AbortNode, status,
       cluster
  <2>2. pod[attempts] = "live" => attempts \in left
    BY <1>5 DEF HandleNotYetStarted, HandleSucceeding, Finish, AbortNode, IsAborted,
       CanHandleNode, IsTerminal, StopsInTheEnd, TypeOK, Phases
  <2> QED
    BY <2>1, <2>2 DEF StopsInTheEnd
<1>9. CASE AnswerFromCache
  BY <1>9 DEF AnswerFromCache, Clears, LeavesPodAtWork, cluster, StopsInTheEnd
<1>6. ASSUME phase' = phase, task' = task, aborted' = aborted, attempts' = attempts, left' = left,
             \A n \in Attempts : pod'[n] = "live" => pod[n] = "live"
      PROVE  StopsInTheEnd'
  BY <1>1, <1>6 DEF StopsInTheEnd, IsTerminal, NeedsAbort
<1>7. CASE Tick \/ Done \/ WaitForReservation \/ UNCHANGED vars
  BY <1>6, <1>7 DEF Tick, Done, WaitForReservation, vars, status, cluster
<1>8. CASE \E m \in Attempts : PodEnds(m) \/ PodDisappears(m) \/ PodIsDeleted(m)
  <2>1. \A n \in Attempts : pod'[n] = "live" => pod[n] = "live"
    BY <1>8, ClusterAddsNone
  <2> QED
    BY <1>6, <1>8, <2>1 DEF PodEnds, PodDisappears, PodIsDeleted, status
<1> QED
  BY <1>2, <1>3, <1>4, <1>5, <1>7, <1>8, <1>9 DEF Next, HandleNode

(* Abort and CleanupOnFailure: a node that has ended or been aborted       *)
(* leaves no pod at work but the one that it was made to take for over     *)
(* (failed without CleanupOnFailure, or answered by the cache), whatever   *)
(* visits were lost on the way.                                            *)
THEOREM NodesLeaveNothingBehind == Spec => []NothingRunsOn
<1> DEFINE I == TypeOK /\ Counters /\ OneAtWork /\ StopsInTheEnd
<1>1. Init => I
  BY InitCounters, InitPods
<1>2. I /\ [Next]_vars => I'
  BY StepCounters, StepOneAtWork, StepStopsInTheEnd
<1>3. I => NothingRunsOn
  BY DEF OneAtWork, OnlyTheCurrentAttemptRuns, StopsInTheEnd, NothingRunsOn
<1> QED
  BY <1>1, <1>2, <1>3, PTL DEF Spec

---------------------------------------------------------------------------
(* Deadlines.  The attempt's start is known exactly while it is under way, *)
(* and cleared before the next one sets it.                                *)

Clocks ==
    /\ phase \in {"Queued", "Running"} /\ attemptFor # Never => attemptFor = age
    /\ phase \in {"NotYetStarted", "RetryableFailure"} => attemptFor = Never

LEMMA StepClocks ==
    ASSUME TypeOK, Clocks, [Next]_vars
    PROVE  Clocks'
<1>1. CASE HandleQueuedOrRunning(PluginReports)
  <2>1. PICK r \in PluginReports :
             \/ LET v == AfterDeadlines(r) IN
                KeepsRunning(v) \/ Retries(v) \/ Ends(v) \/ EventIsRefused(v)
             \/ Lost
    BY <1>1 DEF HandleQueuedOrRunning
  <2> DEFINE v == AfterDeadlines(r)
  <2>2. v.says \in Says
    BY VerdictFacts DEF Reports
  <2> HIDE DEF v
  <2>3. CASE Lost
    BY <2>3 DEF Lost, status, Clocks
  <2>4. CASE KeepsRunning(v)
    BY <1>1, <2>4 DEF KeepsRunning, HandleQueuedOrRunning, Clocks
  <2>5. CASE Retries(v)
    BY <2>5 DEF Retries, Clocks
  <2>6. CASE Ends(v) \/ EventIsRefused(v)
    BY <2>2, <2>6 DEF Ends, EventIsRefused, Says, Clocks
  <2> QED
    BY <2>1, <2>3, <2>4, <2>5, <2>6 DEF v
<1>2. CASE HandleRetryableFailure
  BY <1>2 DEF HandleRetryableFailure, BeginNextAttempt, Lost, status, Clocks
<1>3. CASE HandleNotYetStarted
  BY <1>3 DEF HandleNotYetStarted, NotYetStartedVisits, Visit, Clocks
<1>4. CASE HandleFailing \/ HandleTimingOut \/ HandleSucceeding \/ AnswerFromCache
  BY <1>4 DEF HandleFailing, HandleTimingOut, HandleSucceeding, AnswerFromCache, CacheHit, Visit,
     Finish, Clears, Lost, status, Clocks
<1>5. CASE Tick
  BY <1>5 DEF Tick, Older, Clocks
<1>6. CASE AbortNode \/ Done \/ WaitForReservation \/ UNCHANGED vars
  BY <1>6 DEF AbortNode, Done, WaitForReservation, Lost, vars, status, Clocks
<1>7. CASE \E n \in Attempts : PodEnds(n) \/ PodDisappears(n) \/ PodIsDeleted(n)
  BY <1>7 DEF PodEnds, PodDisappears, PodIsDeleted, status, Clocks
<1> QED
  BY <1>1, <1>2, <1>3, <1>4, <1>5, <1>6, <1>7 DEF Next, HandleNode

LEMMA DeadlineStep ==
    ASSUME TypeOK, Clocks, [Next]_vars,
           phase' # phase, error' = "deadline", phase' \in {"RetryableFailure", "Failing"}
    PROVE  age > ExecutionDeadline
<1>1. HandleQueuedOrRunning(PluginReports)
  BY DEF Next, HandleNode, HandleNotYetStarted, NotYetStartedVisits, Visit,
     HandleRetryableFailure, BeginNextAttempt, HandleFailing, HandleTimingOut, HandleSucceeding,
     WaitForReservation, AnswerFromCache, CacheHit, Finish, Clears, Lost, AbortNode, Tick, Done,
     PodEnds, PodDisappears, PodIsDeleted, status, vars
<1>2. PICK r \in PluginReports :
           LET v == AfterDeadlines(r) IN
           KeepsRunning(v) \/ Retries(v) \/ Ends(v) \/ EventIsRefused(v)
  BY <1>1 DEF HandleQueuedOrRunning, Lost, status
<1> DEFINE v == AfterDeadlines(r)
<1>3. /\ v.says \in Says
      /\ v.kind = "deadline" => attemptFor > ExecutionDeadline /\ attemptFor # Never
      /\ v.says \in {"retryable", "permanent"} => v.kind # "none"
  BY VerdictFacts DEF Reports
<1> HIDE DEF v
<1>4. v.kind = "deadline"
  <2>1. CASE KeepsRunning(v)
    BY <2>1 DEF KeepsRunning
  <2>2. CASE Retries(v)
    BY <2>2 DEF Retries
  <2>3. CASE Ends(v)
    BY <1>3, <2>3 DEF Ends, Says
  <2>4. CASE EventIsRefused(v)
    BY <2>4 DEF EventIsRefused
  <2> QED
    BY <1>2, <2>1, <2>2, <2>3, <2>4 DEF v
<1> QED
  BY <1>1, <1>3, <1>4 DEF HandleQueuedOrRunning, Clocks

(* execute's deadline, for any deadlines and budgets: no attempt is timed  *)
(* out before it has had the whole of its own time.                        *)
THEOREM DeadlinesAreFair == Spec => RetriesHaveTheirTime
<1> DEFINE I == TypeOK /\ Counters /\ Clocks
           A == phase' # phase /\ error' = "deadline" /\ phase' \in {"RetryableFailure", "Failing"}
                    => age > ExecutionDeadline
<1>1. Init => I
  BY InitCounters DEF Init, Clocks
<1>2. I /\ [Next]_vars => I'
  BY StepCounters, StepClocks
<1>3. I /\ [Next]_vars => [A]_vars
  BY DeadlineStep
<1> QED
  BY <1>1, <1>2, <1>3, PTL DEF Spec, RetriesHaveTheirTime

---------------------------------------------------------------------------
(* The workflow's view of the node.                                        *)

LEMMA StepIsVisit ==
    ASSUME TypeOK, Counters, OneAtWork, [Next]_vars, AbstractPhase' # AbstractPhase
    PROVE  \E v \in Visits(AbstractPhase, NodeOutcomes) : AbstractPhase' = v.to
<1>1. phase' # phase \/ task' # task \/ attempts' # attempts
  BY DEF AbstractPhase
<1>2. CASE HandleNotYetStarted
  <2>1. AbstractPhase = "NotYetStarted"
    BY <1>2 DEF HandleNotYetStarted, AbstractPhase
  <2>2. PICK v \in NotYetStartedVisits : phase' = v.to
    BY <1>2 DEF HandleNotYetStarted
  <2>3. AbstractPhase' = v.to
    BY <2>2 DEF AbstractPhase, NotYetStartedVisits, Visit
  <2> QED
    BY <2>1, <2>3 DEF Visits
<1>3. CASE HandleQueuedOrRunning(PluginReports)
  <2>1. PICK r \in PluginReports :
             LET v == AfterDeadlines(r) IN
             /\ KeepsRunning(v) \/ Retries(v) \/ Ends(v) \/ EventIsRefused(v)
             /\ attempts' = attempts
    BY <1>1, <1>3 DEF HandleQueuedOrRunning, Lost, status
  <2> DEFINE w == AfterDeadlines(r)
  <2>2. /\ w.says \in Says
        /\ w.says = "running" => w.task \in {"none", "started"}
        /\ w.says = "running" /\ task = "started" => w.task = "started"
    BY VerdictFacts, PluginReportFacts DEF Reports
  <2> HIDE DEF w
  <2>3. /\ phase = "Queued" => attempts = 0
        /\ phase \in {"Queued", "Running"} /\ task \in {"none", "started"}
    BY <1>3 DEF HandleQueuedOrRunning, Counters, OneAtWork, IsRetrying
  <2>4. \/ AbstractPhase \in {"Queued", "Retrying"}
        \/ AbstractPhase = "Running" /\ task = "started" /\ phase = "Running"
    BY <2>3 DEF AbstractPhase
  <2>5. CASE KeepsRunning(w)
    <3>1. phase' = "Running" /\ task' = w.task /\ attempts' = attempts /\ w.says = "running"
      BY <2>1, <2>5 DEF KeepsRunning
    <3>2. AbstractPhase \in {"Queued", "Retrying"} /\ AbstractPhase' = "Running"
      BY <2>2, <2>3, <2>4, <3>1 DEF AbstractPhase
    <3>3. Visit("Running", "Running", "start") \in Visits(AbstractPhase, NodeOutcomes)
      BY <3>2 DEF Visits, QueuedOrRunningVisits
    <3> QED
      BY <3>2, <3>3 DEF Visit
  <2>6. CASE ~KeepsRunning(w)
    <3>1. phase' \in NodeOutcomes
      BY <2>1, <2>2, <2>6 DEF Retries, Ends, EventIsRefused, Says, NodeOutcomes, w
    <3>2. AbstractPhase' = phase'
      BY <3>1 DEF AbstractPhase, NodeOutcomes
    <3>3. Visit(phase', "Running", IF phase' = "Succeeding" THEN "finish" ELSE "none")
              \in Visits(AbstractPhase, NodeOutcomes)
      BY <2>4, <3>1 DEF Visits, QueuedOrRunningVisits, Visit
    <3> QED
      BY <3>2, <3>3 DEF Visit
  <2> QED
    BY <2>5, <2>6
<1>4. CASE HandleRetryableFailure
  <2>1. /\ AbstractPhase = "RetryableFailure" /\ phase' = "Running" /\ task' = "none"
        /\ attempts' = attempts + 1
    BY <1>1, <1>4 DEF HandleRetryableFailure, BeginNextAttempt, Lost, status, AbstractPhase
  <2>2. AbstractPhase' = "Retrying"
    BY <2>1, LastAttemptAssumption DEF AbstractPhase, TypeOK, Attempts
  <2> QED
    BY <2>1, <2>2 DEF Visits, Visit
<1>5. CASE HandleFailing \/ HandleTimingOut \/ HandleSucceeding
  BY <1>1, <1>5 DEF HandleFailing, HandleTimingOut, HandleSucceeding, Finish, Lost, status,
     AbstractPhase, Visits, Visit
<1>8. CASE AnswerFromCache
  <2>1. AbstractPhase = "Queued" /\ AbstractPhase' = CacheHit.to
    BY <1>8 DEF AnswerFromCache, AbstractPhase, CacheHit, Visit
  <2> QED
    BY <2>1 DEF Visits
<1>6. ~AbortNode /\ ~Tick /\ ~Done /\ ~WaitForReservation /\ ~UNCHANGED vars
  BY <1>1 DEF AbortNode, Lost, Tick, Done, WaitForReservation, status, vars
<1>7. ~\E n \in Attempts : PodEnds(n) \/ PodDisappears(n) \/ PodIsDeleted(n)
  BY <1>1 DEF PodEnds, PodDisappears, PodIsDeleted, status
<1> QED
  BY <1>2, <1>3, <1>4, <1>5, <1>6, <1>7, <1>8 DEF Next, HandleNode

(* A node that retries, times out and loses visits moves only as the       *)
(* NodePhases visits of the workflow controller's model do.                *)
THEOREM AttemptsImplementVisits == Spec => ImplementsVisits
<1> DEFINE I == TypeOK /\ Counters /\ OneAtWork
           A == \E v \in Visits(AbstractPhase, NodeOutcomes) : AbstractPhase' = v.to
<1>1. I /\ [Next]_vars => [A]_AbstractPhase
  BY StepIsVisit
<1> QED
  BY <1>1, OneAtWorkAlways, PTL DEF Spec, ImplementsVisits

---------------------------------------------------------------------------
(* Interruptible machines.                                                 *)

Spot ==
    /\ \A n \in interruptible : n =< attempts
    /\ phase = "NotYetStarted" => interruptible = {}
    /\ phase \in {"Queued", "Running"} /\ attempts \in interruptible => SystemRetryIsLeft

LEMMA InterruptibleFacts ==
    ASSUME InterruptibleFailureThreshold = -1, TypeOK, Counters,
           phase \in {"Queued", "Running"}, IsInterruptible
    PROVE  SystemRetryIsLeft
<1>1. /\ attempts \in Nat /\ systemFailures \in Nat /\ MaxAttempts \in Nat
      /\ MaxNodeRetriesOnSystemFailures \in Nat /\ LastAttempt \in Nat /\ Word \in Nat
      /\ MaxAttempts + MaxNodeRetriesOnSystemFailures =< LastAttempt + 1
      /\ LastAttempt + 1 < Word
  <2>1. MaxAttempts \in MinAttempts \cup {DefaultMaxAttempts}
    BY DEF TypeOK, MaxAttempts
  <2> QED
    BY <2>1, MaxAttemptsFacts, SystemAssumption, LastAttemptAssumption, WordAssumption
    DEF TypeOK, Attempts
<1>2. CASE policy.ignoreRetryCause
  <2>1. CASE attempts = 0
    BY <1>2, <2>1 DEF SystemRetryIsLeft
  <2>2. CASE attempts # 0
    <3>1. attempts =< OtherRetries
      BY <1>2 DEF Counters
    <3>2. MaxAttempts - 1 \in Nat /\ MaxAttempts - 1 < Word
      BY <1>1, <2>2, <3>1 DEF OtherRetries
    <3>3. Uint(MaxAttempts - 1) = MaxAttempts - 1
      BY <3>2, UintOfSmall
    <3>4. ~(attempts >= Uint(MaxAttempts + (-1)))
      <4>1. attempts > 0
        BY <1>1, <2>2
      <4> QED
        BY <1>2, <4>1 DEF IsInterruptible, IsAboveInterruptibleFailureThreshold
    <3>5. MaxAttempts + (-1) = MaxAttempts - 1
      BY <1>1
    <3>6. attempts + 1 < MaxAttempts
      BY <1>1, <3>3, <3>4, <3>5
    <3> QED
      BY <1>2, <3>6 DEF SystemRetryIsLeft
  <2> QED
    BY <2>1, <2>2
<1>3. CASE ~policy.ignoreRetryCause
  <2>1. Uint(MaxNodeRetriesOnSystemFailures) = MaxNodeRetriesOnSystemFailures
    BY <1>1, UintOfSmall
  <2>2. ~(systemFailures >= Uint(MaxNodeRetriesOnSystemFailures + 1 + (-1)))
    BY <1>3 DEF IsInterruptible, IsAboveInterruptibleFailureThreshold
  <2>3. MaxNodeRetriesOnSystemFailures + 1 + (-1) = MaxNodeRetriesOnSystemFailures
    BY <1>1
  <2> QED
    BY <1>1, <1>3, <2>1, <2>2, <2>3 DEF SystemRetryIsLeft
<1> QED
  BY <1>2, <1>3

LEMMA StepSpot ==
    ASSUME InterruptibleFailureThreshold = -1, TypeOK, Counters, Spot, [Next]_vars
    PROVE  Spot'
<1>1. attempts \in Nat /\ policy' = policy
  BY LastAttemptAssumption DEF TypeOK, Attempts, Next, vars
<1>2. ASSUME UNCHANGED <<interruptible, attempts, systemFailures>>,
             phase' \in {"Queued", "Running"} => phase \in {"NotYetStarted", "Queued", "Running"},
             phase' = "NotYetStarted" => phase = "NotYetStarted"
      PROVE  Spot'
  <2>1. SystemRetryIsLeft' <=> SystemRetryIsLeft
    BY <1>1, <1>2, PolicyKept DEF SystemRetryIsLeft
  <2> QED
    BY <1>2, <2>1 DEF Spot
<1>3. CASE HandleQueuedOrRunning(PluginReports)
  <2>1. PICK r \in PluginReports :
             /\ Launch(r)
             /\ \/ LET v == AfterDeadlines(r) IN
                   /\ KeepsRunning(v) \/ Retries(v) \/ Ends(v) \/ EventIsRefused(v)
                   /\ UNCHANGED <<attempts, queuedFor, aborted, faults>>
                \/ Lost
    BY <1>3 DEF HandleQueuedOrRunning
  <2> DEFINE v == AfterDeadlines(r)
  <2>2. v.says \in Says
    BY VerdictFacts DEF Reports
  <2> HIDE DEF v
  <2>3. /\ attempts' = attempts /\ phase \in {"Queued", "Running"}
        /\ phase' # "NotYetStarted"
        /\ phase' \in {"Queued", "Running"} => systemFailures' = systemFailures
    BY <1>3, <2>1, <2>2 DEF HandleQueuedOrRunning, Lost, KeepsRunning, Retries, Ends,
       EventIsRefused, Says, status, v
  <2>4. phase' \in {"Queued", "Running"} => (SystemRetryIsLeft' <=> SystemRetryIsLeft)
    BY <1>1, <2>3, PolicyKept DEF SystemRetryIsLeft
  <2>5. CASE IsInterruptible
    <3>1. interruptible' \subseteq interruptible \cup {attempts}
      BY <2>1, <2>5 DEF Launch, cluster
    <3>2. SystemRetryIsLeft
      BY <2>3, <2>5, InterruptibleFacts
    <3> QED
      BY <1>1, <2>3, <2>4, <3>1, <3>2 DEF Spot
  <2>6. CASE ~IsInterruptible
    <3>1. interruptible' \subseteq interruptible
      BY <2>1, <2>6 DEF Launch, cluster
    <3> QED
      BY <2>3, <2>4, <3>1 DEF Spot
  <2> QED
    BY <2>5, <2>6
<1>4. CASE HandleRetryableFailure
  <2>1. CASE Lost
    BY <1>2, <1>4, <2>1 DEF HandleRetryableFailure, AbortPod, Lost, status
  <2>2. CASE BeginNextAttempt
    <3>1. interruptible' = interruptible /\ attempts' = attempts + 1 /\ phase' = "Running"
      BY <1>4, <2>2 DEF HandleRetryableFailure, AbortPod, BeginNextAttempt
    <3>2. \A n \in interruptible : n \in Nat /\ n < attempts + 1
      BY <1>1, LastAttemptAssumption DEF Spot, TypeOK, Attempts
    <3>3. attempts + 1 \notin interruptible
      BY <1>1, <3>2
    <3> QED
      BY <1>1, <3>1, <3>2, <3>3 DEF Spot
  <2> QED
    BY <1>4, <2>1, <2>2 DEF HandleRetryableFailure
<1>5. CASE HandleNotYetStarted
  BY <1>2, <1>5 DEF HandleNotYetStarted, NotYetStartedVisits, Visit, cluster
<1>6. CASE HandleFailing \/ HandleTimingOut \/ HandleSucceeding \/ AnswerFromCache
  BY <1>2, <1>6 DEF HandleFailing, HandleTimingOut, HandleSucceeding, AnswerFromCache, CacheHit,
     Visit, Finish, Clears, Lost, AbortPod, status, cluster
<1>7. CASE AbortNode
  BY <1>2, <1>7 DEF AbortNode, AbortPod, Lost, status, cluster
<1>8. CASE Tick \/ Done \/ WaitForReservation \/ UNCHANGED vars
  BY <1>2, <1>8 DEF Tick, Done, WaitForReservation, vars, status, cluster
<1>9. CASE \E n \in Attempts : PodEnds(n) \/ PodDisappears(n) \/ PodIsDeleted(n)
  BY <1>2, <1>9 DEF PodEnds, PodDisappears, PodIsDeleted, status
<1> QED
  BY <1>3, <1>4, <1>5, <1>6, <1>7, <1>8, <1>9 DEF Next, HandleNode

(* BuildNodeExecutionContext with the default threshold of -1: an attempt  *)
(* that runs where it can be preempted is never the last one, for any      *)
(* budgets and retry strategies.                                           *)
THEOREM PreemptionsAreRetried ==
    ASSUME InterruptibleFailureThreshold = -1 PROVE Spec => []PreemptionIsRetried
<1> DEFINE I == TypeOK /\ Counters /\ Spot
<1>1. Init => I
  BY InitCounters DEF Init, Spot
<1>2. I /\ [Next]_vars => I'
  BY StepCounters, StepSpot
<1>3. I => PreemptionIsRetried
  BY DEF Spot, PreemptionIsRetried
<1> QED
  BY <1>1, <1>2, <1>3, PTL DEF Spec
============================================================================
