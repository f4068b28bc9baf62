# Flyte in TLA+

A verification project for the Flyte control plane: the parts of FlytePropeller
that drive a workflow, its DAG, its task and array nodes and tasks on web services
to their end, the parts of FlyteAdmin that record what became of it and that start
executions on a schedule, and the DataCatalog reservations that keep cached tasks
from running twice.  Everything is translated from the Go sources under `src/`;
`PROJECT.json` names the lines behind every definition.

## 1. The system

FlyteAdmin receives a request to execute a workflow, creates a `FlyteWorkflow`
resource in Kubernetes and then inserts a row for the execution.
FlytePropeller is a Kubernetes controller: it reads the resource from an
informer's cache, moves the workflow and its nodes forward by one small step,
reports what happened to FlyteAdmin as events, and writes the resource back.
Nodes run payloads (pods, jobs, web services) through plugins; propeller polls
them.  Tasks whose outputs are cached are looked up in DataCatalog, and tasks
that are also "cache serializable" reserve the artifact there first.

| Component | State | Operations | Talks to |
|---|---|---|---|
| workflow reconciliation (`controller/handler.go`, `workflow/executor.go`) | the round: copy read, mutable copy, error, streak length | `Handle`, `streak`, `TryMutateWorkflow`, one handler per phase, abort | stores, node executor, event sink |
| workflow stores (`workflowstore/`) | last replaced version per workflow; LRU filter of terminated workflows | `Get`, `Update` | API server, informer |
| work queue and workers (`workers.go`, `composite_workqueue.go`) | keys to handle, rate limits | `processNextWorkItem`, resync | reconciliation |
| garbage collector (`garbage_collector.go`) | none (labels) | `deleteWorkflows` | API server |
| event sink (`events/admin_eventsink.go`) | filter of events already sent | `Sink` | FlyteAdmin |
| admin execution state (`execution_manager.go`) | the execution's row | `CreateExecution`, `CreateWorkflowEvent`, `TerminateExecution` | database, API server |
| node executor (`nodes/executor.go`) | a `NodeStatus` per node: phase, attempts, failures, plugin state | `RecursiveNodeHandler`, `HandleNode`, `Abort`, `Finalize` | plugins, event sink, catalog |
| DataCatalog reservations (`reservation_manager.go`, `nodes/cache.go`) | one row per artifact: owner, expiry | `GetOrExtendReservation`, `ReleaseReservation` | node executor |
| task handler and Kubernetes plugin (`nodes/task/handler.go`, `nodes/task/k8s/plugin_manager.go`) | the plugin's recorded phase; pods named after attempts | `Handle`, `Abort`, `Finalize` | Kubernetes |
| branch and array handlers (`nodes/branch/`, `nodes/array/`) | the chosen case; phases, attempts and failures of all subnodes in compact arrays, version of the event | `Handle`, `Abort`, `Finalize`, array workers, event recorder | node executor, FlyteAdmin |
| web API plugin (`pluginmachinery/internal/webapi/`) | the plugin's state: phase, resource meta, fetch failures | `Handle`, `Abort`, `Finalize`, `SyncResource` | cache, resource manager, remote service |
| auto-refresh cache (`flytestdlib/cache/in_memory_auto_refresh.go`) | LRU map, queue of batches, marks of what is in processing or to be deleted | `GetOrCreate`, `DeleteDelayed`, `enqueueBatches`, `sync` | plugin, remote service |
| resource manager (`nodes/task/resourcemanager/`) | a set of tokens per namespace in Redis | `AllocateResource`, `ReleaseResource` | Redis |
| admin task executions (`task_execution_manager.go`) | the row of a task execution: phase, version, subnodes | `CreateTaskExecutionEvent` | database |
| native scheduler (`flyteadmin/scheduler/`) | rows of schedules, job store, snapshot of last execution times | boot and catch-up, fires, updater, snapshots | cron library, FlyteAdmin, database |
| DataCatalog artifacts, dynamic/gate/sub-workflow/launch-plan handlers, admin's node executions, compiler, command-line tools | | | not modelled, see section 8 |

What is hard in it:

- a round is a read, effects outside (payloads started and aborted, events
  sent) and a conditional write, in that order, and the process may die or a
  call may fail between any two of them;
- the copy a round starts from comes from a cache that lags;
- users, the garbage collector and admin change or delete the resource at any
  time, and during a change of leadership two instances work on it;
- admin's own calls read, check and write its rows without a lock;
- a node's attempts are counted by cause in unsigned numbers that different
  visits step, and each attempt's pod outlives the visit that made it;
- a reservation is a lease with a clock in one process and its use in another;
- a round over a DAG counts parallelism and follows dependencies in its own copy,
  which may be lost with everything that it started;
- an array node keeps a second, compressed record of its subnodes and tells admin
  of them in versioned events that admin may refuse;
- a web API task is seen through a cache whose workers write back answers made from
  old snapshots, while visits evict, re-create and delete its items;
- the scheduler's watermark moves with fires that finish in any order, and what it
  says decides what a restarted process catches up.

The list of hazards, each with the line where it bites and the properties
that would catch it, is in `PROJECT.json`.

## 2. Modules

| Module | What it is |
|---|---|
| `ExecutionPhases` | Phases of the resource and of admin's row, events, and admin's answer to an event (`CreateWorkflowEvent`). Constant operators. |
| `NodePhases` | A visit of the node executor to one node as the workflow sees it: next phase, status returned, effect on the payload. Constant operators. |
| `WorkflowController` | The reconciliation of one workflow by any number of propeller instances, with the API server, informers, the two caching stores, the event sink, admin's row and the payloads. |
| `MCWorkflowController` | The set of resource versions for TLC. |
| `WorkflowControllerProofs` | Theorems about `WorkflowController`. |
| `NodeAttempts` | One task node over all its attempts: node executor, task handler, Kubernetes plugin, pods, clock. |
| `MCNodeAttempts` | The default interruptible failure threshold, -1, for TLC. |
| `NodeAttemptsProofs` | Theorems about `NodeAttempts`, that it moves as `NodePhases` says included. |
| `NodeTraversal` | The DAG of one workflow walked by `RecursiveNodeHandler`, visit by visit, with failure policies, branches, the parallelism counter, lost rounds and the abort. |
| `NodeTraversalProofs` | Theorems about `NodeTraversal`, for every graph the compiler lets through. |
| `MCNodeTraversal` | The DAGs for TLC. |
| `ArrayNode` | One array node: its handler, workers and event recorder, the pods of its subnodes and its task execution in admin. |
| `MCArrayNode` | Limits and numbers of faults for TLC. |
| `ArrayNodeProofs` | Theorems about `ArrayNode`. |
| `AutoRefreshCache` | The cache of flytestdlib, with the sync function of web API plugins. |
| `WebApiPlugin` | Tasks on a remote service: extends `AutoRefreshCache` by the plugin's state machine, the tokens in Redis and the service. |
| `WebApiPluginProofs` | Theorems about `WebApiPlugin` and its cache. |
| `MCWebApiPlugin` | Tasks, cache sizes, numbers of concurrent visits and of faults for TLC. |
| `NativeScheduler` | Schedules, the process that catches up, fires and saves snapshots, and the executions in admin. |
| `NativeSchedulerProofs` | Theorems about `NativeScheduler`. |
| `FiniteSetLemmas` | Largest and least elements of sets of integers, which several proofs need. |
| `ReservationLease` | Abstract specification: a lease on one artifact. |
| `CacheSerialization` | Nodes that compute the same artifact, with DataCatalog's reservation calls in their separate steps. |
| `CacheSerializationProofs` | Theorems about `CacheSerialization`, the refinement of `ReservationLease` included. |

### WorkflowController

One resource, `crd`, with the fields that the control flow reads: version,
phase, failed attempts, finalizer, completed label, deletion timestamp, the
phase of the DAG and of the failure node.  The DAG is one representative node:
`HandleRunningSiblingFails` stands for the failure of any other node.
`watch[i]` and `lister[i]` are the informer of instance `i`.

A round is `HandleGet` (the stores' filters and `Handle`'s early return), one
`Handle...` action per phase (`HandleFlyteWorkflow`, `HandleAbortedWorkflow`),
`RecordFiltered`, `RecordRefused`, `RecordChecked`, `RecordEvent` or `RecordFails`
(`TransitionToPhase` and the sink, only when the phase changed; admin's check of the
row and its write are two steps, since `CreateWorkflowEvent` holds no lock),
and one of `SkipUpdate`, `StoreUpdate`, `StoreConflict`, `StoreGone`,
`StoreTooLarge`/`StoreShrunk`, `StoreFails` (the end of `streak`).
`StoreUpdate` goes straight into the next round while the streak lasts.
A call that fails may have taken effect (`RecordFails`, `StoreFails`), and
`Crash` forgets everything in memory; each uses up one of `MaxFaults`.

Admin is `EventReply` plus `TerminateExecution`, `SetExecutionAborting`, `Abort`
(the three steps of one call, which `TerminateFails` may cut short),
`InsertRow` (the row comes after the resource) and `LoseRow`, a fault.

Four history variables serve properties only: `recorded`, the outcomes admin
has ever stored; `refused`, the outcomes reported to an admin that has no such
execution; `superseded`, the versions an instance knows it has replaced and may
still read; and `stray`, whether the DAG's payload was started by a round that was
not alone or worked on a replaced copy, or was left at work by an answer from the
cache.

Resource versions are compared only for equality, so a write takes the least
version that nobody holds any more.  `MCWorkflowController` assumes enough of
them for a write never to be blocked.

### NodeAttempts

`phase`, `attempts`, `systemFailures`, `queuedFor`, `attemptFor`, `task` and `error`
are the recorded `NodeStatus`, `waiting` says that a queued node waits for a cache
reservation; `pod[n]` is the pod of attempt `n` in Kubernetes,
which knows nothing of the status; `policy` is the node's retry strategy and
whether the configuration ignores the cause of a failure.  `age` is history: how
long the attempt has really been under way.  So is `left`: the attempts that were
taken for over while their pod was at work.

Every action is a visit of `HandleNode` in one phase (`HandleNotYetStarted`,
`HandleQueuedOrRunning`, `HandleRetryableFailure`, `HandleFailing`,
`HandleTimingOut`, `HandleSucceeding`) or `AbortHandler` (`AbortNode`).  A visit to
a queued or running node launches or checks the pod (`PluginReports`), lets the
deadlines replace the report (`AfterDeadlines`) and records what is left of it
(`KeepsRunning`, `Retries`, `Ends`, `EventIsRefused`).  `WaitForReservation` and
`AnswerFromCache` are the visits to a node that is cached and serializable; the
latter does not ask the handler, whatever an earlier, lost visit has launched.  The pods change when the
visit happens; the status changes only if the round is stored, and `Lost` is a
visit whose round is not.  `PodEnds`, `PodDisappears`, `PodIsDeleted` are
Kubernetes, `Tick` the clock.

`WorkflowController` sees a node only through `NodePhases`.  `ImplementsVisits`
says that this is sound: every recorded step of `NodeAttempts`, with its two
retry budgets, deadlines and refused events, is one of the `Visits` of
`NodePhases`.

### CacheSerialization

One artifact.  `row` is the reservation with the ticks left of it; `phase`,
`attempt`, `payload` and `pc` are each node's recorded status, payload and place
in its visit.  A reservation call is `GetReservation`, `LookAtClock`,
`WriteReservation` (the conditional SQL statements `CreatesRow` and
`UpdatesRow`), and for a loser `LoseRace` and `GetWinner`.  Time is relative,
so that liveness can be checked: `Tick` lowers what is left of the row and of
rows that calls have read, and raises the age of the clock readings in calls.
`quiet` and `late` are history: how long a node that relies on the reservation
has not asked, and who let the grace period pass.

### NodeTraversal

`stored` is the status of every node in the resource, `status` the round's copy,
`dirty` the nodes that the round has changed and `stack` the calls of
`handleDownstream` (and of a branch's handler) that are open, with what each has
seen of its children: `Absorb` is the loop's body, `Result` what the call returns.
`VisitNext` is one call of `RecursiveNodeHandler`: it descends below a node that is
over, passes by one that was already visited or finds no room under the limit, or
visits it; a visit of a task is one of the `Visits` of `NodePhases`, which
`NodeAttempts` implements.  `DecideBranch`, `EnterCase` and `ReturnFromCase` are the
branch handler.  `needs` are the nodes that a case reads from: the compiler makes them
upstream of the case and not of its branch, and the branch's handler makes the case
wait for them or skips it with them.  `BranchDeadlines` are the two deadlines of a
branch: the active one times it out, the execution deadline is retried
(`HandleRetryableBranch`) or fails it, and since a branch needs no finalization it is
over at once, with its case at work.  A failing branch aborts what the recursion of
`AbortHandler` reaches: `AbortGoesTo` is one call, `AbortReach` the least set closed
under it.  The graphs are those the compiler lets through (`IsCompiled`): a case belongs
to one branch and is downstream of nothing but what it needs, branches nest to a finite
depth, and every other node is reachable from the start node, on which no edge ends.
`answered` is history: nodes that were answered from the cache.  `EndRound` stores the round; `LoseRound` throws its copy away and
leaves what it did to the payloads.

### ArrayNode

`phase`, `sub` and `version` are the stored `ArrayNodeState`; `payload[i]` holds the
attempts of subnode `i` whose pod is at work, whatever is stored; `admin` is the
array's task execution.  `HandleNone`, `HandleExecuting`, `HandleFailing` and
`HandleSucceeding` are the four phases of `Handle`.  A round visits the first
subnodes that are not over, as many as `InferParallelism` allows
(`FirstNonTerminal`), through `SubNodeVisits`, the node executor on a subnode whose
status is rebuilt from the compact arrays; then it reports (`ReportsRound`) and
stores (`StoresRound`).  `Lost` ends it before the store.  A round whose counters do
not fit into the compact arrays (`Fits`: `SubNodeRetryAttempts` and
`SubNodeSystemFailures` are sized from the array node's retry strategy, the budgets of
a subnode are its own) or that starts a subnode too late for the delta of its start time
panics.  `Counts` adds a round that ends in an error or a panic to the workflow's failed
attempts, `tries`; after MaxWorkflowRetries of them the workflow is aborted, and failed
even if that cannot be done (`GivesUp`).  `NodeFailing`, `NodeSucceeding` and
`AbortNode` are the node executor on the array node itself.

### AutoRefreshCache and WebApiPlugin

`lru` is the LRU map: for each cached id its item and the ids that were used after it,
so that the one to evict is the one with the most of them.  `queue` the batches (snapshots of one item
each), `processing` the marks and `working` the answer a sync worker has and has not
yet written back.  `EnqueueBatch` is one key of the loop and `Mark` the mark that it sets
afterwards (`marking` in between); `MarkExpires` is a mark that has become too old.
`TakeBatch` and `ApplyBatch` are `sync` before and after the answer.  `state[t]` is the recorded plugin state and
`visit[t]` the visit under way: `AskForToken`, `CheckConstraints` (the quota of a
project) and `AddToken` are the calls to Redis,
`Launch`, `LaunchTerminated`, `LaunchFails` are `launch`, `Monitor` is `monitor`, and
`StoreVisit` or `LoseVisit` ends it.  `EndTask` and `AbortTask` are Abort and Finalize
of the task handler; `AbortFails` is a Delete that fails, with or without an effect, and
is repeated.  `Restart` empties the cache and loses all visits.

### NativeScheduler

`rows` are the schedules in the database, `jobs` the process' job store with the cron
library's next time, `fires` the goroutines of jobs, `snapshot` what was last saved.
`Boot` reads snapshot and rows, `BeginCatchUp`, `CatchUpSchedule`, `CatchUp` and
`EndCatchUp` are `CatchupAll`, `Fire`, `Execute` and `UpdateLast` a job's run with its
unlocked compare and set, `Update` and `SaveSnapshot` the two background loops.
`refused` and `passedOver` are history: times that admin created nothing for, and
times that nobody will ask for again.

## 3. Runs

Bounds are the smallest in which the interesting cases happen; every action and
every fault is taken in some passing run.

| Run | Shows | Bounds |
|---|---|---|
| `streaks` | With one fault anywhere (an execution that admin loses or moves to another cluster included), deletion, garbage collection and termination at any time: label and finalizer are honest, payloads are recorded before they start, Success is recorded by admin first, no payload outlives its workflow unless a round on a replaced copy or the cache left it, completed workflows keep their outcome, and a finalizer comes off only after an outcome was recorded or FAILED was refused by an admin without the execution. | one instance, streaks of three, two watch events behind, one fault, one workflow retry |
| `rounds` | Deletion completes; failing completes, unless the failure node runs on for ever. | one instance, a failure node, streaks of one, one watch event behind, one fault, no workflow retry |
| `serialized` | The calls implement the lease, first attempts are serialized, nobody waits forever. | two nodes, two attempts, grace of two ticks, calls of up to one, one fault |
| `attempts` | Retry budgets hold, two attempts are never both at work, an ended node leaves nothing at work but what was taken for over before (`left`), preempted attempts have a further one, attempts have their whole deadline, the node moves as `NodePhases` says, and it ends. | up to three attempts under six policies, deadlines of one and three ticks, two faults |
| `traversal` | A node (a case with its own upstream included) is taken up only after its upstream is recorded, nodes are left out only for a recorded reason, the failure policy is kept, an ended workflow leaves nothing at work (but the case of a branch that a deadline ended, and a payload whose node was answered from the cache), every workflow ends. | DAGs of three nodes besides the start, both policies, limit one, one retry, one lost round or termination |
| `webapi` | Tokens exceed the quota, of the namespace and of a project, by at most the number of concurrent visits less one; tokens follow tasks; an ended task leaves its resource running in two known cases only. | three tasks of one project, two visits at a time, one token, one sync worker, room in the cache for one, one fault; one batch queued and two marks set at a time |
| `refresh` | Every task ends. | two tasks and one token without a fault; one task with three faults; one fetch may fail |
| `scheduler` | The saved watermark hides nothing, catch-up and library leave no gap, catch-up executes nothing from before an activation, every scheduled time is settled. | one schedule, cron or fixed rate, period two, four ticks, two activations, two faults |
| `array` | The node's own limit bounds the pods at work, an ended array leaves no pod (but in two known cases), a terminal task execution shows every subnode as it ended, every array ends. | two subnodes, one or two successes needed; limit one with one fault, and as many at a time as the workflow allows without; three attempts in an array sized for one, one workflow retry |
| `terminate`, `missed`, `outputs` | Disagreements between the code and what it says of itself, section 5. | as small as the counterexample allows |

One instance is enough for TLC to reach the races with users, admin and the
informer; two instances multiply the states beyond reach, and the theorems
cover any number of them.  One fault per run separates any two steps once;
the theorems again cover any number, and any length of streaks.  A single node stands
for the DAG because the workflow's handlers only see the status that the traversal
returns.  Safety and liveness of the controller have runs of their own: with streaks
of three and an informer two events behind, a stale round that starts a payload
happens, but the graph is too large for TLC's liveness checking.

In `attempts`, two faults let the visit that creates a pod and the one that aborts
it both be lost, or a lost visit meet a deleted pod; `MinAttempts` holds zero, one
(which also means "not set") and two, so that both budgets are used up in every
order.

In `traversal`, three nodes are enough for a join, for a chain beside a node that the
traversal reaches later, for a branch with a node after it, beside it, or with two
cases, for a case that needs a node beside its branch, and for a branch in a branch; a
limit of one makes every node compete.  In `array`, with two subnodes and a limit of one
the second waits for the first, with one success needed a failed subnode does not end
the array, and with both at a time one can be at work when the other decides it; a third
attempt does not fit into the compact array, so that every repetition of the round
panics.  In `webapi`, two visits can be admitted for the last token and a third task is
there to be admitted wrongly; the tasks also compete for the place in the cache, and
the bound on batches and marks only limits how far the cache's loop runs ahead of its
worker.  In `refresh` the liveness of taking turns and of faults is checked separately,
because two tasks with a fault are beyond TLC's liveness checking.  In `scheduler`,
four ticks hold two scheduled times, so that one can be overtaken by the other.

CHECK_DEADLOCK is off in the runs of the controller and of the cache: the system
really stops once a workflow is completed and collected, or the nodes are done.
The other modules have a `Done` step instead.

## 4. Fairness

- `HandleGet`, `Mutate`, `Record`, `Store` of each instance: the informer's
  resync puts every workflow back on the queue, and a worker runs its round to
  the end (calls have timeouts).
- `InformerDelivers`, `Restart`: watches deliver and Kubernetes restarts pods.
- `InsertRow`, `SetExecutionAborting`, `Abort`: a request that has been started
  goes on (`TerminateFails` is a fault).
- `CacheSerialization`: visits and calls go on, `Tick` happens, payloads end
  (nodes have deadlines).

- `NodeAttempts`: visits come again (the same resync) and time passes.  The fair
  visit is one whose report is patient: a pod at work is still at work, a launch
  still waits for quota.  `NodeEnds` therefore does not rest on any pod ending.  A node
  that waits for a reservation gets it in the end, which `CacheSerialization` shows.

- `NodeTraversal`: rounds begin again and run to their end, and payloads end (a task
  that hangs is ended by its deadline, which `NodeAttempts` shows).
- `ArrayNode`: the array is visited again; a round that changes the status of some
  subnode or the phase, or that counts as a failed attempt, happens in the end, since an attempt's pod ends or its deadline
  expires and the other nodes leave some of the workflow's parallelism.  The last is
  an assumption: with MaxParallelism 0 (unlimited) it does not hold, see section 5.
- `WebApiPlugin`: strong fairness for the visits of each task, since the work queue is
  served in turn and a worker that was busy becomes free, and for taking a batch, since
  the cache's queue is first in, first out; resources end, the cache's loop lists every
  item, a mark is set after its batch is queued and becomes too old with time, an answer
  is written back, and an abort that failed is repeated.  No fetch is assumed to succeed.
- `NativeScheduler`: the process is restarted, catches up, fires what is due, and the
  updater runs; a fire is retried until it is answered; time passes.  Saving snapshots
  is not assumed.

Nothing is assumed of users, of the garbage collector, or of the payloads in
`WorkflowController`.

## 5. Findings

The runs that TLC refutes; `PROJECT.json` quotes the lines.

1. `terminate`: TerminateExecution may overwrite an outcome with ABORTING, and
   nothing ends it then.
2. `missed`: a fire that is still retried is overtaken by the next one, whose time is
   saved; after a crash catch-up begins behind the first.
3. `outputs`: the array worker drops the error of an output that it cannot read; the
   array succeeds with too few outputs, shifted.

Beside the runs there are configurations for further disagreements, each checking
one property that TLC refutes (`tlc -config <file> <module>`):

| Configuration (module) | What it shows |
|---|---|
| `WorkflowController_superseded.cfg` (`MCWorkflowController`) | `resource_version_caching.go:81` says that a replaced version is never processed again; the cache keeps one replaced version per workflow, but a streak replaces several, and a round starts again from the first of them.  Such a round may start a payload of a workflow that has been cleaned up; `NoOrphanedNodes` of the run `streaks` excepts exactly that (`stray`). |
| `WorkflowController_missing.cfg` (`MCWorkflowController`) | `workflow/executor.go:385` ignores NotFound for FAILING and FAILED only: a deleted workflow whose execution admin does not have reports ABORTED for ever, and no round counts as an attempt. |
| `WorkflowController_gone.cfg` (`MCWorkflowController`) | `passthrough.go:64` answers an update of a resource that has disappeared with nil and no error, and `handler.go:421` dereferences it. |
| `WorkflowController_failure_node.cfg` (`MCWorkflowController`) | `workflow/executor.go:232`, "If the failure node finished executing, transition to failed": a failure node that is to be retried returns Pending and fails its workflow too. |
| `CacheSerialization_retry.cfg` (`CacheSerialization`) | `cache_serializing.md:7`, "only a single instance is evaluated": the second attempt of a node is another owner than the first (`nodes/cache.go:38`) and runs without a reservation beside another node's payload. |
| `CacheSerialization_reuse.cfg` (`CacheSerialization`) | `cache_serializing.md:35`, "will only execute the multiplication operation once": a node queued before the first instance finished does not look into the catalog again (`nodes/executor.go:1095`). |
| `NodeAttempts_unclean.cfg` (`MCNodeAttempts`) | `core/phase.go:137` on cleanupOnFailure: a task failed for too many phase versions (`task/handler.go:565`) is at work and not marked for a cleanup; its abort is skipped and the pod runs on. |
| `WebApiPlugin_given_up.cfg` (`MCWebApiPlugin`) | `webapi/pluginconfig.go:51`, "MaxSystemFailures defines the number of failures to fetch a task before failing the task": `SyncResource` gives the item up, but `monitor.go:33` looks at that only if there was no answer before; a task whose last answer said running is neither failed nor asked for again. |
| `NodeTraversal_parallelism.cfg` (`MCNodeTraversal`) | `nodes/executor.go:147`, "the maximum number of TaskNodes and LaunchPlans (together) that can be executed concurrently": the counter starts at zero in every round and counts only nodes visited before, so two tasks run under a limit of one. |

Met while modelling, without a configuration:

- Array nodes forget `CleanupOnFailure` (`array/handler.go:793` keeps the task's phase
  only), so the pod of a subnode that failed while its pod could not start is not
  deleted; and an array that succeeds while a subnode is still Failing only finalizes
  it, although `handler.go:467` says "wait until all tasks have completed before
  declaring success".  `LeavesOnlyFailures` names both cases.
- `SubNodeSystemFailures` is sized for MaxNodeRetriesOnSystemFailures, but a permanent
  system error counts twice (`nodes/executor.go:1221`, `:1232`); `SubNodeRetryAttempts`
  is sized from the array node's retry strategy (`array/handler.go:254`), but a subnode
  is retried by its own (`nodes/executor.go:844`); the start time of a subnode is kept
  as a delta to that of the array (`array/handler.go:412`).  When a value does not fit,
  `SetItem` panics, and panics again whenever the round is repeated.  Each time counts as
  a failed attempt of the workflow, which is given up after MaxWorkflowRetries
  (`controller/handler.go:106`).  `ArrayEnds` covers it.
- A branch that a deadline ends is over at once, because its FinalizeRequired is false
  (`nodes/executor.go:1242`), and no abort descends to its case, which stays at work.
- A queued node that waits for a reservation is answered from the cache without asking
  its handler (`nodes/executor.go:1095`): a payload that a lost visit started stays.
- NotFound is ignored for FAILING and FAILED (`workflow/executor.go:385`), so the
  finalizer of a workflow that admin does not know comes off without a recorded outcome.
- The compiler looks for cycles before the nodes that a case reads from become its
  upstream (`workflow_compiler.go:80`); `IsCompiled` asks nothing of these edges.
- `min_success_ratio` is a float32 that is widened before the ceiling: 0.1 of ten
  subnodes needs two.
- The array handler passes the workflow's remaining parallelism to `make` as a
  capacity: it panics when more is counted than the limit, and with MaxParallelism 0
  no subnode is ever visited.
- Recovered subnodes count as successes, but their outputs are nil; a retried array
  node sends its events with retry attempt 0 ("ArrayNode will never retry",
  `event_recorder.go`).
- `scheduler/doc.go` says that the scheduler is not run until all schedules are caught
  up, but the library runs before catch-up begins; a job with a fixed rate counts from
  its registration while catch-up counts from the row's update, so a crash before the
  first snapshot may execute a period twice under different times; a catch-up that
  fails ends the process without an error.
- When more tasks than the cache has room for are visited, each visit evicts the
  other's item before its answer is written back, and neither makes progress
  (`in_memory_auto_refresh.go:305` says so); `TasksEnd` is about caches with room.

## 6. Proofs

Every safety property of every passing run is a theorem.  Each module of proofs has
one inductive invariant (checked with TLC on the run's bounds first), one
lemma per action or per shape of action, and the theorems at its end.

`WorkflowControllerProofs` proves, for any set of instances and any values of
the other constants (any length of streaks included), `TypeOK`,
`LabelAndFinalizerAreHonest`, `PayloadsAreRecorded`, `SuccessIsRecorded`,
`CompletedIsFinal`, `NothingVanishesUnreported` and `NoOrphanedNodes`.  None is inductive.  The invariant `IInv` says:

- `CopiesOK`: every copy of the resource anywhere (informers, watch queues,
  rounds) that has the resource's version is the resource.  This is what makes
  the conditional write sufficient: a write that succeeds was computed from
  the current resource;
- `RoundOK`: what a round has in hand is what its handler can have made of the
  copy it started from, and before the write it has been reported: recorded by admin,
  or refused as FAILED by an admin that has no such execution (`Told`);
- `AdminOK`: what the sink's filter and the resource claim, admin has recorded;
- `PayloadsAreRecorded` itself, which needs that a node once started is never
  taken back.

Each action preserves each part it can disturb; the action properties follow
from the invariant and one step.

`NodesAreNotOrphaned` has an invariant of its own, `OInv`.  A payload that is not
`stray` was started by a round that was alone and worked on the current resource.  As
long as it runs, the resource has its DAG at work or is out of retries (`AtWork`), and
`OwnOK` says of every round whose write can still succeed that what it has computed
keeps it so: a round that knows that the DAG is over has ended the payload, and any
other has an older version and will conflict.

`CacheSerializationProofs` proves `TypeOK`, that `CacheSerialization` implements
`ReservationLease` (every change of the row is an acquisition of a free or
lapsed lease, an extension by its owner, a release or the passing of time), and
`FirstAttemptsSerialized`.  The invariant for the latter: a node on its first
attempt that relies on the reservation and was not late has the row, with at
least as much left of it as its silence allows (`Holds`); that needs what calls
in flight may have read (`SawItself`, `IsNotOwner`) and how old their clock
readings may be (`ClockOK`).

`NodeAttemptsProofs` proves all the safety properties of the `attempts` run, for
any retry strategies, budgets, deadlines and any number of faults:

- `TypeOK` and `RetryBudgetsHold` together (`Counters`): that attempts stay in
  range rests on the budgets, and that the unsigned subtraction does not wrap
  (`UintOfSmall`) rests on `systemFailures` never exceeding the failures counted;
- `OnlyTheCurrentAttemptRuns` from `OneAtWork`: a node that can still be retried
  has recorded no final phase of its task (`ClearNodeStatus` drops it), so the
  abort before the next attempt is never skipped;
- `NothingRunsOn` from `StopsInTheEnd`: whatever is at work when the node is over was
  taken for over before (`left`); `NodeAttempts_unclean.cfg` shows that there are such
  pods;
- `RetriesHaveTheirTime` from `Clocks`, `PreemptionIsRetried` from `Spot` under the
  default threshold, and `ImplementsVisits` from `OneAtWork` and `Counters`.

`NodeTraversalProofs` proves `StartsAfterUpstream`, `OutcomeIsHonest`,
`NoPayloadOutlivesWorkflow` and `ExecutableNodesComplete` for every set of nodes and
every graph with `IsCompiled`, for any limit, retries and lost rounds.  The invariant
has three layers:

- what a status says, of the stored resource and of the round's copy alike
  (`StatusOK`, `StartedOK`, `SkippedOK`): a branch that runs or succeeded has chosen,
  and its outcome is that of the case; a node has started only with its upstream
  succeeded *in the stored resource*, which is the point of the dirty check, and is
  skipped only for a recorded reason.  The edges of `needs` are treated as the others;
- how copy and resource differ (`RoundOK`): only in what is dirty, and never in what
  was over or decided.  `PayloadOK` follows across lost rounds: a payload's node is at
  work in both;
- what the walk knows (`StackOK`): every frame of the recursion is about the child the
  frame above waits for, and "all completed" there means that a set of nodes exists
  which contains the children visited so far, is closed under downstream, and is done
  (`Completed`; `Finished` for the policy that lets executable nodes complete).  A
  closed set takes the place of an induction along the graph; `IsCompiled` says that
  one which contains the start node contains every node that is no case.

The abort is argued the same way: the stored phases of the nodes at work and of the
branches around them force them into every set that is closed under `AbortGoesTo`,
unless a deadline has ended a branch around them or the cache has answered for them,
which the invariant keeps track of.

`WebApiPluginProofs` proves `TypeOK` (that the LRU map keeps to its size included),
`QuotaOvershootIsBounded`, `TokensFollowTasks` and `NoResourceIsLeftRunning` for any
tasks, sync workers, quota, cache size and faults.  Items in the cache, snapshots in
the queue and answers in workers' hands are all *true* of the resource, however old
(`ItemIsTrue`): an answer that overwrites a newer item can only delay, never invent an
end.  The quota is checked in one call and the token added in another, so the bound
counts the visits between the two as if they had their token
(`Cardinality(tokens \cup Allowed) < Quota + workers`): the check only lets one more in
while fewer tokens than the quota are held, and at most `workers` visits are under way.
The bound for a project is the same argument from the later step that counts its tokens.
That the LRU map stays within its size follows from `newer` being a strict total order
with fewer than `size` above any id.

`ArrayNodeProofs` proves `TypeOK`, `ParallelismIsRespected`, `LeavesOnlyFailures` and
`AdminSeesTheEnd` for arrays of any size, both ways of counting retries
(`WithinBudget`), and rounds that panic.  `SubNodeOK` ties each stored subnode to its
pods: unless its task is recorded as ended, its only pod is the current attempt's.
`WithinLimit` says that a pod at work belongs to one of the first subnodes that are not
over, as many as the limit allows; a subnode that ends only moves that window forward,
so pods started by lost rounds are still in it.  `AdminIsSettled` says that a terminal
task execution was written by a round after which no subnode moves; the event that a
repeated round sends is refused for its version and changes nothing.

`NativeSchedulerProofs` proves `TypeOK`, `WatermarkIsHonest`, `NoGapAfterCatchUp` and
`NothingBeforeActivation` for any schedules, period, crashes and refusals.  For each
schedule: a last execution time, saved or not, belongs to a settled execution
(`LastOK`); every due time of a job is settled, being fired, the library's next, or
still before catch-up (`GapOK` with `Pending`); every due time up to the snapshot is
settled or in flight (`SavedOK`).  That catch-up and the library leave no gap is
arithmetic over multiples of the period: there is none strictly between the last one
before now and the library's next.  When the process exits, what was in flight behind
the snapshot becomes `passedOver`, which is the known loss of the run `missed`.

`FiniteSetLemmas` proves that finite sets of integers have largest elements and sets of
naturals least ones, from the well-foundedness of strict inclusion, because the
library's induction rules cannot be instantiated.

The proofs use the ASSUMEs of the modules they extend and nothing else: types and
ranges of the constants, finiteness of `Instances`, `Ids` and `Schedules`, enough attempts for the
counters (`LastAttemptAssumption`), and `GraphsAssumption`.

Only model-checked, because fairness and ENABLED are out of the prover's reach:
`DeletionCompletes`, `FailingCompletes`, `NobodyWaitsForever`, `NodeEnds`,
`WorkflowEnds`, `TasksEnd`, `ScheduledTimesAreExecuted` and `ArrayEnds`.

## 7. Abstractions to know about

- The stored phase Aborted is never visible: a deleted resource goes away with
  the write that stores it.
- The oversized-object fallback may store Failed although admin was told
  SUCCEEDED; `CompletedIsFinal` therefore starts at the completed label.
- Events of nodes are only visible as a report that admin may refuse because
  it does not have the execution.
- Executions with `OverwriteCache` neither check the catalog nor reserve and
  are left out of `CacheSerialization`.
- `NodeAttempts` has whole visits: between reading the status and storing it no
  other visit of the same node happens.  That rounds start from the current
  version is `WorkflowController`'s matter (section 5).
- A pod ends with its primary container.  A deleted pod may be in its grace
  period while the next attempt starts: `OnlyTheCurrentAttemptRuns` is about pods
  nobody has told to stop.
- DeleteResourceOnFinalize is off (the default); a threshold for interruptible
  failures that asks for more attempts than there are wraps and is left out.
- The node asks for interruptible machines; one that does not is a special case
  without `interruptible`.
- In `NodeTraversal` a case of a branch is one node, the chosen case stays known after
  the branch has ended (the code clears the branch's state, and nothing reads it again),
  events of a branch are not refused, and visits of a round do not
  interleave with the end of payloads within one visit.
- In `ArrayNode` a round's visits happen at once: the workers share nothing but the
  counter of parallelism.  A subnode fails by its task, by a pod that cannot start or by
  its deadline; whether a start time fits into its delta is left open; recovered subnodes, subnodes other than tasks and retries of the
  array node itself are left out.
- In `AutoRefreshCache` a batch has one item (the default for web API plugins).  In
  `WebApiPlugin` a task is one attempt and Create finds what an earlier call has created;
  quotas are per namespace and per project.
- In `NativeScheduler` all schedules have one period, the rows are read in one step,
  and a second replica is left out.
- DataCatalog's clock is one clock; replicas with skewed clocks are not modelled.

## 8. Plan

Done in this order: `ExecutionPhases`, `NodePhases`, `WorkflowController` and its
proofs, `CacheSerialization` with `ReservationLease` and their proofs, `NodeAttempts` and
its proofs, `NodeTraversal`, `AutoRefreshCache` and `WebApiPlugin`, `NativeScheduler`,
`ArrayNode`, then the proofs of these four and of `NoOrphanedNodes`.

Next:

1. Refinements between the modules: that the payload of a node in `NodeTraversal`, seen
   alone, behaves as `NodePhases` allows `WorkflowController`'s DAG to, and that the
   rounds of `ArrayNode` do.
2. Launch-plan and sub-workflow nodes: the child execution is created under a name
   derived from the attempt, polled through another auto-refresh cache, and
   terminated by an abort that may come before its creation is recorded.
3. Dynamic nodes: a task whose output is a workflow that is compiled and traversed.

Not modelled, and why:

- the compiler: a pure function over large structures;
- DataCatalog's artifacts, tags and datasets: one transaction per call, no protocol;
- gate nodes: one poll of one signal;
- node executions in admin: the same phase checks as the rows that are modelled;
- rate limits of the work queue and leader election: any number of instances may be
  active in `WorkflowController`, which covers both;
- command-line tools, the data sidecar, the console and generated clients: input and
  output around the services modelled here.
