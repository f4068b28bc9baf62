---------------------------- MODULE WebApiPlugin ----------------------------
(***************************************************************************)
(* Tasks that run on a remote service behind a web API: the plugin's state *)
(* machine (token, launch, monitor), the resource manager that hands out   *)
(* tokens from a set in Redis, and the auto-refresh cache between the      *)
(* plugin and the service.  A visit's new state is recorded, or lost, at   *)
(* the end of its round.  One task here is one attempt of a node.          *)
(***************************************************************************)
EXTENDS AutoRefreshCache

CONSTANTS
    Setups,             \* tasks that run, cache size, visits made at a time, and faults that happen
    Quota,              \* tokens of the resource namespace
    Projects,           \* sets of tasks that a constraint is about
    ProjectQuota        \* tokens of a project

ASSUME PluginAssumption ==
    /\ IsFiniteSet(Ids)
    /\ Setups \subseteq [tasks : SUBSET Ids, size : Nat \ {0}, workers : Nat \ {0}, faults : 0..MaxFaults]
    /\ Quota \in Nat \ {0} /\ ProjectQuota \in Nat \ {0} /\ Projects \subseteq SUBSET Ids

VARIABLES
    tokens,             \* the set in Redis
    remote,             \* what the service has for a task
    state,              \* recorded plugin state, and what the node makes of it
    visit               \* the visit that is being made to a task

vars == <<cacheVars, tokens, remote, state, visit>>

(* A phase is "Terminal" when it is PhaseSucceeded or PhaseUserFailure.    *)
States == [phase : {"NotStarted", "AllocationTokenAcquired", "ResourcesCreated", "Terminal"},
           failures : 0..MaxFaults,             \* SyncFailureCount
           node : {"Active", "Aborting", "Ending", "Over"},
           unanswered : BOOLEAN]                \* failed because the service gave no answer

Visits == [step : {"none", "counted", "allowed", "handled"}, next : States]

TypeOK ==
    /\ CacheTypeOK
    /\ setup \in Setups
    /\ tokens \subseteq Ids
    /\ remote \in [Ids -> {"none", "running", "terminated", "deleted"}]
    /\ state \in [Ids -> States]
    /\ visit \in [Ids -> Visits]

NewState == [phase |-> "NotStarted", failures |-> 0, node |-> "Active", unanswered |-> FALSE]
NoVisit(t) == [step |-> "none", next |-> state[t]]

Init ==
    /\ CacheInit
    /\ setup \in Setups /\ faults = setup.faults
    /\ tokens = {}
    /\ remote = [t \in Ids |-> "none"]
    /\ state = [t \in Ids |-> IF t \in setup.tasks THEN NewState ELSE [NewState EXCEPT !.node = "Over"]]
    /\ visit = [t \in Ids |-> [step |-> "none", next |-> state[t]]]

Visited == {t \in Ids : visit[t].step # "none"}

CanBegin(t, phase) ==
    /\ visit[t].step = "none" /\ Cardinality(Visited) < setup.workers
    /\ state[t].node = "Active" /\ state[t].phase = phase

Goes(t, step, next) == visit' = [visit EXCEPT ![t] = [step |-> step, next |-> next]]
Ends(t) == [state[t] EXCEPT !.node = "Ending"]

---------------------------------------------------------------------------
(* allocateToken and RedisResourceManager.AllocateResource.  Only this     *)
(* task adds or removes its token; the number of tokens can change between *)
(* the calls that count them and the one that adds to them.                *)

Granted(t) == [state[t] EXCEPT !.phase = "AllocationTokenAcquired"]
IsAllowedAtQuota(quota, n) == quota >= n  \* mutant: off by one
IsAllowed(quota, n) == quota > n

AskForToken(t) ==
    /\ CanBegin(t, "NotStarted")
    /\ IF t \in tokens THEN Goes(t, "handled", Granted(t))
       ELSE Goes(t, IF IsAllowed(Quota, Cardinality(tokens)) THEN "counted" ELSE "handled", state[t])
    /\ UNCHANGED <<cacheVars, tokens, remote, state>>

ProjectsOf(t) == {P \in Projects : t \in P}

(* checkAgainstConstraints, on the members of the set.                     *)
CheckConstraints(t) ==
    /\ visit[t].step = "counted"
    /\ LET isAllowed == \A P \in ProjectsOf(t) : IsAllowed(ProjectQuota, Cardinality(tokens \cap P))
       IN  Goes(t, IF isAllowed THEN "allowed" ELSE "handled", state[t])
    /\ UNCHANGED <<cacheVars, tokens, remote, state>>

AddToken(t) ==
    /\ visit[t].step = "allowed"
    /\ tokens' = tokens \cup {t}
    /\ Goes(t, "handled", Granted(t))
    /\ UNCHANGED <<cacheVars, remote, state>>

---------------------------------------------------------------------------
(* launch.  Create is idempotent: it finds what an earlier call of the     *)
(* same task has created.                                                  *)

Created(t) == [remote EXCEPT ![t] = IF @ = "none" THEN "running" ELSE @]

Launch(t) ==
    /\ CanBegin(t, "AllocationTokenAcquired")
    /\ remote' = Created(t)
    /\ Goes(t, "handled", [state[t] EXCEPT !.phase = "ResourcesCreated"])
    /\ GetOrCreate(t, [phase |-> "ResourcesCreated", failures |-> state[t].failures, resource |-> "nil"])
    /\ UNCHANGED <<setup, toDelete, working, tokens, state, faults>>

(* Create also returned the resource, and it has terminated.               *)
LaunchTerminated(t) ==
    /\ CanBegin(t, "AllocationTokenAcquired")
    /\ remote[t] = "terminated"
    /\ Goes(t, "handled", Ends(t))
    /\ UNCHANGED <<cacheVars, tokens, remote, state>>

(* Create failed, with or without an effect.                               *)
LaunchFails(t) ==
    /\ CanBegin(t, "AllocationTokenAcquired") /\ faults > 0
    /\ faults' = faults - 1
    /\ remote' \in {remote, Created(t)}
    /\ Goes(t, "handled", Ends(t))
    /\ UNCHANGED <<setup, lru, toDelete, queue, marks, working, tokens, state>>

---------------------------------------------------------------------------
(* monitor: an item without a resource is looked at for a failure of the   *)
(* cache, an item with one only for the resource's status.                 *)
Monitor(t) ==
    LET fresh == [phase |-> "ResourcesCreated", failures |-> state[t].failures, resource |-> "nil"]
        item == IF Has(t) THEN ItemOf(t) ELSE fresh
        seen == [state[t] EXCEPT !.failures = item.failures]
    IN  /\ CanBegin(t, "ResourcesCreated")
        /\ GetOrCreate(t, fresh)
        /\ \/ /\ item.resource = "nil" /\ IsTerminal(item)
              /\ Goes(t, "handled", [Ends(t) EXCEPT !.unanswered = TRUE]) /\ DeleteDelayed(t)
           \/ /\ item.resource = "nil" /\ ~IsTerminal(item)
              /\ Goes(t, "handled", state[t]) /\ UNCHANGED toDelete
           \/ /\ item.resource = "running"
              /\ Goes(t, "handled", seen) /\ UNCHANGED toDelete
           \/ /\ item.resource = "terminated"
              /\ Goes(t, "handled", [seen EXCEPT !.phase = "Terminal", !.node = "Ending"])
              /\ DeleteDelayed(t)
        /\ UNCHANGED <<setup, working, tokens, remote, state, faults>>

---------------------------------------------------------------------------
(* The end of a visit, and the end of a task.                              *)

StoreVisit(t) ==
    /\ visit[t].step = "handled"
    /\ state' = [state EXCEPT ![t] = visit[t].next]
    /\ Goes(t, "none", visit[t].next)
    /\ UNCHANGED <<cacheVars, tokens, remote>>

LoseVisit(t) ==
    /\ t \in Visited /\ faults > 0
    /\ faults' = faults - 1
    /\ visit' = [visit EXCEPT ![t] = NoVisit(t)]
    /\ UNCHANGED <<setup, lru, toDelete, queue, marks, working, tokens, remote, state>>

FinalizeIfAcquired(t) ==  \* mutant: only a recorded token is released
    /\ DeleteDelayed(t)
    /\ tokens' = IF state[t].phase = "NotStarted" THEN tokens ELSE tokens \ {t}

(* Finalize, whatever the plugin has recorded.                             *)
Finalize(t) ==
    /\ DeleteDelayed(t)
    /\ tokens' = tokens \ {t}

(* ResourceMeta is recorded.                                               *)
IsKnown(t) == state[t].phase \in {"ResourcesCreated", "Terminal"}

(* Delete finds the resource by the recorded ResourceMeta.                 *)
Deleted(t) ==
    [remote EXCEPT ![t] = IF IsKnown(t) /\ @ = "running" THEN "deleted" ELSE @]

Finishes(t) ==
    /\ state' = [state EXCEPT ![t].node = "Over"]
    /\ visit' = [visit EXCEPT ![t] = [step |-> "none", next |-> state'[t]]]
    /\ UNCHANGED <<setup, lru, queue, marks, working>>

(* The node has ended: Abort returns at once, the plugin's phase is final. *)
EndTask(t) ==
    /\ visit[t].step = "none" /\ state[t].node = "Ending"
    /\ Finalize(t)
    /\ Finishes(t) /\ UNCHANGED <<remote, faults>>

CanAbort(t) == visit[t].step = "none" /\ state[t].node \in {"Active", "Aborting"}

(* The workflow is aborted: Delete, then Finalize.                         *)
AbortTask(t) ==
    /\ CanAbort(t)
    /\ remote' = Deleted(t)
    /\ Finalize(t)
    /\ Finishes(t) /\ UNCHANGED faults

AbortFailsButFinalizes(t) ==  \* mutant: the error of Delete is only logged
    /\ CanAbort(t) /\ faults > 0
    /\ faults' = faults - 1
    /\ UNCHANGED remote
    /\ Finalize(t)
    /\ Finishes(t)

(* Delete fails, with or without an effect: so does Abort, and a later     *)
(* round aborts the task again.                                            *)
AbortFails(t) ==
    /\ CanAbort(t) /\ faults > 0
    /\ faults' = faults - 1
    /\ remote' \in {remote, Deleted(t)}
    /\ state' = [state EXCEPT ![t].node = "Aborting"]
    /\ visit' = [visit EXCEPT ![t] = [step |-> "none", next |-> state'[t]]]
    /\ UNCHANGED <<setup, lru, toDelete, queue, marks, working, tokens>>

---------------------------------------------------------------------------
(* The service, the workers of the cache, and restarts.                    *)

RemoteEnds(t) ==
    /\ remote[t] = "running"
    /\ remote' = [remote EXCEPT ![t] = "terminated"]
    /\ UNCHANGED <<cacheVars, tokens, state, visit>>

(* A resource that is gone ends its task as a failure.                     *)
Fetched(t) == IF remote[t] = "deleted" THEN "terminated" ELSE remote[t]

InCache == UNCHANGED <<tokens, remote, state, visit>>
Enqueue(t) == EnqueueBatch(t) /\ InCache
Take(t) == (\E w \in SyncWorkers : TakeBatch(w, t, Fetched(t))) /\ InCache
Apply(w) == ApplyBatch(w) /\ InCache
SetMark(t) == Mark(t) /\ InCache
DropMark(t) == MarkExpires(t) /\ InCache

Restart ==
    /\ faults > 0
    /\ faults' = faults - 1
    /\ CacheRestart
    /\ visit' = [t \in Ids |-> NoVisit(t)]
    /\ UNCHANGED <<tokens, remote, state>>

Done ==
    /\ \A t \in Ids : state[t].node = "Over"
    /\ UNCHANGED vars

Handle(t) ==
    \/ AskForToken(t) \/ CheckConstraints(t) \/ AddToken(t)
    \/ Launch(t) \/ LaunchTerminated(t) \/ Monitor(t)

Next ==
    \/ \E t \in Ids : \/ Handle(t) \/ LaunchFails(t) \/ StoreVisit(t) \/ LoseVisit(t)
                      \/ EndTask(t) \/ AbortTask(t) \/ AbortFails(t) \/ RemoteEnds(t)
                      \/ Enqueue(t) \/ SetMark(t) \/ DropMark(t) \/ Take(t)
    \/ \E w \in SyncWorkers : Apply(w)
    \/ Restart \/ Done

Spec == Init /\ [][Next]_vars

(* The work queue visits workflows in turn, again and again, and a visit   *)
(* comes to its end; an abort is repeated; resources end; the cache's loop *)
(* lists every item, its queue is served in turn, and marks are set and    *)
(* get too old.                                                            *)
FairSpec ==
    /\ Spec
    /\ \A t \in Ids : /\ SF_vars(Handle(t) \/ StoreVisit(t) \/ EndTask(t))
                      /\ WF_vars(state[t].node = "Aborting" /\ AbortTask(t))
                      /\ WF_vars(RemoteEnds(t)) /\ WF_vars(Enqueue(t)) /\ SF_vars(Take(t))
                      /\ WF_vars(SetMark(t)) /\ WF_vars(DropMark(t))
    /\ \A w \in SyncWorkers : WF_vars(Apply(w))

---------------------------------------------------------------------------
(* Properties.                                                             *)

(* AllocateResource counts and adds in separate calls: as many tasks as    *)
(* visits are made at a time can be admitted for the last token of the     *)
(* namespace or of a project, and no more, whatever visits are lost.       *)
QuotaOvershootIsBounded ==
    /\ Cardinality(tokens) < Quota + setup.workers
    /\ \A P \in Projects : Cardinality(tokens \cap P) < ProjectQuota + setup.workers

(* A task that may have something on the service holds a token, and one    *)
(* that is over holds none, also when the visit that took the token was    *)
(* lost.                                                                   *)
TokensFollowTasks ==
    \A t \in Ids :
        /\ state[t].node # "Over" /\ remote[t] # "none" => t \in tokens
        /\ state[t].node = "Over" => t \notin tokens

(* The resource of a task that is over is not left running, except in the  *)
(* two cases in which Abort cannot know better: its creation was never     *)
(* recorded, or the task was failed because the service gave no answer.    *)
NoResourceIsLeftRunning ==
    \A t \in Ids : state[t].node = "Over" /\ remote[t] = "running" =>
        ~IsKnown(t) \/ state[t].unanswered

IsGivenUp(t) == Has(t) /\ ItemOf(t).failures > MaxSystemFailures

(* Every task ends if the cache has room for all, unless the cache gave    *)
(* one up after an answer that said running: it keeps its token, and the   *)
(* others may have to wait for it.                                         *)
TasksEnd ==
    setup.size >= Cardinality(Ids) =>
        <>(\/ \A t \in Ids : state[t].node = "Over"
           \/ \E t \in Ids : IsGivenUp(t) /\ ItemOf(t).resource = "running")

(* What MaxSystemFailures says of itself: a task that could not be fetched *)
(* more often than that is failed.                                         *)
GivenUpTasksFail == \A t \in Ids : IsGivenUp(t) ~> state[t].node = "Over"
=============================================================================
