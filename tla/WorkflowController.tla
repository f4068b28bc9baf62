------------------------ MODULE WorkflowController ------------------------
(***************************************************************************)
(* FlytePropeller's reconciliation of one FlyteWorkflow resource: the      *)
(* worker's round (Propeller.Handle, streak, TryMutateWorkflow), the       *)
(* workflow executor it calls, the workflow store it reads and writes      *)
(* through, and the events it sends to flyteadmin.  The Kubernetes API     *)
(* server, the informer, the payloads that nodes start and flyteadmin are  *)
(* the environment.                                                        *)
(*                                                                         *)
(* A round is not atomic.  It reads a copy of the resource from the        *)
(* informer's cache, runs the handler of the copy's phase (which starts    *)
(* and aborts payloads), reports the new phase to admin, and only then     *)
(* writes the resource.  Between those steps the resource may be deleted,  *)
(* admin may change its mind, the process may die and another propeller    *)
(* instance may run a round of its own.                                    *)
(***************************************************************************)
EXTENDS Naturals, Sequences, FiniteSets, ExecutionPhases, NodePhases

CONSTANTS
    Instances,          \* propeller processes that may own the workflow
    MaxWorkflowRetries, \* config max-workflow-retries
    MaxStreakLength,    \* config max-streak-length
    HasFailureNode,     \* the workflow declares an on-failure node
    Outcomes,           \* what the handlers of its nodes may report
    LostRows,           \* what may become of admin's row: {}, "absent", "elsewhere"
    Versions,           \* resource versions, compared only for equality
    MaxLag,             \* watch events an informer may have pending
    MaxFaults           \* failed calls, lost replies and crashes in a run

ASSUME InstancesAssumption == IsFiniteSet(Instances) /\ Instances # {}
ASSUME RetriesAssumption == MaxWorkflowRetries \in Nat
ASSUME StreakAssumption == MaxStreakLength \in Nat \ {0}
ASSUME FailureNodeAssumption == HasFailureNode \in BOOLEAN
ASSUME OutcomesAssumption == Outcomes \subseteq NodeOutcomes
ASSUME LostRowsAssumption == LostRows \subseteq {"absent", "elsewhere"}
ASSUME VersionsAssumption == Versions \subseteq Nat \ {0}
ASSUME LagAssumption == MaxLag \in Nat \ {0}
ASSUME FaultsAssumption == MaxFaults \in Nat

VARIABLES
    crd,        \* the FlyteWorkflow resource in the API server, or NoCRD
    watch,      \* watch[i]: changes on their way to i's informer
    lister,     \* lister[i]: the resource in i's informer cache, or NoCRD
    staleRV,    \* staleRV[i]: resourceVersionCaching's entry, or NoVersion
    terminated, \* terminated[i]: the workflow is in terminatedTracking's filter
    sent,       \* sent[i]: events in the admin sink's filter
    pc,         \* pc[i]: where i's worker is in its round
    w,          \* w[i]: the copy the round started from
    mutated,    \* mutated[i]: the round's mutable deep copy
    err,        \* err[i]: the error of the round's mutation
    streak,     \* streak[i]: rounds already completed in this Handle
    payloads,   \* payloads running outside propeller: of the DAG, of the failure node
    stray,      \* history: the DAG's payload is not the current round's, see Acts
    row,        \* what admin has of the execution
    adminPhase, \* the phase in admin's row
    aborting,   \* how far admin's TerminateExecution call has come
    faults,     \* faults the environment may still inject
    recorded,   \* history: the outcomes admin has ever recorded
    refused,    \* history: the outcomes reported to an admin that has no such row
    superseded  \* history: versions that i knows it has replaced and may still read

k8s == <<crd, watch>>
caches == <<staleRV, terminated, sent>>
round == <<pc, w, mutated, err, streak>>
outside == <<payloads, stray>>
admin == <<row, adminPhase, aborting, recorded, refused>>
vars == <<k8s, lister, caches, round, outside, admin, faults, superseded>>

NoCRD == [rv |-> 0]
NoVersion == 0

CRD == [rv : Versions, phase : WorkflowPhases, failedAttempts : Nat,
        finalizer : BOOLEAN, completed : BOOLEAN, deleting : BOOLEAN,
        dag : NodePhases, failure : NodePhases]

Payloads == {"dag", "failure"}
Calls == {"none", "checked", "saved"}
Errors == {"none", "system", "NotFound", "IncompatibleCluster"}

(* The part of the resource that WorkflowStatus.Equals compares.           *)
Status(wf) == <<wf.phase, wf.failedAttempts, wf.dag, wf.failure>>

---------------------------------------------------------------------------
(* The API server and the informers.                                       *)

(* Every copy of the resource that an instance has, has read or will read. *)
Copies ==
    {lister[i] : i \in Instances} \cup {w[i] : i \in Instances}
        \cup UNION {{watch[i][n] : n \in DOMAIN watch[i]} : i \in Instances}

InUse == {c.rv : c \in Copies \cup {crd}} \cup {staleRV[i] : i \in Instances}

(* A new resource version differs from every version anyone still holds.   *)
(* The least one is taken, so that a run reuses the few it needs.          *)
FreshVersions ==
    {v \in Versions \ InUse : \A u \in Versions \ InUse : v <= u}

(* Informers get every change, in order; an informer that falls MaxLag     *)
(* changes behind lists again and so misses the oldest of them.            *)
Notify(q, wf) == IF Len(q) < MaxLag THEN Append(q, wf) ELSE Append(Tail(q), wf)

Publish(wf) ==
    /\ crd' = wf
    /\ watch' = [i \in Instances |-> Notify(watch[i], wf)]

(* The server accepts `wf' as the next state of the resource.  A resource  *)
(* that is being deleted goes away with its last finalizer.                *)
Write(wf, version) ==
    Publish(IF wf.deleting /\ ~wf.finalizer THEN NoCRD ELSE [wf EXCEPT !.rv = version])

Synced(i, q, read) ==
    {rv \in superseded[i] : rv = read.rv \/ \E n \in DOMAIN q : q[n].rv = rv}

InformerDelivers(i) ==
    /\ pc[i] \notin {"down", "panic"}
    /\ watch[i] # <<>>
    /\ lister' = [lister EXCEPT ![i] = Head(watch[i])]
    /\ watch' = [watch EXCEPT ![i] = Tail(@)]
    /\ superseded' = [superseded EXCEPT ![i] = Synced(i, Tail(watch[i]), Head(watch[i]))]
    /\ UNCHANGED <<crd, caches, round, outside, admin, faults>>

Fault == faults > 0 /\ faults' = faults - 1

---------------------------------------------------------------------------
(* Propeller.Handle up to the first round: the store's filters and the     *)
(* early return for a workflow that has been completed before.             *)

HandleGetUnfiltered(i) ==  \* mutant: neither filter, and completed workflows too
    /\ pc[i] = "idle"
    /\ lister[i] # NoCRD
    /\ pc' = [pc EXCEPT ![i] = "mutate"]
    /\ w' = [w EXCEPT ![i] = lister[i]]
    /\ UNCHANGED <<k8s, lister, caches, mutated, err, streak, outside, admin, faults, superseded>>

HandleGet(i) ==
    /\ pc[i] = "idle"
    /\ lister[i] # NoCRD
    /\ ~terminated[i]
    /\ lister[i].rv # staleRV[i]
    /\ ~(IsTerminated(lister[i].phase) /\ lister[i].completed /\ ~lister[i].finalizer)
    /\ pc' = [pc EXCEPT ![i] = "mutate"]
    /\ w' = [w EXCEPT ![i] = lister[i]]
    /\ UNCHANGED <<k8s, lister, caches, mutated, err, streak, outside, admin, faults, superseded>>

---------------------------------------------------------------------------
(* TryMutateWorkflow.  A handler ends in a new status, which is reported   *)
(* to admin when the phase changed, or in an error.                        *)

Mutates(i, wf) ==
    /\ pc' = [pc EXCEPT ![i] = IF wf.phase = w[i].phase THEN "update" ELSE "event"]
    /\ mutated' = [mutated EXCEPT ![i] = wf]
    /\ UNCHANGED <<k8s, lister, caches, w, err, streak, admin, superseded>>

Errs(i, e) ==
    /\ pc' = [pc EXCEPT ![i] = "update"]
    /\ err' = [err EXCEPT ![i] = e]
    /\ UNCHANGED <<k8s, lister, caches, w, mutated, streak, admin, superseded>>

IsAbort(wf) == wf.deleting \/ wf.failedAttempts > MaxWorkflowRetries

Handling(i, phase) ==
    /\ pc[i] = "mutate"
    /\ ~IsAbort(w[i])
    /\ w[i].phase = phase

WithFinalizer(wf) == [wf EXCEPT !.finalizer = TRUE]

(* cleanupRunningNodes walks the DAG from its start node.                  *)
CleansUpRunningOnly(wf) ==  \* mutant: nodes that are failing are not aborted
    IF wf.dag = "Running" THEN payloads' = payloads \ {"dag"} /\ stray' = FALSE
    ELSE UNCHANGED outside

CleansUp(wf) ==
    IF IsAborted(wf.dag) THEN payloads' = payloads \ {"dag"} /\ stray' = FALSE
    ELSE UNCHANGED outside

HandleReady(i) ==
    /\ Handling(i, "Ready")
    /\ UNCHANGED outside
    /\ \/ /\ \E to \in {"Running", "Failing"} :
                Mutates(i, [WithFinalizer(w[i]) EXCEPT !.phase = to])
          /\ UNCHANGED faults
       \/ Errs(i, "system") /\ Fault

(* The round works on the resource as it is, and no other round does.      *)
IsAlone(i) == crd.rv = w[i].rv /\ \A j \in Instances \ {i} : w[j].rv # w[i].rv

After(payload, name) ==
    CASE payload \in {"none", "leave"} -> payloads
      [] payload = "start" -> payloads \cup {name}
      [] payload \in {"finish", "abort"} -> payloads \ {name}

(* What a visit does to the payload.  Starting one that runs already finds *)
(* it by its name.  The history is about the DAG: its payload is stray if  *)
(* the round that started it had been overtaken or was not alone, and if   *)
(* the cache has answered in its place.                                    *)
Acts(i, payload, name) ==
    /\ payloads' = After(payload, name)
    /\ stray' = IF name # "dag" \/ payload = "none" THEN stray
                ELSE CASE payload = "start" -> ~IsAlone(i) /\ ("dag" \in payloads => stray)
                       [] payload = "leave" -> "dag" \in payloads
                       [] payload \in {"finish", "abort"} -> FALSE

(* A visit of a node.  It acts on the payload before it reports the node's *)
(* new phase, and an error from the report discards the phase.             *)
Visiting(i, name, phase, v, wf) ==
    \/ /\ ~SendsNodeEvent(phase, v) \/ row = "here"
       /\ Acts(i, v.payload, name)
       /\ Mutates(i, wf)
       /\ UNCHANGED faults
    \/ /\ SendsNodeEvent(phase, v)
       /\ row # "here"
       /\ Acts(i, v.payload, name)
       /\ Errs(i, IF row = "elsewhere" THEN "IncompatibleCluster" ELSE "NotFound")
       /\ UNCHANGED faults
    \/ /\ Acts(i, v.payload, name) \/ UNCHANGED outside
       /\ Errs(i, "system")
       /\ Fault

(* What the state of the DAG makes of the workflow.                        *)
RunningTo(returns) ==
    CASE returns \in {"Failed", "TimedOut"} -> "Failing"
      [] returns = "Complete" -> "Succeeding"
      [] OTHER -> "Running"

HandleRunning(i) ==
    /\ Handling(i, "Running")
    /\ \E v \in Visits(w[i].dag, Outcomes) :
        Visiting(i, "dag", w[i].dag, v,
                 [WithFinalizer(w[i]) EXCEPT !.dag = v.to, !.phase = RunningTo(v.returns)])

(* Another node of the DAG has failed; the failure policy is to stop.      *)
HandleRunningSiblingFails(i) ==
    /\ Handling(i, "Running")
    /\ Mutates(i, [WithFinalizer(w[i]) EXCEPT !.phase = "Failing"])
    /\ UNCHANGED <<outside, faults>>

HandleSucceeding(i) ==
    /\ Handling(i, "Succeeding")
    /\ Mutates(i, [WithFinalizer(w[i]) EXCEPT !.phase = "Success"])
    /\ UNCHANGED <<outside, faults>>

FailingTo == IF HasFailureNode THEN "HandlingFailureNode" ELSE "Failed"

HandleFailing(i) ==
    /\ Handling(i, "Failing")
    /\ \/ /\ Mutates(i, [WithFinalizer(w[i]) EXCEPT !.phase = FailingTo])
          /\ CleansUp(w[i])
          /\ UNCHANGED faults
       \/ /\ Errs(i, "system")
          /\ CleansUp(w[i]) \/ UNCHANGED outside
          /\ Fault

FailureNodeToFailedOnly(returns) ==  \* mutant: a failure node that has succeeded is visited again
    IF returns = "Failed" THEN "Failed" ELSE "HandlingFailureNode"

FailureNodeTo(returns) ==
    IF returns \in {"Queued", "Running", "Success"} THEN "HandlingFailureNode" ELSE "Failed"

HandleFailureNode(i) ==
    /\ Handling(i, "HandlingFailureNode")
    /\ \E v \in Visits(w[i].failure, Outcomes) :
        Visiting(i, "failure", w[i].failure, v,
                 [WithFinalizer(w[i]) EXCEPT !.failure = v.to, !.phase = FailureNodeTo(v.returns)])

(* A terminated workflow that does not have the completed label yet.       *)
HandleTerminated(i) ==
    /\ pc[i] = "mutate"
    /\ ~IsAbort(w[i])
    /\ IsTerminated(w[i].phase)
    /\ Mutates(i, w[i])
    /\ UNCHANGED <<outside, faults>>

AbortTo(wf) == IF wf.failedAttempts > MaxWorkflowRetries THEN "Failed" ELSE "Aborted"

HandleAborted(i) ==
    /\ pc[i] = "mutate"
    /\ IsAbort(w[i])
    /\ \/ /\ IsTerminated(w[i].phase)
          /\ Mutates(i, w[i])
          /\ UNCHANGED <<outside, faults>>
       \/ /\ ~IsTerminated(w[i].phase)
          /\ Mutates(i, [w[i] EXCEPT !.phase = AbortTo(w[i])])
          /\ CleansUp(w[i])
          /\ UNCHANGED faults
       \/ /\ ~IsTerminated(w[i].phase)     \* the clean-up fails
          /\ Fault
          /\ CleansUp(w[i]) \/ UNCHANGED outside
          /\ IF w[i].failedAttempts > MaxWorkflowRetries
             THEN Mutates(i, [w[i] EXCEPT !.phase = "Failed"])
             ELSE Errs(i, "system")

---------------------------------------------------------------------------
(* TransitionToPhase: report the phase that the copy already has.          *)

Recorded(i, phase, e) ==
    /\ pc' = [pc EXCEPT ![i] = "update"]
    /\ mutated' = [mutated EXCEPT ![i].phase = phase]
    /\ err' = [err EXCEPT ![i] = e]
    /\ UNCHANGED <<k8s, lister, staleRV, terminated, w, streak, outside, row, aborting, superseded>>

(* Admin writes the event's phase to its row.                              *)
Accept(event) ==
    /\ adminPhase' = event
    /\ recorded' = IF IsExecutionTerminal(event) THEN recorded \cup {event} ELSE recorded

(* How TransitionToPhase takes admin's answer.                             *)
ErrorOfAnyEvent(event, reply) ==  \* mutant: a lost row is ignored for every event
    IF reply \in {"FailedPrecondition"} THEN "system" ELSE "none"

ErrorOf(event, reply) ==
    IF reply \in {"OK", "AlreadyExists", "AlreadyInTerminalState"} THEN "none"
    ELSE IF reply \in {"NotFound", "IncompatibleCluster"}
    THEN IF event \in {"FAILING", "FAILED"} THEN "none" ELSE reply
    ELSE "system"

PhaseAfter(phase, reply) == IF reply = "AlreadyInTerminalState" THEN "Failed" ELSE phase

EventOf(i) == EventPhase[mutated[i].phase]

(* The sink's filter knows the event and admin is not called.  The filter  *)
(* may forget an event, so the other branches are open even then.          *)
RecordFiltered(i) ==
    /\ pc[i] = "event"
    /\ EventOf(i) \in sent[i]
    /\ Recorded(i, mutated[i].phase, "none")
    /\ UNCHANGED <<sent, adminPhase, recorded, refused, faults>>

(* Admin reads its row, checks the event against it and does not take it.  *)
RecordRefused(i) ==
    LET reply == EventReply(row, adminPhase, EventOf(i))
    IN  /\ pc[i] = "event"
        /\ reply # "OK"
        /\ refused' = IF reply \in {"NotFound", "IncompatibleCluster"}
                      THEN refused \cup {e \in {EventOf(i)} : IsExecutionTerminal(e)}
                      ELSE refused
        /\ Recorded(i, PhaseAfter(mutated[i].phase, reply), ErrorOf(EventOf(i), reply))
        /\ UNCHANGED <<sent, adminPhase, recorded, faults>>

(* Admin takes the event, and writes what it read with the event's phase   *)
(* in it, whatever the row has become since.                               *)
RecordChecked(i) ==
    /\ pc[i] = "event"
    /\ EventReply(row, adminPhase, EventOf(i)) = "OK"
    /\ pc' = [pc EXCEPT ![i] = "recording"]
    /\ UNCHANGED <<k8s, lister, caches, w, mutated, err, streak, outside, admin, faults, superseded>>

RecordEvent(i) ==
    /\ pc[i] = "recording"
    /\ Accept(EventOf(i))
    /\ sent' = [sent EXCEPT ![i] = @ \cup {EventOf(i)}]
    /\ Recorded(i, mutated[i].phase, "none")
    /\ UNCHANGED <<refused, faults>>

(* The call fails, before or after admin has recorded the event.           *)
RecordFailsUnnoticed(i) ==  \* mutant: the error is only logged
    /\ pc[i] \in {"event", "recording"}
    /\ Recorded(i, mutated[i].phase, "none")
    /\ Fault
    /\ UNCHANGED <<sent, adminPhase, recorded, refused>>

RecordFails(i) ==
    /\ pc[i] \in {"event", "recording"}
    /\ \/ UNCHANGED <<adminPhase, recorded>>
       \/ pc[i] = "recording" /\ Accept(EventOf(i))
    /\ Recorded(i, mutated[i].phase, "system")
    /\ Fault
    /\ UNCHANGED <<sent, refused>>

---------------------------------------------------------------------------
(* The rest of streak: which object to write, and the write.               *)

FinishKeepsFinalizer(wf) == [wf EXCEPT !.completed = TRUE]  \* mutant

Finish(wf) == [wf EXCEPT !.completed = TRUE, !.finalizer = FALSE]

RecordSystemErrorCountsDown(wf) == [wf EXCEPT !.failedAttempts = @ - 1]  \* mutant

RecordSystemError(wf) == [wf EXCEPT !.failedAttempts = @ + 1]

MutatedWfAlwaysFinished(i) ==  \* mutant: the label is not tied to termination
    IF err[i] # "none" THEN RecordSystemError(w[i]) ELSE Finish(mutated[i])

MutatedWf(i) ==
    IF err[i] # "none" THEN RecordSystemError(w[i])
    ELSE IF IsTerminated(mutated[i].phase) THEN Finish(mutated[i])
    ELSE mutated[i]

(* Admin has lost the execution or given it to another cluster: the round  *)
(* only marks the workflow as failing, so that the next one cleans up.     *)
IsDisowned(i) ==
    \/ err[i] = "NotFound" /\ w[i].phase # "Ready"
    \/ err[i] = "IncompatibleCluster"

ToStore(i) == IF IsDisowned(i) THEN [w[i] EXCEPT !.phase = "Failing"] ELSE MutatedWf(i)

NothingChanged(i) ==
    /\ err[i] = "none"
    /\ ~IsTerminated(w[i].phase)
    /\ Status(mutated[i]) = Status(w[i])

EndRound(i, at) ==
    /\ pc' = [pc EXCEPT ![i] = at]
    /\ w' = [w EXCEPT ![i] = NoCRD]
    /\ mutated' = [mutated EXCEPT ![i] = NoCRD]
    /\ err' = [err EXCEPT ![i] = "none"]
    /\ streak' = [streak EXCEPT ![i] = 0]

SkipUpdate(i) ==
    /\ pc[i] = "update"
    /\ NothingChanged(i)
    /\ EndRound(i, "idle")
    /\ UNCHANGED <<k8s, lister, caches, outside, admin, faults, superseded>>

Updating(i) == pc[i] = "update" /\ ~NothingChanged(i)

(* What the caching stores remember of a write they saw succeed.           *)
Remember(i, wf) ==
    /\ terminated' = [terminated EXCEPT ![i] = @ \/ IsTerminated(wf.phase)]
    /\ staleRV' = [staleRV EXCEPT ![i] = IF IsTerminated(wf.phase) THEN NoVersion ELSE wf.rv]
    /\ superseded' = [superseded EXCEPT ![i] = Synced(i, watch'[i], lister[i]) \cup
            {rv \in {wf.rv} : rv = lister[i].rv \/ \E n \in DOMAIN watch'[i] : watch'[i][n].rv = rv}]
    /\ UNCHANGED sent

(* The write succeeds.  A round that changed a live workflow is followed   *)
(* by another one, from the object the server returned, while the streak   *)
(* lasts.                                                                  *)
StoreUpdate(i) ==
    /\ Updating(i)
    /\ crd # NoCRD
    /\ crd.rv = w[i].rv
    /\ \E version \in FreshVersions :
        /\ Write(ToStore(i), version)
        /\ Remember(i, ToStore(i))
        /\ IF err[i] = "none" /\ ~IsTerminated(mutated[i].phase)
                /\ streak[i] + 1 < MaxStreakLength
           THEN /\ pc' = [pc EXCEPT ![i] = "mutate"]
                /\ w' = [w EXCEPT ![i] = [ToStore(i) EXCEPT !.rv = version]]
                /\ mutated' = [mutated EXCEPT ![i] = NoCRD]
                /\ streak' = [streak EXCEPT ![i] = @ + 1]
                /\ UNCHANGED err
           ELSE EndRound(i, "idle")
    /\ UNCHANGED <<lister, outside, admin, faults>>

(* Someone has written the resource since the copy was read.               *)
StoreConflict(i) ==
    /\ pc[i] = "large" \/ Updating(i)
    /\ crd # NoCRD
    /\ crd.rv # w[i].rv
    /\ EndRound(i, "idle")
    /\ UNCHANGED <<k8s, lister, caches, outside, admin, faults, superseded>>

(* The resource is gone, which the store reports as success with a nil     *)
(* workflow.  Only a round that ended well and in a live workflow looks at *)
(* the nil.                                                                *)
StoreGone(i) ==
    /\ pc[i] = "large" \/ Updating(i)
    /\ crd = NoCRD
    /\ EndRound(i, IF pc[i] = "update" /\ err[i] = "none" /\ ~IsTerminated(mutated[i].phase)
                   THEN "panic" ELSE "idle")
    /\ UNCHANGED <<k8s, lister, caches, outside, admin, faults, superseded>>

(* What is written instead of an object that the server finds too large.   *)
Shrunk(i) ==
    IF IsTerminated(MutatedWf(i).phase)
    THEN Finish([w[i] EXCEPT !.phase = "Failed"])
    ELSE [w[i] EXCEPT !.phase = "Failing"]

StoreTooLarge(i) ==
    /\ Updating(i)
    /\ Fault
    /\ IF IsDisowned(i) THEN EndRound(i, "idle")
       ELSE pc' = [pc EXCEPT ![i] = "large"] /\ UNCHANGED <<w, mutated, err, streak>>
    /\ UNCHANGED <<k8s, lister, caches, outside, admin, superseded>>

StoreShrunk(i) ==
    /\ pc[i] = "large"
    /\ crd # NoCRD
    /\ crd.rv = w[i].rv
    /\ \E version \in FreshVersions : Write(Shrunk(i), version)
    /\ Remember(i, Shrunk(i))
    /\ EndRound(i, "idle")
    /\ UNCHANGED <<lister, outside, admin, faults>>

(* The write fails, before or after the server has accepted it; the caches *)
(* learn nothing.                                                          *)
StoreFails(i) ==
    /\ pc[i] = "large" \/ Updating(i)
    /\ Fault
    /\ \/ UNCHANGED k8s
       \/ /\ crd # NoCRD
          /\ crd.rv = w[i].rv
          /\ \E version \in FreshVersions :
                Write(IF pc[i] = "large" THEN Shrunk(i) ELSE ToStore(i), version)
    /\ EndRound(i, "idle")
    /\ UNCHANGED <<lister, caches, outside, admin, superseded>>

---------------------------------------------------------------------------
(* The process dies with everything it keeps in memory; a new one lists    *)
(* the resource before its workers start.                                  *)

Crash(i) ==
    /\ pc[i] \in {"idle", "mutate", "event", "recording", "update", "large"}
    /\ Fault
    /\ EndRound(i, "down")
    /\ UNCHANGED <<k8s, lister, caches, outside, admin, superseded>>

Restart(i) ==
    /\ pc[i] \in {"down", "panic"}
    /\ pc' = [pc EXCEPT ![i] = "idle"]
    /\ lister' = [lister EXCEPT ![i] = crd]
    /\ watch' = [watch EXCEPT ![i] = <<>>]
    /\ staleRV' = [staleRV EXCEPT ![i] = NoVersion]
    /\ terminated' = [terminated EXCEPT ![i] = FALSE]
    /\ sent' = [sent EXCEPT ![i] = {}]
    /\ superseded' = [superseded EXCEPT ![i] = {}]
    /\ UNCHANGED <<crd, w, mutated, err, streak, outside, admin, faults>>

---------------------------------------------------------------------------
(* Everyone else.                                                          *)

(* A delete request: with a finalizer on it, the resource is only stamped. *)
Delete ==
    /\ crd # NoCRD
    /\ ~crd.deleting
    /\ \E version \in FreshVersions : Write([crd EXCEPT !.deleting = TRUE], version)
    /\ UNCHANGED <<lister, caches, round, outside, row, adminPhase, recorded, refused, faults, superseded>>

(* Someone deletes the resource behind admin's back.                       *)
DeleteCRD == Delete /\ UNCHANGED aborting

(* The garbage collector deletes by the completed label alone.             *)
GarbageCollect == crd # NoCRD /\ crd.completed /\ Delete /\ UNCHANGED aborting

(* 1000 later workflows have pushed this one out of the terminated filter, *)
(* and with it the claim that its old versions will not be processed.      *)
ForgetTerminated(i) ==
    /\ terminated[i]
    /\ Fault
    /\ terminated' = [terminated EXCEPT ![i] = FALSE]
    /\ superseded' = [superseded EXCEPT ![i] = {}]
    /\ UNCHANGED <<k8s, lister, staleRV, sent, round, outside, admin>>

(* A user's TerminateExecution call reads the row and checks it, later     *)
(* writes it whatever it has become, and then deletes the resource.        *)
TerminateExecution ==
    /\ row \in {"here", "elsewhere"}
    /\ ~IsExecutionTerminal(adminPhase)
    /\ aborting = "none"
    /\ aborting' = "checked"
    /\ UNCHANGED <<k8s, lister, caches, round, outside, row, adminPhase, recorded, refused, faults, superseded>>

SetExecutionAborting ==
    /\ aborting = "checked"
    /\ aborting' = "saved"
    /\ adminPhase' = "ABORTING"
    /\ UNCHANGED <<k8s, lister, caches, round, outside, row, recorded, refused, faults, superseded>>

Abort ==
    /\ aborting = "saved"
    /\ aborting' = "none"
    /\ \/ Delete
       \/ /\ crd # NoCRD => crd.deleting
          /\ UNCHANGED <<k8s, lister, caches, round, outside, row, adminPhase, recorded, refused, faults, superseded>>

(* The call fails half-way; nobody resumes it.                             *)
TerminateFails ==
    /\ aborting # "none"
    /\ aborting' = "none"
    /\ Fault
    /\ UNCHANGED <<k8s, lister, caches, round, outside, row, adminPhase, recorded, refused, superseded>>

(* CreateExecution inserts the row after it has created the resource.      *)
InsertRow ==
    /\ row = "pending"
    /\ row' = "here"
    /\ UNCHANGED <<k8s, lister, caches, round, outside, adminPhase, aborting, recorded, refused, faults, superseded>>

LoseRow ==
    /\ row = "here"
    /\ row' \in LostRows
    /\ Fault
    /\ UNCHANGED <<k8s, lister, caches, round, outside, adminPhase, aborting, recorded, refused, superseded>>

---------------------------------------------------------------------------

NewCRD(rv) ==
    [rv |-> rv, phase |-> "Ready", failedAttempts |-> 0, finalizer |-> FALSE,
     completed |-> FALSE, deleting |-> FALSE, dag |-> "NotYetStarted", failure |-> "NotYetStarted"]

(* A workflow terminated by a propeller that did not label it yet.         *)
LegacyCRD(rv) ==
    [NewCRD(rv) EXCEPT !.phase = "Success", !.finalizer = TRUE, !.dag = "Succeeded"]

Init ==
    /\ \E rv \in {v \in Versions : \A u \in Versions : v <= u} :
        \/ /\ crd = NewCRD(rv) /\ row \in {"here", "pending"}
           /\ adminPhase = "UNDEFINED" /\ recorded = {}
        \/ /\ crd = LegacyCRD(rv) /\ row = "here"
           /\ adminPhase = "SUCCEEDED" /\ recorded = {"SUCCEEDED"}
    /\ aborting = "none"
    /\ watch = [i \in Instances |-> <<>>]
    /\ lister = [i \in Instances |-> crd]
    /\ staleRV = [i \in Instances |-> NoVersion]
    /\ terminated = [i \in Instances |-> FALSE]
    /\ sent = [i \in Instances |-> {}]
    /\ pc = [i \in Instances |-> "idle"]
    /\ w = [i \in Instances |-> NoCRD]
    /\ mutated = [i \in Instances |-> NoCRD]
    /\ err = [i \in Instances |-> "none"]
    /\ streak = [i \in Instances |-> 0]
    /\ payloads = {}
    /\ stray = FALSE
    /\ refused = {}
    /\ faults = MaxFaults
    /\ superseded = [i \in Instances |-> {}]

Mutate(i) ==
    \/ HandleReady(i) \/ HandleRunning(i) \/ HandleRunningSiblingFails(i)
    \/ HandleSucceeding(i) \/ HandleFailing(i) \/ HandleFailureNode(i)
    \/ HandleTerminated(i) \/ HandleAborted(i)

Record(i) ==
    \/ RecordFiltered(i) \/ RecordRefused(i) \/ RecordChecked(i)
    \/ RecordEvent(i) \/ RecordFails(i)

Store(i) ==
    \/ SkipUpdate(i) \/ StoreUpdate(i) \/ StoreConflict(i) \/ StoreGone(i)
    \/ StoreTooLarge(i) \/ StoreShrunk(i) \/ StoreFails(i)

Worker(i) == HandleGet(i) \/ Mutate(i) \/ Record(i) \/ Store(i)

Environment ==
    \/ DeleteCRD \/ GarbageCollect \/ TerminateExecution \/ SetExecutionAborting
    \/ Abort \/ TerminateFails \/ InsertRow \/ LoseRow

Next ==
    \/ \E i \in Instances :
        Worker(i) \/ InformerDelivers(i) \/ ForgetTerminated(i) \/ Crash(i) \/ Restart(i)
    \/ Environment

Spec == Init /\ [][Next]_vars

(* Workers take the key off their queue again and again: the informer's    *)
(* resync re-queues every workflow each workflow-reeval-duration.  Watches *)
(* deliver, Kubernetes restarts a dead process, and CreateExecution and    *)
(* TerminateExecution go on to their end.  Nothing is assumed of users or  *)
(* of node payloads.                                                       *)
Fairness ==
    /\ \A i \in Instances :
        /\ WF_vars(HandleGet(i)) /\ WF_vars(Mutate(i))
        /\ WF_vars(Record(i)) /\ WF_vars(Store(i))
        /\ WF_vars(InformerDelivers(i)) /\ WF_vars(Restart(i))
    /\ WF_vars(InsertRow) /\ WF_vars(SetExecutionAborting) /\ WF_vars(Abort)

FairSpec == Spec /\ Fairness

---------------------------------------------------------------------------
(* Properties.                                                             *)

Positions == {"idle", "mutate", "event", "recording", "update", "large", "panic", "down"}

(* Every variable has its type.                                            *)
TypeOK ==
    /\ crd \in CRD \cup {NoCRD}
    /\ watch \in [Instances -> Seq(CRD \cup {NoCRD})]
    /\ lister \in [Instances -> CRD \cup {NoCRD}]
    /\ staleRV \in [Instances -> Versions \cup {NoVersion}]
    /\ terminated \in [Instances -> BOOLEAN]
    /\ sent \in [Instances -> SUBSET Events]
    /\ pc \in [Instances -> Positions]
    /\ w \in [Instances -> CRD \cup {NoCRD}]
    /\ mutated \in [Instances -> CRD \cup {NoCRD}]
    /\ err \in [Instances -> Errors]
    /\ streak \in [Instances -> Nat]
    /\ payloads \subseteq Payloads
    /\ stray \in BOOLEAN
    /\ row \in Rows
    /\ adminPhase \in AdminPhases
    /\ aborting \in Calls
    /\ recorded \subseteq Events
    /\ refused \subseteq Events
    /\ faults \in Nat
    /\ superseded \in [Instances -> SUBSET Versions]

(* The garbage collector deletes by label, and a resource without the      *)
(* finalizer goes away at once: the label is only ever on a workflow that  *)
(* has terminated, and a workflow that has started a node is either        *)
(* terminated or still holds its finalizer, whatever write failed, was     *)
(* repeated or was too large, and however many instances are at work.      *)
LabelAndFinalizerAreHonest ==
    crd # NoCRD =>
        /\ crd.completed => IsTerminated(crd.phase) /\ ~crd.finalizer
        /\ crd.dag # "NotYetStarted" \/ crd.failure # "NotYetStarted" =>
                crd.finalizer \/ IsTerminated(crd.phase)

(* A completed resource keeps its outcome: no late round, retried write,   *)
(* second instance or oversized-object fallback turns it into another.     *)
(* (A workflow that terminated without the label is not yet protected: the *)
(* round that labels it may find it too large and write Failed.)           *)
CompletedIsFinal ==
    [][crd # NoCRD /\ crd.completed /\ crd' # NoCRD
            => crd'.completed /\ crd'.phase = crd.phase]_vars

(* Write-ahead: a node starts its payload only from a phase that has been  *)
(* stored, so AbortHandler, which skips nodes that have not started, will  *)
(* find every payload there is, even after a round whose write was lost.   *)
PayloadsAreRecorded ==
    /\ "dag" \in payloads => crd = NoCRD \/ crd.dag # "NotYetStarted"
    /\ "failure" \in payloads => crd = NoCRD \/ crd.failure # "NotYetStarted"

(* A resource says Success only when admin has recorded the same outcome:  *)
(* the event comes before the write, and a refused or lost event keeps the *)
(* outcome out of the resource.                                            *)
SuccessIsRecorded ==
    crd # NoCRD /\ crd.phase = "Success" => "SUCCEEDED" \in recorded

(* A resource loses its finalizer, and with it its last chance to report,  *)
(* only when admin has recorded an outcome for it, or when FAILED has been *)
(* reported and admin answered that it has no such execution here: a lost  *)
(* row excuses no other outcome, however deletions, rows that come late    *)
(* and lost calls race with the round at work.                             *)
NothingVanishesUnreported ==
    [][crd # NoCRD /\ crd.finalizer /\ (crd' = NoCRD \/ ~crd'.finalizer)
            => recorded # {} \/ "FAILED" \in refused]_vars

(* "Cannot go backwards in time from a terminal state to anything else":   *)
(* an outcome in admin's row stays there.                                  *)
TerminalRowIsFinal == [][IsExecutionTerminal(adminPhase) => adminPhase' = adminPhase]_vars

(* A workflow that terminated with retries to spare has left no payload of *)
(* its DAG running, except a stray one: started by a round that worked on  *)
(* a copy already replaced or beside another round, or left behind by an   *)
(* answer from the cache.  No order of lost writes, repeated rounds,       *)
(* streaks, deletions and refused events makes it skip the clean-up.       *)
NoOrphanedNodes ==
    crd # NoCRD /\ IsTerminated(crd.phase) /\ crd.failedAttempts <= MaxWorkflowRetries
        => "dag" \notin payloads \/ stray

(* "We will never process that exact version again": a round does not      *)
(* start from a version that this instance has been told it replaced.      *)
SupersededIsNotProcessed ==
    \A i \in Instances : pc[i] \in {"mutate", "event", "update"} => w[i].rv \notin superseded[i]

(* Updating a resource that has disappeared does not bring the process     *)
(* down.                                                                   *)
NoPanic == \A i \in Instances : pc[i] # "panic"

(* A workflow in HandlingFailureNode becomes Failed when its failure node  *)
(* is over: a failure node that has been granted another attempt gets it,  *)
(* unless the workflow runs out of its own retries.                        *)
FailureNodeRunsToItsEnd ==
    crd # NoCRD /\ crd.phase = "Failed" /\ crd.failedAttempts <= MaxWorkflowRetries
        => crd.failure # "Retrying"

(* A deleted workflow is aborted and goes away.                            *)
DeletionCompletes == (crd # NoCRD /\ crd.deleting) ~> (crd = NoCRD)

FailureNodeIsAtWork ==
    crd # NoCRD /\ crd.phase = "HandlingFailureNode" /\ crd.failure \in {"Queued", "Running"}

(* A failing workflow comes to an end, unless its failure node is at work  *)
(* for ever.                                                               *)
FailingCompletes ==
    \/ <>[]FailureNodeIsAtWork
    \/ (crd # NoCRD /\ crd.phase = "Failing") ~> (crd = NoCRD \/ IsTerminated(crd.phase))
============================================================================
