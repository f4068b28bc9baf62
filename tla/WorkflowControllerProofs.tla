---------------------- MODULE WorkflowControllerProofs ----------------------
(***************************************************************************)
(* Safety of the reconciliation loop, for any number of propeller          *)
(* instances, any retry and streak limits, any watch lag and any number of *)
(* faults.                                                                 *)
(*                                                                         *)
(* The argument rests on the copies of the resource.  A worker writes what *)
(* it computed from a copy that may be arbitrarily old, and only the       *)
(* comparison of resource versions stands between that and a lost update.  *)
(* So the inductive invariant says, of every copy in anyone's hands: if it *)
(* has the version of the resource then it is the resource, and what it    *)
(* records (a started node, an outcome) has not been taken back since.     *)
(*                                                                         *)
(* That no payload is orphaned needs more: what the DAG's payload, unless  *)
(* it is stray, says of the resource and of the rounds that may write it.  *)
(* That invariant comes last.                                              *)
(***************************************************************************)
EXTENDS WorkflowController, TLAPS

Outcome(c) ==
    /\ c.phase = "Success" => "SUCCEEDED" \in recorded
    /\ c.phase = "Aborted" => "ABORTED" \in recorded

Honest(c) ==
    /\ c.completed => IsTerminated(c.phase) /\ ~c.finalizer
    /\ c.dag # "NotYetStarted" \/ c.failure # "NotYetStarted" =>
            c.finalizer \/ IsTerminated(c.phase)
    /\ IsTerminated(c.phase) /\ c.finalizer => c.phase = "Success"

(* Admin has an outcome, or has answered FAILED with not knowing the       *)
(* execution.                                                              *)
Told == recorded # {} \/ "FAILED" \in refused

(* The copy is out of reach of the handler that visits the DAG.            *)
Past(c) == c = NoCRD \/ c.phase \notin {"Ready", "Running"} \/ IsAbort(c)

(* No node that has started in `a' is unstarted in `b'.                    *)
KeepsStarted(a, b) ==
    /\ a.dag # "NotYetStarted" => b.dag # "NotYetStarted"
    /\ a.failure # "NotYetStarted" => b.failure # "NotYetStarted"

CopyOK(c) ==
    c # NoCRD =>
        /\ Honest(c)
        /\ Outcome(c)
        /\ crd # NoCRD => KeepsStarted(c, crd)
        /\ Past(c) => Past(crd)
        /\ c.rv = crd.rv => c = crd

CopiesOK == \A c \in Copies \cup {crd} : CopyOK(c)

(* What a handler may make of the copy its round started from.             *)
Successor(a, b) ==
    /\ b \in CRD
    /\ b.completed = a.completed
    /\ b.deleting = a.deleting
    /\ b.failedAttempts = a.failedAttempts
    /\ KeepsStarted(a, b)
    /\ Past(a) => Past(b)
    /\ IsTerminated(a.phase) => b = a
    /\ ~IsTerminated(b.phase) => b.finalizer /\ ~b.deleting

Reporting == {"event", "recording"}

Storing == {"update", "large"}

InRound == {"mutate"} \cup Reporting \cup Storing

RoundOK(i) ==
    /\ pc[i] \in InRound => w[i] # NoCRD
    /\ w[i] # NoCRD => ~w[i].completed
    /\ pc[i] \notin Storing => err[i] = "none"
    /\ err[i] # "none" => ~IsTerminated(w[i].phase)
    /\ pc[i] \in Reporting \cup Storing /\ err[i] = "none" => Successor(w[i], mutated[i])
    /\ pc[i] \in Reporting =>
            /\ mutated[i].phase # "Ready" /\ ~IsTerminated(w[i].phase)
            /\ IsTerminated(mutated[i].phase) => Past(w[i])
    /\ pc[i] \in Storing /\ err[i] = "none" =>
            /\ Outcome(mutated[i])
            /\ IsTerminated(mutated[i].phase) /\ w[i].finalizer => Told

(* An outcome in a sink's filter or in admin's row has been recorded.      *)
SentOK(i) == \A e \in sent[i] : IsExecutionTerminal(e) => e \in recorded

RowOK == IsExecutionTerminal(adminPhase) => adminPhase \in recorded /\ Past(crd)

AdminOK == RowOK /\ \A i \in Instances : SentOK(i)

IInv ==
    /\ TypeOK
    /\ CopiesOK
    /\ \A i \in Instances : RoundOK(i)
    /\ AdminOK
    /\ PayloadsAreRecorded

---------------------------------------------------------------------------
(* Copies of the resource, and how a step changes who has which.           *)

(* What an informer is told is what it was told before, or the new state.  *)
LEMMA NotifyElements ==
    ASSUME NEW S, NEW q \in Seq(S), NEW x \in S
    PROVE  /\ Notify(q, x) \in Seq(S)
           /\ \A n \in DOMAIN Notify(q, x) :
                Notify(q, x)[n] = x \/ \E m \in DOMAIN q : Notify(q, x)[n] = q[m]
<1>1. CASE Len(q) < MaxLag
  BY <1>1 DEF Notify
<1>2. CASE ~(Len(q) < MaxLag)
  <2>1. q # <<>> /\ Len(q) \in Nat /\ Len(q) > 0
    BY <1>2, LagAssumption
  <2>2. Tail(q) \in Seq(S) /\ Len(Tail(q)) = Len(q) - 1
    BY <2>1
  <2>3. \A n \in 1..Len(Tail(q)) : Tail(q)[n] = q[n+1] /\ n+1 \in DOMAIN q
    BY <2>1, <2>2
  <2>4. Notify(q, x) = Append(Tail(q), x)
    BY <1>2 DEF Notify
  <2> QED
    BY <2>2, <2>3, <2>4
<1> QED
  BY <1>1, <1>2

(* A copy is the resource as someone has read it.                          *)
LEMMA CopiesType ==
    ASSUME TypeOK
    PROVE  Copies \subseteq CRD \cup {NoCRD}
BY DEF TypeOK, Copies

(* A step that leaves the resource alone and hands out no copy but of it.  *)
LEMMA QuietStep ==
    ASSUME TypeOK, CopiesOK,
           crd' = crd, Copies' \subseteq Copies \cup {crd, NoCRD},
           recorded \subseteq recorded'
    PROVE  CopiesOK'
<1> SUFFICES ASSUME NEW c \in (Copies \cup {crd})', c # NoCRD
             PROVE  CopyOK(c)'
  BY DEF CopiesOK, CopyOK, NoCRD
<1>1. CopyOK(c)
  BY DEF CopiesOK
<1>2. Outcome(c) => Outcome(c)'
  BY DEF Outcome
<1> QED
  BY <1>1, <1>2 DEF CopyOK

(* A step that deletes the resource.                                       *)
LEMMA VanishStep ==
    ASSUME TypeOK, CopiesOK,
           crd' = NoCRD, Copies' \subseteq Copies \cup {NoCRD},
           recorded' = recorded
    PROVE  CopiesOK'
<1> SUFFICES ASSUME NEW c \in (Copies \cup {crd})', c # NoCRD
             PROVE  CopyOK(c)'
  BY DEF CopiesOK, CopyOK, NoCRD
<1>1. CopyOK(c) /\ c \in CRD
  BY CopiesType DEF CopiesOK
<1>2. c.rv # NoCRD.rv
  BY <1>1, VersionsAssumption DEF CRD, NoCRD
<1>3. Past(crd')
  BY DEF Past
<1> QED
  BY <1>1, <1>2, <1>3 DEF CopyOK, Outcome

(* A step that writes it, under a version nobody holds.                    *)
LEMMA WriteStep ==
    ASSUME TypeOK, CopiesOK,
           NEW wf \in CRD, NEW v \in Versions \ InUse,
           crd # NoCRD, crd' = [wf EXCEPT !.rv = v],
           Copies' \subseteq Copies \cup {crd', NoCRD},
           recorded' = recorded,
           Honest(wf), Outcome(wf), KeepsStarted(crd, wf), Past(crd) => Past(wf)
    PROVE  CopiesOK' /\ (Past(crd) => Past(crd'))
<1>1. /\ crd' \in CRD /\ crd'.rv = v /\ crd'.phase = wf.phase
      /\ crd'.dag = wf.dag /\ crd'.failure = wf.failure
      /\ crd'.completed = wf.completed /\ crd'.finalizer = wf.finalizer
      /\ crd'.deleting = wf.deleting /\ crd'.failedAttempts = wf.failedAttempts
  BY DEF CRD
<1>a. wf # NoCRD
  BY VersionsAssumption DEF CRD, NoCRD
<1>b. Past(crd) => Past(crd')
  BY <1>1, <1>a DEF Past, IsAbort
<1> SUFFICES ASSUME NEW c \in (Copies \cup {crd})', c # NoCRD
             PROVE  CopyOK(c)'
  BY <1>b DEF CopiesOK, CopyOK, NoCRD
<1>2. CASE c = crd'
  BY <1>1, <1>2 DEF CopyOK, Honest, Outcome, KeepsStarted
<1>3. CASE c # crd'
  <2>1. c \in Copies /\ CopyOK(c) /\ c.rv \in InUse
    BY <1>3 DEF CopiesOK, InUse
  <2>2. c.rv # crd'.rv
    BY <1>1, <2>1
  <2>3. KeepsStarted(c, crd) => KeepsStarted(c, crd')
    BY <1>1 DEF KeepsStarted
  <2> QED
    BY <2>1, <2>2, <2>3, <1>1, <1>b DEF CopyOK, Outcome, NoCRD, KeepsStarted
<1> QED
  BY <1>2, <1>3

---------------------------------------------------------------------------
(* The shapes of a worker's step: each handler and each answer is one of   *)
(* them, so the invariant is shown once for the shape.                     *)

(* A round may start a payload only of a node that its copy has recorded.  *)
MayStart(i) ==
    \A p \in payloads' \ payloads :
        \/ p = "dag" /\ w[i].dag # "NotYetStarted"
        \/ p = "failure" /\ w[i].failure # "NotYetStarted"

(* A payload that a round starts is recorded: the copy that allows it says *)
(* that the node has started, and that is never taken back.                *)
LEMMA StartIsRecorded ==
    ASSUME IInv, NEW i \in Instances, pc[i] \in InRound, MayStart(i), crd' = crd
    PROVE  PayloadsAreRecorded'
<1>1. w[i] \in Copies /\ w[i] # NoCRD
  BY DEF IInv, RoundOK, Copies
<1>2. crd # NoCRD => KeepsStarted(w[i], crd)
  BY <1>1 DEF IInv, CopiesOK, CopyOK
<1> QED
  BY <1>2 DEF IInv, PayloadsAreRecorded, MayStart, KeepsStarted

(* A handler that ends well.                                               *)
LEMMA MutatesKeeps ==
    ASSUME IInv, NEW i \in Instances, NEW wf, pc[i] = "mutate",
           Mutates(i, wf), Successor(w[i], wf),
           wf.phase # w[i].phase =>
                wf.phase # "Ready" /\ (IsTerminated(wf.phase) => Past(w[i])),
           MayStart(i), payloads' \subseteq Payloads, stray' \in BOOLEAN, faults' \in Nat
    PROVE  IInv'
<1> USE DEF Mutates, k8s, caches, admin
<1>1. TypeOK'
  BY DEF IInv, TypeOK, Positions, Successor
<1>2. CopiesOK'
  <2>1. Copies' = Copies
    BY DEF Copies
  <2> QED
    BY <2>1, QuietStep DEF IInv
<1>3. ASSUME NEW j \in Instances PROVE RoundOK(j)'
  <2>1. CASE j # i
    BY <2>1 DEF IInv, TypeOK, RoundOK, Outcome, Told
  <2>2. CASE j = i
    <3>1. w[i] \in Copies /\ CopyOK(w[i]) /\ w[i] # NoCRD
      BY DEF IInv, CopiesOK, Copies, RoundOK, InRound
    <3>2. wf.phase = w[i].phase => Outcome(wf)
      BY <3>1 DEF CopyOK, Outcome
    <3>3. pc'[i] = (IF wf.phase = w[i].phase THEN "update" ELSE "event") /\ mutated'[i] = wf
      BY DEF IInv, TypeOK
    <3>4. err[i] = "none" /\ ~w[i].completed
      BY <3>1 DEF IInv, RoundOK, Storing
    <3>5. wf.phase = w[i].phase /\ IsTerminated(wf.phase) /\ w[i].finalizer => Told
      BY <3>1 DEF CopyOK, Honest, Outcome, Told
    <3>6. wf.phase # w[i].phase => ~IsTerminated(w[i].phase)
      BY DEF Successor
    <3> QED
      BY <2>2, <3>1, <3>2, <3>3, <3>4, <3>5, <3>6
         DEF RoundOK, Successor, Outcome, Told, Reporting, Storing
  <2> QED
    BY <2>1, <2>2
<1>4. AdminOK'
  BY DEF IInv, AdminOK, SentOK, RowOK
<1>5. PayloadsAreRecorded'
  BY StartIsRecorded DEF InRound
<1> QED
  BY <1>1, <1>2, <1>3, <1>4, <1>5 DEF IInv

(* A handler that ends in an error.                                        *)
LEMMA ErrsKeeps ==
    ASSUME IInv, NEW i \in Instances, NEW e \in Errors \ {"none"}, pc[i] = "mutate",
           Errs(i, e), ~IsTerminated(w[i].phase),
           MayStart(i), payloads' \subseteq Payloads, stray' \in BOOLEAN, faults' \in Nat
    PROVE  IInv'
<1> USE DEF Errs, k8s, caches, admin
<1>1. TypeOK'
  BY DEF IInv, TypeOK, Positions
<1>2. CopiesOK'
  <2>1. Copies' = Copies
    BY DEF Copies
  <2> QED
    BY <2>1, QuietStep DEF IInv
<1>3. ASSUME NEW j \in Instances PROVE RoundOK(j)'
  <2>1. CASE j # i
    BY <2>1 DEF IInv, TypeOK, RoundOK, Outcome, Told
  <2>2. CASE j = i
    BY <2>2 DEF IInv, TypeOK, RoundOK, InRound, Reporting, Storing
  <2> QED
    BY <2>1, <2>2
<1>4. AdminOK'
  BY DEF IInv, AdminOK, SentOK, RowOK
<1>5. PayloadsAreRecorded'
  BY StartIsRecorded DEF InRound
<1> QED
  BY <1>1, <1>2, <1>3, <1>4, <1>5 DEF IInv

---------------------------------------------------------------------------
(* The handlers.                                                           *)

(* A visit leaves no node unstarted, and starts no payload of an unstarted *)
(* one.                                                                    *)
LEMMA VisitsStart ==
    ASSUME NEW phase \in NodePhases, NEW v \in Visits(phase, Outcomes)
    PROVE  /\ v.to \in NodePhases \ {"NotYetStarted"}
           /\ v.payload \in {"none", "start", "leave", "finish", "abort"}
           /\ v.payload = "start" => phase # "NotYetStarted"
<1>1. CASE phase = "NotYetStarted"
  BY <1>1 DEF Visits, NotYetStartedVisits, Visit, NodePhases
<1>2. ASSUME NEW u \in QueuedOrRunningVisits(phase, Outcomes), phase # "NotYetStarted"
      PROVE  /\ u.to \in NodePhases \ {"NotYetStarted"}
             /\ u.payload \in {"none", "start", "leave", "finish", "abort"}
  BY <1>2, OutcomesAssumption DEF QueuedOrRunningVisits, Visit, NodePhases, NodeOutcomes
<1>3. CASE phase \in {"Queued", "Retrying", "Running"}
  <2>1. v \in QueuedOrRunningVisits(phase, Outcomes) \/ v = CacheHit
    BY <1>3 DEF Visits
  <2> QED
    BY <1>2, <1>3, <2>1 DEF CacheHit, Visit, NodePhases
<1>4. CASE phase \notin {"NotYetStarted", "Queued", "Retrying", "Running"}
  BY <1>4 DEF Visits, Visit, NodePhases
<1> QED
  BY <1>1, <1>3, <1>4

LEMMA VisitEffectType ==
    ASSUME IInv, NEW i \in Instances, NEW name,
           NEW effect \in {"none", "start", "leave", "finish", "abort"}, Acts(i, effect, name)
    PROVE  stray' \in BOOLEAN
<1>1. stray \in BOOLEAN
  BY DEF IInv, TypeOK
<1>2. (~IsAlone(i) /\ ("dag" \in payloads => stray)) \in BOOLEAN /\ ("dag" \in payloads) \in BOOLEAN
  OBVIOUS
<1> QED
  BY <1>1, <1>2, Zenon DEF Acts

LEMMA VisitingKeeps ==
    ASSUME IInv, NEW i \in Instances, NEW name \in Payloads, NEW phase \in NodePhases,
           NEW v \in Visits(phase, Outcomes), NEW wf,
           pc[i] = "mutate", ~IsTerminated(w[i].phase), ~IsAbort(w[i]),
           phase = (IF name = "dag" THEN w[i].dag ELSE w[i].failure),
           Visiting(i, name, phase, v, wf), Successor(w[i], wf),
           wf.phase # w[i].phase => wf.phase # "Ready" /\ (IsTerminated(wf.phase) => Past(w[i]))
    PROVE  IInv'
<1>1. v.payload \in {"none", "start", "leave", "finish", "abort"}
      /\ (v.payload = "start" => phase # "NotYetStarted")
  BY VisitsStart
<1>2. After(v.payload, name) \subseteq payloads \cup {name}
      /\ (v.payload # "start" => After(v.payload, name) \subseteq payloads)
  BY <1>1 DEF After
<1>3. payloads' \in {payloads, After(v.payload, name)}
  BY DEF Visiting, Acts, outside
<1>4. MayStart(i) /\ payloads' \subseteq Payloads
  BY <1>1, <1>2, <1>3 DEF MayStart, IInv, TypeOK, Payloads
<1>a. stray' \in BOOLEAN
  <2>1. CASE Acts(i, v.payload, name)
    BY <1>1, <2>1, VisitEffectType
  <2>2. CASE UNCHANGED outside
    BY <2>2 DEF outside, IInv, TypeOK
  <2> QED
    BY <2>1, <2>2 DEF Visiting
<1>5. faults' \in Nat
  BY DEF Visiting, Fault, IInv, TypeOK
<1>6. \/ Mutates(i, wf)
      \/ \E e \in Errors \ {"none"} : Errs(i, e)
  BY DEF Visiting, Errors
<1> QED
  BY <1>4, <1>5, <1>6, <1>a, MutatesKeeps, ErrsKeeps

(* The copy of a round, as the handlers find it.                           *)
LEMMA RoundCopy ==
    ASSUME IInv, NEW i \in Instances, pc[i] \in InRound
    PROVE  /\ w[i] \in CRD /\ w[i] \in Copies /\ w[i] # NoCRD
           /\ Honest(w[i]) /\ Outcome(w[i]) /\ ~w[i].completed
           /\ crd.rv = w[i].rv => crd = w[i]
BY DEF IInv, TypeOK, RoundOK, Copies, CopiesOK, CopyOK

(* A handler of a live workflow: the copy gets its finalizer.              *)
LEMMA HandledSuccessor ==
    ASSUME NEW a \in CRD, ~IsAbort(a), ~IsTerminated(a.phase), NEW to \in WorkflowPhases,
           Past(a) => to \notin {"Ready", "Running"}
    PROVE  Successor(a, [WithFinalizer(a) EXCEPT !.phase = to])
BY DEF Successor, WithFinalizer, CRD, IsAbort, KeepsStarted, Past

LEMMA HandlersKeep ==
    ASSUME IInv, NEW i \in Instances, Mutate(i)
    PROVE  IInv'
<1> USE DEF InRound
<1> pc[i] = "mutate" /\ pc[i] \in InRound
  BY DEF Mutate, Handling, HandleReady, HandleRunning, HandleRunningSiblingFails,
         HandleSucceeding, HandleFailing, HandleFailureNode, HandleTerminated, HandleAborted
<1>0. /\ w[i] \in CRD
      /\ w[i].dag \in NodePhases /\ w[i].failure \in NodePhases /\ w[i].phase \in WorkflowPhases
  BY RoundCopy DEF CRD
<1>a. ASSUME UNCHANGED outside \/ CleansUp(w[i])
      PROVE  MayStart(i) /\ payloads' \subseteq Payloads /\ stray' \in BOOLEAN
  BY <1>a DEF MayStart, IInv, TypeOK, outside, CleansUp
<1>b. Fault \/ UNCHANGED faults => faults' \in Nat
  BY DEF Fault, IInv, TypeOK
<1>d. "system" \in Errors \ {"none"}
  BY DEF Errors
<1>e. /\ w[i].phase \in {"Ready", "Running"} /\ ~IsAbort(w[i]) => ~Past(w[i])
      /\ w[i].phase \notin {"Ready", "Running"} => Past(w[i])
  BY <1>0, VersionsAssumption DEF Past, CRD, NoCRD
<1>1. CASE HandleReady(i)
  <2>1. ~IsAbort(w[i]) /\ ~IsTerminated(w[i].phase) /\ UNCHANGED outside
        /\ w[i].phase = "Ready"
    BY <1>1 DEF HandleReady, Handling, IsTerminated
  <2>2. \/ \E to \in {"Running", "Failing"} : Mutates(i, [WithFinalizer(w[i]) EXCEPT !.phase = to])
        \/ Errs(i, "system")
    BY <1>1 DEF HandleReady
  <2>3. faults' \in Nat
    BY <1>1, <1>b DEF HandleReady
  <2>4. CASE Errs(i, "system")
    BY <2>1, <2>3, <2>4, <1>a, <1>d, ErrsKeeps
  <2>5. ASSUME NEW to \in {"Running", "Failing"},
               Mutates(i, [WithFinalizer(w[i]) EXCEPT !.phase = to])
        PROVE  IInv'
    <3> DEFINE wf == [WithFinalizer(w[i]) EXCEPT !.phase = to]
    <3>1. Successor(w[i], wf) /\ wf.phase = to
      BY <1>0, <1>e, <2>1, HandledSuccessor DEF WorkflowPhases, WithFinalizer, CRD
    <3> QED
      BY <3>1, <2>1, <2>3, <2>5, <1>a, MutatesKeeps DEF IsTerminated
  <2> QED
    BY <2>2, <2>4, <2>5
<1>2. CASE HandleRunning(i)
  <2>1. ~IsAbort(w[i]) /\ ~IsTerminated(w[i].phase) /\ w[i].phase = "Running"
    BY <1>2 DEF HandleRunning, Handling, IsTerminated
  <2>2. PICK v \in Visits(w[i].dag, Outcomes) :
            Visiting(i, "dag", w[i].dag, v,
                 [WithFinalizer(w[i]) EXCEPT !.dag = v.to, !.phase = RunningTo(v.returns)])
    BY <1>2 DEF HandleRunning
  <2> DEFINE wf == [WithFinalizer(w[i]) EXCEPT !.dag = v.to, !.phase = RunningTo(v.returns)]
  <2>3. v.to \in NodePhases \ {"NotYetStarted"}
    BY <1>0, VisitsStart
  <2>4. RunningTo(v.returns) \in {"Running", "Failing", "Succeeding"}
    BY DEF RunningTo
  <2>5. Successor(w[i], wf) /\ wf.phase # "Ready" /\ ~IsTerminated(wf.phase)
    BY <1>0, <1>e, <2>1, <2>3, <2>4
       DEF Successor, WithFinalizer, CRD, IsAbort, KeepsStarted, IsTerminated, WorkflowPhases
  <2> QED
    BY <1>0, <2>1, <2>2, <2>5, VisitingKeeps DEF Payloads
<1>3. CASE HandleRunningSiblingFails(i)
  <2>1. ~IsAbort(w[i]) /\ ~IsTerminated(w[i].phase) /\ UNCHANGED outside
    BY <1>3 DEF HandleRunningSiblingFails, Handling, IsTerminated
  <2> DEFINE wf == [WithFinalizer(w[i]) EXCEPT !.phase = "Failing"]
  <2>2. Successor(w[i], wf) /\ wf.phase = "Failing"
    BY <1>0, <1>e, <2>1, HandledSuccessor DEF WorkflowPhases, WithFinalizer, CRD
  <2>3. Mutates(i, wf) /\ faults' \in Nat
    BY <1>3, <1>b DEF HandleRunningSiblingFails
  <2> QED
    BY <2>1, <2>2, <2>3, <1>a, MutatesKeeps DEF IsTerminated
<1>4. CASE HandleSucceeding(i)
  <2>1. ~IsAbort(w[i]) /\ ~IsTerminated(w[i].phase) /\ UNCHANGED outside
        /\ w[i].phase = "Succeeding"
    BY <1>4 DEF HandleSucceeding, Handling, IsTerminated
  <2> DEFINE wf == [WithFinalizer(w[i]) EXCEPT !.phase = "Success"]
  <2>2. Successor(w[i], wf) /\ wf.phase = "Success"
    BY <1>0, <1>e, <2>1, HandledSuccessor DEF WorkflowPhases, WithFinalizer, CRD
  <2>3. Mutates(i, wf) /\ faults' \in Nat
    BY <1>4, <1>b DEF HandleSucceeding
  <2> QED
    BY <2>1, <2>2, <2>3, <1>a, <1>e, MutatesKeeps
<1>5. CASE HandleFailing(i)
  <2>1. ~IsAbort(w[i]) /\ ~IsTerminated(w[i].phase) /\ (UNCHANGED outside \/ CleansUp(w[i]))
        /\ w[i].phase = "Failing"
    BY <1>5 DEF HandleFailing, Handling, IsTerminated
  <2> DEFINE wf == [WithFinalizer(w[i]) EXCEPT !.phase = FailingTo]
  <2>2. Successor(w[i], wf) /\ wf.phase # "Ready"
    BY <1>0, <1>e, <2>1, HandledSuccessor DEF FailingTo, WorkflowPhases, WithFinalizer, CRD
  <2>3. (Mutates(i, wf) \/ Errs(i, "system")) /\ faults' \in Nat
    BY <1>5, <1>b DEF HandleFailing
  <2> HIDE DEF wf
  <2> QED
    BY <2>1, <2>2, <2>3, <1>a, <1>d, <1>e, MutatesKeeps, ErrsKeeps
<1>6. CASE HandleFailureNode(i)
  <2>1. ~IsAbort(w[i]) /\ ~IsTerminated(w[i].phase) /\ w[i].phase = "HandlingFailureNode"
    BY <1>6 DEF HandleFailureNode, Handling, IsTerminated
  <2>2. PICK v \in Visits(w[i].failure, Outcomes) :
            Visiting(i, "failure", w[i].failure, v,
                 [WithFinalizer(w[i]) EXCEPT !.failure = v.to, !.phase = FailureNodeTo(v.returns)])
    BY <1>6 DEF HandleFailureNode
  <2> DEFINE wf == [WithFinalizer(w[i]) EXCEPT !.failure = v.to, !.phase = FailureNodeTo(v.returns)]
  <2>3. v.to \in NodePhases \ {"NotYetStarted"}
    BY <1>0, VisitsStart
  <2>4. FailureNodeTo(v.returns) \in {"HandlingFailureNode", "Failed"}
    BY DEF FailureNodeTo
  <2>5. Successor(w[i], wf) /\ wf.phase # "Ready"
    BY <1>0, <2>1, <2>3, <2>4
       DEF Successor, WithFinalizer, CRD, IsAbort, KeepsStarted, Past, WorkflowPhases
  <2> QED
    BY <1>0, <1>e, <2>1, <2>2, <2>5, VisitingKeeps DEF Payloads
<1>7. CASE HandleTerminated(i) \/ (HandleAborted(i) /\ IsTerminated(w[i].phase))
  <2>1. Mutates(i, w[i]) /\ UNCHANGED outside /\ faults' \in Nat
    BY <1>7, <1>b DEF HandleTerminated, HandleAborted
  <2>2. Successor(w[i], w[i])
    BY <1>0, <1>7 DEF Successor, KeepsStarted, HandleTerminated
  <2> QED
    BY <2>1, <2>2, <1>a, MutatesKeeps
<1>8. CASE HandleAborted(i) /\ ~IsTerminated(w[i].phase)
  <2>1. (UNCHANGED outside \/ CleansUp(w[i])) /\ faults' \in Nat /\ IsAbort(w[i])
    BY <1>8, <1>b DEF HandleAborted
  <2>2. \/ Errs(i, "system")
        \/ \E to \in {"Failed", "Aborted"} : Mutates(i, [w[i] EXCEPT !.phase = to])
    BY <1>8 DEF HandleAborted, AbortTo
  <2>3. Past(w[i])
    BY <2>1 DEF Past
  <2>4. ASSUME NEW to \in {"Failed", "Aborted"}
        PROVE  LET wf == [w[i] EXCEPT !.phase = to]
               IN  Successor(w[i], wf) /\ wf.phase = to
    BY <1>0, <1>8 DEF Successor, KeepsStarted, CRD, IsTerminated, WorkflowPhases, Past
  <2> QED
    BY <1>8, <2>1, <2>2, <2>3, <2>4, <1>a, <1>d, MutatesKeeps, ErrsKeeps
<1> QED
  BY <1>1, <1>2, <1>3, <1>4, <1>5, <1>6, <1>7, <1>8 DEF Mutate

---------------------------------------------------------------------------
(* Reporting to admin.                                                     *)

(* Admin's answers, as far as an outcome goes: an event that is accepted,  *)
(* or that admin already has, is a recorded outcome afterwards.            *)
LEMMA RecordedKeeps ==
    ASSUME IInv, NEW i \in Instances, pc[i] \in Reporting,
           NEW phase \in {mutated[i].phase, "Failed"}, NEW e \in Errors,
           Recorded(i, phase, e), UNCHANGED faults \/ Fault,
           sent' \in [Instances -> SUBSET Events], adminPhase' \in AdminPhases,
           recorded \subseteq recorded', recorded' \subseteq Events,
           refused \subseteq refused', refused' \subseteq Events, AdminOK',
           e = "none" /\ phase = "Success" => "SUCCEEDED" \in recorded',
           e = "none" /\ phase = "Aborted" => "ABORTED" \in recorded',
           e = "none" /\ phase = "Failed" => Told'
    PROVE  IInv'
<1> USE DEF Recorded, k8s, outside
<1>0. /\ Successor(w[i], mutated[i]) /\ mutated[i] \in CRD /\ ~IsTerminated(w[i].phase)
      /\ mutated[i].phase \in WorkflowPhases
  BY DEF IInv, RoundOK, Successor, CRD, Reporting, Storing
<1> DEFINE wf == [mutated[i] EXCEPT !.phase = phase]
<1>1. /\ wf \in CRD /\ wf.phase = phase /\ wf # NoCRD /\ mutated[i] # NoCRD
      /\ wf.deleting = mutated[i].deleting /\ wf.failedAttempts = mutated[i].failedAttempts
  BY <1>0, VersionsAssumption DEF CRD, WorkflowPhases, NoCRD
<1>2. mutated'[i] = wf /\ (\A j \in Instances \ {i} : mutated'[j] = mutated[j])
  BY DEF IInv, TypeOK
<1>3. mutated' \in [Instances -> CRD \cup {NoCRD}]
  BY <1>1, <1>2 DEF IInv, TypeOK
<1>4. TypeOK'
  BY <1>3 DEF IInv, TypeOK, Positions, Fault
<1>5. CopiesOK'
  <2>1. Copies' = Copies
    BY DEF Copies
  <2> QED
    BY <2>1, QuietStep DEF IInv
<1>6. Successor(w[i], wf)
  <2>1. Past(mutated[i]) => Past(wf)
    BY <1>1 DEF Past, IsAbort
  <2> QED
    BY <1>0, <1>1, <2>1 DEF Successor, CRD, KeepsStarted, IsTerminated
<1>a. Told => Told'
  BY DEF Told
<1>7. ASSUME NEW j \in Instances PROVE RoundOK(j)'
  <2>1. CASE j # i
    <3>1. RoundOK(j) /\ (Outcome(mutated[j]) => Outcome(mutated[j])')
      BY <1>2, <2>1 DEF IInv, Outcome
    <3> QED
      BY <2>1, <3>1, <1>2, <1>a DEF IInv, TypeOK, RoundOK
  <2>2. CASE j = i
    <3>1. pc'[i] = "update" /\ err'[i] = e /\ w'[i] = w[i]
      BY DEF IInv, TypeOK
    <3>2. w[i] # NoCRD /\ ~w[i].completed
      BY RoundCopy DEF InRound
    <3>3. e = "none" => Outcome(mutated[i])' /\ (IsTerminated(wf.phase) => Told')
      BY <1>1, <1>2 DEF Outcome, Told, IsTerminated
    <3> HIDE DEF wf
    <3> QED
      BY <2>2, <3>1, <3>2, <3>3, <1>0, <1>2, <1>6 DEF RoundOK, Reporting, Storing
  <2> QED
    BY <2>1, <2>2
<1>8. PayloadsAreRecorded'
  BY DEF IInv, PayloadsAreRecorded
<1> QED
  BY <1>4, <1>5, <1>7, <1>8 DEF IInv

(* What a round that reports has to report.                                *)
LEMMA ReportedEvent ==
    ASSUME IInv, NEW i \in Instances, pc[i] \in Reporting
    PROVE  /\ mutated[i] \in CRD /\ mutated[i].phase \in WorkflowPhases \ {"Ready"}
           /\ EventOf(i) \in Events
           /\ EventOf(i) = "SUCCEEDED" <=> mutated[i].phase = "Success"
           /\ EventOf(i) = "ABORTED" <=> mutated[i].phase = "Aborted"
           /\ EventOf(i) = "FAILED" <=> mutated[i].phase = "Failed"
           /\ IsExecutionTerminal(EventOf(i)) => Past(crd)
<1>1. /\ mutated[i] \in CRD /\ mutated[i].phase \in WorkflowPhases \ {"Ready"}
      /\ IsTerminated(mutated[i].phase) => Past(w[i])
  BY DEF IInv, RoundOK, Successor, CRD, Reporting, Storing
<1>2. /\ EventOf(i) \in Events
      /\ EventOf(i) = "SUCCEEDED" <=> mutated[i].phase = "Success"
      /\ EventOf(i) = "ABORTED" <=> mutated[i].phase = "Aborted"
      /\ EventOf(i) = "FAILED" <=> mutated[i].phase = "Failed"
  BY <1>1 DEF EventOf, EventPhase, Events, WorkflowPhases
<1>3. Past(w[i]) => Past(crd)
  BY RoundCopy DEF InRound, IInv, CopiesOK, CopyOK
<1> QED
  BY <1>1, <1>2, <1>3 DEF IsExecutionTerminal, IsTerminated

(* Admin writes an event that it has taken.                                *)
LEMMA AcceptedEvent ==
    ASSUME IInv, NEW i \in Instances, pc[i] \in Reporting, Accept(EventOf(i)), crd' = crd
    PROVE  /\ adminPhase' \in AdminPhases /\ recorded' \subseteq Events
           /\ recorded \subseteq recorded' /\ RowOK'
           /\ {EventOf(i)} \cap {"SUCCEEDED", "ABORTED", "FAILED"} \subseteq recorded'
<1>1. Past(crd)' = Past(crd)
  BY DEF Past
<1>2. /\ Events \subseteq AdminPhases /\ adminPhase \in AdminPhases /\ recorded \subseteq Events
  BY DEF Events, AdminPhases, IInv, TypeOK
<1> QED
  BY <1>1, <1>2, ReportedEvent DEF Accept, RowOK, IsExecutionTerminal

LEMMA RecordKeeps ==
    ASSUME IInv, NEW i \in Instances, Record(i)
    PROVE  IInv'
<1> DEFINE event == EventOf(i)
           reply == EventReply(row, adminPhase, event)
<1>0. pc[i] \in Reporting
  BY DEF Record, RecordFiltered, RecordRefused, RecordChecked, RecordEvent, RecordFails, Reporting
<1>1. /\ mutated[i] \in CRD /\ mutated[i].phase \in WorkflowPhases \ {"Ready"}
      /\ event \in Events
      /\ event = "SUCCEEDED" <=> mutated[i].phase = "Success"
      /\ event = "ABORTED" <=> mutated[i].phase = "Aborted"
      /\ event = "FAILED" <=> mutated[i].phase = "Failed"
  BY <1>0, ReportedEvent
<1>2. /\ Events \subseteq AdminPhases /\ adminPhase \in AdminPhases /\ sent \in [Instances -> SUBSET Events]
      /\ recorded \subseteq Events /\ refused \subseteq Events /\ AdminOK
      /\ "none" \in Errors /\ "system" \in Errors
  BY DEF Events, AdminPhases, IInv, TypeOK, Errors
<1>3. /\ reply \in Replies /\ (reply = "AlreadyExists" => adminPhase = event)
      /\ reply = "AlreadyInTerminalState" => IsExecutionTerminal(adminPhase)
  BY DEF EventReply, Replies
<1>a. ASSUME Recorded(i, mutated[i].phase, "none") \/ Recorded(i, mutated[i].phase, "system")
             \/ \E phase, e : Recorded(i, phase, e)
      PROVE  crd' = crd /\ (Past(crd))' = Past(crd)
  BY <1>a DEF Recorded, k8s, Past
<1> HIDE DEF event, reply
<1>5. CASE RecordFiltered(i)
  <2>1. /\ event \in sent[i] /\ Recorded(i, mutated[i].phase, "none")
        /\ UNCHANGED <<sent, adminPhase, recorded, refused, faults>>
    BY <1>5 DEF RecordFiltered, event
  <2>2. AdminOK'
    BY <1>2, <1>a, <2>1 DEF AdminOK, SentOK, RowOK
  <2>4. {event} \cap {"SUCCEEDED", "ABORTED", "FAILED"} \subseteq recorded'
    BY <1>2, <2>1 DEF AdminOK, SentOK, IsExecutionTerminal
  <2>5. mutated[i].phase = "Failed" => Told'
    BY <1>1, <2>4 DEF Told
  <2> QED
    BY <1>0, <1>1, <1>2, <2>1, <2>2, <2>4, <2>5, RecordedKeeps
<1>6. CASE RecordRefused(i)
  <2> DEFINE phase == PhaseAfter(mutated[i].phase, reply)
             e == ErrorOf(event, reply)
  <2>1. /\ reply # "OK"
        /\ refused' = IF reply \in {"NotFound", "IncompatibleCluster"}
                      THEN refused \cup {x \in {event} : IsExecutionTerminal(x)} ELSE refused
        /\ Recorded(i, phase, e)
        /\ UNCHANGED <<sent, adminPhase, recorded, faults>>
    BY <1>6 DEF RecordRefused, event, reply
  <2>2. AdminOK'
    BY <1>2, <1>a, <2>1 DEF AdminOK, SentOK, RowOK
  <2>3. refused \subseteq refused' /\ refused' \subseteq Events
    BY <1>1, <1>2, <2>1
  <2>4. /\ e \in Errors
        /\ e = "none" => \/ reply \in {"AlreadyExists", "AlreadyInTerminalState"}
                         \/ event \in {"FAILING", "FAILED"} /\ reply \in {"NotFound", "IncompatibleCluster"}
    BY <1>3, <2>1 DEF ErrorOf, Errors
  <2>5. phase \in {mutated[i].phase, "Failed"} /\ (reply # "AlreadyInTerminalState" => phase = mutated[i].phase)
        /\ (reply = "AlreadyInTerminalState" => phase = "Failed")
    BY DEF PhaseAfter
  <2>6. reply = "AlreadyExists" => {event} \cap {"SUCCEEDED", "ABORTED", "FAILED"} \subseteq recorded'
    BY <1>2, <1>3, <2>1 DEF AdminOK, RowOK, IsExecutionTerminal
  <2>7. /\ e = "none" /\ phase = "Success" => "SUCCEEDED" \in recorded'
        /\ e = "none" /\ phase = "Aborted" => "ABORTED" \in recorded'
    BY <1>1, <2>4, <2>5, <2>6
  <2>8. e = "none" /\ phase = "Failed" => Told'
    <3>1. reply = "AlreadyInTerminalState" => recorded' # {}
      BY <1>2, <1>3, <2>1 DEF AdminOK, RowOK
    <3>2. reply = "AlreadyExists" /\ event = "FAILED" => recorded' # {}
      BY <2>6
    <3>3. reply \in {"NotFound", "IncompatibleCluster"} /\ event = "FAILED" => "FAILED" \in refused'
      BY <2>1 DEF IsExecutionTerminal
    <3> QED
      BY <1>1, <2>4, <2>5, <3>1, <3>2, <3>3 DEF Told
  <2> HIDE DEF phase, e
  <2> QED
    BY <1>0, <1>2, <2>1, <2>2, <2>3, <2>4, <2>5, <2>7, <2>8, RecordedKeeps
<1>7. CASE RecordChecked(i)
  <2>1. /\ pc' = [pc EXCEPT ![i] = "recording"]
        /\ UNCHANGED <<k8s, lister, caches, w, mutated, err, streak, outside, admin, faults, superseded>>
    BY <1>7 DEF RecordChecked
  <2> USE DEF k8s, caches, outside, admin
  <2>2. TypeOK'
    BY <2>1 DEF IInv, TypeOK, Positions
  <2>3. CopiesOK'
    <3>1. Copies' = Copies
      BY <2>1 DEF Copies
    <3> QED
      BY <2>1, <3>1, QuietStep DEF IInv
  <2>4. ASSUME NEW j \in Instances PROVE RoundOK(j)'
    <3>1. pc'[j] = pc[j] \/ (j = i /\ pc'[j] = "recording")
      BY <2>1 DEF IInv, TypeOK
    <3> QED
      BY <1>0, <2>1, <3>1 DEF IInv, RoundOK, InRound, Reporting, Storing, Outcome, Told
  <2>5. AdminOK' /\ PayloadsAreRecorded'
    BY <2>1 DEF IInv, AdminOK, SentOK, RowOK, PayloadsAreRecorded
  <2> QED
    BY <2>2, <2>3, <2>4, <2>5 DEF IInv
<1>8. CASE RecordEvent(i)
  <2>1. /\ Accept(event)
        /\ sent' = [sent EXCEPT ![i] = @ \cup {event}]
        /\ Recorded(i, mutated[i].phase, "none")
        /\ UNCHANGED <<refused, faults>>
    BY <1>8 DEF RecordEvent, event
  <2>2. /\ adminPhase' \in AdminPhases /\ recorded' \subseteq Events
        /\ recorded \subseteq recorded' /\ RowOK'
        /\ {event} \cap {"SUCCEEDED", "ABORTED", "FAILED"} \subseteq recorded'
    BY <1>0, <1>a, <2>1, AcceptedEvent DEF event
  <2>3. sent' \in [Instances -> SUBSET Events]
    BY <1>1, <1>2, <2>1
  <2>4. ASSUME NEW j \in Instances PROVE SentOK(j)'
    <3>1. sent'[j] \subseteq sent[j] \cup {event}
      BY <1>2, <2>1
    <3> QED
      BY <1>2, <2>2, <3>1 DEF AdminOK, SentOK, IsExecutionTerminal
  <2>5. AdminOK'
    BY <2>2, <2>4 DEF AdminOK
  <2>6. mutated[i].phase = "Failed" => Told'
    BY <1>1, <2>2 DEF Told
  <2> QED
    BY <1>0, <1>1, <1>2, <2>1, <2>2, <2>3, <2>5, <2>6, RecordedKeeps
<1>9. CASE RecordFails(i)
  <2>1. /\ Accept(event) \/ UNCHANGED <<adminPhase, recorded>>
        /\ Recorded(i, mutated[i].phase, "system")
        /\ Fault
        /\ UNCHANGED <<sent, refused>>
    BY <1>9 DEF RecordFails, event
  <2>2. /\ adminPhase' \in AdminPhases /\ recorded' \subseteq Events
        /\ recorded \subseteq recorded' /\ RowOK'
    <3>1. CASE Accept(event)
      BY <1>0, <1>a, <2>1, <3>1, AcceptedEvent DEF event
    <3>2. CASE UNCHANGED <<adminPhase, recorded>>
      BY <1>2, <1>a, <2>1, <3>2 DEF AdminOK, RowOK
    <3> QED
      BY <2>1, <3>1, <3>2
  <2>3. AdminOK'
    BY <1>2, <2>1, <2>2 DEF AdminOK, SentOK
  <2> QED
    BY <1>0, <1>2, <2>1, <2>2, <2>3, RecordedKeeps
<1> QED
  BY <1>5, <1>6, <1>7, <1>8, <1>9 DEF Record

---------------------------------------------------------------------------
(* Storing the result of a round.                                          *)

(* What a round may leave of the worker's state when it is over.           *)
LEMMA EndRoundOK ==
    ASSUME IInv, NEW i \in Instances, NEW at \in {"idle", "down", "panic"}, EndRound(i, at),
           recorded' = recorded, refused' = refused
    PROVE  /\ pc' \in [Instances -> Positions] /\ w' \in [Instances -> CRD \cup {NoCRD}]
           /\ mutated' \in [Instances -> CRD \cup {NoCRD}] /\ err' \in [Instances -> Errors]
           /\ streak' \in [Instances -> Nat]
           /\ \A j \in Instances : w'[j] \in {w[j], NoCRD}
           /\ \A j \in Instances : RoundOK(j)'
<1>1. /\ pc' \in [Instances -> Positions] /\ w' \in [Instances -> CRD \cup {NoCRD}]
      /\ mutated' \in [Instances -> CRD \cup {NoCRD}] /\ err' \in [Instances -> Errors]
      /\ streak' \in [Instances -> Nat]
      /\ \A j \in Instances : w'[j] \in {w[j], NoCRD}
  BY DEF EndRound, IInv, TypeOK, Positions, Errors
<1>2. ASSUME NEW j \in Instances PROVE RoundOK(j)'
  <2>1. CASE j # i
    BY <2>1 DEF EndRound, IInv, TypeOK, RoundOK, Outcome, Told
  <2>2. CASE j = i
    <3>1. pc'[i] = at /\ w'[i] = NoCRD /\ err'[i] = "none"
      BY DEF EndRound, IInv, TypeOK
    <3> QED
      BY <2>2, <3>1 DEF RoundOK, InRound, Reporting, Storing
  <2> QED
    BY <2>1, <2>2
<1> QED
  BY <1>1, <1>2

(* A round that ends without a write.                                      *)
LEMMA EndRoundKeeps ==
    ASSUME IInv, NEW i \in Instances, NEW at \in {"idle", "down", "panic"}, EndRound(i, at),
           UNCHANGED <<k8s, lister, caches, outside, admin, superseded>>,
           UNCHANGED faults \/ Fault
    PROVE  IInv'
<1> USE DEF k8s, caches, outside, admin
<1>1. TypeOK'
  BY EndRoundOK DEF IInv, TypeOK, Fault
<1>2. CopiesOK'
  <2>1. Copies' \subseteq Copies \cup {NoCRD}
    BY EndRoundOK DEF Copies
  <2> QED
    BY <2>1, QuietStep DEF IInv
<1>3. AdminOK'
  BY DEF IInv, AdminOK, SentOK, RowOK
<1>4. PayloadsAreRecorded'
  BY DEF IInv, PayloadsAreRecorded
<1> QED
  BY <1>1, <1>2, <1>3, <1>4, EndRoundOK DEF IInv

(* An object that may be written over the copy `a'.                        *)
Storable(a, b) ==
    /\ b \in CRD
    /\ Honest(b)
    /\ Outcome(b)
    /\ KeepsStarted(a, b)
    /\ Past(a) => Past(b)

(* Every object that a round writes is one.                                *)
LEMMA StoredIsStorable ==
    ASSUME IInv, NEW i \in Instances, pc[i] \in Storing
    PROVE  Storable(w[i], ToStore(i)) /\ Storable(w[i], Shrunk(i))
<1>0. /\ w[i] \in CRD /\ Honest(w[i]) /\ Outcome(w[i]) /\ ~w[i].completed
      /\ w[i].phase \in WorkflowPhases /\ w[i].failedAttempts \in Nat
  BY RoundCopy DEF InRound, CRD
<1>a. \A c \in CRD : c # NoCRD
  BY VersionsAssumption DEF CRD, NoCRD
<1>b. /\ Past([w[i] EXCEPT !.phase = "Failing"])
      /\ Past(Finish([w[i] EXCEPT !.phase = "Failed"]))
  BY <1>0 DEF Past, Finish, CRD
<1>c. Past(w[i]) => Past(RecordSystemError(w[i]))
  BY <1>0, <1>a, RetriesAssumption DEF Past, RecordSystemError, CRD, IsAbort
<1>1. ASSUME ~IsTerminated(w[i].phase)
      PROVE  /\ Storable(w[i], [w[i] EXCEPT !.phase = "Failing"])
             /\ Storable(w[i], RecordSystemError(w[i]))
  BY <1>0, <1>b, <1>c, <1>1 DEF Storable, Honest, Outcome, KeepsStarted, RecordSystemError, CRD,
                                WorkflowPhases, IsTerminated
<1>2. Storable(w[i], Finish([w[i] EXCEPT !.phase = "Failed"]))
  BY <1>0, <1>b DEF Storable, Honest, Outcome, KeepsStarted, Finish, CRD, WorkflowPhases, IsTerminated
<1>3. CASE err[i] # "none"
  <2>1. ~IsTerminated(w[i].phase)
    BY <1>3 DEF IInv, RoundOK
  <2> QED
    BY <1>1, <1>2, <1>3, <2>1 DEF ToStore, Shrunk, MutatedWf
<1>4. CASE err[i] = "none"
  <2>1. Successor(w[i], mutated[i]) /\ Outcome(mutated[i]) /\ mutated[i] \in CRD
    BY <1>4 DEF IInv, RoundOK, Successor, Storing
  <2>2. ~IsTerminated(mutated[i].phase) => ~IsTerminated(w[i].phase)
    BY <2>1 DEF Successor
  <2>3. ~IsTerminated(mutated[i].phase) => Storable(w[i], mutated[i])
    BY <1>0, <2>1 DEF Storable, Successor, Honest
  <2>4. IsTerminated(mutated[i].phase) => Storable(w[i], Finish(mutated[i]))
    <3>1. IsTerminated(mutated[i].phase) => Past(Finish(mutated[i]))
      BY <2>1 DEF Past, Finish, CRD, IsTerminated
    <3> QED
      BY <2>1, <3>1 DEF Storable, Successor, Honest, Finish, CRD, KeepsStarted, Outcome
  <2>5. ~IsDisowned(i)
    BY <1>4 DEF IsDisowned
  <2>6. IsTerminated(mutated[i].phase) <=> IsTerminated(MutatedWf(i).phase)
    BY <1>4, <2>1 DEF MutatedWf, Finish, CRD
  <2> QED
    BY <1>1, <1>2, <1>4, <2>2, <2>3, <2>4, <2>5, <2>6 DEF ToStore, Shrunk, MutatedWf
<1> QED
  BY <1>3, <1>4

(* A write of a storable object keeps what is known of the copies.         *)
LEMMA WriteKeeps ==
    ASSUME IInv, NEW wf, NEW version \in FreshVersions, crd # NoCRD,
           Write(wf, version), Storable(crd, wf),
           recorded' = recorded, payloads' = payloads, lister' = lister,
           \A j \in Instances : w'[j] \in {w[j], NoCRD, crd'}
    PROVE  /\ crd' \in CRD \cup {NoCRD} /\ watch' \in [Instances -> Seq(CRD \cup {NoCRD})]
           /\ CopiesOK' /\ PayloadsAreRecorded' /\ (Past(crd) => Past(crd'))
<1> DEFINE new == IF wf.deleting /\ ~wf.finalizer THEN NoCRD ELSE [wf EXCEPT !.rv = version]
<1>0. version \in Versions \ InUse
  BY DEF FreshVersions
<1>1. new \in CRD \cup {NoCRD}
  BY <1>0 DEF Storable, CRD
<1> HIDE DEF new
<1>2. crd' = new /\ watch' = [j \in Instances |-> Notify(watch[j], new)]
  BY DEF Write, Publish, new
<1>3. watch' \in [Instances -> Seq(CRD \cup {NoCRD})]
  BY <1>1, <1>2, NotifyElements DEF IInv, TypeOK
<1>4. Copies' \subseteq Copies \cup {crd', NoCRD}
  <2>1. ASSUME NEW j \in Instances, NEW n \in DOMAIN watch'[j]
        PROVE  watch'[j][n] \in Copies \cup {crd'}
    <3>1. watch[j] \in Seq(CRD \cup {NoCRD}) /\ watch'[j] = Notify(watch[j], new)
      BY <1>2 DEF IInv, TypeOK
    <3>2. watch'[j][n] = new \/ \E m \in DOMAIN watch[j] : watch'[j][n] = watch[j][m]
      BY <1>1, <3>1, NotifyElements
    <3> QED
      BY <1>2, <3>2 DEF Copies
  <2> QED
    BY <2>1 DEF Copies
<1>5. CASE new = NoCRD
  <2>1. CopiesOK'
    BY <1>2, <1>4, <1>5, VanishStep DEF IInv
  <2> QED
    BY <1>1, <1>2, <1>3, <1>5, <2>1 DEF PayloadsAreRecorded, Past
<1>6. CASE new = [wf EXCEPT !.rv = version]
  <2>1. CopiesOK' /\ (Past(crd) => Past(crd'))
    BY <1>0, <1>2, <1>4, <1>6, WriteStep DEF IInv, Storable
  <2>2. new.dag = wf.dag /\ new.failure = wf.failure
    BY <1>6 DEF Storable, CRD
  <2>3. PayloadsAreRecorded'
    BY <1>2, <2>2 DEF IInv, PayloadsAreRecorded, Storable, KeepsStarted
  <2> QED
    BY <1>1, <1>2, <1>3, <2>1, <2>3
<1> QED
  BY <1>5, <1>6 DEF new

LEMMA RememberType ==
    ASSUME IInv, NEW i \in Instances, NEW wf \in CRD, Remember(i, wf)
    PROVE  /\ terminated' \in [Instances -> BOOLEAN]
           /\ staleRV' \in [Instances -> Versions \cup {NoVersion}]
           /\ superseded' \in [Instances -> SUBSET Versions]
           /\ sent' = sent
<1>1. wf.rv \in Versions
  BY DEF CRD
<1>2. IsTerminated(wf.phase) \in BOOLEAN /\ terminated[i] \in BOOLEAN
  BY DEF IsTerminated, IInv, TypeOK
<1>3. (terminated[i] \/ IsTerminated(wf.phase)) \in BOOLEAN
  OBVIOUS
<1>4. terminated' \in [Instances -> BOOLEAN]
  BY <1>3 DEF Remember, IInv, TypeOK
<1>5. \A q : Synced(i, q, lister[i]) \subseteq Versions
  BY DEF Synced, IInv, TypeOK
<1>6. superseded' \in [Instances -> SUBSET Versions]
  BY <1>1, <1>5 DEF Remember, IInv, TypeOK
<1> QED
  BY <1>1, <1>4, <1>6 DEF Remember, IInv, TypeOK

(* A write that ends the round, seen by the caches or not.                 *)
LEMMA FinalWriteKeeps ==
    ASSUME IInv, NEW i \in Instances, pc[i] \in Storing,
           NEW wf \in {ToStore(i), Shrunk(i)}, NEW version \in FreshVersions,
           crd # NoCRD, crd.rv = w[i].rv, Write(wf, version), EndRound(i, "idle"),
           Remember(i, wf) \/ UNCHANGED <<caches, superseded>>,
           UNCHANGED faults \/ Fault,
           UNCHANGED <<lister, outside, admin>>
    PROVE  IInv'
<1> USE DEF caches, outside, admin
<1>1. crd = w[i] /\ Storable(w[i], wf)
  BY RoundCopy, StoredIsStorable DEF InRound
<1>2. /\ crd' \in CRD \cup {NoCRD} /\ watch' \in [Instances -> Seq(CRD \cup {NoCRD})]
      /\ CopiesOK' /\ PayloadsAreRecorded' /\ (Past(crd) => Past(crd'))
  BY <1>1, EndRoundOK, WriteKeeps
<1>3. wf \in CRD
  BY <1>1 DEF Storable
<1>4. /\ terminated' \in [Instances -> BOOLEAN]
      /\ staleRV' \in [Instances -> Versions \cup {NoVersion}]
      /\ superseded' \in [Instances -> SUBSET Versions]
      /\ sent' = sent
  BY <1>3, RememberType DEF IInv, TypeOK
<1>a. /\ pc' \in [Instances -> Positions] /\ w' \in [Instances -> CRD \cup {NoCRD}]
      /\ mutated' \in [Instances -> CRD \cup {NoCRD}] /\ err' \in [Instances -> Errors]
      /\ streak' \in [Instances -> Nat]
      /\ \A j \in Instances : RoundOK(j)'
  BY EndRoundOK
<1>b. faults' \in Nat
  BY DEF IInv, TypeOK, Fault
<1>5. TypeOK'
  BY <1>2, <1>4, <1>a, <1>b DEF IInv, TypeOK
<1>6. AdminOK'
  BY <1>2, <1>4 DEF IInv, AdminOK, SentOK, RowOK
<1> QED
  BY <1>2, <1>5, <1>6, <1>a DEF IInv

(* A write that another round of the streak follows: that round's copy is  *)
(* the resource itself.                                                    *)
LEMMA StreakWriteKeeps ==
    ASSUME IInv, NEW i \in Instances, pc[i] = "update", NEW version \in FreshVersions,
           crd # NoCRD, crd.rv = w[i].rv, Write(ToStore(i), version), Remember(i, ToStore(i)),
           err[i] = "none", ~IsTerminated(mutated[i].phase),
           pc' = [pc EXCEPT ![i] = "mutate"],
           w' = [w EXCEPT ![i] = [ToStore(i) EXCEPT !.rv = version]],
           mutated' = [mutated EXCEPT ![i] = NoCRD],
           streak' = [streak EXCEPT ![i] = @ + 1],
           UNCHANGED <<err, lister, outside, admin, faults>>
    PROVE  IInv'
<1> USE DEF outside, admin
<1>1. crd = w[i] /\ Storable(w[i], ToStore(i)) /\ ~w[i].completed
  BY RoundCopy, StoredIsStorable DEF InRound, Storing
<1>2. ToStore(i) = mutated[i] /\ Successor(w[i], mutated[i])
  BY DEF ToStore, IsDisowned, MutatedWf, IInv, RoundOK, Storing
<1>3. ToStore(i) \in CRD /\ ToStore(i).finalizer /\ ~ToStore(i).deleting /\ ~ToStore(i).completed
  BY <1>1, <1>2 DEF Successor
<1>4. crd' = [ToStore(i) EXCEPT !.rv = version] /\ w'[i] = crd'
  BY <1>3 DEF Write, Publish, IInv, TypeOK
<1>5. version \in Versions
  BY DEF FreshVersions
<1>6. crd' \in CRD /\ ~crd'.completed
  BY <1>3, <1>4, <1>5 DEF CRD
<1>7. \A j \in Instances : w'[j] \in {w[j], NoCRD, crd'}
  BY <1>4 DEF IInv, TypeOK
<1>8. /\ crd' \in CRD \cup {NoCRD} /\ watch' \in [Instances -> Seq(CRD \cup {NoCRD})]
      /\ CopiesOK' /\ PayloadsAreRecorded' /\ (Past(crd) => Past(crd'))
  BY <1>1, <1>7, WriteKeeps
<1>9. /\ terminated' \in [Instances -> BOOLEAN]
      /\ staleRV' \in [Instances -> Versions \cup {NoVersion}]
      /\ superseded' \in [Instances -> SUBSET Versions]
      /\ sent' = sent
  BY <1>3, RememberType
<1>10. w' \in [Instances -> CRD \cup {NoCRD}]
  BY <1>4, <1>6 DEF IInv, TypeOK
<1>11. TypeOK'
  BY <1>8, <1>9, <1>10 DEF IInv, TypeOK, Positions
<1>12. ASSUME NEW j \in Instances PROVE RoundOK(j)'
  <2>1. CASE j # i
    BY <2>1 DEF IInv, TypeOK, RoundOK, Outcome, Told
  <2>2. CASE j = i
    <3>1. pc'[i] = "mutate" /\ err'[i] = "none" /\ w'[i] # NoCRD /\ ~w'[i].completed
      BY <1>4, <1>6, VersionsAssumption DEF IInv, TypeOK, CRD, NoCRD
    <3> QED
      BY <2>2, <3>1 DEF RoundOK, InRound, Reporting, Storing
  <2> QED
    BY <2>1, <2>2
<1>13. AdminOK'
  BY <1>8, <1>9 DEF IInv, AdminOK, SentOK, RowOK
<1> QED
  BY <1>8, <1>11, <1>12, <1>13 DEF IInv

LEMMA StoreKeeps ==
    ASSUME IInv, NEW i \in Instances, Store(i)
    PROVE  IInv'
<1>1. CASE SkipUpdate(i) \/ StoreConflict(i) \/ StoreGone(i)
  BY <1>1, EndRoundKeeps DEF SkipUpdate, StoreConflict, StoreGone
<1>2. CASE StoreUpdate(i)
  <2>1. PICK version \in FreshVersions :
            /\ Write(ToStore(i), version)
            /\ Remember(i, ToStore(i))
            /\ IF err[i] = "none" /\ ~IsTerminated(mutated[i].phase)
                    /\ streak[i] + 1 < MaxStreakLength
               THEN /\ pc' = [pc EXCEPT ![i] = "mutate"]
                    /\ w' = [w EXCEPT ![i] = [ToStore(i) EXCEPT !.rv = version]]
                    /\ mutated' = [mutated EXCEPT ![i] = NoCRD]
                    /\ streak' = [streak EXCEPT ![i] = @ + 1]
                    /\ UNCHANGED err
               ELSE EndRound(i, "idle")
    BY <1>2 DEF StoreUpdate
  <2>2. /\ pc[i] = "update" /\ crd # NoCRD /\ crd.rv = w[i].rv
        /\ UNCHANGED <<lister, outside, admin, faults>>
    BY <1>2 DEF StoreUpdate, Updating
  <2>3. CASE EndRound(i, "idle")
    BY <2>1, <2>2, <2>3, FinalWriteKeeps DEF Storing
  <2>4. CASE ~EndRound(i, "idle")
    BY <2>1, <2>2, <2>4, StreakWriteKeeps
  <2> QED
    BY <2>3, <2>4
<1>3. CASE StoreTooLarge(i)
  <2>1. CASE EndRound(i, "idle")
    BY <1>3, <2>1, EndRoundKeeps DEF StoreTooLarge
  <2>2. CASE ~EndRound(i, "idle")
    <3>1. /\ pc[i] = "update" /\ pc' = [pc EXCEPT ![i] = "large"] /\ Fault
          /\ UNCHANGED <<w, mutated, err, streak, k8s, lister, caches, outside, admin, superseded>>
      BY <1>3, <2>2 DEF StoreTooLarge, Updating
    <3> USE DEF k8s, caches, outside, admin
    <3>2. TypeOK'
      BY <3>1 DEF IInv, TypeOK, Positions, Fault
    <3>3. CopiesOK'
      <4>1. Copies' = Copies
        BY <3>1 DEF Copies
      <4> QED
        BY <3>1, <4>1, QuietStep DEF IInv
    <3>4. ASSUME NEW j \in Instances PROVE RoundOK(j)'
      <4>1. pc'[j] = pc[j] \/ (j = i /\ pc'[j] = "large" /\ pc[j] = "update")
        BY <3>1 DEF IInv, TypeOK
      <4> QED
        BY <3>1, <4>1 DEF IInv, RoundOK, InRound, Reporting, Storing, Outcome, Told
    <3>5. AdminOK' /\ PayloadsAreRecorded'
      BY <3>1 DEF IInv, AdminOK, SentOK, RowOK, PayloadsAreRecorded
    <3> QED
      BY <3>2, <3>3, <3>4, <3>5 DEF IInv
  <2> QED
    BY <2>1, <2>2
<1>4. CASE StoreShrunk(i)
  <2>1. PICK version \in FreshVersions : Write(Shrunk(i), version)
    BY <1>4 DEF StoreShrunk
  <2>2. /\ pc[i] = "large" /\ crd # NoCRD /\ crd.rv = w[i].rv
        /\ Remember(i, Shrunk(i)) /\ EndRound(i, "idle")
        /\ UNCHANGED <<lister, outside, admin, faults>>
    BY <1>4 DEF StoreShrunk
  <2> QED
    BY <2>1, <2>2, FinalWriteKeeps DEF Storing
<1>5. CASE StoreFails(i)
  <2>1. CASE UNCHANGED k8s
    BY <1>5, <2>1, EndRoundKeeps DEF StoreFails
  <2>2. CASE ~UNCHANGED k8s
    <3>1. PICK version \in FreshVersions :
            Write(IF pc[i] = "large" THEN Shrunk(i) ELSE ToStore(i), version)
      BY <1>5, <2>2 DEF StoreFails
    <3>2. /\ pc[i] \in Storing /\ crd # NoCRD /\ crd.rv = w[i].rv
          /\ EndRound(i, "idle") /\ Fault
          /\ UNCHANGED <<lister, caches, outside, admin, superseded>>
      BY <1>5, <2>2 DEF StoreFails, Updating, Storing
    <3> QED
      BY <3>1, <3>2, FinalWriteKeeps
  <2> QED
    BY <2>1, <2>2
<1> QED
  BY <1>1, <1>2, <1>3, <1>4, <1>5 DEF Store

---------------------------------------------------------------------------
(* Starting a round, and everyone else.                                    *)

LEMMA HandleGetKeeps ==
    ASSUME IInv, NEW i \in Instances, HandleGet(i)
    PROVE  IInv'
<1> USE DEF HandleGet, k8s, caches, outside, admin
<1>1. lister[i] \in Copies /\ lister[i] \in CRD /\ CopyOK(lister[i])
  BY DEF IInv, TypeOK, Copies, CopiesOK
<1>2. ~lister[i].completed
  BY <1>1 DEF CopyOK, Honest
<1>3. TypeOK'
  BY DEF IInv, TypeOK, Positions
<1>4. CopiesOK'
  <2>1. Copies' \subseteq Copies
    BY DEF Copies, IInv, TypeOK
  <2> QED
    BY <2>1, QuietStep DEF IInv
<1>5. ASSUME NEW j \in Instances PROVE RoundOK(j)'
  <2>1. CASE j # i
    BY <2>1 DEF IInv, TypeOK, RoundOK, Outcome, Told
  <2>2. CASE j = i
    <3>1. pc'[i] = "mutate" /\ w'[i] = lister[i] /\ err'[i] = "none"
      BY DEF IInv, TypeOK, RoundOK, Storing
    <3> QED
      BY <1>2, <2>2, <3>1 DEF RoundOK, InRound, Reporting, Storing
  <2> QED
    BY <2>1, <2>2
<1>6. AdminOK' /\ PayloadsAreRecorded'
  BY DEF IInv, AdminOK, SentOK, RowOK, PayloadsAreRecorded
<1> QED
  BY <1>3, <1>4, <1>5, <1>6 DEF IInv

LEMMA InformerKeeps ==
    ASSUME IInv, NEW i \in Instances, InformerDelivers(i)
    PROVE  IInv'
<1> USE DEF InformerDelivers, caches, outside, admin, round
<1>0. /\ watch[i] \in Seq(CRD \cup {NoCRD}) /\ watch[i] # <<>>
      /\ Head(watch[i]) = watch[i][1] /\ 1 \in DOMAIN watch[i]
      /\ Head(watch[i]) \in CRD \cup {NoCRD} /\ Tail(watch[i]) \in Seq(CRD \cup {NoCRD})
  BY DEF IInv, TypeOK
<1>1. \A n \in DOMAIN Tail(watch[i]) : n + 1 \in DOMAIN watch[i] /\ Tail(watch[i])[n] = watch[i][n + 1]
  BY <1>0
<1>2. superseded' \in [Instances -> SUBSET Versions]
  BY DEF IInv, TypeOK, Synced
<1>3. TypeOK'
  BY <1>0, <1>2 DEF IInv, TypeOK
<1>4. Copies' \subseteq Copies
  <2>1. \A j \in Instances : lister'[j] \in Copies
    BY <1>0 DEF IInv, TypeOK, Copies
  <2>2. ASSUME NEW j \in Instances, NEW n \in DOMAIN watch'[j] PROVE watch'[j][n] \in Copies
    <3>1. watch'[j] = IF j = i THEN Tail(watch[i]) ELSE watch[j]
      BY DEF IInv, TypeOK
    <3> QED
      BY <1>1, <3>1 DEF Copies
  <2>3. \A j \in Instances : w'[j] \in Copies
    BY DEF Copies
  <2> QED
    BY <2>1, <2>2, <2>3 DEF Copies
<1>5. CopiesOK'
  BY <1>4, QuietStep DEF IInv
<1>6. \A j \in Instances : RoundOK(j)'
  BY DEF IInv, RoundOK, Outcome, Told
<1>7. AdminOK' /\ PayloadsAreRecorded'
  BY DEF IInv, AdminOK, SentOK, RowOK, PayloadsAreRecorded
<1> QED
  BY <1>3, <1>5, <1>6, <1>7 DEF IInv

LEMMA RestartKeeps ==
    ASSUME IInv, NEW i \in Instances, Restart(i)
    PROVE  IInv'
<1> USE DEF Restart, outside, admin
<1>1. TypeOK'
  BY DEF IInv, TypeOK, Positions
<1>2. CopiesOK'
  <2>1. Copies' \subseteq Copies \cup {crd}
    BY DEF Copies, IInv, TypeOK
  <2> QED
    BY <2>1, QuietStep DEF IInv
<1>3. ASSUME NEW j \in Instances PROVE RoundOK(j)'
  <2>1. pc'[j] = pc[j] \/ (j = i /\ pc'[j] = "idle" /\ pc[j] \in {"down", "panic"})
    BY DEF IInv, TypeOK
  <2> QED
    BY <2>1 DEF IInv, RoundOK, Outcome, Told, InRound, Reporting, Storing
<1>4. AdminOK' /\ PayloadsAreRecorded'
  BY DEF IInv, TypeOK, AdminOK, SentOK, RowOK, PayloadsAreRecorded
<1> QED
  BY <1>1, <1>2, <1>3, <1>4 DEF IInv

(* Steps that change neither the resource nor a round.                     *)
LEMMA ElsewhereKeeps ==
    ASSUME IInv,
           \/ TerminateExecution \/ SetExecutionAborting \/ TerminateFails \/ InsertRow \/ LoseRow
           \/ Abort /\ ~Delete
           \/ \E i \in Instances : ForgetTerminated(i)
    PROVE  IInv'
<1> USE DEF TerminateExecution, SetExecutionAborting, TerminateFails, Abort, InsertRow, LoseRow, ForgetTerminated,
            k8s, caches, round, outside, admin
<1>1. /\ row' \in Rows /\ adminPhase' \in AdminPhases /\ aborting' \in Calls /\ faults' \in Nat
      /\ adminPhase' = adminPhase \/ adminPhase' = "ABORTING"
  <2>1. CASE TerminateExecution \/ SetExecutionAborting \/ TerminateFails \/ (Abort /\ ~Delete) \/ InsertRow
    BY <2>1 DEF IInv, TypeOK, Rows, AdminPhases, Calls, Fault
  <2>2. CASE LoseRow
    BY <2>2, LostRowsAssumption DEF IInv, TypeOK, Rows, Fault
  <2>3. CASE \E i \in Instances : ForgetTerminated(i)
    BY <2>3 DEF IInv, TypeOK, Fault
  <2> QED
    BY <2>1, <2>2, <2>3
<1>2. /\ terminated' \in [Instances -> BOOLEAN]
      /\ superseded' \in [Instances -> SUBSET Versions]
  BY DEF IInv, TypeOK
<1>3. /\ UNCHANGED <<crd, watch, lister, staleRV, sent, pc, w, mutated, err, streak, outside>>
      /\ recorded' = recorded /\ refused' = refused
  OBVIOUS
<1>4. TypeOK'
  BY <1>1, <1>2, <1>3 DEF IInv, TypeOK
<1>5. CopiesOK'
  <2>1. Copies' = Copies
    BY <1>3 DEF Copies
  <2> QED
    BY <1>3, <2>1, QuietStep DEF IInv
<1>6. \A j \in Instances : RoundOK(j)'
  BY <1>3 DEF IInv, RoundOK, Outcome, Told
<1>7. AdminOK' /\ PayloadsAreRecorded'
  BY <1>1, <1>3 DEF IInv, AdminOK, SentOK, RowOK, IsExecutionTerminal, PayloadsAreRecorded
<1> QED
  BY <1>4, <1>5, <1>6, <1>7 DEF IInv

LEMMA DeleteKeeps ==
    ASSUME IInv, Delete, aborting' \in Calls
    PROVE  IInv'
<1> USE DEF caches, round, outside, admin
<1>1. PICK version \in FreshVersions : Write([crd EXCEPT !.deleting = TRUE], version)
  BY DEF Delete
<1>2. crd # NoCRD /\ crd \in CRD /\ CopyOK(crd)
  BY DEF Delete, IInv, TypeOK, CopiesOK
<1>3. Storable(crd, [crd EXCEPT !.deleting = TRUE])
  <2>1. Past(crd) => Past([crd EXCEPT !.deleting = TRUE])
    BY <1>2, VersionsAssumption DEF Past, IsAbort, CRD, NoCRD
  <2> QED
    BY <1>2, <2>1 DEF Storable, CopyOK, Honest, Outcome, KeepsStarted, CRD
<1>4. /\ crd' \in CRD \cup {NoCRD} /\ watch' \in [Instances -> Seq(CRD \cup {NoCRD})]
      /\ CopiesOK' /\ PayloadsAreRecorded' /\ (Past(crd) => Past(crd'))
  BY <1>1, <1>2, <1>3, WriteKeeps DEF Delete, IInv, TypeOK
<1>5. TypeOK'
  BY <1>4 DEF Delete, IInv, TypeOK
<1>6. AdminOK' /\ \A j \in Instances : RoundOK(j)'
  BY <1>4 DEF Delete, IInv, RoundOK, AdminOK, SentOK, RowOK, Outcome, Told
<1> QED
  BY <1>4, <1>5, <1>6 DEF IInv

---------------------------------------------------------------------------
(* The theorems.                                                           *)

LEMMA InitEstablishes == Init => IInv
<1> SUFFICES ASSUME Init PROVE IInv
  OBVIOUS
<1>1. PICK rv \in Versions :
        \/ crd = NewCRD(rv) /\ row \in {"here", "pending"}
           /\ adminPhase = "UNDEFINED" /\ recorded = {}
        \/ crd = LegacyCRD(rv) /\ row = "here"
           /\ adminPhase = "SUCCEEDED" /\ recorded = {"SUCCEEDED"}
  BY DEF Init
<1>2. NewCRD(rv) \in CRD /\ LegacyCRD(rv) \in CRD
  BY DEF NewCRD, LegacyCRD, CRD, WorkflowPhases, NodePhases
<1>3. crd \in CRD /\ crd # NoCRD /\ Honest(crd) /\ Outcome(crd)
  <2>1. NewCRD(rv).phase = "Ready" /\ ~NewCRD(rv).completed
        /\ NewCRD(rv).dag = "NotYetStarted" /\ NewCRD(rv).failure = "NotYetStarted"
    BY DEF NewCRD
  <2>2. LegacyCRD(rv).phase = "Success" /\ ~LegacyCRD(rv).completed /\ LegacyCRD(rv).finalizer
    BY DEF NewCRD, LegacyCRD
  <2>3. crd.rv \in Versions
    BY <1>1, <1>2 DEF CRD
  <2> QED
    BY <1>1, <1>2, <2>1, <2>2, <2>3, VersionsAssumption DEF Honest, Outcome, NoCRD, IsTerminated
<1>4. TypeOK
  <2>1. row \in Rows /\ adminPhase \in AdminPhases /\ recorded \subseteq Events
    BY <1>1 DEF Rows, AdminPhases, Events
  <2>2. watch \in [Instances -> Seq(CRD \cup {NoCRD})]
    BY DEF Init
  <2> QED
    BY <1>3, <2>1, <2>2, FaultsAssumption DEF Init, TypeOK, Positions, Errors, Calls
<1>5. Copies \subseteq {crd, NoCRD}
  BY DEF Init, Copies
<1>6. CopiesOK
  BY <1>3, <1>5 DEF CopiesOK, CopyOK, KeepsStarted
<1>7. AdminOK /\ \A i \in Instances : RoundOK(i)
  <2>1. Past(LegacyCRD(rv))
    BY DEF Past, LegacyCRD, NewCRD
  <2> QED
    BY <1>1, <2>1 DEF Init, RoundOK, AdminOK, RowOK, SentOK, InRound, Reporting, Storing, IsExecutionTerminal
<1>8. PayloadsAreRecorded
  BY DEF Init, PayloadsAreRecorded
<1> QED
  BY <1>4, <1>6, <1>7, <1>8 DEF IInv

LEMMA StepKeeps == IInv /\ [Next]_vars => IInv'
<1> SUFFICES ASSUME IInv, [Next]_vars PROVE IInv'
  OBVIOUS
<1>1. CASE UNCHANGED vars
  <2> USE <1>1 DEF vars, k8s, caches, round, outside, admin
  <2>1. TypeOK'
    BY DEF IInv, TypeOK
  <2>2. Copies' = Copies
    BY DEF Copies
  <2>3. CopiesOK'
    BY <2>2, QuietStep DEF IInv
  <2>4. AdminOK' /\ \A i \in Instances : RoundOK(i)'
    BY DEF IInv, RoundOK, AdminOK, SentOK, RowOK, Outcome, Told
  <2> QED
    BY <2>1, <2>3, <2>4 DEF IInv, PayloadsAreRecorded
<1>2. ASSUME NEW i \in Instances, Worker(i) PROVE IInv'
  BY <1>2, HandleGetKeeps, HandlersKeep, RecordKeeps, StoreKeeps DEF Worker
<1>3. ASSUME NEW i \in Instances, Crash(i) PROVE IInv'
  BY <1>3, EndRoundKeeps DEF Crash
<1>4. ASSUME NEW i \in Instances,
             InformerDelivers(i) \/ ForgetTerminated(i) \/ Restart(i)
      PROVE  IInv'
  BY <1>4, InformerKeeps, RestartKeeps, ElsewhereKeeps
<1>5. CASE Environment
  <2>1. Delete => aborting' \in Calls
    BY <1>5 DEF Environment, DeleteCRD, GarbageCollect, Abort, TerminateExecution, SetExecutionAborting,
                TerminateFails, InsertRow, LoseRow, IInv, TypeOK, Calls
  <2> QED
    BY <1>5, <2>1, DeleteKeeps, ElsewhereKeeps DEF Environment, DeleteCRD, GarbageCollect
<1> QED
  BY <1>1, <1>2, <1>3, <1>4, <1>5 DEF Next

LEMMA Invariance == Spec => []IInv
BY InitEstablishes, StepKeeps, PTL DEF Spec

(* Every variable keeps its type, in every instance of the system.         *)
THEOREM TypeCorrect == Spec => []TypeOK
<1>1. IInv => TypeOK
  BY DEF IInv
<1> QED
  BY <1>1, Invariance, PTL

(* The completed label and the finalizer of the stored resource are never  *)
(* wrong, however many instances write it and whatever fails: the garbage  *)
(* collector and the API server may act on them.                           *)
THEOREM LabelAndFinalizerHold == Spec => []LabelAndFinalizerAreHonest
<1>1. IInv => LabelAndFinalizerAreHonest
  BY DEF IInv, CopiesOK, CopyOK, Honest, LabelAndFinalizerAreHonest
<1> QED
  BY <1>1, Invariance, PTL

(* No payload runs for a node that the stored resource has as unstarted,   *)
(* so clean-up from the resource misses none.                              *)
THEOREM PayloadsHold == Spec => []PayloadsAreRecorded
<1>1. IInv => PayloadsAreRecorded
  BY DEF IInv
<1> QED
  BY <1>1, Invariance, PTL

(* The resource never claims a success that admin has not recorded.        *)
THEOREM SuccessHolds == Spec => []SuccessIsRecorded
<1>1. IInv => SuccessIsRecorded
  BY DEF IInv, CopiesOK, CopyOK, Outcome, SuccessIsRecorded
<1> QED
  BY <1>1, Invariance, PTL

(* Only the last part of a round writes the resource.                      *)
LEMMA QuietWorker ==
    ASSUME NEW i \in Instances, HandleGet(i) \/ Mutate(i) \/ Record(i)
    PROVE  crd' = crd
BY DEF HandleGet, Mutate, HandleReady, HandleRunning, HandleRunningSiblingFails,
       HandleSucceeding, HandleFailing, HandleFailureNode, HandleTerminated, HandleAborted,
       Visiting, Mutates, Errs, Record, RecordFiltered, RecordRefused, RecordChecked,
       RecordEvent, RecordFails, Recorded, k8s

(* Nobody writes a completed resource, except to delete it: a round never  *)
(* has a completed copy, and no other copy has the resource's version.     *)
LEMMA CompletedStep ==
    ASSUME IInv, Next, crd # NoCRD, crd.completed, crd' # NoCRD
    PROVE  crd'.completed /\ crd'.phase = crd.phase
<1>1. ASSUME NEW i \in Instances, pc[i] \in InRound, crd.rv = w[i].rv PROVE FALSE
  BY <1>1, RoundCopy
<1>2. CASE Delete
  <2>1. PICK version \in FreshVersions : Write([crd EXCEPT !.deleting = TRUE], version)
    BY <1>2 DEF Delete
  <2>2. crd \in CRD
    BY DEF IInv, TypeOK
  <2>3. crd' = [[crd EXCEPT !.deleting = TRUE] EXCEPT !.rv = version]
    BY <2>1 DEF Write, Publish
  <2> QED
    BY <2>2, <2>3 DEF CRD
<1>3. CASE crd' = crd
  BY <1>3
<1>4. ASSUME NEW i \in Instances, HandleGet(i) \/ Mutate(i) \/ Record(i) PROVE crd' = crd
  BY <1>4, QuietWorker
<1>5. ASSUME NEW i \in Instances, Store(i) PROVE crd' = crd
  <2>1. ASSUME pc[i] \in InRound, crd' # crd PROVE crd.rv = w[i].rv
    BY <1>5, <2>1 DEF Store, SkipUpdate, StoreUpdate, StoreConflict, StoreGone, StoreTooLarge,
                      StoreShrunk, StoreFails, k8s
  <2>2. pc[i] \in InRound
    BY <1>5 DEF Store, SkipUpdate, StoreUpdate, StoreConflict, StoreGone, StoreTooLarge,
                StoreShrunk, StoreFails, Updating, InRound, Storing
  <2> QED
    BY <1>1, <2>1, <2>2
<1>6. ASSUME NEW i \in Instances,
             InformerDelivers(i) \/ ForgetTerminated(i) \/ Crash(i) \/ Restart(i)
      PROVE  crd' = crd
  BY <1>6 DEF InformerDelivers, ForgetTerminated, Crash, Restart, k8s
<1>7. CASE TerminateExecution \/ SetExecutionAborting \/ TerminateFails \/ InsertRow \/ LoseRow \/ Abort
  BY <1>2, <1>3, <1>7 DEF TerminateExecution, SetExecutionAborting, TerminateFails, Abort, InsertRow,
                          LoseRow, k8s
<1> QED
  BY <1>2, <1>3, <1>4, <1>5, <1>6, <1>7 DEF Next, Worker, Environment, DeleteCRD, GarbageCollect

(* The outcome of a completed workflow is final, for any number of         *)
(* instances with caches of any age.                                       *)
THEOREM CompletedHolds == Spec => CompletedIsFinal
<1>1. IInv /\ [Next]_vars
        => [crd # NoCRD /\ crd.completed /\ crd' # NoCRD
                => crd'.completed /\ crd'.phase = crd.phase]_vars
  BY CompletedStep
<1> QED
  BY <1>1, Invariance, PTL DEF Spec, CompletedIsFinal

(* Only a write of the round at work takes a finalizer off, and such a     *)
(* round has had an answer to the outcome it reported.                     *)
LEMMA VanishingStep ==
    ASSUME IInv, Next, crd # NoCRD, crd.finalizer, crd' = NoCRD \/ ~crd'.finalizer
    PROVE  Told
<1>1. crd \in CRD /\ \A c : c \in CRD => c # NoCRD
  BY VersionsAssumption DEF IInv, TypeOK, CRD, NoCRD
<1>2. ~Delete
  <2> SUFFICES ASSUME Delete PROVE FALSE
    OBVIOUS
  <2>1. PICK version \in FreshVersions : Write([crd EXCEPT !.deleting = TRUE], version)
    BY DEF Delete
  <2>2. crd' = [[crd EXCEPT !.deleting = TRUE] EXCEPT !.rv = version] /\ version \in Versions
    BY <1>1, <2>1 DEF Write, Publish, CRD, FreshVersions
  <2> QED
    BY <1>1, <2>2 DEF CRD
<1>3. ASSUME NEW i \in Instances, Store(i) PROVE Told
  <2>1. PICK wf \in {ToStore(i), Shrunk(i)} :
            pc[i] \in Storing /\ crd.rv = w[i].rv /\ ~wf.finalizer
    <3>1. ASSUME NEW wf, NEW version \in FreshVersions, wf \in {ToStore(i), Shrunk(i)},
                 pc[i] \in Storing, Write(wf, version)
          PROVE  ~wf.finalizer
      <4>1. wf \in CRD /\ [wf EXCEPT !.rv = version] \in CRD
        BY <3>1, StoredIsStorable DEF Storable, CRD, FreshVersions
      <4>2. [wf EXCEPT !.rv = version].finalizer = wf.finalizer
        BY <4>1 DEF CRD
      <4> QED
        BY <1>1, <3>1, <4>1, <4>2 DEF Write, Publish
    <3> QED
      BY <1>3, <3>1 DEF Store, SkipUpdate, StoreUpdate, StoreConflict, StoreGone, StoreTooLarge,
                        StoreShrunk, StoreFails, Updating, Storing, k8s
  <2>2. crd = w[i] /\ w[i] \in CRD
    BY <2>1, RoundCopy DEF InRound
  <2>3. err[i] = "none"
    <3>1. /\ [w[i] EXCEPT !.phase = "Failing"].finalizer
          /\ RecordSystemError(w[i]).finalizer /\ RecordSystemError(w[i]).phase = w[i].phase
      BY <2>2 DEF CRD, RecordSystemError
    <3> QED
      BY <2>1, <3>1 DEF ToStore, Shrunk, MutatedWf, IInv, RoundOK
  <2>4. mutated[i] \in CRD /\ (~IsTerminated(mutated[i].phase) => mutated[i].finalizer)
    BY <2>1, <2>3 DEF IInv, RoundOK, Successor
  <2>5. IsTerminated(mutated[i].phase)
    BY <2>1, <2>2, <2>3, <2>4 DEF ToStore, IsDisowned, Shrunk, MutatedWf, CRD
  <2> QED
    BY <2>1, <2>2, <2>3, <2>5 DEF IInv, RoundOK
<1>4. ASSUME NEW i \in Instances, HandleGet(i) \/ Mutate(i) \/ Record(i) PROVE crd' = crd
  BY <1>4, QuietWorker
<1>5. ASSUME NEW i \in Instances,
             InformerDelivers(i) \/ ForgetTerminated(i) \/ Crash(i) \/ Restart(i)
      PROVE  crd' = crd
  BY <1>5 DEF InformerDelivers, ForgetTerminated, Crash, Restart, k8s
<1>6. TerminateExecution \/ SetExecutionAborting \/ TerminateFails \/ InsertRow \/ LoseRow \/ Abort
        => crd' = crd
  BY <1>2 DEF TerminateExecution, SetExecutionAborting, TerminateFails, Abort, InsertRow, LoseRow, k8s
<1> QED
  BY <1>2, <1>3, <1>4, <1>5, <1>6 DEF Next, Worker, Environment, DeleteCRD, GarbageCollect

(* No instance takes its finalizer off a workflow before admin has an      *)
(* outcome for it, or has answered FAILED with not knowing the execution:  *)
(* no deletion, lost call or late row makes a round skip its report, for   *)
(* any number of instances and faults.                                     *)
THEOREM VanishingHolds == Spec => NothingVanishesUnreported
<1>1. IInv /\ [Next]_vars
        => [crd # NoCRD /\ crd.finalizer /\ (crd' = NoCRD \/ ~crd'.finalizer)
                => recorded # {} \/ "FAILED" \in refused]_vars
  BY VanishingStep DEF Told
<1> QED
  BY <1>1, Invariance, PTL DEF Spec, NothingVanishesUnreported

---------------------------------------------------------------------------
(* Orphans.  A payload of the DAG that is not stray was started by a round *)
(* that worked on the resource as it was, and alone.  So whoever may still *)
(* write the resource either knows of the payload or has an older version. *)

Owned == "dag" \in payloads /\ ~stray

(* The resource has a DAG to clean up before the workflow may terminate,   *)
(* or is out of retries.                                                   *)
AtWork(c) ==
    \/ c.failedAttempts > MaxWorkflowRetries
    \/ /\ c.phase \in {"Running", "Failing"}
       /\ c.dag \in {"Queued", "Running", "Retrying", "RetryableFailure", "Failing", "TimingOut"}

(* A round that may still write: what it computed keeps the DAG at work.   *)
(* Admin can only end such a round's workflow if the copy is past its DAG. *)
OwnOK(i) ==
    pc[i] \in Reporting \cup Storing /\ err[i] = "none" /\ crd # NoCRD /\ w[i].rv = crd.rv /\ Owned
        => /\ AtWork(mutated[i])
           /\ Past(w[i]) => w[i].failedAttempts > MaxWorkflowRetries

OInv ==
    /\ Owned /\ crd # NoCRD => AtWork(crd)
    /\ \A i \in Instances : OwnOK(i)

(* What a visit does to the ownership.                                     *)
LEMMA ActsOwned ==
    ASSUME NEW i \in Instances, NEW name \in Payloads,
           NEW payload \in {"none", "start", "leave", "finish", "abort"},
           Acts(i, payload, name)
    PROVE  /\ Owned' => Owned \/ (name = "dag" /\ payload = "start" /\ IsAlone(i))
           /\ name = "dag" /\ payload \in {"leave", "finish", "abort"} => ~Owned'
<1>1. "dag" \in payloads' => "dag" \in payloads \/ (name = "dag" /\ payload = "start")
  BY DEF Acts, After, Payloads
<1>2. name = "dag" /\ payload \in {"finish", "abort"} => "dag" \notin payloads'
  BY DEF Acts, After
<1>3. name # "dag" \/ payload = "none" => stray' = stray
  BY Zenon DEF Acts
<1>4. name = "dag" /\ payload = "start" => stray' = (~IsAlone(i) /\ ("dag" \in payloads => stray))
  BY Zenon DEF Acts
<1>5. name = "dag" /\ payload = "leave" => stray' = ("dag" \in payloads) /\ payloads' = payloads
  BY Zenon DEF Acts, After
<1>6. name = "dag" /\ payload \in {"leave", "finish", "abort"} => ~Owned'
  BY <1>2, <1>5, Zenon DEF Owned
<1>7. CASE name = "dag" /\ payload = "start"
  BY <1>4, <1>7, Zenon DEF Owned
<1>8. ASSUME name # "dag" \/ payload = "none" PROVE Owned' => Owned
  <2>1. "dag" \in payloads' => "dag" \in payloads
    BY <1>1, <1>8
  <2> QED
    BY <1>3, <1>8, <2>1, Zenon DEF Owned
<1> QED
  BY <1>6, <1>7, <1>8

LEMMA CleansUpOwned ==
    ASSUME NEW wf, CleansUp(wf)
    PROVE  (Owned' => Owned) /\ (IsAborted(wf.dag) => ~Owned')
<1>1. CASE IsAborted(wf.dag)
  BY <1>1 DEF CleansUp, Owned
<1>2. CASE ~IsAborted(wf.dag)
  BY <1>2, Zenon DEF CleansUp, Owned, outside
<1> QED
  BY <1>1, <1>2

LEMMA ErrsOrMutates ==
    ASSUME IInv, NEW i \in Instances, pc[i] = "mutate",
           NEW e \in Errors \ {"none"}, Errs(i, e), NEW wf
    PROVE  ~Mutates(i, wf)
<1>1. err[i] = "none" /\ err \in [Instances -> Errors]
  BY DEF IInv, TypeOK, RoundOK, Storing
<1> QED
  BY <1>1 DEF Errs, Mutates

(* A handler's step.  The others' rounds are not concerned: a payload that *)
(* becomes owned belongs to a round that is alone.                         *)
LEMMA HandlerOwns ==
    ASSUME IInv, OInv, NEW i \in Instances, pc[i] = "mutate", NEW wf,
           \/ Mutates(i, wf)
           \/ \E e \in Errors \ {"none"} : Errs(i, e),
           Owned' => Owned \/ (IsAlone(i) /\ AtWork(w[i])),
           Mutates(i, wf) /\ crd = w[i] /\ Owned'
                => AtWork(wf) /\ (Past(w[i]) => w[i].failedAttempts > MaxWorkflowRetries)
    PROVE  OInv'
<1>0. crd' = crd /\ w' = w
  BY DEF Mutates, Errs, k8s
<1>1. w[i] # NoCRD /\ (crd.rv = w[i].rv => crd = w[i])
  BY RoundCopy DEF InRound
<1>2. Owned' /\ crd # NoCRD => AtWork(crd)
  BY <1>1 DEF OInv, IsAlone
<1>3. ASSUME NEW j \in Instances PROVE OwnOK(j)'
  <2>1. CASE j # i
    <3>1. pc'[j] = pc[j] /\ mutated'[j] = mutated[j] /\ err'[j] = err[j]
      BY <2>1 DEF Mutates, Errs, IInv, TypeOK
    <3>2. Owned' /\ w[j].rv = crd.rv => Owned
      BY <2>1 DEF IsAlone
    <3>3. OwnOK(j)
      BY DEF OInv
    <3> QED
      BY <1>0, <3>1, <3>2, <3>3 DEF OwnOK, AtWork, Past
  <2>2. CASE j = i
    <3>1. CASE \E e \in Errors \ {"none"} : Errs(i, e)
      <4>1. err'[i] # "none"
        BY <3>1 DEF Errs, IInv, TypeOK
      <4> QED
        BY <2>2, <4>1 DEF OwnOK
    <3>2. CASE Mutates(i, wf)
      <4>1. mutated'[i] = wf
        BY <3>2 DEF Mutates, IInv, TypeOK
      <4> QED
        BY <1>0, <1>1, <2>2, <3>2, <4>1 DEF OwnOK, AtWork, Past
    <3> QED
      BY <3>1, <3>2
  <2> QED
    BY <2>1, <2>2
<1> QED
  BY <1>0, <1>2, <1>3 DEF OInv, AtWork

(* A visit of the DAG's node by a round of a running workflow.             *)
LEMMA VisitOwns ==
    ASSUME NEW phase \in NodePhases, NEW v \in Visits(phase, Outcomes)
    PROVE  /\ v.payload = "start" => phase \in {"Queued", "Retrying"} /\ v.to = "Running" /\ v.returns = "Running"
           /\ v.payload = "none" /\ phase \in {"Queued", "Running", "Retrying", "RetryableFailure", "Failing", "TimingOut"}
                => /\ v.to \in {"Queued", "Running", "Retrying", "RetryableFailure", "Failing", "TimingOut"}
                   /\ v.returns = "Running"
<1>1. CASE phase \in {"Queued", "Retrying", "Running"}
  <2>1. ASSUME NEW u \in QueuedOrRunningVisits(phase, Outcomes)
        PROVE  /\ u.payload = "start" => u.to = "Running" /\ u.returns = "Running"
               /\ u.payload = "none" => /\ u.to \in {"Queued", "Running", "Retrying", "RetryableFailure", "Failing", "TimingOut"}
                                        /\ u.returns = "Running"
    BY <1>1, <2>1, OutcomesAssumption DEF QueuedOrRunningVisits, Visit, NodeOutcomes
  <2>2. v \in QueuedOrRunningVisits(phase, Outcomes) \/ v = CacheHit
    BY <1>1 DEF Visits
  <2>3. phase = "Running" => v.payload # "start"
    BY DEF Visits
  <2> QED
    BY <1>1, <2>1, <2>2, <2>3 DEF CacheHit, Visit
<1>2. CASE phase = "NotYetStarted"
  BY <1>2 DEF Visits, NotYetStartedVisits, Visit
<1>3. CASE phase \notin {"NotYetStarted", "Queued", "Retrying", "Running"}
  BY <1>3 DEF Visits, Visit, NodePhases
<1> QED
  BY <1>1, <1>2, <1>3

LEMMA HandlersOwn ==
    ASSUME IInv, OInv, NEW i \in Instances, Mutate(i)
    PROVE  OInv'
<1>0. pc[i] = "mutate"
  BY DEF Mutate, Handling, HandleReady, HandleRunning, HandleRunningSiblingFails,
         HandleSucceeding, HandleFailing, HandleFailureNode, HandleTerminated, HandleAborted
<1>1. /\ w[i] \in CRD /\ w[i].dag \in NodePhases /\ w[i].failure \in NodePhases
      /\ w[i].phase \in WorkflowPhases /\ w[i].failedAttempts \in Nat /\ w[i] # NoCRD
  BY <1>0, RoundCopy DEF CRD, InRound
<1>2. ~IsAbort(w[i]) => ~(w[i].failedAttempts > MaxWorkflowRetries) /\ ~w[i].deleting
  BY DEF IsAbort
<1>3. crd = w[i] /\ Owned => AtWork(w[i])
  BY <1>1 DEF OInv
<1>4. UNCHANGED outside => (Owned' => Owned)
  <2>1. UNCHANGED outside => payloads' = payloads /\ stray' = stray
    BY DEF outside
  <2> QED
    BY <2>1, Zenon DEF Owned
<1>5. "system" \in Errors \ {"none"}
  BY DEF Errors
<1>6. CASE HandleReady(i) \/ HandleSucceeding(i)
  <2>1. /\ ~IsAbort(w[i]) /\ w[i].phase \in {"Ready", "Succeeding"} /\ UNCHANGED outside
        /\ (\E wf : Mutates(i, wf)) \/ Errs(i, "system")
    BY <1>6 DEF HandleReady, HandleSucceeding, Handling
  <2>2. ~(crd = w[i] /\ Owned')
    BY <1>2, <1>3, <1>4, <2>1 DEF AtWork
  <2> QED
    BY <1>0, <1>4, <1>5, <2>1, <2>2, HandlerOwns
<1>7. CASE HandleTerminated(i) \/ (HandleAborted(i) /\ IsTerminated(w[i].phase))
  <2>1. Mutates(i, w[i]) /\ UNCHANGED outside /\ IsTerminated(w[i].phase)
    BY <1>7 DEF HandleTerminated, HandleAborted
  <2>2. crd = w[i] /\ Owned' => AtWork(w[i]) /\ w[i].failedAttempts > MaxWorkflowRetries
    BY <1>3, <1>4, <2>1 DEF AtWork, IsTerminated
  <2> QED
    BY <1>0, <1>4, <2>1, <2>2, HandlerOwns
<1>8. CASE HandleRunningSiblingFails(i)
  <2> DEFINE wf == [WithFinalizer(w[i]) EXCEPT !.phase = "Failing"]
  <2>1. ~IsAbort(w[i]) /\ w[i].phase = "Running" /\ UNCHANGED outside /\ Mutates(i, wf)
    BY <1>8 DEF HandleRunningSiblingFails, Handling
  <2>2. wf.phase = "Failing" /\ wf.dag = w[i].dag
    BY <1>1 DEF WithFinalizer, CRD
  <2>3. ~Past(w[i])
    BY <1>1, <2>1 DEF Past
  <2>4. crd = w[i] /\ Owned' => AtWork(wf)
    BY <1>2, <1>3, <1>4, <2>1, <2>2 DEF AtWork
  <2> HIDE DEF wf
  <2> QED
    BY <1>0, <1>4, <2>1, <2>3, <2>4, HandlerOwns
<1>9. CASE HandleFailing(i)
  <2> DEFINE wf == [WithFinalizer(w[i]) EXCEPT !.phase = FailingTo]
  <2>1. /\ ~IsAbort(w[i]) /\ (CleansUp(w[i]) \/ UNCHANGED outside)
        /\ (Mutates(i, wf) /\ CleansUp(w[i])) \/ Errs(i, "system")
    BY <1>9 DEF HandleFailing, Handling
  <2>2. Owned' => Owned
    BY <1>4, <2>1, CleansUpOwned
  <2>3. crd = w[i] /\ CleansUp(w[i]) => ~Owned'
    <3>1. crd = w[i] /\ Owned => IsAborted(w[i].dag)
      BY <1>1, <1>2, <1>3, <2>1 DEF AtWork, IsAborted, CanHandleNode
    <3> QED
      BY <2>2, <3>1, CleansUpOwned
  <2> HIDE DEF wf
  <2>4. CASE Errs(i, "system")
    BY <1>0, <1>5, <2>2, <2>4, HandlerOwns, ErrsOrMutates
  <2>5. CASE Mutates(i, wf) /\ CleansUp(w[i])
    BY <1>0, <2>2, <2>3, <2>5, HandlerOwns
  <2> QED
    BY <2>1, <2>4, <2>5
<1>10. CASE HandleRunning(i)
  <2>1. ~IsAbort(w[i]) /\ w[i].phase = "Running"
    BY <1>10 DEF HandleRunning, Handling
  <2>2. PICK v \in Visits(w[i].dag, Outcomes) :
            Visiting(i, "dag", w[i].dag, v,
                 [WithFinalizer(w[i]) EXCEPT !.dag = v.to, !.phase = RunningTo(v.returns)])
    BY <1>10 DEF HandleRunning
  <2> DEFINE wf == [WithFinalizer(w[i]) EXCEPT !.dag = v.to, !.phase = RunningTo(v.returns)]
  <2>3. wf.dag = v.to /\ wf.phase = RunningTo(v.returns)
    BY <1>1 DEF WithFinalizer, CRD
  <2>4. /\ (Mutates(i, wf) /\ Acts(i, v.payload, "dag")) \/ \E e \in Errors \ {"none"} : Errs(i, e)
        /\ Acts(i, v.payload, "dag") \/ UNCHANGED outside
    BY <2>2 DEF Visiting, Errors
  <2> HIDE DEF wf
  <2>5. ~Past(w[i])
    BY <1>1, <2>1 DEF Past
  <2>6. v.payload \in {"none", "start", "leave", "finish", "abort"}
    BY <1>1, VisitsStart
  <2>7. v.payload = "start" => AtWork(w[i]) /\ AtWork(wf)
    BY <1>1, <2>1, <2>3, VisitOwns DEF AtWork, RunningTo
  <2>8. Owned' => Owned \/ (IsAlone(i) /\ AtWork(w[i]))
    BY <1>4, <2>4, <2>6, <2>7, ActsOwned DEF Payloads
  <2>9. ASSUME Acts(i, v.payload, "dag"), crd = w[i], Owned' PROVE AtWork(wf)
    <3>1. v.payload \in {"none", "start"}
      BY <2>6, <2>9, ActsOwned DEF Payloads
    <3>2. CASE v.payload = "none"
      <4>1. AtWork(w[i])
        BY <1>3, <2>9, <3>2, ActsOwned DEF Payloads
      <4> QED
        BY <1>1, <1>2, <2>1, <2>3, <3>2, <4>1, VisitOwns DEF AtWork, RunningTo
    <3> QED
      BY <2>7, <3>1, <3>2
  <2>10. CASE Mutates(i, wf) /\ Acts(i, v.payload, "dag")
    BY <1>0, <2>5, <2>8, <2>9, <2>10, HandlerOwns
  <2>11. CASE \E e \in Errors \ {"none"} : Errs(i, e)
    BY <1>0, <2>8, <2>11, HandlerOwns, ErrsOrMutates
  <2> QED
    BY <2>4, <2>10, <2>11
<1>11. CASE HandleFailureNode(i)
  <2>1. ~IsAbort(w[i]) /\ w[i].phase = "HandlingFailureNode"
    BY <1>11 DEF HandleFailureNode, Handling
  <2> DEFINE after(v) == [WithFinalizer(w[i]) EXCEPT !.failure = v.to, !.phase = FailureNodeTo(v.returns)]
  <2>2. PICK v \in Visits(w[i].failure, Outcomes) :
            Visiting(i, "failure", w[i].failure, v, after(v))
    BY <1>11 DEF HandleFailureNode
  <2>3. v.payload \in {"none", "start", "leave", "finish", "abort"}
    BY <1>1, VisitsStart
  <2>4. Owned' => Owned
    <3>1. Acts(i, v.payload, "failure") \/ UNCHANGED outside
      BY <2>2 DEF Visiting
    <3> QED
      BY <1>4, <2>3, <3>1, ActsOwned DEF Payloads
  <2>5. ~(crd = w[i] /\ Owned')
    BY <1>2, <1>3, <2>1, <2>4 DEF AtWork
  <2> HIDE DEF after
  <2>6. Mutates(i, after(v)) \/ \E e \in Errors \ {"none"} : Errs(i, e)
    BY <2>2 DEF Visiting, Errors
  <2> QED
    BY <1>0, <2>4, <2>5, <2>6, HandlerOwns
<1>12. CASE HandleAborted(i) /\ ~IsTerminated(w[i].phase)
  <2>1. /\ IsAbort(w[i])
        /\ \/ CleansUp(w[i]) /\ \E to \in {"Failed", "Aborted"} : Mutates(i, [w[i] EXCEPT !.phase = to])
           \/ /\ CleansUp(w[i]) \/ UNCHANGED outside
              /\ \/ w[i].failedAttempts > MaxWorkflowRetries /\ Mutates(i, [w[i] EXCEPT !.phase = "Failed"])
                 \/ Errs(i, "system")
    BY <1>12 DEF HandleAborted, AbortTo
  <2>2. Owned' => Owned
    BY <1>4, <2>1, CleansUpOwned
  <2>3. crd = w[i] /\ CleansUp(w[i]) /\ Owned' => w[i].failedAttempts > MaxWorkflowRetries
    <3>1. crd = w[i] /\ Owned => IsAborted(w[i].dag) \/ w[i].failedAttempts > MaxWorkflowRetries
      BY <1>1, <1>3 DEF AtWork, IsAborted, CanHandleNode
    <3> QED
      BY <2>2, <3>1, CleansUpOwned
  <2>4. ASSUME NEW to \in {"Failed", "Aborted"}, w[i].failedAttempts > MaxWorkflowRetries
        PROVE  AtWork([w[i] EXCEPT !.phase = to])
    BY <1>1, <2>4 DEF AtWork, CRD
  <2>5. CASE Errs(i, "system")
    BY <1>0, <1>5, <2>2, <2>5, HandlerOwns, ErrsOrMutates
  <2>6. ASSUME NEW to \in {"Failed", "Aborted"}, Mutates(i, [w[i] EXCEPT !.phase = to]),
               CleansUp(w[i]) \/ w[i].failedAttempts > MaxWorkflowRetries
        PROVE  OInv'
    BY <1>0, <2>2, <2>3, <2>4, <2>6, HandlerOwns
  <2> QED
    BY <2>1, <2>5, <2>6
<1> QED
  BY <1>6, <1>7, <1>8, <1>9, <1>10, <1>11, <1>12 DEF Mutate

(* Admin's answer: it ends the workflow only if the resource is past its   *)
(* DAG, and then the round's copy is.                                      *)
LEMMA RecordOwns ==
    ASSUME IInv, OInv, NEW i \in Instances, Record(i)
    PROVE  OInv'
<1>0. pc[i] \in Reporting /\ crd' = crd /\ w' = w /\ UNCHANGED outside
  BY DEF Record, RecordFiltered, RecordRefused, RecordChecked, RecordEvent, RecordFails, Reporting,
         Recorded, k8s
<1>1. Owned' <=> Owned
  BY <1>0, Zenon DEF Owned, outside
<1>2. /\ w[i] \in CRD /\ (crd.rv = w[i].rv => crd = w[i]) /\ err[i] = "none"
      /\ mutated[i] \in CRD /\ mutated[i].failedAttempts = w[i].failedAttempts
  BY <1>0, RoundCopy DEF InRound, IInv, RoundOK, Successor, Reporting, Storing
<1>3. ASSUME NEW j \in Instances PROVE OwnOK(j)'
  <2>0. OwnOK(j)
    BY DEF OInv
  <2>1. CASE j # i
    <3>1. pc'[j] = pc[j] /\ mutated'[j] = mutated[j] /\ err'[j] = err[j]
      BY <2>1 DEF Record, RecordFiltered, RecordRefused, RecordChecked, RecordEvent, RecordFails,
                  Recorded, IInv, TypeOK
    <3> QED
      BY <1>0, <1>1, <2>0, <3>1 DEF OwnOK, AtWork, Past
  <2>2. CASE j = i /\ mutated'[i] = mutated[i]
    BY <1>0, <1>1, <1>2, <2>0, <2>2 DEF OwnOK, AtWork, Past
  <2>3. CASE j = i /\ mutated'[i] # mutated[i]
    <3>1. PICK phase, e : Recorded(i, phase, e) /\ phase # mutated[i].phase
      BY <1>2, <2>3 DEF Record, RecordFiltered, RecordRefused, RecordChecked, RecordEvent, RecordFails,
                  Recorded, IInv, TypeOK, CRD
    <3>2. RecordRefused(i) /\ EventReply(row, adminPhase, EventOf(i)) = "AlreadyInTerminalState"
      BY <1>2, <2>3 DEF Record, RecordFiltered, RecordRefused, RecordChecked, RecordEvent, RecordFails,
                  Recorded, PhaseAfter, IInv, TypeOK, CRD
    <3>3. IsExecutionTerminal(adminPhase)
      BY <3>2 DEF EventReply
    <3>4. Past(crd)
      BY <3>3 DEF IInv, AdminOK, RowOK
    <3>5. mutated'[i].failedAttempts = w[i].failedAttempts
      BY <1>2, <3>1 DEF Recorded, IInv, TypeOK, CRD
    <3> QED
      BY <1>0, <1>1, <1>2, <2>0, <2>3, <3>4, <3>5 DEF OwnOK, AtWork, Past
  <2> QED
    BY <2>1, <2>2, <2>3
<1> QED
  BY <1>0, <1>1, <1>3 DEF OInv, AtWork

(* A write leaves every other round with an older version.                 *)
LEMMA WriteOwns ==
    ASSUME IInv, NEW wf \in CRD, NEW version \in FreshVersions, Write(wf, version),
           Owned => AtWork(wf), UNCHANGED outside,
           \A j \in Instances : w'[j] = w[j] \/ pc'[j] \notin Reporting \cup Storing
    PROVE  OInv'
<1>0. Owned' <=> Owned
  BY Zenon DEF Owned, outside
<1>1. version \in Versions /\ (\A j \in Instances : w[j].rv # version)
  BY DEF FreshVersions, InUse, Copies
<1>2. crd' = NoCRD \/ crd' = [wf EXCEPT !.rv = version]
  BY DEF Write, Publish
<1>3. crd' # NoCRD => /\ crd'.rv = version /\ crd'.failedAttempts = wf.failedAttempts
                      /\ crd'.phase = wf.phase /\ crd'.dag = wf.dag
  BY <1>1, <1>2 DEF CRD
<1> QED
  BY <1>0, <1>1, <1>3 DEF OInv, OwnOK, AtWork

LEMMA StoredAtWork ==
    ASSUME IInv, OInv, NEW i \in Instances, pc[i] \in Storing, crd # NoCRD, crd.rv = w[i].rv, Owned
    PROVE  AtWork(ToStore(i)) /\ AtWork(Shrunk(i))
<1>1. crd = w[i] /\ w[i] \in CRD /\ AtWork(w[i]) /\ w[i].failedAttempts \in Nat
  BY RoundCopy DEF InRound, OInv, CRD
<1>2. AtWork([w[i] EXCEPT !.phase = "Failing"]) /\ AtWork(RecordSystemError(w[i]))
  BY <1>1, RetriesAssumption DEF AtWork, RecordSystemError, CRD
<1>3. CASE err[i] # "none"
  <2>1. ~IsTerminated(w[i].phase) /\ RecordSystemError(w[i]).phase = w[i].phase
    BY <1>1, <1>3 DEF IInv, RoundOK, RecordSystemError, CRD
  <2> QED
    BY <1>2, <1>3, <2>1 DEF ToStore, Shrunk, MutatedWf
<1>4. CASE err[i] = "none"
  <2>1. Successor(w[i], mutated[i]) /\ mutated[i] \in CRD /\ AtWork(mutated[i])
    BY <1>1, <1>4 DEF IInv, RoundOK, Successor, OInv, OwnOK
  <2>2. IsTerminated(mutated[i].phase) => /\ mutated[i].failedAttempts > MaxWorkflowRetries
                                          /\ w[i].failedAttempts > MaxWorkflowRetries
    BY <2>1 DEF AtWork, IsTerminated, Successor
  <2>3. IsTerminated(mutated[i].phase)
            => AtWork(Finish(mutated[i])) /\ AtWork(Finish([w[i] EXCEPT !.phase = "Failed"]))
    BY <1>1, <2>1, <2>2 DEF AtWork, Finish, CRD
  <2>4. IsTerminated(mutated[i].phase) <=> IsTerminated(MutatedWf(i).phase)
    BY <1>4, <2>1 DEF MutatedWf, Finish, CRD
  <2>5. ~IsDisowned(i)
    BY <1>4 DEF IsDisowned
  <2> QED
    BY <1>2, <1>4, <2>1, <2>3, <2>4, <2>5 DEF ToStore, Shrunk, MutatedWf
<1> QED
  BY <1>3, <1>4

(* A step that ends a round or begins one, and changes nothing outside.    *)
LEMMA QuietOwns ==
    ASSUME OInv, crd' = crd, UNCHANGED outside,
           \A j \in Instances :
                \/ pc'[j] \notin Reporting \cup Storing
                \/ /\ pc[j] \in Reporting \cup Storing
                   /\ w'[j] = w[j] /\ mutated'[j] = mutated[j] /\ err'[j] = err[j]
    PROVE  OInv'
<1>1. Owned' <=> Owned
  BY Zenon DEF Owned, outside
<1>2. ASSUME NEW j \in Instances PROVE OwnOK(j)'
  <2>1. OwnOK(j)
    BY DEF OInv
  <2> QED
    BY <1>1, <2>1 DEF OwnOK, AtWork, Past
<1> QED
  BY <1>1, <1>2 DEF OInv, AtWork

LEMMA StoreOwns ==
    ASSUME IInv, OInv, NEW i \in Instances, Store(i)
    PROVE  OInv'
<1>0. /\ pc[i] \in Storing /\ UNCHANGED outside
      /\ \A j \in Instances \ {i} : pc'[j] = pc[j] /\ w'[j] = w[j] /\ mutated'[j] = mutated[j] /\ err'[j] = err[j]
      /\ pc'[i] \notin Reporting \cup Storing
           \/ (pc'[i] \in Storing /\ w' = w /\ mutated' = mutated /\ err' = err /\ crd' = crd)
  BY DEF Store, SkipUpdate, StoreUpdate, StoreConflict, StoreGone, StoreTooLarge, StoreShrunk, StoreFails,
         Updating, EndRound, Reporting, Storing, IInv, TypeOK, k8s
<1>1. CASE crd' = crd
  BY <1>0, <1>1, QuietOwns
<1>2. CASE crd' # crd
  <2>1. PICK version \in FreshVersions, wf \in {ToStore(i), Shrunk(i)} :
            Write(wf, version) /\ crd # NoCRD /\ crd.rv = w[i].rv
    BY <1>2 DEF Store, SkipUpdate, StoreUpdate, StoreConflict, StoreGone, StoreTooLarge, StoreShrunk,
                StoreFails, Updating, k8s
  <2>2. wf \in CRD /\ (Owned => AtWork(wf))
    BY <1>0, <2>1, StoredAtWork, StoredIsStorable DEF Storable
  <2>3. \A j \in Instances : w'[j] = w[j] \/ pc'[j] \notin Reporting \cup Storing
    BY <1>0
  <2> QED
    BY <1>0, <2>1, <2>2, <2>3, WriteOwns
<1> QED
  BY <1>1, <1>2

LEMMA StepOwns == IInv /\ OInv /\ [Next]_vars => OInv'
<1> SUFFICES ASSUME IInv, OInv, [Next]_vars PROVE OInv'
  OBVIOUS
<1>0. pc \in [Instances -> Positions]
  BY DEF IInv, TypeOK
<1>1. CASE Delete
  <2>1. PICK version \in FreshVersions : Write([crd EXCEPT !.deleting = TRUE], version)
    BY <1>1 DEF Delete
  <2>2. /\ crd \in CRD /\ crd # NoCRD /\ [crd EXCEPT !.deleting = TRUE] \in CRD
        /\ UNCHANGED <<round, outside>>
    BY <1>1 DEF Delete, IInv, TypeOK, CRD
  <2>3. Owned => AtWork([crd EXCEPT !.deleting = TRUE])
    BY <2>2 DEF OInv, AtWork, CRD
  <2> QED
    BY <2>1, <2>2, <2>3, WriteOwns DEF round
<1>2. CASE UNCHANGED <<crd, round, outside>>
  BY <1>2, QuietOwns DEF round
<1>3. ASSUME NEW i \in Instances, HandleGet(i) PROVE OInv'
  <2>1. /\ crd' = crd /\ UNCHANGED <<outside, mutated, err>>
        /\ pc' = [pc EXCEPT ![i] = "mutate"] /\ w' = [w EXCEPT ![i] = lister[i]]
    BY <1>3 DEF HandleGet, k8s
  <2>2. ASSUME NEW j \in Instances
        PROVE  \/ pc'[j] \notin Reporting \cup Storing
               \/ /\ pc[j] \in Reporting \cup Storing
                  /\ w'[j] = w[j] /\ mutated'[j] = mutated[j] /\ err'[j] = err[j]
    BY <2>1, <1>0 DEF Reporting, Storing, IInv, TypeOK
  <2> QED
    BY <2>1, <2>2, QuietOwns
<1>4. ASSUME NEW i \in Instances, Crash(i) \/ Restart(i) PROVE OInv'
  <2>1. crd' = crd /\ UNCHANGED outside
    BY <1>4 DEF Crash, Restart, k8s
  <2>2. ASSUME NEW j \in Instances
        PROVE  \/ pc'[j] \notin Reporting \cup Storing
               \/ /\ pc[j] \in Reporting \cup Storing
                  /\ w'[j] = w[j] /\ mutated'[j] = mutated[j] /\ err'[j] = err[j]
    BY <1>0, <1>4 DEF Crash, Restart, EndRound, Reporting, Storing, IInv, TypeOK
  <2> QED
    BY <2>1, <2>2, QuietOwns
<1>5. ASSUME NEW i \in Instances, Worker(i) PROVE OInv'
  BY <1>3, <1>5, HandlersOwn, RecordOwns, StoreOwns DEF Worker
<1>6. ASSUME NEW i \in Instances, InformerDelivers(i) \/ ForgetTerminated(i)
      PROVE  UNCHANGED <<crd, round, outside>>
  BY <1>6 DEF InformerDelivers, ForgetTerminated, k8s
<1>7. CASE TerminateExecution \/ SetExecutionAborting \/ TerminateFails \/ InsertRow \/ LoseRow \/ Abort
  BY <1>1, <1>2, <1>7 DEF TerminateExecution, SetExecutionAborting, TerminateFails, Abort, InsertRow,
                          LoseRow, k8s
<1>8. CASE UNCHANGED vars
  BY <1>2, <1>8 DEF vars, k8s
<1> QED
  BY <1>1, <1>2, <1>4, <1>5, <1>6, <1>7, <1>8 DEF Next, Environment, DeleteCRD, GarbageCollect

(* A workflow that terminates within its retries has cleaned up after its  *)
(* DAG, for any number of instances, any streak length and any faults;     *)
(* what may run on was started by a round that had been overtaken or was   *)
(* not alone, or was left behind by an answer from the cache.              *)
THEOREM NodesAreNotOrphaned == Spec => []NoOrphanedNodes
<1>1. Init => OInv
  BY DEF Init, OInv, OwnOK, Owned, Reporting, Storing
<1>2. IInv /\ OInv => NoOrphanedNodes
  <2> SUFFICES ASSUME IInv, OInv, crd # NoCRD, IsTerminated(crd.phase),
                      crd.failedAttempts <= MaxWorkflowRetries, Owned
               PROVE  FALSE
    BY Zenon DEF NoOrphanedNodes, Owned
  <2>1. crd.failedAttempts \in Nat
    BY DEF IInv, TypeOK, CRD
  <2> QED
    BY <2>1, RetriesAssumption DEF OInv, AtWork, IsTerminated
<1> QED
  BY <1>1, <1>2, Invariance, StepOwns, PTL DEF Spec
============================================================================
