-------------------------- MODULE ArrayNodeProofs --------------------------
(***************************************************************************)
(* ArrayNode for any number of subnodes, limits, retry budgets and faults. *)
(***************************************************************************)
EXTENDS ArrayNode, FiniteSetLemmas

USE DEF HasEnded

---------------------------------------------------------------------------
(* One subnode: its recorded status and the attempts whose pod is at work. *)

TaskStates == {"none", "starting", "running", "ended"}

Statuses ==
    [phase : NodePhases \ {"TimingOut", "TimedOut"}, task : TaskStates,
     attempts : Nat, systemFailures : Nat]

(* The attempts made, and the failure that is about to be retried.         *)
Counted(s) == s.attempts + (IF s.phase = "RetryableFailure" THEN 1 ELSE 0)

(* The budgets of a subnode that can still be retried: one for both kinds  *)
(* of failure, or one for each.                                            *)
WithinBudget(s) ==
    IF IgnoreRetryCause THEN Counted(s) < MaxAttempts
    ELSE /\ s.systemFailures =< MaxNodeRetriesOnSystemFailures
         /\ s.systemFailures =< Counted(s)
         /\ Counted(s) - s.systemFailures < MaxAttempts

(* A subnode whose task is not recorded as ended has no pod but the one of *)
(* its current attempt, and none before it starts or after it is over.     *)
SubNodeOK(s, pods) ==
    /\ s \in Statuses /\ s.attempts \in Attempts /\ pods \in SUBSET Attempts
    /\ s.phase \in {"NotYetStarted", "Queued", "Running", "Retrying", "RetryableFailure"} =>
           ~HasEnded(s) /\ WithinBudget(s)
    /\ s.phase = "Succeeding" => HasEnded(s)
    /\ ~HasEnded(s) => pods \subseteq {s.attempts}
    /\ ~HasEnded(s) /\ s.phase \in {"NotYetStarted", "Failed", "Succeeded"} => pods = {}

(* What a visit's effect leaves of the pods.                               *)
After(s, pods, effect) ==
    CASE effect = "start"  -> pods \cup {s.attempts}
      [] effect = "finish" -> pods \ {s.attempts}
      [] effect = "none"   -> pods

Events == {"none", "RUNNING", "SUCCEEDED", "FAILED"}
VisitResults == [sub : Statuses, effect : {"start", "finish", "none"}, event : Events]

---------------------------------------------------------------------------
(* The inductive invariant.                                                *)

Literals == [index : Indexes, attempt : Attempts] \cup {NilLiteral}

Types ==
    /\ spec \in Setups
    /\ node \in {"Running", "Failing", "Failed", "Succeeding", "Succeeded"}
    /\ workflow \in {"running", "aborting", "aborted", "failed"} /\ tries \in Nat
    /\ phase \in {"None", "Executing", "Failing", "Succeeding"}
    /\ version \in Nat
    /\ outputs \in Seq(Literals)
    /\ admin \in [phase : TaskPhases, version : Nat, subs : [Indexes -> TaskPhases]]
    /\ faults \in 0..MaxFaults

SubNodes ==
    /\ sub \in [Indexes -> Statuses] /\ payload \in [Indexes -> SUBSET Attempts]
    /\ \A i \in Indexes : SubNodeOK(sub[i], payload[i])

(* What the array's phase says of its subnodes.                            *)
Stages ==
    /\ phase = "None" => \A i \in Indexes : sub[i].phase = "NotYetStarted"
    /\ phase = "Succeeding" =>
           \A i \in Indexes : sub[i].phase \in {"Succeeded", "Failing", "Failed"}
    /\ node \in {"Succeeding", "Succeeded"} => phase = "Succeeding"

(* No subnode moves any more.                                              *)
IsSettled == workflow # "running" \/ node # "Running" \/ phase \in {"Failing", "Succeeding"}

AdminIsSettled == IsTerminalTaskPhase(admin.phase) => IsSettled /\ AdminSeesTheEnd

(* A pod at work is one that a round would still turn to.                  *)
WithinLimit ==
    spec.parallelism \notin {Null, 0} =>
        \A i \in Indexes : payload[i] # {} /\ ~HasEnded(sub[i]) => i \in FirstNonTerminal(spec.parallelism)

IInv ==
    /\ Types /\ SubNodes /\ Stages /\ AdminIsSettled /\ LeavesOnlyFailures /\ WithinLimit

---------------------------------------------------------------------------
(* A visit to a subnode, recorded or lost.                                 *)

(* What a visit may leave of a subnode, whether its status is stored or    *)
(* the round is lost.                                                      *)
VisitOK(s, pods, v) ==
    /\ v \in VisitResults
    /\ SubNodeOK(v.sub, After(s, pods, v.effect))
    /\ SubNodeOK(s, After(s, pods, v.effect))

(* The pods that a failure leaves: those that were there, or without the   *)
(* one of the attempt.                                                     *)
LEMMA FailedSubNodeOK ==
    ASSUME NEW s, NEW pods, SubNodeOK(s, pods), s.phase \in {"Queued", "Retrying", "Running"},
           NEW kind \in {"user", "system", "stuck", "deadline"}, NEW effect \in {"finish", "none"},
           NEW v \in FailedSubNode(s, kind, effect)
    PROVE  VisitOK(s, pods, v)
<1> DEFINE p == After(s, pods, effect)
<1>1. /\ s.phase \in NodePhases \ {"TimingOut", "TimedOut"} /\ s.task \in TaskStates /\ ~HasEnded(s)
      /\ s.attempts \in Nat /\ s.systemFailures \in Nat /\ s.attempts \in Attempts
      /\ IF IgnoreRetryCause THEN s.attempts < MaxAttempts
         ELSE /\ s.systemFailures =< MaxNodeRetriesOnSystemFailures /\ s.systemFailures =< s.attempts
              /\ s.attempts - s.systemFailures < MaxAttempts
      /\ s = [phase |-> s.phase, task |-> s.task, attempts |-> s.attempts,
              systemFailures |-> s.systemFailures]
      /\ pods \in SUBSET Attempts /\ pods \subseteq {s.attempts}
  BY DEF SubNodeOK, Statuses, WithinBudget, Counted
<1>2. p \in SUBSET Attempts /\ p \subseteq {s.attempts}
  BY <1>1 DEF After
<1>3. MaxAttempts \in Nat /\ MaxNodeRetriesOnSystemFailures \in Nat
  BY AttemptsAssumption
<1> HIDE DEF p
<1>4. SubNodeOK(s, p)
  BY <1>1, <1>2 DEF SubNodeOK
<1>5. ASSUME IsEligibleForRetry(s, kind)
      PROVE  Retryable(s, kind) \in Statuses /\ SubNodeOK(Retryable(s, kind), p)
  <2> DEFINE r == Retryable(s, kind)
  <2>1. PICK n \in Nat : n = s.systemFailures + (IF kind = "system" THEN 1 ELSE 0)
    BY <1>1
  <2>2. r = [s EXCEPT !.phase = "RetryableFailure", !.task = "none", !.systemFailures = n]
    BY <2>1 DEF Retryable
  <2>3. IF IgnoreRetryCause THEN s.attempts + 1 < MaxAttempts
        ELSE n =< MaxNodeRetriesOnSystemFailures /\ n =< s.attempts + 1 /\ s.attempts + 1 - n < MaxAttempts
    BY <1>1, <1>3, <1>5, <2>1 DEF IsEligibleForRetry
  <2> HIDE DEF r
  <2>4. r = [phase |-> "RetryableFailure", task |-> "none", attempts |-> s.attempts,
             systemFailures |-> n]
    BY <1>1, <2>2
  <2>5. r \in Statuses /\ WithinBudget(r)
    BY <1>1, <1>3, <2>3, <2>4 DEF Statuses, NodePhases, TaskStates, WithinBudget, Counted
  <2> QED
    BY <1>1, <1>2, <2>4, <2>5 DEF SubNodeOK, r
<1>6. ASSUME NEW k \in {"user", "system", "stuck", "deadline"}, NEW counted \in {0, 2}
      PROVE  Failing(s, k, counted) \in Statuses /\ SubNodeOK(Failing(s, k, counted), p)
  <2> DEFINE r == Failing(s, k, counted)
  <2>1. PICK n \in Nat : n = s.systemFailures + counted
    BY <1>1
  <2>2. PICK task \in TaskStates : task = IF k = "deadline" THEN s.task ELSE "ended"
    BY <1>1 DEF TaskStates
  <2>3. r = [s EXCEPT !.phase = "Failing", !.task = task, !.systemFailures = n]
    BY <2>1, <2>2 DEF Failing
  <2> HIDE DEF r
  <2>4. r = [phase |-> "Failing", task |-> task, attempts |-> s.attempts, systemFailures |-> n]
    BY <1>1, <2>3
  <2>5. r \in Statuses
    BY <1>1, <2>4 DEF Statuses, NodePhases
  <2> QED
    BY <1>1, <1>2, <2>4, <2>5 DEF SubNodeOK, r
<1> DEFINE event == IF kind = "deadline" THEN "none" ELSE "FAILED"
<1>7. event \in Events
  BY DEF Events
<1>8. \/ v = Visited(IF IsEligibleForRetry(s, kind) THEN Retryable(s, kind) ELSE Failing(s, kind, 0),
                     effect, event)
      \/ v = Visited(Failing(s, kind, IF kind = "system" THEN 2 ELSE 0), effect, event)
  BY DEF FailedSubNode
<1> HIDE DEF event
<1>9. \E r \in Statuses : SubNodeOK(r, p) /\ v = Visited(r, effect, event)
  <2>1. CASE v = Visited(Retryable(s, kind), effect, event) /\ IsEligibleForRetry(s, kind)
    BY <1>5, <2>1
  <2>2. CASE v = Visited(Failing(s, kind, 0), effect, event)
    BY <1>6, <2>2
  <2>3. CASE v = Visited(Failing(s, kind, 2), effect, event)
    BY <1>6, <2>3
  <2> QED
    BY <1>8, <2>1, <2>2, <2>3
<1> QED
  BY <1>4, <1>7, <1>9 DEF VisitOK, VisitResults, Visited, p

LEMMA SubNodeVisitOK ==
    ASSUME NEW s, NEW pods, SubNodeOK(s, pods), ~IsTerminalNodePhase(s.phase),
           NEW v \in SubNodeVisits(s)
    PROVE  VisitOK(s, pods, v)
<1>1. /\ s.phase \in {"NotYetStarted", "Queued", "Running", "Retrying", "RetryableFailure",
                      "Failing", "Succeeding"}
      /\ s.task \in TaskStates /\ s.attempts \in Nat /\ s.systemFailures \in Nat
      /\ s.attempts \in Attempts /\ pods \in SUBSET Attempts
      /\ s = [phase |-> s.phase, task |-> s.task, attempts |-> s.attempts,
              systemFailures |-> s.systemFailures]
  BY DEF SubNodeOK, Statuses, NodePhases, IsTerminalNodePhase
<1>2. CASE s.phase = "NotYetStarted"
  <2> DEFINE queued == [phase |-> "Queued", task |-> s.task, attempts |-> s.attempts,
                        systemFailures |-> s.systemFailures]
             hit == [phase |-> "Succeeded", task |-> s.task, attempts |-> s.attempts,
                     systemFailures |-> s.systemFailures]
  <2>1. \/ v = [sub |-> queued, effect |-> "none", event |-> "none"]
        \/ v = [sub |-> hit, effect |-> "none", event |-> "SUCCEEDED"]
    BY <1>1, <1>2 DEF SubNodeVisits, Visited
  <2>2. pods = {} /\ ~HasEnded(s) /\ WithinBudget(s) /\ Counted(s) = s.attempts
    BY <1>1, <1>2 DEF SubNodeOK, Counted
  <2>3. queued \in Statuses /\ hit \in Statuses /\ WithinBudget(queued)
    BY <1>1, <2>2 DEF Statuses, NodePhases, WithinBudget, Counted
  <2>4. SubNodeOK(queued, pods) /\ SubNodeOK(hit, pods)
    BY <1>1, <2>2, <2>3 DEF SubNodeOK
  <2> HIDE DEF queued, hit
  <2> QED
    BY <2>1, <2>3, <2>4 DEF VisitOK, VisitResults, After, Events
<1>3. CASE s.phase \in {"Queued", "Retrying"}
  <2> DEFINE running == [phase |-> "Running", task |-> "starting", attempts |-> s.attempts,
                         systemFailures |-> s.systemFailures]
             started == pods \cup {s.attempts}
  <2>1. \/ v = [sub |-> s, effect |-> "none", event |-> "none"]
        \/ v = [sub |-> running, effect |-> "start", event |-> "RUNNING"]
        \/ v \in FailedSubNode(s, "user", "none")
    <3>1. PICK r : r = [s EXCEPT !.phase = "Running", !.task = "starting"]
      OBVIOUS
    <3>2. r = running
      BY <1>1, <3>1
    <3> HIDE DEF running
    <3> QED
      BY <1>3, <3>1, <3>2 DEF SubNodeVisits, Visited
  <2>2. pods \subseteq {s.attempts} /\ ~HasEnded(s) /\ WithinBudget(s) /\ Counted(s) = s.attempts
    BY <1>1, <1>3 DEF SubNodeOK, Counted
  <2>3. running \in Statuses /\ WithinBudget(running) /\ s \in Statuses
    BY <1>1, <2>2 DEF Statuses, NodePhases, TaskStates, WithinBudget, Counted, SubNodeOK
  <2>4. SubNodeOK(running, started) /\ SubNodeOK(s, started)
    BY <1>1, <1>3, <2>2, <2>3 DEF SubNodeOK
  <2>5. CASE v = [sub |-> running, effect |-> "start", event |-> "RUNNING"]
    <3> HIDE DEF running
    <3> QED
      BY <2>3, <2>4, <2>5 DEF VisitOK, VisitResults, After, Events
  <2>6. CASE v = [sub |-> s, effect |-> "none", event |-> "none"]
    BY <2>3, <2>6 DEF VisitOK, VisitResults, After, Events
  <2>7. CASE v \in FailedSubNode(s, "user", "none")
    BY <1>3, <2>7, FailedSubNodeOK
  <2> QED
    BY <2>1, <2>5, <2>6, <2>7
<1>4. CASE s.phase = "Running"
  <2> DEFINE done == [phase |-> "Succeeding", task |-> "ended", attempts |-> s.attempts,
                      systemFailures |-> s.systemFailures]
             moved == [phase |-> s.phase, task |-> "running", attempts |-> s.attempts,
                       systemFailures |-> s.systemFailures]
  <2>1. \/ v = [sub |-> s, effect |-> "none", event |-> "none"]
        \/ v = [sub |-> done, effect |-> "finish", event |-> "SUCCEEDED"]
        \/ v = [sub |-> moved, effect |-> "none", event |-> "RUNNING"]
        \/ v \in FailedSubNodes(s)
    <3>1. PICK a : a = [s EXCEPT !.phase = "Succeeding", !.task = "ended"]
      OBVIOUS
    <3>2. PICK b : b = [s EXCEPT !.task = "running"]
      OBVIOUS
    <3>3. a = done /\ b = moved
      BY <1>1, <3>1, <3>2
    <3> HIDE DEF done, moved
    <3> QED
      BY <1>4, <3>1, <3>2, <3>3 DEF SubNodeVisits, Visited
  <2>2. done \in Statuses /\ moved \in Statuses /\ s \in Statuses
    BY <1>1, <1>4 DEF Statuses, NodePhases, SubNodeOK, TaskStates
  <2>3. SubNodeOK(done, pods \ {s.attempts}) /\ SubNodeOK(s, pods \ {s.attempts})
    BY <1>1, <1>4, <2>2 DEF SubNodeOK
  <2>4. WithinBudget(moved) /\ moved.phase = "Running"
    BY <1>1, <1>4 DEF WithinBudget, Counted, SubNodeOK
  <2>5. SubNodeOK(moved, pods)
    BY <1>1, <1>4, <2>2, <2>4 DEF SubNodeOK
  <2>6. CASE v = [sub |-> done, effect |-> "finish", event |-> "SUCCEEDED"]
    <3> HIDE DEF done
    <3> QED
      BY <2>2, <2>3, <2>6 DEF VisitOK, VisitResults, After, Events
  <2>7. CASE v = [sub |-> s, effect |-> "none", event |-> "none"]
    BY <2>2, <2>7 DEF VisitOK, VisitResults, After, Events
  <2>8. CASE v \in FailedSubNodes(s)
    BY <1>4, <2>8, FailedSubNodeOK DEF FailedSubNodes
  <2>9. CASE v = [sub |-> moved, effect |-> "none", event |-> "RUNNING"]
    <3> HIDE DEF moved
    <3> QED
      BY <2>2, <2>5, <2>9 DEF VisitOK, VisitResults, After, Events
  <2> QED
    BY <2>1, <2>6, <2>7, <2>8, <2>9
<1>5. CASE s.phase = "RetryableFailure"
  <2> DEFINE again == [phase |-> "Retrying", task |-> s.task, attempts |-> s.attempts + 1,
                       systemFailures |-> s.systemFailures]
  <2>1. ~HasEnded(s) /\ WithinBudget(s) /\ Counted(s) = s.attempts + 1 /\ pods \subseteq {s.attempts}
    BY <1>1, <1>5 DEF SubNodeOK, Counted
  <2>2. v = [sub |-> again, effect |-> "finish", event |-> "none"]
    <3>1. PICK n \in Nat : n = s.attempts + 1
      BY <1>1
    <3>2. v = [sub |-> [s EXCEPT !.phase = "Retrying", !.attempts = n], effect |-> "finish", event |-> "none"]
      BY <1>5, <2>1, <3>1 DEF SubNodeVisits, Visited, AbortEffect
    <3> QED
      BY <1>1, <3>1, <3>2
  <2>3. s.attempts + 1 \in Attempts
    BY <1>1, <2>1, AttemptsAssumption DEF WithinBudget, Attempts
  <2>4. again \in Statuses /\ WithinBudget(again) /\ s \in Statuses
    BY <1>1, <2>1 DEF Statuses, NodePhases, WithinBudget, Counted, SubNodeOK
  <2>5. pods \ {s.attempts} = {}
    BY <2>1
  <2>6. SubNodeOK(again, {}) /\ SubNodeOK(s, {})
    BY <1>1, <1>5, <2>1, <2>3, <2>4 DEF SubNodeOK
  <2>7. After(s, pods, "finish") = {}
    BY <2>5 DEF After
  <2> HIDE DEF again
  <2> QED
    BY <2>2, <2>4, <2>6, <2>7 DEF VisitOK, VisitResults, Events
<1>6. CASE s.phase = "Failing"
  <2> DEFINE failed == [phase |-> "Failed", task |-> s.task, attempts |-> s.attempts,
                        systemFailures |-> s.systemFailures]
             left == After(s, pods, AbortEffect(s))
  <2>1. v = [sub |-> failed, effect |-> AbortEffect(s), event |-> "none"]
    BY <1>1, <1>6 DEF SubNodeVisits, Visited
  <2>2. AbortEffect(s) \in {"finish", "none"}
    BY DEF AbortEffect
  <2>3. left \in SUBSET Attempts /\ (~HasEnded(s) => left = {})
    BY <1>1 DEF AbortEffect, After, SubNodeOK
  <2>4. failed \in Statuses /\ s \in Statuses
    BY <1>1 DEF Statuses, NodePhases, SubNodeOK
  <2> HIDE DEF left
  <2>5. SubNodeOK(failed, left) /\ SubNodeOK(s, left)
    BY <1>1, <1>6, <2>3, <2>4 DEF SubNodeOK
  <2> HIDE DEF failed
  <2> QED
    BY <2>1, <2>2, <2>4, <2>5 DEF VisitOK, VisitResults, Events, left
<1>7. CASE s.phase = "Succeeding"
  <2> DEFINE done == [phase |-> "Succeeded", task |-> s.task, attempts |-> s.attempts,
                      systemFailures |-> s.systemFailures]
  <2>1. v = [sub |-> done, effect |-> "none", event |-> "none"]
    BY <1>1, <1>7 DEF SubNodeVisits, Visited
  <2>2. done \in Statuses /\ HasEnded(s)
    BY <1>1, <1>7 DEF Statuses, NodePhases, SubNodeOK
  <2>3. SubNodeOK(done, pods)
    BY <1>1, <2>2 DEF SubNodeOK
  <2> HIDE DEF done
  <2> QED
    BY <2>1, <2>2, <2>3 DEF VisitOK, VisitResults, After, Events
<1> QED
  BY <1>1, <1>2, <1>3, <1>4, <1>5, <1>6, <1>7

---------------------------------------------------------------------------
(* A round: what it does to the pods, to the stored statuses and to admin. *)

Pods(reached, visits) ==
    [i \in Indexes |-> IF i \in reached THEN After(sub[i], payload[i], visits[i].effect) ELSE payload[i]]

StoredSubs(first, visits) == [i \in Indexes |-> IF i \in first THEN visits[i].sub ELSE sub[i]]

AdminReports(phases) ==
    \/ admin' = admin
    \/ /\ ~IsTerminalTaskPhase(admin.phase)
       /\ \E p \in phases, n \in Nat, subs \in [Indexes -> TaskPhases] :
              admin' = [phase |-> p, version |-> n, subs |-> subs]

LEMMA PayloadsAre ==
    ASSUME NEW i, NEW effect
    PROVE  Payloads(i, effect) = After(sub[i], payload[i], effect)
BY DEF Payloads, After

(* The workflow goes on, is tried again, or is given up.                   *)
Retried == tries' \in Nat /\ workflow' \in {workflow, "aborting"}

LEMMA LostFacts ==
    ASSUME Types, Lost
    PROVE  /\ node' = node /\ phase' = phase /\ sub' = sub /\ version' = version
           /\ faults' \in 0..MaxFaults /\ Retried
BY FaultsAssumption DEF Types, Lost, Counts, Retried, state

LEMMA RoundFacts ==
    ASSUME Types, SubNodes, HandleExecuting
    PROVE  \E remaining \in 0..Size :
             LET first == FirstNonTerminal(InferParallelism(remaining)) IN
             \E visits : \E reached \in SUBSET first :
               /\ \A i \in first : VisitOK(sub[i], payload[i], visits[i])
               /\ payload' = Pods(reached, visits)
               /\ \/ sub' = sub /\ phase' = phase /\ version' = version
                  \/ /\ reached = first /\ sub' = StoredSubs(first, visits)
                     /\ phase' = NextPhase(StoredSubs(first, visits)) /\ version' \in Nat
               /\ AdminReports({"RUNNING"})
               /\ node' \in {"Running", "Failing"} /\ faults' \in 0..MaxFaults /\ Retried
               /\ spec' = spec /\ outputs' = outputs
<1>1. /\ node = "Running" /\ phase = "Executing" /\ workflow = "running"
      /\ spec' = spec /\ outputs' = outputs
  BY DEF HandleExecuting, Handling
<1>2. PICK remaining \in 0..Size :
          LET answers == [i \in FirstNonTerminal(InferParallelism(remaining)) |-> SubNodeVisits(sub[i])] IN
          \E visits \in [DOMAIN answers -> UNION {answers[i] : i \in DOMAIN answers}] :
              (\A i \in DOMAIN visits : visits[i] \in answers[i]) /\ Round(visits)
  BY DEF HandleExecuting
<1> DEFINE first == FirstNonTerminal(InferParallelism(remaining))
           answers == [i \in first |-> SubNodeVisits(sub[i])]
<1>3. PICK visits \in [first -> UNION {answers[i] : i \in first}] :
          (\A i \in first : visits[i] \in SubNodeVisits(sub[i])) /\ Round(visits)
  <2>1. DOMAIN answers = first /\ \A i \in first : answers[i] = SubNodeVisits(sub[i])
    OBVIOUS
  <2> HIDE DEF first
  <2>2. \E visits \in [DOMAIN answers -> UNION {answers[i] : i \in DOMAIN answers}] :
            (\A i \in DOMAIN visits : visits[i] \in answers[i]) /\ Round(visits)
    BY <1>2 DEF first
  <2> HIDE DEF answers
  <2> QED
    BY <2>1, <2>2
<1>4. first \subseteq NonTerminal /\ NonTerminal \subseteq Indexes /\ DOMAIN visits = first
  BY <1>3 DEF FirstNonTerminal, NonTerminal
<1> HIDE DEF first
<1>5. ASSUME NEW i \in first PROVE VisitOK(sub[i], payload[i], visits[i])
  <2>1. i \in Indexes /\ ~IsTerminalNodePhase(sub[i].phase) /\ visits[i] \in SubNodeVisits(sub[i])
    BY <1>3, <1>4 DEF NonTerminal
  <2>2. SubNodeOK(sub[i], payload[i])
    BY <2>1 DEF SubNodes
  <2> QED
    BY <2>1, <2>2, SubNodeVisitOK
<1> DEFINE changed == \E i \in DOMAIN visits : visits[i].sub # sub[i]
<1>6. Round(visits)
  BY <1>3
<1>7. ASSUME NEW reached \in SUBSET first
      PROVE  [i \in Indexes |-> IF i \in reached THEN Payloads(i, visits[i].effect) ELSE payload[i]]
             = Pods(reached, visits)
  BY PayloadsAre DEF Pods
<1> DEFINE Result(reached) ==
               /\ payload' = Pods(reached, visits)
               /\ \/ sub' = sub /\ phase' = phase /\ version' = version
                  \/ /\ reached = first /\ sub' = StoredSubs(first, visits)
                     /\ phase' = NextPhase(StoredSubs(first, visits)) /\ version' \in Nat
               /\ AdminReports({"RUNNING"})
               /\ node' \in {"Running", "Failing"} /\ faults' \in 0..MaxFaults /\ Retried
<1>8. ASSUME payload' = Pods(first, visits),
             ReportsRound(visits, changed), (StoresRound(visits, changed) /\ Runs) \/ Lost
      PROVE  Result(first)
  <2> HIDE DEF changed
  <2>1. SentVersion(changed) \in Nat
    BY DEF SentVersion, Types
  <2>2. \A i \in first : visits[i].event \in Events
    BY <1>5 DEF VisitOK, VisitResults
  <2>3. AdminReports({"RUNNING"})
    <3> DEFINE subs == [i \in Indexes |-> IF i \in DOMAIN visits /\ visits[i].event # "none"
                                          THEN visits[i].event ELSE admin.subs[i]]
    <3>1. subs \in [Indexes -> TaskPhases]
      BY <1>4, <2>2 DEF Types, TaskPhases, Events
    <3>2. admin' = admin \/ Reports("RUNNING", SentVersion(changed), subs)
      BY <1>8 DEF ReportsRound
    <3> HIDE DEF subs
    <3> QED
      BY <2>1, <3>1, <3>2 DEF Reports, AdminAccepts, AdminReports
  <2>4. CASE Lost
    BY <1>1, <1>8, <2>3, <2>4, LostFacts
  <2>5. CASE StoresRound(visits, changed) /\ Runs
    <3>1. sub' = StoredSubs(first, visits) /\ phase' = NextPhase(StoredSubs(first, visits))
      BY <1>4, <2>5 DEF StoresRound, StoredSubs
    <3>2. version' \in Nat
      BY <2>1, <2>5 DEF StoresRound, Types
    <3>3. node' \in {"Running", "Failing"} /\ faults' \in 0..MaxFaults /\ Retried
      BY <2>5 DEF Runs, Stored, Retried, Types
    <3> QED
      BY <1>8, <2>3, <3>1, <3>2, <3>3
  <2> QED
    BY <1>8, <2>4, <2>5
<1>9. ASSUME NEW reached \in SUBSET first, payload' = Pods(reached, visits), Lost, UNCHANGED admin
      PROVE  Result(reached)
  BY <1>1, <1>9, LostFacts DEF AdminReports
<1>10. ASSUME payload' = Pods(first, visits), Counts, UNCHANGED <<node, state, admin, faults>>
       PROVE  Result(first)
  BY <1>1, <1>10 DEF AdminReports, Counts, Retried, Types, state
<1> DEFINE PodsOf(reached) ==
               [i \in Indexes |-> IF i \in reached THEN Payloads(i, visits[i].effect) ELSE payload[i]]
<1>11. \/ /\ payload' = PodsOf(DOMAIN visits)
          /\ \/ ReportsRound(visits, changed) /\ ((StoresRound(visits, changed) /\ Runs) \/ Lost)
             \/ Counts /\ UNCHANGED <<node, state, admin, faults>>
       \/ /\ \E reached \in SUBSET DOMAIN visits : payload' = PodsOf(reached)
          /\ Lost /\ UNCHANGED admin
  BY <1>6 DEF Round
<1>12. \A reached \in SUBSET first : PodsOf(reached) = Pods(reached, visits)
  BY <1>7
<1> HIDE DEF changed, PodsOf
<1>13. \E reached \in SUBSET first : Result(reached)
  <2> HIDE DEF Result
  <2>1. CASE payload' = PodsOf(first) /\ ReportsRound(visits, changed)
             /\ ((StoresRound(visits, changed) /\ Runs) \/ Lost)
    BY <1>8, <1>12, <2>1
  <2>2. CASE payload' = PodsOf(first) /\ Counts /\ UNCHANGED <<node, state, admin, faults>>
    BY <1>10, <1>12, <2>2
  <2>3. CASE (\E reached \in SUBSET first : payload' = PodsOf(reached)) /\ Lost /\ UNCHANGED admin
    BY <1>9, <1>12, <2>3
  <2> QED
    BY <1>4, <1>11, <2>1, <2>2, <2>3
<1> QED
  BY <1>1, <1>5, <1>13 DEF first

---------------------------------------------------------------------------
(* The limit.                                                              *)

LEMMA IndexesAreFinite == IsFiniteSet(Indexes) /\ Indexes \subseteq Nat
<1>1. IsFiniteSet(0..Size-1)
  BY SizeAssumption, FS_Interval
<1> QED
  BY <1>1, SizeAssumption DEF Indexes

(* No more subnodes than the limit are turned to: counting the ones before *)
(* the last of them.                                                       *)
LEMMA FirstIsLimited ==
    ASSUME NEW limit \in Nat
    PROVE  /\ IsFiniteSet(FirstNonTerminal(limit))
           /\ Cardinality(FirstNonTerminal(limit)) =< limit
<1> DEFINE F == FirstNonTerminal(limit)
<1>1. NonTerminal \subseteq Indexes /\ F \subseteq NonTerminal
  BY DEF NonTerminal, FirstNonTerminal
<1>2. IsFiniteSet(F) /\ F \in SUBSET Int /\ IsFiniteSet(NonTerminal) /\ NonTerminal \subseteq Int
  <2> HIDE DEF F
  <2>1. IsFiniteSet(NonTerminal) /\ IsFiniteSet(F)
    <3>1. IsFiniteSet(NonTerminal)
      BY <1>1, IndexesAreFinite, FS_Subset
    <3> QED
      BY <1>1, <3>1, FS_Subset
  <2>2. NonTerminal \subseteq Int /\ F \in SUBSET Int
    BY <1>1, IndexesAreFinite
  <2> QED
    BY <2>1, <2>2
<1>3. CASE F = {}
  <2>1. Cardinality(F) = 0
    BY <1>3, FS_EmptySet
  <2> HIDE DEF F
  <2> QED
    BY <1>2, <2>1 DEF F
<1>4. CASE F # {}
  <2>1. PICK m \in F : \A x \in F : x =< m
    <3> HIDE DEF F
    <3> QED
      BY <1>2, <1>4, FiniteMax
  <2> DEFINE before == {j \in NonTerminal : j < m}
  <2>2. Cardinality(before) < limit
    BY <2>1 DEF FirstNonTerminal
  <2>3. F \ {m} \subseteq before
    <3> HIDE DEF F
    <3> QED
      BY <1>1, <1>2, <2>1
  <2>4. IsFiniteSet(before)
    BY <1>2, FS_Subset
  <2> HIDE DEF F, before
  <2>5. Cardinality(F \ {m}) =< Cardinality(before) /\ IsFiniteSet(F \ {m})
    BY <2>3, <2>4, FS_Subset
  <2>6. Cardinality(F \ {m}) = Cardinality(F) - 1
    BY <1>2, <2>1, FS_RemoveElement
  <2>7. /\ Cardinality(F) \in Nat /\ Cardinality(F \ {m}) \in Nat /\ Cardinality(before) \in Nat
    BY <1>2, <2>4, <2>5, FS_CardinalityType
  <2> QED
    BY <1>2, <2>2, <2>5, <2>6, <2>7 DEF F
<1> QED
  BY <1>3, <1>4

LEMMA LimitIsRespected ==
    ASSUME Types, SubNodes, WithinLimit
    PROVE  ParallelismIsRespected
<1> SUFFICES ASSUME spec.parallelism \notin {Null, 0}
             PROVE  Cardinality({w \in Indexes \X Attempts : w[2] \in payload[w[1]] /\ ~HasEnded(sub[w[1]])})
                        =< spec.parallelism
  BY DEF ParallelismIsRespected
<1> DEFINE L == spec.parallelism
           F == FirstNonTerminal(L)
           W == {w \in Indexes \X Attempts : w[2] \in payload[w[1]] /\ ~HasEnded(sub[w[1]])}
           f == [i \in F |-> <<i, sub[i].attempts>>]
           T == {<<i, sub[i].attempts>> : i \in F}
<1>1. L \in Nat
  BY SetupsAssumption DEF Types
<1>2. IsFiniteSet(F) /\ Cardinality(F) =< L
  BY <1>1, FirstIsLimited
<1>3. W \subseteq T
  <2> SUFFICES ASSUME NEW w \in W PROVE w \in T
    OBVIOUS
  <2>1. w[1] \in Indexes /\ w[2] \in payload[w[1]] /\ ~HasEnded(sub[w[1]]) /\ w = <<w[1], w[2]>>
    OBVIOUS
  <2>2. w[1] \in F
    BY <2>1 DEF WithinLimit
  <2>3. w[2] = sub[w[1]].attempts
    BY <2>1 DEF SubNodes, SubNodeOK
  <2> HIDE DEF F, W
  <2> QED
    BY <2>1, <2>2, <2>3
<1>4. f \in Surjection(F, T)
  BY DEF Surjection
<1> HIDE DEF f, T, F, W, L
<1>5. IsFiniteSet(T) /\ Cardinality(T) =< Cardinality(F)
  BY <1>2, <1>4, FS_Surjection
<1>6. IsFiniteSet(W) /\ Cardinality(W) =< Cardinality(T)
  BY <1>3, <1>5, FS_Subset
<1>7. Cardinality(W) \in Nat /\ Cardinality(T) \in Nat /\ Cardinality(F) \in Nat
  BY <1>2, <1>5, <1>6, FS_CardinalityType
<1>8. Cardinality(W) =< L
  BY <1>1, <1>2, <1>5, <1>6, <1>7
<1> QED
  BY <1>8 DEF W, L

(* A subnode that a round would turn to stays one until it is over.        *)
LEMMA FirstLasts ==
    ASSUME NEW limit \in Nat, NonTerminal' \subseteq NonTerminal,
           NEW i \in FirstNonTerminal(limit), i \in NonTerminal'
    PROVE  i \in FirstNonTerminal(limit)'
<1> DEFINE before == {j \in NonTerminal : j < i}
<1>1. IsFiniteSet(NonTerminal) /\ before' \subseteq before
  BY IndexesAreFinite, FS_Subset DEF NonTerminal
<1>2. IsFiniteSet(before)
  BY <1>1, FS_Subset
<1>3. Cardinality(before) < limit
  BY DEF FirstNonTerminal
<1> HIDE DEF before
<1>4. IsFiniteSet(before') /\ Cardinality(before') =< Cardinality(before)
  BY <1>1, <1>2, FS_Subset
<1>5. Cardinality(before') \in Nat /\ Cardinality(before) \in Nat
  BY <1>2, <1>4, FS_CardinalityType
<1>6. Cardinality(before') < limit
  BY <1>3, <1>4, <1>5
<1> QED
  BY <1>6 DEF FirstNonTerminal, before

---------------------------------------------------------------------------
(* The steps.                                                              *)

(* A step that stores no status and at most aborts attempts.               *)
LEMMA QuietStep ==
    ASSUME Types, SubNodes, WithinLimit, sub' = sub, spec' = spec,
           payload' \in [Indexes -> SUBSET Attempts],
           \A i \in Indexes :
               payload'[i] \in {payload[i], After(sub[i], payload[i], AbortEffect(sub[i]))}
    PROVE  SubNodes' /\ WithinLimit'
<1>1. ASSUME NEW i \in Indexes
      PROVE  SubNodeOK(sub[i], payload'[i]) /\ (~HasEnded(sub[i]) /\ payload'[i] # {} => payload[i] # {})
  <2>1. SubNodeOK(sub[i], payload[i])
    BY DEF SubNodes
  <2>2. CASE payload'[i] = payload[i]
    BY <2>1, <2>2
  <2>3. CASE payload'[i] = After(sub[i], payload[i], AbortEffect(sub[i])) /\ HasEnded(sub[i])
    BY <2>1, <2>3 DEF AbortEffect, After
  <2>4. CASE payload'[i] = After(sub[i], payload[i], AbortEffect(sub[i])) /\ ~HasEnded(sub[i])
    <3>1. payload'[i] = {}
      BY <2>1, <2>4 DEF AbortEffect, After, SubNodeOK
    <3> QED
      BY <2>1, <3>1 DEF SubNodeOK
  <2> QED
    BY <2>2, <2>3, <2>4
<1>2. SubNodes'
  BY <1>1 DEF SubNodes
<1>3. \A limit : FirstNonTerminal(limit)' = FirstNonTerminal(limit)
  BY DEF FirstNonTerminal, NonTerminal
<1>4. WithinLimit'
  BY <1>1, <1>3 DEF WithinLimit
<1> QED
  BY <1>2, <1>4

LEMMA RoundSubNodes ==
    ASSUME Types, SubNodes, WithinLimit, HandleExecuting
    PROVE  SubNodes' /\ WithinLimit'
<1>1. PICK remaining \in 0..Size :
          LET first == FirstNonTerminal(InferParallelism(remaining)) IN
          \E visits : \E reached \in SUBSET first :
             /\ \A i \in first : VisitOK(sub[i], payload[i], visits[i])
             /\ payload' = Pods(reached, visits)
             /\ sub' = sub \/ (reached = first /\ sub' = StoredSubs(first, visits))
             /\ spec' = spec
  BY RoundFacts
<1> DEFINE first == FirstNonTerminal(InferParallelism(remaining))
<1>2. PICK visits : \E reached \in SUBSET first :
          /\ \A i \in first : VisitOK(sub[i], payload[i], visits[i])
          /\ payload' = Pods(reached, visits)
          /\ sub' = sub \/ (reached = first /\ sub' = StoredSubs(first, visits))
          /\ spec' = spec
  BY <1>1
<1>3. PICK reached \in SUBSET first :
          /\ \A i \in first : VisitOK(sub[i], payload[i], visits[i])
          /\ payload' = Pods(reached, visits)
          /\ sub' = sub \/ (reached = first /\ sub' = StoredSubs(first, visits))
          /\ spec' = spec
  BY <1>2
<1>4. first \subseteq NonTerminal
  BY DEF FirstNonTerminal
<1>5. spec.parallelism \notin {Null, 0} => first = FirstNonTerminal(spec.parallelism)
  BY DEF InferParallelism
<1> HIDE DEF first
<1>6. ASSUME NEW i \in Indexes
      PROVE  /\ SubNodeOK(sub'[i], payload'[i])
             /\ i \notin first => sub'[i] = sub[i] /\ payload'[i] = payload[i]
  <2>1. SubNodeOK(sub[i], payload[i])
    BY DEF SubNodes
  <2>2. payload'[i] = IF i \in reached THEN After(sub[i], payload[i], visits[i].effect) ELSE payload[i]
    BY <1>3 DEF Pods
  <2>3. \/ sub'[i] = sub[i]
        \/ reached = first /\ sub'[i] = IF i \in first THEN visits[i].sub ELSE sub[i]
    BY <1>3 DEF StoredSubs
  <2> QED
    BY <1>3, <2>1, <2>2, <2>3 DEF VisitOK
<1>7. sub' \in [Indexes -> Statuses] /\ payload' \in [Indexes -> SUBSET Attempts]
  <2>1. \A i \in Indexes : sub'[i] \in Statuses /\ payload'[i] \in SUBSET Attempts
    BY <1>6 DEF SubNodeOK
  <2>2. payload' = [i \in Indexes |-> payload'[i]]
    BY <1>3 DEF Pods
  <2>3. sub' = [i \in Indexes |-> sub'[i]]
    BY <1>3 DEF StoredSubs, SubNodes
  <2> QED
    BY <2>1, <2>2, <2>3
<1>8. SubNodes'
  BY <1>6, <1>7 DEF SubNodes
<1>9. NonTerminal' \subseteq NonTerminal
  BY <1>4, <1>6 DEF NonTerminal
<1>10. WithinLimit'
  <2> SUFFICES ASSUME spec.parallelism \notin {Null, 0}, NEW i \in Indexes,
                      payload'[i] # {}, ~HasEnded(sub'[i])
               PROVE  i \in FirstNonTerminal(spec.parallelism)'
    BY <1>3 DEF WithinLimit
  <2>1. i \in FirstNonTerminal(spec.parallelism)
    BY <1>5, <1>6 DEF WithinLimit
  <2>2. i \in NonTerminal'
    BY <1>6 DEF NonTerminal, SubNodeOK, Statuses, NodePhases, IsTerminalNodePhase
  <2>3. spec.parallelism \in Nat /\ spec' = spec
    BY <1>3, SetupsAssumption DEF Types
  <2>4. PICK limit \in Nat : limit = spec.parallelism
    BY <2>3
  <2>5. i \in FirstNonTerminal(limit)'
    BY <1>9, <2>1, <2>2, <2>4, FirstLasts
  <2> QED
    BY <2>3, <2>4, <2>5
<1> QED
  BY <1>8, <1>10

(* What Abort does to the pods, and what it tells admin.                   *)
LEMMA AbortsFacts ==
    ASSUME Types, SubNodes, NEW succeeding, AbortsSubNodes(succeeding)
    PROVE  /\ payload' \in [Indexes -> SUBSET Attempts]
           /\ \A i \in Indexes :
                  /\ payload'[i] \in {payload[i], After(sub[i], payload[i], AbortEffect(sub[i]))}
                  /\ i \in succeeding /\ ~HasEnded(sub[i]) => payload'[i] = {}
                  /\ i \notin succeeding => payload'[i] = payload[i]
<1>1. payload' = [i \in Indexes |-> IF i \in succeeding
                                    THEN After(sub[i], payload[i], AbortEffect(sub[i])) ELSE payload[i]]
  BY PayloadsAre DEF AbortsSubNodes
<1>2. ASSUME NEW i \in Indexes
      PROVE  /\ After(sub[i], payload[i], AbortEffect(sub[i])) \in SUBSET Attempts
             /\ ~HasEnded(sub[i]) => After(sub[i], payload[i], AbortEffect(sub[i])) = {}
  <2>1. SubNodeOK(sub[i], payload[i])
    BY DEF SubNodes
  <2> QED
    BY <2>1 DEF SubNodeOK, After, AbortEffect
<1> QED
  BY <1>1, <1>2 DEF SubNodes

(* A terminal report shows every subnode as it is.                         *)
Shown(p, shown) ==
    \/ p = "Succeeded" /\ shown = "SUCCEEDED"
    \/ p = "Failed" /\ shown = "FAILED"
    \/ p = "NotYetStarted" /\ shown = "UNDEFINED"
    \/ ~IsTerminalNodePhase(p) /\ shown \in {"ABORTED", "FAILED"}

LEMMA FinalReport ==
    ASSUME Types, SubNodes, Stages, AdminIsSettled, sub' = sub,
           NEW p \in TaskPhases, NEW aborted \in SUBSET NonTerminal,
           Reports(p, 0, UpdateSubnodePhases([i \in Indexes |-> IF i \in aborted THEN "ABORTED" ELSE "none"])),
           \A i \in Indexes : i \in aborted \/ sub[i].phase \in {"NotYetStarted", "Succeeded", "Failing", "Failed"}
    PROVE  AdminReports({p}) /\ AdminSeesTheEnd'
<1> DEFINE news == [i \in Indexes |-> IF i \in aborted THEN "ABORTED" ELSE "none"]
           subs == UpdateSubnodePhases(news)
<1>1. \A i \in Indexes : sub[i].phase \in NodePhases \ {"TimingOut", "TimedOut"}
  BY DEF SubNodes, Statuses
<1>2. ASSUME NEW i \in Indexes
      PROVE  /\ subs[i] \in TaskPhases /\ Shown(sub[i].phase, subs[i])
  <2>1. CASE i \in aborted
    BY <2>1 DEF UpdateSubnodePhases, TaskPhases, Shown, NonTerminal
  <2>2. CASE i \notin aborted
    <3>1. subs[i] = ToTaskPhase(sub[i].phase)
      BY <2>2 DEF UpdateSubnodePhases
    <3> QED
      BY <2>2, <3>1 DEF ToTaskPhase, TaskPhases, Shown, IsTerminalNodePhase
  <2> QED
    BY <2>1, <2>2
<1>3. subs \in [Indexes -> TaskPhases]
  BY <1>2 DEF UpdateSubnodePhases
<1> HIDE DEF subs
<1>4. \/ admin' = admin
      \/ ~IsTerminalTaskPhase(admin.phase) /\ admin' = [phase |-> p, version |-> 0, subs |-> subs]
  BY DEF Reports, AdminAccepts, subs
<1>5. AdminReports({p})
  BY <1>3, <1>4 DEF AdminReports
<1>6. AdminSeesTheEnd'
  <2>1. CASE admin' = admin
    BY <2>1 DEF AdminIsSettled, AdminSeesTheEnd, NonTerminal
  <2>2. CASE admin' = [phase |-> p, version |-> 0, subs |-> subs]
    <3>1. \A i \in Indexes : Shown(sub'[i].phase, admin'.subs[i])
      BY <1>2, <2>2
    <3> QED
      BY <3>1 DEF AdminSeesTheEnd, Shown, NonTerminal
  <2> QED
    BY <1>4, <2>1, <2>2
<1> QED
  BY <1>5, <1>6

LEMMA AdminIsTyped ==
    ASSUME Types, NEW phases \in SUBSET TaskPhases, AdminReports(phases)
    PROVE  /\ admin' \in [phase : TaskPhases, version : Nat, subs : [Indexes -> TaskPhases]]
           /\ admin' = admin \/ admin'.phase \in phases
BY DEF Types, AdminReports

(* What Abort need not turn to.                                            *)
LEMMA NotAborted ==
    ASSUME Types, SubNodes, Stages, NEW i \in Indexes, i \notin Abortable
    PROVE  \/ sub[i].phase \in {"NotYetStarted", "Succeeded", "Failed"}
           \/ sub[i].phase = "Failing" /\ phase = "Succeeding"
<1>1. sub[i].phase \in NodePhases \ {"TimingOut", "TimedOut"}
  BY DEF SubNodes, Statuses
<1> QED
  BY <1>1 DEF Types, Stages, Abortable, NonTerminal, IsTerminalNodePhase, NodePhases

(* A successful Abort leaves nothing but failures and tells admin the end. *)
LEMMA AbortStep ==
    ASSUME IInv, Abort, sub' = sub, phase' = phase, spec' = spec
    PROVE  /\ SubNodes' /\ WithinLimit' /\ LeavesOnlyFailures' /\ AdminSeesTheEnd'
           /\ AdminReports({"FAILED", "ABORTED"})
<1> USE DEF IInv
<1>1. /\ payload' \in [Indexes -> SUBSET Attempts]
      /\ \A i \in Indexes :
             /\ payload'[i] \in {payload[i], After(sub[i], payload[i], AbortEffect(sub[i]))}
             /\ i \in Abortable /\ ~HasEnded(sub[i]) => payload'[i] = {}
             /\ i \notin Abortable => payload'[i] = payload[i]
  BY AbortsFacts DEF Abort
<1>2. SubNodes' /\ WithinLimit'
  BY <1>1, QuietStep
<1>3. LeavesOnlyFailures'
  <2> SUFFICES ASSUME NEW i \in Indexes, payload'[i] # {}, ~HasEnded(sub[i])
               PROVE  phase = "Succeeding" /\ sub[i].phase = "Failing"
    BY DEF LeavesOnlyFailures
  <2>1. i \notin Abortable /\ payload[i] # {}
    BY <1>1
  <2>2. sub[i].phase \notin {"NotYetStarted", "Succeeded", "Failed"}
    BY <2>1 DEF SubNodes, SubNodeOK
  <2> QED
    BY <2>1, <2>2, NotAborted
<1>4. AbortedPhase \in {"FAILED", "ABORTED"} /\ AbortedPhase \in TaskPhases
  BY DEF AbortedPhase, TaskPhases
<1>5. Abortable \subseteq NonTerminal
  BY DEF Abortable
<1>6. AdminReports({AbortedPhase}) /\ AdminSeesTheEnd'
  BY <1>5, <1>4, NotAborted, FinalReport DEF Abort
<1> QED
  BY <1>2, <1>3, <1>4, <1>6 DEF AdminReports

(* An Abort that fails halfway: its errors are returned, nothing is stored *)
(* and admin is not told.  The workflow is retried or given up.            *)
LEMMA AbortsSomeStep ==
    ASSUME IInv, AbortsSome, workflow \in {"running", "aborting"},
           Lost \/ (GivesUp /\ workflow = "aborting"), spec' = spec, outputs' = outputs
    PROVE  IInv'
<1> USE DEF IInv
<1>1. PICK succeeding \in SUBSET Abortable : AbortsSubNodes(succeeding)
  BY DEF AbortsSome
<1>2. /\ node' = node /\ phase' = phase /\ sub' = sub /\ version' = version
      /\ faults' \in 0..MaxFaults /\ admin' = admin
      /\ Retried \/ (tries' \in Nat /\ workflow' = "failed")
  BY LostFacts, FaultsAssumption DEF AbortsSome, GivesUp, Types, state
<1>3. /\ payload' \in [Indexes -> SUBSET Attempts]
      /\ \A i \in Indexes :
             /\ payload'[i] \in {payload[i], After(sub[i], payload[i], AbortEffect(sub[i]))}
             /\ i \in succeeding /\ ~HasEnded(sub[i]) => payload'[i] = {}
             /\ i \notin succeeding => payload'[i] = payload[i]
  BY <1>1, AbortsFacts
<1>4. SubNodes' /\ WithinLimit'
  BY <1>2, <1>3, QuietStep
<1>5. LeavesOnlyFailures'
  BY <1>2, <1>3 DEF LeavesOnlyFailures, Over, Retried
<1>6. AdminSeesTheEnd' = AdminSeesTheEnd
  BY <1>2 DEF AdminSeesTheEnd, NonTerminal
<1>7. Types' /\ Stages' /\ AdminIsSettled'
  BY <1>2, <1>6 DEF Types, Stages, AdminIsSettled, IsSettled, Retried
<1> QED
  BY <1>4, <1>5, <1>7

LEMMA NoneStep == ASSUME IInv, HandleNone PROVE IInv'
<1> USE DEF IInv
<1>1. /\ node = "Running" /\ phase = "None" /\ workflow = "running"
      /\ spec' = spec /\ outputs' = outputs /\ payload' = payload
  BY DEF HandleNone, Handling
<1>2. /\ sub' = sub /\ version' = version /\ phase' \in {"None", "Executing"}
      /\ node' \in {"Running", "Failing"} /\ faults' \in 0..MaxFaults /\ Retried
  <2>1. CASE Lost
    BY <1>1, <2>1, LostFacts
  <2>2. CASE node' = "Failing" /\ Stored /\ UNCHANGED <<state, admin>>
    BY <1>1, <2>2 DEF state, Types, Stored, Retried
  <2>3. CASE phase' = "Executing" /\ Runs /\ UNCHANGED <<sub, version>>
    BY <2>3 DEF Runs, Types, Stored, Retried
  <2> QED
    BY <2>1, <2>2, <2>3 DEF HandleNone
<1>3. AdminReports({"QUEUED"})
  <2> DEFINE subs == [i \in Indexes |-> "UNDEFINED"]
  <2>1. subs \in [Indexes -> TaskPhases] /\ version \in Nat
    BY DEF TaskPhases, Types
  <2>2. admin' = admin \/ Reports("QUEUED", version, subs)
    BY DEF HandleNone
  <2> HIDE DEF subs
  <2> QED
    BY <2>1, <2>2 DEF Reports, AdminAccepts, AdminReports
<1>4. /\ admin' \in [phase : TaskPhases, version : Nat, subs : [Indexes -> TaskPhases]]
      /\ admin' = admin \/ admin'.phase = "QUEUED"
  BY <1>3, AdminIsTyped DEF TaskPhases
<1>5. SubNodes' /\ WithinLimit'
  BY <1>1, <1>2, QuietStep DEF SubNodes
<1>6. ~IsTerminalTaskPhase(admin'.phase)
  BY <1>1, <1>4 DEF AdminIsSettled, IsSettled, IsTerminalTaskPhase
<1>7. Types' /\ Stages' /\ AdminIsSettled'
  BY <1>1, <1>2, <1>4, <1>6 DEF Types, Stages, AdminIsSettled, Retried
<1>8. LeavesOnlyFailures'
  BY <1>1, <1>2 DEF LeavesOnlyFailures, Over, Retried
<1> QED
  BY <1>5, <1>7, <1>8

LEMMA ExecutingStep == ASSUME IInv, HandleExecuting PROVE IInv'
<1> USE DEF IInv
<1>1. node = "Running" /\ phase = "Executing" /\ workflow = "running"
  BY DEF HandleExecuting, Handling
<1>2. SubNodes' /\ WithinLimit'
  BY RoundSubNodes
<1>3. /\ \/ sub' = sub /\ phase' = phase /\ version' = version
         \/ phase' = NextPhase(sub') /\ version' \in Nat
      /\ AdminReports({"RUNNING"})
      /\ node' \in {"Running", "Failing"} /\ faults' \in 0..MaxFaults /\ Retried
      /\ spec' = spec /\ outputs' = outputs
  BY RoundFacts
<1>4. /\ admin' \in [phase : TaskPhases, version : Nat, subs : [Indexes -> TaskPhases]]
      /\ admin' = admin \/ admin'.phase = "RUNNING"
  BY <1>3, AdminIsTyped DEF TaskPhases
<1>5. ~IsTerminalTaskPhase(admin'.phase)
  BY <1>1, <1>4 DEF AdminIsSettled, IsSettled, IsTerminalTaskPhase
<1>6. phase' \in {"Executing", "Failing", "Succeeding"}
  BY <1>1, <1>3 DEF NextPhase
<1>7. Types' /\ AdminIsSettled'
  BY <1>3, <1>4, <1>5, <1>6 DEF Types, AdminIsSettled, Retried
<1>8. Stages'
  <2>1. ASSUME phase' = "Succeeding", NEW i \in Indexes
        PROVE  sub'[i].phase \in {"Succeeded", "Failing", "Failed"}
    <3>1. sub'[i].phase \in {"Succeeded", "Failing", "Failed", "TimedOut"}
      BY <1>1, <1>3, <2>1 DEF NextPhase
    <3>2. sub'[i].phase # "TimedOut"
      BY <1>2 DEF SubNodes, Statuses
    <3> QED
      BY <3>1, <3>2
  <2> QED
    BY <1>3, <1>6, <2>1 DEF Stages
<1>9. LeavesOnlyFailures'
  BY <1>1, <1>3 DEF LeavesOnlyFailures, Over, Retried
<1> QED
  BY <1>2, <1>7, <1>8, <1>9

(* Abort as the node executor, the handler and the workflow call it.       *)
LEMMA AbortedStep ==
    ASSUME IInv, Abort, state' = state, spec' = spec, outputs' = outputs, faults' \in 0..MaxFaults,
           node' \in {"Running", "Failing", "Failed", "Succeeding", "Succeeded"},
           workflow' \in {"running", "aborting", "aborted"}, tries' \in Nat, IsSettled',
           node' \in {"Succeeding", "Succeeded"} => node' = node
    PROVE  IInv'
<1> USE DEF IInv
<1>1. sub' = sub /\ phase' = phase /\ version' = version
  BY DEF state
<1>2. /\ SubNodes' /\ WithinLimit' /\ LeavesOnlyFailures' /\ AdminSeesTheEnd'
      /\ AdminReports({"FAILED", "ABORTED"})
  BY <1>1, AbortStep
<1>3. admin' \in [phase : TaskPhases, version : Nat, subs : [Indexes -> TaskPhases]]
  BY <1>2, AdminIsTyped DEF TaskPhases
<1>4. Types' /\ Stages' /\ AdminIsSettled'
  BY <1>1, <1>2, <1>3 DEF Types, Stages, AdminIsSettled
<1> QED
  BY <1>2, <1>4

LEMMA FailingStep == ASSUME IInv, HandleFailing \/ NodeFailing PROVE IInv'
<1> USE DEF IInv
<1>1. spec' = spec /\ outputs' = outputs /\ workflow = "running" /\ IsSettled
  BY DEF HandleFailing, NodeFailing, Handling, IsSettled
<1>2. CASE AbortsSome /\ Lost
  BY <1>1, <1>2, AbortsSomeStep
<1>3. ASSUME Abort, Lost PROVE IInv'
  <2>1. state' = state /\ node' = node /\ faults' \in 0..MaxFaults /\ Retried
    BY <1>3, LostFacts DEF state
  <2>2. IsSettled' /\ tries' \in Nat /\ workflow' \in {"running", "aborting"}
    BY <1>1, <2>1 DEF IsSettled, Retried, state
  <2> QED
    BY <1>1, <1>3, <2>1, <2>2, AbortedStep DEF Types
<1>4. ASSUME Abort, node' \in {"Failing", "Failed"}, Stored, UNCHANGED state PROVE IInv'
  <2>1. IsSettled'
    BY <1>4 DEF IsSettled
  <2>2. faults' \in 0..MaxFaults /\ tries' \in Nat /\ workflow' = "running"
    BY <1>1, <1>4 DEF Stored, Types
  <2> QED
    BY <1>1, <1>4, <2>1, <2>2, AbortedStep
<1> QED
  BY <1>2, <1>3, <1>4 DEF HandleFailing, NodeFailing

LEMMA AbortNodeStep == ASSUME IInv, AbortNode PROVE IInv'
<1> USE DEF IInv
<1>1. spec' = spec /\ outputs' = outputs /\ workflow = "aborting"
  BY DEF AbortNode
<1>2. CASE AbortsSome /\ (GivesUp \/ Lost)
  BY <1>1, <1>2, AbortsSomeStep
<1>3. ASSUME Abort, Lost PROVE IInv'
  <2>1. state' = state /\ node' = node /\ faults' \in 0..MaxFaults /\ Retried
    BY <1>3, LostFacts DEF state
  <2>2. IsSettled' /\ tries' \in Nat /\ workflow' = "aborting"
    BY <1>1, <2>1 DEF IsSettled, Retried
  <2> QED
    BY <1>1, <1>3, <2>1, <2>2, AbortedStep DEF Types
<1>4. ASSUME Abort, workflow' = "aborted", UNCHANGED <<node, tries, state, faults>> PROVE IInv'
  <2>1. IsSettled'
    BY <1>4 DEF IsSettled
  <2> QED
    BY <1>1, <1>4, <2>1, AbortedStep DEF Types
<1> QED
  BY <1>2, <1>3, <1>4 DEF AbortNode

(* The gathered collection is one of literals.                             *)
LEMMA GatheredIsTyped ==
    ASSUME SubNodes
    PROVE  Gathered \in Seq(Literals) /\ \A i \in Indexes : GatheredWithout(i) \in Seq(Literals)
<1>1. ASSUME NEW n \in 1..Size PROVE Gathered[n] \in Literals
  <2>1. n - 1 \in Indexes
    BY SizeAssumption DEF Indexes
  <2>2. sub[n-1].attempts \in Attempts
    BY <2>1 DEF SubNodes, SubNodeOK
  <2> QED
    BY <2>1, <2>2 DEF Gathered, Literals, OutputOf
<1>2. Gathered \in [1..Size -> Literals]
  BY <1>1 DEF Gathered
<1>3. Gathered \in Seq(Literals) /\ Len(Gathered) = Size
  BY <1>2, SizeAssumption
<1>4. ASSUME NEW i \in Indexes PROVE GatheredWithout(i) \in Seq(Literals)
  <2>1. i \in Nat /\ i < Size
    BY SizeAssumption DEF Indexes
  <2>2. SubSeq(Gathered, 1, i) \in Seq(Literals)
    BY <1>3, <2>1, SizeAssumption
  <2>3. SubSeq(Gathered, i + 2, Size) \in Seq(Literals)
    BY <1>3, <2>1, SizeAssumption
  <2> QED
    BY <2>2, <2>3 DEF GatheredWithout
<1> QED
  BY <1>3, <1>4

LEMMA SucceedingStep == ASSUME IInv, HandleSucceeding PROVE IInv'
<1> USE DEF IInv
<1>1. /\ node = "Running" /\ phase = "Succeeding" /\ workflow = "running"
      /\ spec' = spec /\ payload' = payload
  BY DEF HandleSucceeding, Handling
<1>2. outputs' \in Seq(Literals) /\ Succeeds
  BY GatheredIsTyped DEF HandleSucceeding
<1>3. /\ sub' = sub /\ phase' = phase /\ version' = version
      /\ node' \in {"Running", "Succeeding"} /\ faults' \in 0..MaxFaults /\ Retried
  <2>1. CASE Lost
    BY <1>1, <2>1, LostFacts
  <2>2. CASE /\ node' = "Succeeding" /\ UNCHANGED <<workflow, tries, state>>
             /\ faults' = faults \/ (faults > 0 /\ faults' = faults - 1)
    BY <2>2, FaultsAssumption DEF state, Types, Retried
  <2> QED
    BY <2>1, <2>2 DEF HandleSucceeding, Stored
<1>4. \A i \in Indexes : sub[i].phase \in {"Succeeded", "Failing", "Failed"}
  BY <1>1 DEF Stages
<1>5. AdminReports({"SUCCEEDED"}) /\ AdminSeesTheEnd'
  <2> DEFINE news == [i \in Indexes |-> IF i \in {} THEN "ABORTED" ELSE "none"]
  <2>1. news = [i \in Indexes |-> "none"]
    OBVIOUS
  <2>2. Reports("SUCCEEDED", 0, UpdateSubnodePhases(news))
    BY <1>2, <2>1 DEF Succeeds
  <2>3. "SUCCEEDED" \in TaskPhases /\ {} \in SUBSET NonTerminal
    BY DEF TaskPhases
  <2> QED
    BY <1>3, <1>4, <2>2, <2>3, FinalReport
<1>6. admin' \in [phase : TaskPhases, version : Nat, subs : [Indexes -> TaskPhases]]
  BY <1>5, AdminIsTyped DEF TaskPhases
<1>7. SubNodes' /\ WithinLimit'
  BY <1>1, <1>3, QuietStep DEF SubNodes
<1>8. Types' /\ Stages' /\ AdminIsSettled'
  BY <1>1, <1>2, <1>3, <1>5, <1>6 DEF Types, Stages, AdminIsSettled, IsSettled, Retried
<1>9. LeavesOnlyFailures'
  BY <1>1, <1>3 DEF LeavesOnlyFailures, Over, Retried
<1> QED
  BY <1>7, <1>8, <1>9

LEMMA NodeSucceedingStep == ASSUME IInv, NodeSucceeding PROVE IInv'
<1> USE DEF IInv
<1>1. /\ node = "Succeeding" /\ workflow = "running"
      /\ spec' = spec /\ payload' = payload /\ outputs' = outputs /\ admin' = admin
  BY DEF NodeSucceeding
<1>2. /\ sub' = sub /\ phase' = phase /\ version' = version
      /\ node' \in {"Succeeding", "Succeeded"} /\ faults' \in 0..MaxFaults /\ Retried
  <2>1. CASE Lost
    BY <1>1, <2>1, LostFacts
  <2>2. CASE node' = "Succeeded" /\ Stored /\ UNCHANGED state
    BY <2>2 DEF state, Types, Stored, Retried
  <2> QED
    BY <2>1, <2>2 DEF NodeSucceeding
<1>3. SubNodes' /\ WithinLimit'
  BY <1>1, <1>2, QuietStep DEF SubNodes
<1>4. phase = "Succeeding" /\ \A i \in Indexes : sub[i].phase \in {"Succeeded", "Failing", "Failed"}
  BY <1>1 DEF Stages
<1>5. LeavesOnlyFailures'
  <2> SUFFICES ASSUME NEW i \in Indexes, payload[i] # {}, ~HasEnded(sub[i]) PROVE sub[i].phase = "Failing"
    BY <1>1, <1>2, <1>4 DEF LeavesOnlyFailures
  <2> QED
    BY <1>4 DEF SubNodes, SubNodeOK
<1>6. AdminSeesTheEnd' = AdminSeesTheEnd
  BY <1>1, <1>2 DEF AdminSeesTheEnd, NonTerminal
<1>7. Types' /\ Stages' /\ AdminIsSettled'
  BY <1>1, <1>2, <1>4, <1>6 DEF Types, Stages, AdminIsSettled, IsSettled, Retried
<1> QED
  BY <1>3, <1>5, <1>7

(* Nothing but the workflow's own state changes.                           *)
LEMMA StillStep == ASSUME IInv, AbortWorkflow \/ Done \/ UNCHANGED vars PROVE IInv'
<1> USE DEF IInv
<1>1. /\ spec' = spec /\ node' = node /\ phase' = phase /\ sub' = sub /\ version' = version
      /\ payload' = payload /\ outputs' = outputs /\ admin' = admin /\ faults' = faults
      /\ tries' = tries
      /\ workflow' = workflow \/ (workflow' = "aborting" /\ node \notin {"Failed", "Succeeded"})
  BY DEF AbortWorkflow, Done, vars, state
<1>2. SubNodes' /\ WithinLimit'
  BY <1>1, QuietStep DEF SubNodes
<1>3. AdminSeesTheEnd' = AdminSeesTheEnd
  BY <1>1 DEF AdminSeesTheEnd, NonTerminal
<1>4. Types' /\ Stages' /\ AdminIsSettled' /\ LeavesOnlyFailures'
  BY <1>1, <1>3 DEF Types, Stages, AdminIsSettled, IsSettled, LeavesOnlyFailures, Over
<1> QED
  BY <1>2, <1>4

---------------------------------------------------------------------------
(* The theorems.                                                           *)

LEMMA InitIInv == Init => IInv
<1> SUFFICES ASSUME Init PROVE IInv
  OBVIOUS
<1> USE DEF Init
<1>1. Types
  <2>1. spec \in Setups /\ faults \in 0..MaxFaults
    BY SetupsAssumption
  <2> QED
    BY <2>1 DEF Types, TaskPhases
<1>2. 0 \in Attempts
  BY AttemptsAssumption DEF Attempts
<1>3. SubNodeOK(NotStarted, {})
  BY <1>2, AttemptsAssumption DEF SubNodeOK, NotStarted, Statuses, NodePhases, TaskStates,
                                     WithinBudget, Counted
<1>4. SubNodes
  BY <1>3 DEF SubNodes, SubNodeOK
<1>5. Stages /\ AdminIsSettled /\ LeavesOnlyFailures /\ WithinLimit
  BY DEF Stages, NotStarted, AdminIsSettled, IsTerminalTaskPhase, LeavesOnlyFailures, WithinLimit
<1> QED
  BY <1>1, <1>4, <1>5 DEF IInv

LEMMA IInvStep == IInv /\ [Next]_vars => IInv'
  BY NoneStep, ExecutingStep, FailingStep, SucceedingStep, NodeSucceedingStep, AbortNodeStep, StillStep
     DEF Next

(* The invariant of the array node, its subnodes and its task execution.   *)
THEOREM Invariance == Spec => []IInv
  BY InitIInv, IInvStep, PTL DEF Spec

(* The array node stays well-typed: in particular no subnode is attempted  *)
(* more often than both retry budgets together allow.                      *)
THEOREM TypeCorrect == Spec => []TypeOK
<1>1. IInv => TypeOK
  <2> SUFFICES ASSUME IInv PROVE TypeOK
    OBVIOUS
  <2>1. sub \in [Indexes -> SubNodeStatuses]
    BY DEF IInv, SubNodes, SubNodeOK, Statuses, SubNodeStatuses, TaskStates
  <2> QED
    BY <2>1 DEF IInv, Types, SubNodes, TypeOK, Literals
<1> QED
  BY <1>1, Invariance, PTL

(* inferParallelism and the loop over the subnodes (handler.go): a round   *)
(* looks only at recorded phases and its work may be lost or repeated, yet *)
(* the pods at work never exceed the limit that the node asks for.         *)
THEOREM Parallelism == Spec => []ParallelismIsRespected
<1>1. IInv => ParallelismIsRespected
  BY LimitIsRespected DEF IInv
<1> QED
  BY <1>1, Invariance, PTL

(* Abort (handler.go): an array that has ended, whatever rounds and aborts *)
(* failed halfway, has left at work only pods of tasks recorded as ended   *)
(* and of subnodes that were Failing when the array succeeded.             *)
THEOREM NothingElseIsLeft == Spec => []LeavesOnlyFailures
<1>1. IInv => LeavesOnlyFailures
  BY DEF IInv
<1> QED
  BY <1>1, Invariance, PTL

(* updateExternalResourceSubnodePhases (event_recorder.go): although admin *)
(* refuses events by their version, the task execution of an array that it *)
(* records as over shows every subnode as it ended.                        *)
THEOREM TheEndIsReported == Spec => []AdminSeesTheEnd
<1>1. IInv => AdminSeesTheEnd
  BY DEF IInv, AdminIsSettled, AdminSeesTheEnd
<1> QED
  BY <1>1, Invariance, PTL
=============================================================================
