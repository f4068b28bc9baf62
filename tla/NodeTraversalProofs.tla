------------------------ MODULE NodeTraversalProofs ------------------------
(***************************************************************************)
(* NodeTraversal for every DAG that the compiler lets through: any number  *)
(* of nodes, branches nested to any depth, any outcomes, limits and        *)
(* losses.                                                                 *)
(***************************************************************************)
EXTENDS NodeTraversal, FiniteSetLemmas

---------------------------------------------------------------------------
(* The inductive invariant.  Its parts take the statuses they speak of as  *)
(* an argument: they hold of the stored ones and of the round's copy.      *)

(* A branch is decided exactly while it runs and when it ended otherwise   *)
(* than by failing to decide.                                              *)
BranchOK(s) ==
    /\ s.phase \in {"NotYetStarted", "Skipped", "Queued", "Running", "RetryableFailure", "Failing",
                    "Succeeded", "Failed", "TimedOut"}
    /\ s.taken # None => s.phase \in {"Running", "RetryableFailure", "Succeeded", "Failed", "TimedOut"}
    /\ s.phase \in {"Running", "RetryableFailure", "Succeeded", "TimedOut"} => s.taken # None

(* A branch succeeds when its case is done.                                *)
AgreesWithCase(s, st) == s.phase = "Succeeded" => IsDone(st[s.taken].phase)

NodeOK(n, s, st) ==
    /\ s \in Status /\ s.taken \in Cases(n) \cup {None}
    /\ s.phase = "RetryableFailure" => s.attempts < MaxRetries
    /\ s.answered = "yes" => s.phase = "Succeeded"
    /\ IsBranch(n) => BranchOK(s) /\ AgreesWithCase(s, st)

StatusOK(st) ==
    /\ st \in [Nodes -> Status]
    /\ st[Start].phase = "Succeeded"
    /\ \A n \in Nodes : NodeOK(n, st[n], st)

IsStarted(p) == p \notin {"NotYetStarted", "Skipped"}

MayStart(n, was) ==
    /\ \A m \in Up(n) : was[m].phase = "Succeeded"
    /\ \A b \in Parents(n) : was[b].taken = n

StartedOK(st, was) == \A n \in Nodes : IsStarted(st[n].phase) => MayStart(n, was)

(* A case is touched only after its branch has decided.                    *)
MayBeSkipped(n, st) ==
    /\ \A b \in Parents(n) : st[b].phase \notin {"NotYetStarted", "Queued"}
    /\ \/ \E m \in Up(n) : st[m].phase \in {"Skipped", "Failed", "TimedOut"}
       \/ \E b \in Parents(n) : st[b].taken # n

SkippedOK(st) == \A n \in Nodes : st[n].phase = "Skipped" => MayBeSkipped(n, st)

(* What is over and what is decided stays so.                              *)
Lasts(was, st) ==
    \A n \in Nodes :
        /\ IsOver(was[n].phase) => st[n] = was[n]
        /\ was[n].taken # None => st[n].taken = was[n].taken

(* A round changes only what it marks as dirty.                            *)
RoundOK ==
    /\ Lasts(stored, status)
    /\ \A n \in Nodes \ dirty : status[n] = stored[n]
    /\ stack = <<>> => status = stored /\ dirty = {}
    /\ workflow # "Running" => stack = <<>>

(* A payload at work belongs to a task that is at work in the stored       *)
(* resource as well as in the round's copy, so that it can be found again, *)
(* or that the cache has answered for.                                     *)
Accounted(s) == (IsAborted(s.phase) /\ s.phase # "Succeeding") \/ s.answered = "yes"

PayloadOK ==
    \A n \in Nodes : payload[n] = "live" =>
        ~IsBranch(n) /\ Accounted(stored[n]) /\ Accounted(status[n])

(* The node and all that is downstream of it is done, or: is over as far   *)
(* as it could be executed.                                                *)
Completed(n, st) ==
    \E S \in SUBSET Nodes :
        n \in S /\ \A m \in S : IsDone(st[m].phase) /\ ToSet(Down(m)) \subseteq S

Finished(n, st) ==
    \E S \in SUBSET Nodes :
        n \in S /\ \A m \in S : IsOver(st[m].phase) /\ (IsDone(st[m].phase) => ToSet(Down(m)) \subseteq S)

SomeFailed(st) == \E n \in Nodes : Parents(n) = {} /\ HasFailed(st[n].phase)

(* What handleDownstream knows of the downstream nodes it has visited.     *)
DownFrameOK(f, st) ==
    /\ Parents(f.node) = {} /\ IsOver(st[f.node].phase)
    /\ f.failure # "none" => SomeFailed(st)
    /\ f.allCompleted /\ f.failure = "none" =>
           \A k \in 1..Len(Down(f.node)) : k < f.next => Completed(Down(f.node)[k], st)
    /\ policy = "FailAfterExecutable" =>
           /\ ~f.stopped
           /\ f.allCompleted =>
                 \A k \in 1..Len(Down(f.node)) : k < f.next => Finished(Down(f.node)[k], st)

(* What the branch handler knows of the chosen case.                       *)
CaseFrameOK(f, st) ==
    /\ IsBranch(f.node) /\ st[f.node].phase = "Running"
    /\ f.next = 1 => f.failure = "none"
    /\ f.failure # "none" => HasFailed(st[st[f.node].taken].phase)
    /\ f.next # 1 /\ f.allCompleted /\ f.failure = "none" => IsDone(st[st[f.node].taken].phase)

FrameOK(f, st) ==
    /\ f \in Frames /\ f.next # 0
    /\ f.stopped => f.failure # "none"
    /\ f.kind = "down" => DownFrameOK(f, st)
    /\ f.kind = "case" => CaseFrameOK(f, st)

ChildrenIn(f, st) == IF f.kind = "case" THEN <<st[f.node].taken>> ELSE Down(f.node)

(* f is the call that g's call is waiting for.                             *)
IsCalledBy(f, g, st) ==
    g.next =< Len(ChildrenIn(g, st)) /\ f.node = ChildrenIn(g, st)[g.next]

StackOK(sk, st) ==
    /\ sk \in Seq(Frames)
    /\ \A i \in 1..Len(sk) : FrameOK(sk[i], st)
    /\ \A i \in 1..Len(sk) : i < Len(sk) => IsCalledBy(sk[i], sk[i+1], st)
    /\ \A i, j \in 1..Len(sk) : i < j /\ sk[j].kind = "case" => sk[i].kind = "case"
    /\ Len(sk) > 0 => sk[Len(sk)].node = Start /\ sk[Len(sk)].kind = "down"

Types ==
    /\ graph \in Graphs
    /\ policy \in Policies
    /\ workflow \in {"Running", "Failing", "Failed", "Succeeding"}
    /\ dirty \subseteq Nodes
    /\ parallelism \in Nat
    /\ payload \in [Nodes -> {"none", "live", "ended"}]
    /\ faults \in 0..MaxFaults

AllStatusesOK ==
    /\ StatusOK(stored) /\ StatusOK(status)
    /\ StartedOK(stored, stored) /\ StartedOK(status, stored)
    /\ SkippedOK(stored) /\ SkippedOK(status)

SuccessIsComplete ==
    workflow = "Succeeding" => \A n \in Nodes : Parents(n) = {} => IsDone(stored[n].phase)

IInv ==
    /\ Types /\ AllStatusesOK /\ RoundOK /\ PayloadOK /\ StackOK(stack, status)
    /\ SuccessIsComplete /\ NoPayloadOutlivesWorkflow

---------------------------------------------------------------------------
(* Stacks.                                                                 *)

LEMMA PushFacts ==
    ASSUME NEW F, NEW sk \in Seq(F), NEW f \in F
    PROVE  LET new == <<f>> \o sk IN
           /\ new \in Seq(F) /\ Len(new) = Len(sk) + 1 /\ new[1] = f
           /\ \A i \in 1..Len(sk) : new[i+1] = sk[i]
OBVIOUS

LEMMA ReplaceFacts ==
    ASSUME NEW F, NEW sk \in Seq(F), sk # <<>>, NEW f \in F
    PROVE  LET new == <<f>> \o Tail(sk) IN
           /\ new \in Seq(F) /\ Len(new) = Len(sk) /\ new[1] = f
           /\ \A i \in 2..Len(sk) : new[i] = sk[i]
<1>1. Tail(sk) \in Seq(F) /\ Len(Tail(sk)) = Len(sk) - 1 /\ Len(sk) \in Nat \ {0}
  OBVIOUS
<1>2. \A i \in 1..Len(sk)-1 : Tail(sk)[i] = sk[i+1]
  OBVIOUS
<1> DEFINE new == <<f>> \o Tail(sk)
<1>3. new \in Seq(F) /\ Len(new) = Len(sk) /\ new[1] = f /\ \A i \in 1..Len(sk)-1 : new[i+1] = Tail(sk)[i]
  BY <1>1, PushFacts
<1> HIDE DEF new
<1>4. ASSUME NEW i \in 2..Len(sk) PROVE new[i] = sk[i]
  <2>1. i - 1 \in 1..Len(sk)-1 /\ (i - 1) + 1 = i
    BY <1>1
  <2> QED
    BY <1>2, <1>3, <2>1
<1> QED
  BY <1>3, <1>4 DEF new

LEMMA TailFacts ==
    ASSUME NEW F, NEW sk \in Seq(F), sk # <<>>
    PROVE  /\ Tail(sk) \in Seq(F) /\ Len(Tail(sk)) = Len(sk) - 1 /\ Len(sk) \in Nat \ {0}
           /\ \A i \in 1..Len(sk)-1 : Tail(sk)[i] = sk[i+1]
           /\ Head(sk) = sk[1] /\ sk[1] \in F
OBVIOUS

---------------------------------------------------------------------------
(* The graph.                                                              *)

LEMMA GraphFacts ==
    ASSUME Types
    PROVE  /\ \A n \in Nodes : Down(n) \in Seq(Nodes) /\ Cases(n) \in SUBSET Nodes
           /\ \A b, n \in Nodes : n \in Cases(b) =>
                  n # b /\ n # Start /\ Down(n) = <<>> /\ Parents(n) = {b}
           /\ \A n, m \in Nodes : n \in ToSet(Down(m)) =>
                  Parents(n) = {} /\ Parents(m) = {} /\ m \in Up(n)
           /\ \A n \in Nodes : Parents(n) = {} => Up(n) = {m \in Nodes : n \in ToSet(Down(m))}
           /\ Parents(Start) = {}
<1>1. /\ graph \in [down : [Nodes -> Seq(Nodes)], cases : [Nodes -> SUBSET Nodes],
                   needs : [Nodes -> SUBSET Nodes]]
      /\ IsCompiled(graph)
  BY GraphsAssumption DEF Types
<1>2. \A n \in Nodes : Down(n) \in Seq(Nodes) /\ Cases(n) \in SUBSET Nodes
  BY <1>1 DEF Down, Cases
<1>3. ASSUME NEW b \in Nodes, NEW n \in Nodes, n \in Cases(b)
      PROVE  /\ n # b /\ n # Start /\ Down(n) = <<>> /\ Parents(n) = {b}
             /\ \A m \in Nodes : n \notin ToSet(Down(m))
  <2>1. n # b
    <3>1. {b} \in SUBSET Nodes /\ {b} # {}
      OBVIOUS
    <3> QED
      BY <1>1, <1>3, <3>1 DEF IsCompiled, Cases
  <2>2. n # Start /\ graph.down[n] = <<>> /\ \A m \in Nodes : n \notin ToSet(graph.down[m])
    BY <1>1, <1>3 DEF IsCompiled, Cases
  <2>3. \A c \in Nodes : n \in Cases(c) => c = b
    BY <1>1, <1>3 DEF IsCompiled, Cases
  <2> QED
    BY <1>3, <2>1, <2>2, <2>3 DEF Down, Parents
<1>4. ASSUME NEW n \in Nodes, NEW m \in Nodes, n \in ToSet(Down(m))
      PROVE  Parents(n) = {} /\ Parents(m) = {} /\ m \in Up(n)
  <2>1. Down(m) # <<>>
    BY <1>2, <1>4 DEF ToSet
  <2>2. Parents(n) = {} /\ Parents(m) = {}
    BY <1>3, <1>4, <2>1 DEF Parents
  <2> QED
    BY <1>4, <2>2 DEF Up
<1>5. Parents(Start) = {}
  BY <1>3, NodesAssumption DEF Parents
<1>6. ASSUME NEW n \in Nodes, Parents(n) = {} PROVE Up(n) = {m \in Nodes : n \in ToSet(Down(m))}
  <2>1. graph.needs[n] = {}
    BY <1>1, <1>6 DEF IsCompiled, Parents, Cases
  <2> QED
    BY <1>6, <2>1 DEF Up
<1> QED
  BY <1>2, <1>3, <1>4, <1>5, <1>6

(* Only the start node has nothing upstream.                               *)
LEMMA TopIsReached ==
    ASSUME Types, NEW n \in Nodes, Parents(n) = {}, n # Start
    PROVE  Up(n) # {}
<1> SUFFICES ASSUME Up(n) = {} PROVE FALSE
  OBVIOUS
<1> DEFINE S == Nodes \ {n}
<1>1. S \in SUBSET Nodes /\ Start \in S
  BY NodesAssumption
<1>2. \A m \in Nodes : ToSet(graph.down[m]) \subseteq Nodes /\ n \notin ToSet(graph.down[m])
  BY GraphFacts DEF Down, ToSet
<1>3. \A m \in S : ToSet(graph.down[m]) \subseteq S
  BY <1>2
<1> HIDE DEF S
<1>4. n \in S \/ \E b \in Nodes : n \in graph.cases[b]
  BY <1>1, <1>3, GraphsAssumption DEF IsCompiled, Types
<1> QED
  BY <1>4 DEF S, Parents, Cases

(* Branches nest to a finite depth.                                        *)
LEMMA Nesting ==
    ASSUME Types, NEW S \in SUBSET Nodes, S # {}
    PROVE  \E n \in S : \A b \in S : n \notin Cases(b)
<1>1. graph \in Graphs /\ IsCompiled(graph)
  BY GraphsAssumption DEF Types
<1>2. \A T \in SUBSET Nodes : T # {} => \E n \in T : \A b \in T : n \notin graph.cases[b]
  BY <1>1 DEF IsCompiled
<1> QED
  BY <1>2 DEF Cases

(* What is started is found from the start node: through nodes that are    *)
(* done.                                                                   *)
LEMMA StartedIsReached ==
    ASSUME Types, NEW st, StartedOK(st, st), NEW S \in SUBSET Nodes, Start \in S,
           \A k \in S : IsDone(st[k].phase) => ToSet(Down(k)) \subseteq S,
           NEW n \in Nodes, Parents(n) = {}, IsStarted(st[n].phase)
    PROVE  n \in S
<1> DEFINE B == {m \in Nodes : IsStarted(st[m].phase) /\ m \notin S}
           R == Nodes \ B
<1>1. R \in SUBSET Nodes /\ Start \in R
  BY NodesAssumption
<1>2. ASSUME NEW u \in R, NEW v \in ToSet(Down(u)) PROVE v \in R
  <2>1. v \in Nodes /\ u \in Up(v)
    BY GraphFacts DEF ToSet
  <2> SUFFICES ASSUME v \in B PROVE FALSE
    BY <2>1
  <2>2. st[u].phase = "Succeeded"
    BY <2>1 DEF StartedOK, MayStart
  <2>3. u \in S
    BY <2>2 DEF IsStarted
  <2> QED
    BY <2>2, <2>3 DEF IsDone
<1>3. \A u \in R : ToSet(graph.down[u]) \subseteq R
  BY <1>2 DEF Down
<1> HIDE DEF R
<1>4. n \in R \/ \E b \in Nodes : n \in graph.cases[b]
  BY <1>1, <1>3, GraphsAssumption DEF Types, IsCompiled
<1> QED
  BY <1>4 DEF R, Parents, Cases

---------------------------------------------------------------------------
(* Frames.                                                                 *)

LEMMA AbsorbFacts ==
    ASSUME NEW f \in Frames, NEW result
    PROVE  LET g == Absorb(f, result) IN
           /\ g \in Frames /\ g.node = f.node /\ g.kind = f.kind /\ g.next = f.next + 1
           /\ g.stopped <=> (HasFailed(result) /\ policy = "FailImmediately")
           /\ g.failure = (IF HasFailed(result) THEN result ELSE f.failure)
           /\ g.allCompleted <=> (f.allCompleted /\ (HasFailed(result) \/ result = "Complete"))
<1> DEFINE g == Absorb(f, result)
<1>1. PICK stopped \in BOOLEAN : stopped = (HasFailed(result) /\ policy = "FailImmediately")
  OBVIOUS
<1>2. PICK all \in BOOLEAN : all = (f.allCompleted /\ (HasFailed(result) \/ result = "Complete"))
  OBVIOUS
<1>3. PICK partial \in BOOLEAN : partial = (f.partial \/ result = "Success")
  OBVIOUS
<1>4. PICK next \in Nat : next = f.next + 1
  BY DEF Frames
<1>5. PICK failure \in {"none", "Failed", "TimedOut"} :
          failure = IF HasFailed(result) THEN result ELSE f.failure
  BY DEF Frames, HasFailed
<1>6. g = [f EXCEPT !.next = next, !.stopped = stopped, !.failure = failure,
                    !.allCompleted = all, !.partial = partial]
  BY <1>1, <1>2, <1>3, <1>4, <1>5 DEF Absorb
<1> HIDE DEF g
<1>7. g = [node |-> f.node, kind |-> f.kind, next |-> next, stopped |-> stopped,
           allCompleted |-> all, partial |-> partial, failure |-> failure]
  BY <1>6 DEF Frames
<1>8. g \in Frames
  BY <1>7 DEF Frames
<1>9. g.stopped <=> (HasFailed(result) /\ policy = "FailImmediately")
  BY <1>1, <1>7
<1>10. g.allCompleted <=> (f.allCompleted /\ (HasFailed(result) \/ result = "Complete"))
  BY <1>2, <1>7
<1>11. g.node = f.node /\ g.kind = f.kind /\ g.next = f.next + 1
       /\ g.failure = IF HasFailed(result) THEN result ELSE f.failure
  BY <1>4, <1>5, <1>7
<1> QED
  BY <1>8, <1>9, <1>10, <1>11 DEF g

LEMMA CoversLast ==
    ASSUME NEW was, NEW st, Lasts(was, st), NEW n
    PROVE  /\ Completed(n, was) => Completed(n, st)
           /\ Finished(n, was) => Finished(n, st)
           /\ SomeFailed(was) => SomeFailed(st)
<1>1. \A m \in Nodes : IsOver(was[m].phase) => st[m] = was[m]
  BY DEF Lasts
<1>2. \A m \in Nodes : IsDone(was[m].phase) => st[m] = was[m]
  BY <1>1 DEF IsOver
<1>3. Completed(n, was) => Completed(n, st)
  BY <1>2 DEF Completed
<1>4. Finished(n, was) => Finished(n, st)
  <2> SUFFICES ASSUME NEW S \in SUBSET Nodes, n \in S,
                      \A m \in S : IsOver(was[m].phase) /\ (IsDone(was[m].phase) => ToSet(Down(m)) \subseteq S)
               PROVE  Finished(n, st)
    BY DEF Finished
  <2>1. \A m \in S : st[m] = was[m]
    BY <1>1
  <2> QED
    BY <2>1 DEF Finished
<1>5. SomeFailed(was) => SomeFailed(st)
  BY <1>1 DEF SomeFailed, IsOver
<1> QED
  BY <1>3, <1>4, <1>5

LEMMA FrameLasts ==
    ASSUME NEW was, NEW st, Types, Lasts(was, st), StatusOK(was), NEW f, FrameOK(f, was),
           f.kind = "case" => st[f.node] = was[f.node]
    PROVE  FrameOK(f, st) /\ ChildrenIn(f, st) = ChildrenIn(f, was)
<1>1. f.node \in Nodes
  BY DEF FrameOK, Frames
<1>2. CASE f.kind = "down"
  <2>1. DownFrameOK(f, was)
    BY <1>2 DEF FrameOK
  <2>2. DownFrameOK(f, st)
    <3>1. Parents(f.node) = {} /\ IsOver(st[f.node].phase)
      BY <1>1, <2>1 DEF DownFrameOK, Lasts
    <3> QED
      BY <2>1, <3>1, CoversLast DEF DownFrameOK
  <2> QED
    BY <1>2, <2>2 DEF FrameOK, ChildrenIn
<1>3. CASE f.kind = "case"
  <2>1. CaseFrameOK(f, was) /\ st[f.node] = was[f.node]
    BY <1>3 DEF FrameOK
  <2>2. was[f.node].taken \in Nodes
    <3>1. NodeOK(f.node, was[f.node], was)
      BY <1>1 DEF StatusOK
    <3>2. was[f.node].taken # None /\ was[f.node].taken \in Cases(f.node)
      BY <2>1, <3>1 DEF NodeOK, BranchOK, CaseFrameOK
    <3> QED
      BY <1>1, <3>2, GraphFacts
  <2>3. IsOver(was[was[f.node].taken].phase) => st[was[f.node].taken] = was[was[f.node].taken]
    BY <2>2 DEF Lasts
  <2>4. CaseFrameOK(f, st)
    BY <2>1, <2>3 DEF CaseFrameOK, IsOver
  <2> QED
    BY <1>3, <2>1, <2>4 DEF FrameOK, ChildrenIn
<1>4. f.kind \in {"down", "case"}
  BY DEF FrameOK, Frames
<1> QED
  BY <1>2, <1>3, <1>4

(* Covering is closed: a node is covered with what is downstream of it.    *)
LEMMA CoversGrow ==
    ASSUME Types, NEW st, NEW n \in Nodes
    PROVE  /\ Completed(n, st) => Finished(n, st)
           /\ (IsDone(st[n].phase) /\ \A m \in ToSet(Down(n)) : Completed(m, st)) => Completed(n, st)
           /\ (IsOver(st[n].phase) /\ \A m \in ToSet(Down(n)) : Finished(m, st)) => Finished(n, st)
           /\ HasFailed(st[n].phase) => Finished(n, st)
<1>1. Completed(n, st) => Finished(n, st)
  BY DEF Completed, Finished, IsOver
<1>2. ASSUME IsDone(st[n].phase), \A m \in ToSet(Down(n)) : Completed(m, st)
      PROVE  Completed(n, st)
  <2> DEFINE C == {m \in Nodes : Completed(m, st)}
             S == C \cup {n}
  <2>1. ASSUME NEW m \in C PROVE IsDone(st[m].phase) /\ ToSet(Down(m)) \subseteq C
    <3>1. PICK T \in SUBSET Nodes :
              m \in T /\ \A k \in T : IsDone(st[k].phase) /\ ToSet(Down(k)) \subseteq T
      BY DEF Completed
    <3>2. T \subseteq C
      BY <3>1 DEF Completed
    <3> QED
      BY <3>1, <3>2
  <2>2. ToSet(Down(n)) \subseteq C
    BY <1>2, GraphFacts DEF ToSet
  <2> HIDE DEF C
  <2>3. S \in SUBSET Nodes /\ n \in S
    BY DEF C
  <2>4. \A m \in S : IsDone(st[m].phase) /\ ToSet(Down(m)) \subseteq S
    BY <1>2, <2>1, <2>2
  <2> QED
    BY <2>3, <2>4 DEF Completed
<1>3. ASSUME IsOver(st[n].phase), \A m \in ToSet(Down(n)) : Finished(m, st)
      PROVE  Finished(n, st)
  <2> DEFINE C == {m \in Nodes : Finished(m, st)}
             S == C \cup {n}
  <2>1. ASSUME NEW m \in C
        PROVE  IsOver(st[m].phase) /\ (IsDone(st[m].phase) => ToSet(Down(m)) \subseteq C)
    <3>1. PICK T \in SUBSET Nodes :
              m \in T /\ \A k \in T : IsOver(st[k].phase) /\ (IsDone(st[k].phase) => ToSet(Down(k)) \subseteq T)
      BY DEF Finished
    <3>2. T \subseteq C
      BY <3>1 DEF Finished
    <3> QED
      BY <3>1, <3>2
  <2>2. ToSet(Down(n)) \subseteq C
    BY <1>3, GraphFacts DEF ToSet
  <2> HIDE DEF C
  <2>3. S \in SUBSET Nodes /\ n \in S
    BY DEF C
  <2>4. \A m \in S : IsOver(st[m].phase) /\ (IsDone(st[m].phase) => ToSet(Down(m)) \subseteq S)
    BY <1>3, <2>1, <2>2
  <2> QED
    BY <2>3, <2>4 DEF Finished
<1>4. ASSUME HasFailed(st[n].phase) PROVE Finished(n, st)
  <2>1. IsOver(st[n].phase) /\ ~IsDone(st[n].phase)
    BY <1>4 DEF IsOver, IsDone, HasFailed
  <2>2. {n} \in SUBSET Nodes
    OBVIOUS
  <2>3. n \in {n} /\ \A m \in {n} : IsOver(st[m].phase) /\ (IsDone(st[m].phase) => ToSet(Down(m)) \subseteq {n})
    BY <2>1
  <2> QED
    BY <2>2, <2>3 DEF Finished
<1> QED
  BY <1>1, <1>2, <1>3, <1>4

(* What a call tells its caller of node n.                                 *)
Answers(kind, n, st, result) ==
    /\ result = "Complete" => IsDone(st[n].phase) /\ (kind = "down" => Completed(n, st))
    /\ HasFailed(result) =>
           /\ kind = "case" => HasFailed(st[n].phase)
           /\ kind = "down" => SomeFailed(st) /\ (policy = "FailAfterExecutable" => Finished(n, st))

LEMMA AbsorbOK ==
    ASSUME Types, NEW st, NEW f, FrameOK(f, st), NEW result,
           f.next =< Len(ChildrenIn(f, st)), Answers(f.kind, ChildrenIn(f, st)[f.next], st, result)
    PROVE  FrameOK(Absorb(f, result), st)
<1> DEFINE g == Absorb(f, result)
<1>1. f \in Frames /\ f.next \in Nat \ {0} /\ f.kind \in {"down", "case"} /\ f.node \in Nodes
  BY DEF FrameOK, Frames
<1>2. /\ g \in Frames /\ g.node = f.node /\ g.kind = f.kind /\ g.next = f.next + 1
      /\ g.stopped <=> (HasFailed(result) /\ policy = "FailImmediately")
      /\ g.failure = (IF HasFailed(result) THEN result ELSE f.failure)
      /\ g.allCompleted <=> (f.allCompleted /\ (HasFailed(result) \/ result = "Complete"))
  BY <1>1, AbsorbFacts
<1> HIDE DEF g
<1>3. HasFailed(result) => result # "none"
  BY DEF HasFailed
<1>4. g.next # 0 /\ (g.stopped => g.failure # "none")
  BY <1>1, <1>2, <1>3
<1>5. CASE f.kind = "down"
  <2> DEFINE D == Down(f.node)
             n == D[f.next]
  <2>1. DownFrameOK(f, st) /\ f.next =< Len(D) /\ Answers("down", n, st, result)
    BY <1>5 DEF FrameOK, ChildrenIn
  <2>2. D \in Seq(Nodes) /\ Len(D) \in Nat
    BY <1>1, GraphFacts
  <2>3. n \in Nodes
    BY <1>1, <2>1, <2>2
  <2> HIDE DEF D, n
  <2>4. ASSUME NEW k \in 1..Len(D), k < f.next + 1 PROVE k < f.next \/ k = f.next
    BY <1>1, <2>2, <2>4
  <2>5. g.failure # "none" => SomeFailed(st)
    BY <1>2, <2>1 DEF DownFrameOK, Answers
  <2>6. ASSUME g.allCompleted, g.failure = "none", NEW k \in 1..Len(D), k < f.next + 1
        PROVE  Completed(D[k], st)
    <3>1. ~HasFailed(result) /\ result = "Complete" /\ f.allCompleted /\ f.failure = "none"
      BY <1>2, <1>3, <2>6
    <3>2. CASE k < f.next
      BY <2>1, <2>6, <3>1, <3>2 DEF DownFrameOK, D
    <3>3. CASE k = f.next
      BY <2>1, <3>1, <3>3 DEF Answers, n
    <3> QED
      BY <2>4, <2>6, <3>2, <3>3
  <2>7. ASSUME policy = "FailAfterExecutable", g.allCompleted, NEW k \in 1..Len(D), k < f.next + 1
        PROVE  Finished(D[k], st)
    <3>1. f.allCompleted /\ (HasFailed(result) \/ result = "Complete")
      BY <1>2, <2>7
    <3>2. CASE k < f.next
      BY <2>1, <2>7, <3>1, <3>2 DEF DownFrameOK, D
    <3>3. CASE k = f.next
      <4>1. Finished(n, st)
        BY <2>1, <2>3, <2>7, <3>1, CoversGrow DEF Answers
      <4> QED
        BY <3>3, <4>1 DEF n
    <3> QED
      BY <2>4, <2>7, <3>2, <3>3
  <2>8. policy = "FailAfterExecutable" => ~g.stopped
    BY <1>2
  <2>9. DownFrameOK(g, st)
    BY <1>2, <2>1, <2>5, <2>6, <2>7, <2>8 DEF DownFrameOK, D
  <2> QED
    BY <1>2, <1>4, <1>5, <2>9 DEF FrameOK, g
<1>6. CASE f.kind = "case"
  <2>1. CaseFrameOK(f, st) /\ f.next = 1 /\ Answers("case", st[f.node].taken, st, result)
    BY <1>1, <1>6 DEF FrameOK, ChildrenIn
  <2>2. CaseFrameOK(g, st)
    BY <1>2, <1>3, <2>1 DEF CaseFrameOK, Answers
  <2> QED
    BY <1>2, <1>4, <1>6, <2>2 DEF FrameOK, g
<1> QED
  BY <1>1, <1>5, <1>6

(* What handleDownstream returns.                                          *)
LEMMA ResultAnswers ==
    ASSUME Types, NEW f, FrameOK(f, status), f.kind = "down", f.stopped \/ f.next > Len(Down(f.node))
    PROVE  Answers("down", f.node, status, Result(f))
<1> DEFINE D == Down(f.node)
<1>1. /\ f.node \in Nodes /\ f.next \in Nat /\ f.failure \in {"none", "Failed", "TimedOut"}
      /\ f.stopped \in BOOLEAN /\ f.allCompleted \in BOOLEAN /\ DownFrameOK(f, status)
      /\ f.stopped => f.failure # "none"
  BY DEF FrameOK, Frames
<1>2. D \in Seq(Nodes) /\ Len(D) \in Nat
  BY <1>1, GraphFacts
<1>3. ~f.stopped => \A m \in ToSet(D) : \E k \in 1..Len(D) : k < f.next /\ m = D[k]
  BY <1>1, <1>2 DEF ToSet
<1>4. ASSUME HasFailed(Phase(f.node)) PROVE Answers("down", f.node, status, Result(f))
  <2>1. Result(f) = Phase(f.node) /\ Result(f) # "Complete"
    BY <1>4 DEF Result, HasFailed
  <2>2. SomeFailed(status)
    BY <1>1, <1>4 DEF SomeFailed, Phase, DownFrameOK
  <2>3. Finished(f.node, status)
    BY <1>1, <1>4, CoversGrow DEF Phase
  <2> QED
    BY <2>1, <2>2, <2>3 DEF Answers
<1>5. ASSUME ~HasFailed(Phase(f.node)), f.failure # "none", f.stopped \/ f.allCompleted
      PROVE  Answers("down", f.node, status, Result(f))
  <2>1. Result(f) = f.failure /\ Result(f) # "Complete" /\ SomeFailed(status)
    BY <1>1, <1>5 DEF Result, DownFrameOK
  <2>2. ASSUME policy = "FailAfterExecutable" PROVE Finished(f.node, status)
    <3>1. ~f.stopped /\ f.allCompleted
      BY <1>1, <1>5, <2>2 DEF DownFrameOK
    <3>2. \A m \in ToSet(D) : Finished(m, status)
      BY <1>1, <1>3, <2>2, <3>1 DEF DownFrameOK
    <3> QED
      BY <1>1, <3>2, CoversGrow DEF DownFrameOK
  <2> QED
    BY <2>1, <2>2 DEF Answers
<1>6. ASSUME ~HasFailed(Phase(f.node)), ~(f.failure # "none" /\ (f.stopped \/ f.allCompleted)), f.allCompleted
      PROVE  Answers("down", f.node, status, Result(f))
  <2>1. Result(f) = "Complete" /\ f.failure = "none" /\ ~f.stopped
    BY <1>1, <1>6 DEF Result
  <2>2. \A m \in ToSet(D) : Completed(m, status)
    BY <1>1, <1>3, <1>6, <2>1 DEF DownFrameOK
  <2>3. IsDone(status[f.node].phase)
    BY <1>1, <1>6 DEF DownFrameOK, IsOver, Phase
  <2>4. Completed(f.node, status)
    BY <1>1, <2>2, <2>3, CoversGrow
  <2>5. ~HasFailed("Complete")
    BY DEF HasFailed
  <2> QED
    BY <2>1, <2>3, <2>4, <2>5 DEF Answers
<1>7. ASSUME ~HasFailed(Phase(f.node)), ~(f.failure # "none" /\ (f.stopped \/ f.allCompleted)), ~f.allCompleted
      PROVE  Answers("down", f.node, status, Result(f))
  <2>1. Result(f) \in {"Success", "Pending"}
    BY <1>7 DEF Result
  <2>2. ~HasFailed(Result(f)) /\ Result(f) # "Complete"
    BY <2>1 DEF HasFailed
  <2> QED
    BY <2>2 DEF Answers
<1> QED
  BY <1>4, <1>5, <1>6, <1>7

---------------------------------------------------------------------------
(* The stack of calls.                                                     *)

(* A decided branch and its case.                                          *)
LEMMA TakenIsCase ==
    ASSUME Types, NEW st, StatusOK(st), NEW n \in Nodes, IsBranch(n), st[n].phase = "Running"
    PROVE  st[n].taken \in Cases(n) /\ st[n].taken \in Nodes /\ st[n].taken # None
<1>1. NodeOK(n, st[n], st)
  BY DEF StatusOK
<1> QED
  BY <1>1, GraphFacts DEF NodeOK, BranchOK

(* No branch is entered while it is already being handled: branches nest.  *)
LEMMA CaseFramesDiffer ==
    ASSUME Types, NEW st, StatusOK(st), NEW sk, StackOK(sk, st),
           NEW j \in 1..Len(sk), j > 1, sk[j].kind = "case"
    PROVE  sk[j].node # sk[1].node
<1> SUFFICES ASSUME sk[j].node = sk[1].node PROVE FALSE
  OBVIOUS
<1> DEFINE Z == {sk[k].node : k \in 1..j}
<1>1. Len(sk) \in Nat /\ \A k \in 1..Len(sk) : sk[k] \in Frames /\ sk[k].node \in Nodes
  <2>1. sk \in Seq(Frames)
    BY DEF StackOK
  <2>2. Len(sk) \in Nat /\ \A k \in 1..Len(sk) : sk[k] \in Frames
    BY <2>1
  <2>3. \A f \in Frames : f.node \in Nodes
    BY DEF Frames
  <2> QED
    BY <2>2, <2>3
<1>2. Z \in SUBSET Nodes /\ Z # {}
  BY <1>1
<1>3. ASSUME NEW k \in 1..j, k < j PROVE k + 1 \in 1..j /\ sk[k].node \in Cases(sk[k+1].node)
  <2>1. k \in 1..Len(sk) /\ k < Len(sk) /\ k + 1 \in 1..Len(sk) /\ k + 1 \in 1..j /\ (k + 1 < j \/ k + 1 = j)
    BY <1>1, <1>3
  <2>2. sk[k+1].kind = "case"
    BY <2>1 DEF StackOK
  <2>3. FrameOK(sk[k+1], st) /\ IsCalledBy(sk[k], sk[k+1], st)
    BY <2>1 DEF StackOK
  <2>4. CaseFrameOK(sk[k+1], st) /\ sk[k+1].next \in Nat \ {0} /\ sk[k+1].node \in Nodes
    BY <2>2, <2>3 DEF FrameOK, Frames
  <2>5. sk[k].node = st[sk[k+1].node].taken
    BY <2>2, <2>3, <2>4 DEF IsCalledBy, ChildrenIn
  <2>6. st[sk[k+1].node].taken \in Cases(sk[k+1].node)
    BY <2>4, TakenIsCase DEF CaseFrameOK
  <2> QED
    BY <2>1, <2>5, <2>6
<1>4. \A n \in Z : \E b \in Z : n \in Cases(b)
  <2> SUFFICES ASSUME NEW k \in 1..j PROVE \E b \in Z : sk[k].node \in Cases(b)
    OBVIOUS
  <2>1. CASE k < j
    BY <1>3, <2>1
  <2>2. CASE k = j
    <3>1. 1 \in 1..j /\ 1 < j
      BY <1>1
    <3> QED
      BY <1>3, <2>2, <3>1
  <2> QED
    BY <1>1, <2>1, <2>2
<1> HIDE DEF Z
<1>5. \E n \in Z : \A b \in Z : n \notin Cases(b)
  BY <1>2, Nesting
<1> QED
  BY <1>4, <1>5

(* The node that a call visits next.                                       *)
LEMMA NextChild ==
    ASSUME Types, NEW st, StatusOK(st), NEW f, FrameOK(f, st), f.next =< Len(ChildrenIn(f, st))
    PROVE  LET n == ChildrenIn(f, st)[f.next] IN
           /\ n \in Nodes
           /\ f.kind = "down" => Parents(n) = {}
           /\ f.kind = "case" => n = st[f.node].taken /\ Parents(n) = {f.node}
<1> DEFINE n == ChildrenIn(f, st)[f.next]
<1>1. f.next \in Nat \ {0} /\ f.node \in Nodes /\ f.kind \in {"down", "case"}
  BY DEF FrameOK, Frames
<1>2. CASE f.kind = "down"
  <2>1. Down(f.node) \in Seq(Nodes) /\ f.next \in 1..Len(Down(f.node)) /\ n = Down(f.node)[f.next]
    BY <1>1, <1>2, GraphFacts DEF ChildrenIn
  <2>2. n \in Nodes /\ n \in ToSet(Down(f.node))
    BY <2>1 DEF ToSet
  <2> QED
    BY <1>1, <1>2, <2>2, GraphFacts
<1>3. CASE f.kind = "case"
  <2>1. n = st[f.node].taken
    BY <1>1, <1>3 DEF ChildrenIn
  <2>2. IsBranch(f.node) /\ st[f.node].phase = "Running"
    BY <1>3 DEF FrameOK, CaseFrameOK
  <2>3. n \in Cases(f.node) /\ n \in Nodes
    BY <1>1, <2>1, <2>2, TakenIsCase
  <2> QED
    BY <1>1, <1>3, <2>1, <2>3, GraphFacts
<1> QED
  BY <1>1, <1>2, <1>3

LEMMA StackPush ==
    ASSUME Types, NEW st, StatusOK(st), NEW sk, StackOK(sk, st), sk # <<>>,
           sk[1].next =< Len(ChildrenIn(sk[1], st)), NEW kind,
           LET n == ChildrenIn(sk[1], st)[sk[1].next] IN
           \/ kind = "down" /\ sk[1].kind = "down" /\ IsOver(st[n].phase)
           \/ kind = "case" /\ IsBranch(n) /\ st[n].phase = "Running"
    PROVE  StackOK(<<Frame(ChildrenIn(sk[1], st)[sk[1].next], kind)>> \o sk, st)
<1> DEFINE f == sk[1]
           n == ChildrenIn(f, st)[f.next]
           g == Frame(n, kind)
           new == <<g>> \o sk
<1>1. sk \in Seq(Frames) /\ Len(sk) \in Nat \ {0} /\ f \in Frames /\ FrameOK(f, st)
  BY TailFacts DEF StackOK
<1>2. f.next \in Nat \ {0} /\ f.node \in Nodes /\ f.kind \in {"down", "case"}
  BY <1>1 DEF FrameOK, Frames
<1>3. n \in Nodes /\ (f.kind = "down" => Parents(n) = {})
  BY <1>1, NextChild
<1>4. \/ kind = "down" /\ f.kind = "down" /\ IsOver(st[n].phase)
      \/ kind = "case" /\ IsBranch(n) /\ st[n].phase = "Running"
  OBVIOUS
<1>5. f.next =< Len(ChildrenIn(f, st))
  OBVIOUS
<1> HIDE DEF n, f
<1>6. /\ g.node = n /\ g.kind = kind /\ g.next = 1 /\ g.stopped = FALSE
      /\ g.failure = "none" /\ g.allCompleted = TRUE
  BY DEF Frame
<1>7. g \in Frames
  BY <1>3, <1>4 DEF Frame, Frames
<1> HIDE DEF g
<1>8. FrameOK(g, st)
  <2>1. kind = "down" => DownFrameOK(g, st)
    BY <1>3, <1>4, <1>6 DEF DownFrameOK
  <2>2. kind = "case" => CaseFrameOK(g, st)
    BY <1>4, <1>6 DEF CaseFrameOK
  <2> QED
    BY <1>6, <1>7, <2>1, <2>2 DEF FrameOK
<1>9. /\ new \in Seq(Frames) /\ Len(new) = Len(sk) + 1 /\ new[1] = g
      /\ \A i \in 1..Len(sk) : new[i+1] = sk[i]
  BY <1>1, <1>7, PushFacts
<1> HIDE DEF new
<1>10. \A i \in 1..Len(new) : i = 1 \/ (i - 1 \in 1..Len(sk) /\ new[i] = sk[i-1])
  <2> SUFFICES ASSUME NEW i \in 1..Len(new), i # 1 PROVE i - 1 \in 1..Len(sk) /\ new[i] = sk[i-1]
    OBVIOUS
  <2>1. i - 1 \in 1..Len(sk) /\ (i - 1) + 1 = i
    BY <1>1, <1>9
  <2> QED
    BY <1>9, <2>1
<1>11. \A i \in 1..Len(new) : FrameOK(new[i], st)
  BY <1>8, <1>9, <1>10 DEF StackOK
<1>12. ASSUME NEW i \in 1..Len(new), i < Len(new) PROVE IsCalledBy(new[i], new[i+1], st)
  <2>1. CASE i = 1
    <3>1. new[i] = g /\ new[i+1] = f
      BY <1>1, <1>9, <2>1 DEF f
    <3> QED
      BY <1>5, <1>6, <3>1 DEF IsCalledBy, n
  <2>2. CASE i # 1
    <3>1. i - 1 \in 1..Len(sk) /\ i - 1 < Len(sk) /\ new[i] = sk[i-1] /\ i \in 1..Len(sk) /\ (i - 1) + 1 = i
      BY <1>1, <1>9, <1>10, <1>12, <2>2
    <3>2. new[i+1] = sk[i]
      BY <1>9, <3>1
    <3>3. IsCalledBy(sk[i-1], sk[(i-1)+1], st)
      BY <3>1 DEF StackOK
    <3> QED
      BY <3>1, <3>2, <3>3
  <2> QED
    BY <2>1, <2>2
<1>13. ASSUME NEW i \in 1..Len(new), NEW j \in 1..Len(new), i < j, new[j].kind = "case"
       PROVE  new[i].kind = "case"
  <2>1. j # 1 /\ j - 1 \in 1..Len(sk) /\ new[j] = sk[j-1]
    BY <1>1, <1>9, <1>10, <1>13
  <2>2. CASE i = 1
    <3>1. sk[1].kind = "case"
      <4>1. j - 1 = 1 \/ (1 < j - 1 /\ 1 \in 1..Len(sk))
        BY <1>1, <2>1
      <4> QED
        BY <1>13, <2>1, <4>1 DEF StackOK
    <3> QED
      BY <1>4, <1>6, <1>9, <2>2, <3>1 DEF f
  <2>3. CASE i # 1
    <3>1. i - 1 \in 1..Len(sk) /\ new[i] = sk[i-1] /\ i - 1 < j - 1
      BY <1>1, <1>9, <1>10, <1>13, <2>3
    <3> QED
      BY <1>13, <2>1, <3>1 DEF StackOK
  <2> QED
    BY <2>2, <2>3
<1>14. Len(new) > 0 => new[Len(new)].node = Start /\ new[Len(new)].kind = "down"
  <2>1. new[Len(new)] = sk[Len(sk)]
    BY <1>1, <1>9
  <2> QED
    BY <1>1, <2>1 DEF StackOK
<1>15. StackOK(new, st)
  BY <1>9, <1>11, <1>12, <1>13, <1>14 DEF StackOK
<1> QED
  BY <1>15 DEF new, g, n, f

LEMMA StackAbsorb ==
    ASSUME Types, NEW was, NEW st, Lasts(was, st), StatusOK(was), NEW sk, StackOK(sk, was), sk # <<>>,
           \A i \in 1..Len(sk) : sk[i].kind = "case" => st[sk[i].node] = was[sk[i].node],
           sk[1].next =< Len(ChildrenIn(sk[1], was)), NEW result,
           Answers(sk[1].kind, ChildrenIn(sk[1], was)[sk[1].next], st, result)
    PROVE  StackOK(<<Absorb(Head(sk), result)>> \o Tail(sk), st)
<1> DEFINE f == sk[1]
           g == Absorb(f, result)
           new == <<g>> \o Tail(sk)
<1>1. sk \in Seq(Frames) /\ Len(sk) \in Nat \ {0} /\ Head(sk) = f /\ f \in Frames
  BY TailFacts DEF StackOK
<1>2. \A i \in 1..Len(sk) : FrameOK(sk[i], st) /\ ChildrenIn(sk[i], st) = ChildrenIn(sk[i], was)
  BY FrameLasts DEF StackOK
<1>3. 1 \in 1..Len(sk)
  BY <1>1
<1>4. FrameOK(f, st) /\ ChildrenIn(f, st) = ChildrenIn(f, was)
  BY <1>2, <1>3
<1>5. FrameOK(g, st)
  BY <1>4, AbsorbOK
<1>6. g \in Frames /\ g.node = f.node /\ g.kind = f.kind
  BY <1>1, AbsorbFacts
<1> HIDE DEF g
<1>7. /\ new \in Seq(Frames) /\ Len(new) = Len(sk) /\ new[1] = g
      /\ \A i \in 2..Len(sk) : new[i] = sk[i]
  BY <1>1, <1>6, ReplaceFacts
<1> HIDE DEF new, f
<1>8. \A i \in 1..Len(sk) : i = 1 \/ (i \in 2..Len(sk) /\ new[i] = sk[i])
  BY <1>1, <1>7
<1>9. \A i \in 1..Len(sk) : new[i].node = sk[i].node /\ new[i].kind = sk[i].kind /\ FrameOK(new[i], st)
  BY <1>2, <1>5, <1>6, <1>7, <1>8 DEF f
<1>10. ASSUME NEW i \in 1..Len(sk), i < Len(sk) PROVE IsCalledBy(new[i], new[i+1], st)
  <2>1. i + 1 \in 1..Len(sk) /\ i + 1 # 1
    BY <1>1, <1>10
  <2>2. IsCalledBy(sk[i], sk[i+1], was) /\ new[i+1] = sk[i+1]
    BY <1>8, <1>10, <2>1 DEF StackOK
  <2> QED
    BY <1>2, <1>9, <2>1, <2>2 DEF IsCalledBy
<1>11. Len(sk) \in 1..Len(sk)
  BY <1>1
<1>12. StackOK(new, st)
  BY <1>7, <1>9, <1>10, <1>11 DEF StackOK
<1> QED
  BY <1>1, <1>12 DEF new, g

LEMMA StackPop ==
    ASSUME NEW st, NEW sk, StackOK(sk, st), Len(sk) > 1
    PROVE  /\ StackOK(Tail(sk), st) /\ Tail(sk) # <<>> /\ Tail(sk)[1] = sk[2]
           /\ \A i \in 1..Len(Tail(sk)) : i + 1 \in 1..Len(sk) /\ Tail(sk)[i] = sk[i+1]
           /\ IsCalledBy(sk[1], sk[2], st)
<1> DEFINE t == Tail(sk)
<1>1. sk \in Seq(Frames) /\ sk # <<>> /\ Len(sk) \in Nat
  BY DEF StackOK
<1>2. t \in Seq(Frames) /\ Len(t) = Len(sk) - 1 /\ \A i \in 1..Len(sk)-1 : t[i] = sk[i+1]
  BY <1>1, TailFacts
<1> HIDE DEF t
<1>3. \A i \in 1..Len(t) : i + 1 \in 1..Len(sk) /\ t[i] = sk[i+1]
  BY <1>1, <1>2
<1>4. Len(t) > 0 /\ 1 \in 1..Len(t) /\ Len(t) \in 1..Len(t) /\ Len(t) + 1 = Len(sk)
  BY <1>1, <1>2
<1>5. t # <<>> /\ t[1] = sk[2]
  BY <1>1, <1>2, <1>3, <1>4
<1>6. \A i \in 1..Len(t) : FrameOK(t[i], st)
  BY <1>3 DEF StackOK
<1>7. ASSUME NEW i \in 1..Len(t), i < Len(t) PROVE IsCalledBy(t[i], t[i+1], st)
  <2>1. i + 1 \in 1..Len(sk) /\ i + 1 < Len(sk) /\ i + 1 \in 1..Len(t)
    BY <1>1, <1>2, <1>7
  <2>2. IsCalledBy(sk[i+1], sk[(i+1)+1], st)
    BY <2>1 DEF StackOK
  <2> QED
    BY <1>3, <2>1, <2>2
<1>8. ASSUME NEW i \in 1..Len(t), NEW j \in 1..Len(t), i < j, t[j].kind = "case" PROVE t[i].kind = "case"
  <2>1. i + 1 \in 1..Len(sk) /\ j + 1 \in 1..Len(sk) /\ i + 1 < j + 1 /\ t[i] = sk[i+1] /\ t[j] = sk[j+1]
    BY <1>1, <1>2, <1>3, <1>8
  <2> QED
    BY <1>8, <2>1 DEF StackOK
<1>9. t[Len(t)].node = Start /\ t[Len(t)].kind = "down"
  <2>1. t[Len(t)] = sk[Len(sk)]
    BY <1>3, <1>4
  <2> QED
    BY <1>1, <2>1 DEF StackOK
<1>10. StackOK(t, st)
  BY <1>2, <1>6, <1>7, <1>8, <1>9 DEF StackOK
<1>11. 1 \in 1..Len(sk) /\ 1 < Len(sk) /\ 1 + 1 = 2
  BY <1>1
<1>12. IsCalledBy(sk[1], sk[2], st)
  BY <1>11 DEF StackOK
<1> QED
  BY <1>3, <1>5, <1>10, <1>12 DEF t

---------------------------------------------------------------------------
(* Visits to a node.                                                       *)

LEMMA AbortedPhases ==
    ASSUME NEW p \in TraversalPhases
    PROVE  IsAborted(p) <=> (~IsOver(p) /\ p # "NotYetStarted")
BY DEF TraversalPhases, NodePhases, IsAborted, CanHandleNode, IsOver, IsDone, HasFailed

(* A node that is not over may get the status s.                           *)
MayBecome(n, s, st, was) ==
    /\ ~IsOver(st[n].phase)
    /\ NodeOK(n, s, st) /\ s.taken = st[n].taken
    /\ IsStarted(s.phase) => MayStart(n, was)
    /\ s.phase = "Skipped" => MayBeSkipped(n, st)
    /\ st[n].phase \notin {"NotYetStarted", "Queued"} => s.phase \notin {"NotYetStarted", "Queued"}

LEMMA OneNode ==
    ASSUME Types, NEW was, NEW st, StatusOK(st), StartedOK(st, was), SkippedOK(st),
           NEW n \in Nodes, NEW new, new \in [Nodes -> Status], MayBecome(n, new[n], st, was),
           \A m \in Nodes : m # n => new[m] = st[m]
    PROVE  StatusOK(new) /\ StartedOK(new, was) /\ SkippedOK(new) /\ Lasts(st, new)
<1> DEFINE s == new[n]
<1>0. /\ ~IsOver(st[n].phase)
      /\ NodeOK(n, s, st) /\ s.taken = st[n].taken
      /\ IsStarted(s.phase) => MayStart(n, was)
      /\ s.phase = "Skipped" => MayBeSkipped(n, st)
      /\ st[n].phase \notin {"NotYetStarted", "Queued"} => s.phase \notin {"NotYetStarted", "Queued"}
  BY DEF MayBecome
<1>2. \A m \in Nodes : m = n \/ new[m] = st[m]
  OBVIOUS
<1>3. Lasts(st, new)
  BY <1>0, <1>2 DEF Lasts
<1>4. n # Start
  BY <1>0 DEF StatusOK, IsOver, IsDone
<1>5. ASSUME NEW m \in Nodes PROVE NodeOK(m, new[m], new)
  <2>1. NodeOK(m, new[m], st)
    BY <1>0, <1>2 DEF StatusOK
  <2>2. ASSUME IsBranch(m), new[m].phase = "Succeeded"
        PROVE  new[new[m].taken] = st[new[m].taken]
    <3>1. new[m].taken \in Cases(m) /\ AgreesWithCase(new[m], st)
      BY <2>1, <2>2 DEF NodeOK, BranchOK
    <3>2. new[m].taken \in Nodes /\ IsOver(st[new[m].taken].phase)
      BY <2>2, <3>1, GraphFacts DEF AgreesWithCase, IsOver
    <3> QED
      BY <1>3, <3>2 DEF Lasts
  <2> QED
    BY <2>1, <2>2 DEF NodeOK, AgreesWithCase
<1>6. StatusOK(new)
  BY <1>2, <1>4, <1>5, NodesAssumption DEF StatusOK
<1>7. StartedOK(new, was)
  BY <1>0, <1>2 DEF StartedOK
<1>8. ASSUME NEW m \in Nodes, MayBeSkipped(m, st) PROVE MayBeSkipped(m, new)
  <2>0. \A b \in Parents(m) : new[b].taken = st[b].taken /\ new[b].phase \notin {"NotYetStarted", "Queued"}
    BY <1>0, <1>2, <1>8 DEF Parents, MayBeSkipped
  <2>1. CASE \E u \in Up(m) : st[u].phase \in {"Skipped", "Failed", "TimedOut"}
    <3>1. PICK u \in Up(m) : st[u].phase \in {"Skipped", "Failed", "TimedOut"}
      BY <2>1
    <3>2. new[u] = st[u]
      BY <1>3, <3>1 DEF Lasts, IsOver, IsDone, HasFailed, Up
    <3> QED
      BY <2>0, <3>1, <3>2 DEF MayBeSkipped
  <2>2. CASE \E b \in Parents(m) : st[b].taken # m
    BY <2>0, <2>2 DEF MayBeSkipped
  <2> QED
    BY <1>8, <2>1, <2>2 DEF MayBeSkipped
<1>9. SkippedOK(new)
  BY <1>0, <1>2, <1>8 DEF SkippedOK
<1> QED
  BY <1>3, <1>6, <1>7, <1>9

PayloadIn(p, st) ==
    /\ p \in [Nodes -> {"none", "live", "ended"}]
    /\ \A n \in Nodes : p[n] = "live" => ~IsBranch(n) /\ Accounted(stored[n]) /\ Accounted(st[n])

(* The round's copy has moved on; branches at work are as they were.       *)
Advanced(st) ==
    /\ StatusOK(st) /\ StartedOK(st, stored) /\ SkippedOK(st) /\ Lasts(status, st)
    /\ \A b \in Nodes : IsBranch(b) /\ status[b].phase = "Running" => st[b] = status[b]

Marked(st, marks) == marks \subseteq Nodes /\ \A m \in Nodes \ marks : m \notin dirty /\ st[m] = status[m]

VisitOK(n) ==
    /\ Advanced(status') /\ Marked(status', dirty') /\ PayloadIn(payload', status') /\ parallelism' \in Nat
    /\ \E result :
           /\ stack' = <<Absorb(Head(stack), result)>> \o Tail(stack)
           /\ result # "Complete"
           /\ HasFailed(result) => HasFailed(status'[n].phase)

LEMMA Unmoved ==
    ASSUME Types, AllStatusesOK, PayloadOK
    PROVE  Advanced(status) /\ Marked(status, dirty) /\ PayloadIn(payload, status)
BY DEF Advanced, Marked, PayloadIn, AllStatusesOK, PayloadOK, Lasts, Types

LEMMA PassesOK ==
    ASSUME Types, AllStatusesOK, PayloadOK, NEW n, NEW result, Passes(result),
           result # "Complete", ~HasFailed(result)
    PROVE  VisitOK(n)
<1>1. /\ status' = status /\ dirty' = dirty /\ parallelism' = parallelism /\ payload' = payload
      /\ stack' = <<Absorb(Head(stack), result)>> \o Tail(stack)
  BY DEF Passes
<1>2. Advanced(status) /\ Marked(status, dirty) /\ PayloadIn(payload, status)
  BY Unmoved
<1> QED
  BY <1>1, <1>2 DEF VisitOK, Types

(* A visit that changes one node.                                          *)
LEMMA OneNodeVisit ==
    ASSUME Types, AllStatusesOK, PayloadOK, NEW n \in Nodes,
           IsBranch(n) => status[n].phase # "Running",
           NEW s, MayBecome(n, s, status, stored),
           status' = [status EXCEPT ![n] = s], dirty' = dirty \cup {n}, parallelism' \in Nat,
           payload' \in [Nodes -> {"none", "live", "ended"}],
           \A m \in Nodes : m # n => payload'[m] \in {"none", payload[m]},
           payload'[n] = "live" => ~IsBranch(n) /\ Accounted(stored[n]) /\ Accounted(s),
           NEW result, stack' = <<Absorb(Head(stack), result)>> \o Tail(stack), result # "Complete",
           HasFailed(result) => HasFailed(s.phase)
    PROVE  VisitOK(n)
<1>1. StatusOK(status) /\ StartedOK(status, stored) /\ SkippedOK(status) /\ status \in [Nodes -> Status]
  BY DEF AllStatusesOK, StatusOK
<1>2. s \in Status
  BY DEF MayBecome, NodeOK
<1>3. status'[n] = s /\ (\A m \in Nodes : m # n => status'[m] = status[m]) /\ status' \in [Nodes -> Status]
  BY <1>1, <1>2
<1>4. StatusOK(status') /\ StartedOK(status', stored) /\ SkippedOK(status') /\ Lasts(status, status')
  BY <1>1, <1>3, OneNode
<1>5. Advanced(status')
  BY <1>3, <1>4 DEF Advanced
<1>6. Marked(status', dirty')
  BY <1>3 DEF Marked, Types
<1>7. PayloadIn(payload', status')
  <2>1. \A m \in Nodes : m # n /\ payload'[m] = "live" => payload[m] = "live"
    OBVIOUS
  <2> QED
    BY <1>3, <2>1 DEF PayloadIn, PayloadOK
<1> QED
  BY <1>3, <1>5, <1>6, <1>7 DEF VisitOK

LEMMA NewPhase ==
    ASSUME AllStatusesOK, NEW n \in Nodes, NEW p \in TraversalPhases
    PROVE  LET s == [status[n] EXCEPT !.phase = p] IN
           /\ s \in Status /\ [status EXCEPT ![n].phase = p] = [status EXCEPT ![n] = s]
           /\ s.phase = p /\ s.taken = status[n].taken /\ s.attempts = status[n].attempts
           /\ s.answered = status[n].answered
<1>1. status \in [Nodes -> Status]
  BY DEF AllStatusesOK, StatusOK
<1>2. status[n] \in Status
  BY <1>1
<1>3. LET s == [status[n] EXCEPT !.phase = p] IN
      /\ s \in Status /\ s.phase = p /\ s.taken = status[n].taken /\ s.attempts = status[n].attempts
      /\ s.answered = status[n].answered
  BY <1>2 DEF Status
<1>4. [status EXCEPT ![n].phase = p] = [status EXCEPT ![n] = [status[n] EXCEPT !.phase = p]]
  BY <1>1
<1> QED
  BY <1>3, <1>4

LEMMA NotYetStartedOK ==
    ASSUME Types, AllStatusesOK, RoundOK, PayloadOK, NEW n \in Nodes, HandleNotYetStarted(n),
           \A b \in Parents(n) : status[b].taken = n
    PROVE  VisitOK(n)
<1>1. status[n].phase = "NotYetStarted"
  BY DEF HandleNotYetStarted, Phase
<1>2. NodeOK(n, status[n], status) /\ status[n] \in Status
  BY DEF AllStatusesOK, StatusOK
<1>3. /\ ~IsOver(status[n].phase) /\ status[n].answered # "yes" /\ payload[n] # "live"
      /\ IsBranch(n) => status[n].taken = None
  BY <1>1, <1>2 DEF IsOver, IsDone, HasFailed, PayloadOK, Accounted, IsAborted, NodeOK, BranchOK
<1>4. payload \in [Nodes -> {"none", "live", "ended"}] /\ parallelism \in Nat
  BY DEF Types
<1>5. CASE CanExecute(n) = "NotReady"
  <2>1. Passes("Pending")
    BY <1>5 DEF HandleNotYetStarted
  <2> QED
    BY <2>1, PassesOK DEF HasFailed
<1>6. CASE CanExecute(n) = "Skip"
  <2> DEFINE s == [status[n] EXCEPT !.phase = "Skipped"]
  <2>1. /\ status' = [status EXCEPT ![n].phase = "Skipped"] /\ dirty' = dirty \cup {n}
        /\ stack' = <<Absorb(Head(stack), "Success")>> \o Tail(stack)
        /\ parallelism' = parallelism /\ payload' = payload
    BY <1>6 DEF HandleNotYetStarted, Moves
  <2>2. "Skipped" \in TraversalPhases
    BY DEF TraversalPhases
  <2>3. /\ s \in Status /\ status' = [status EXCEPT ![n] = s]
        /\ s.phase = "Skipped" /\ s.taken = status[n].taken /\ s.answered = status[n].answered
    BY <2>1, <2>2, NewPhase
  <2> HIDE DEF s
  <2>4. NodeOK(n, s, status)
    BY <1>2, <1>3, <2>3 DEF NodeOK, BranchOK, AgreesWithCase
  <2>5. MayBeSkipped(n, status)
    <3>1. ~(\E m \in Up(n) : ~IsOver(Phase(m))) /\ ~(\A m \in Up(n) : Phase(m) = "Succeeded")
      BY <1>6 DEF CanExecute
    <3>2. ASSUME NEW b \in Parents(n) PROVE status[b].phase \notin {"NotYetStarted", "Queued"}
      <4>1. b \in Nodes /\ IsBranch(b) /\ status[b].taken # None /\ NodeOK(b, status[b], status)
        BY NodesAssumption DEF Parents, IsBranch, AllStatusesOK, StatusOK
      <4> QED
        BY <4>1 DEF NodeOK, BranchOK
    <3> QED
      BY <3>1, <3>2 DEF MayBeSkipped, IsOver, IsDone, HasFailed, Phase
  <2>6. ~IsStarted(s.phase) /\ ~HasFailed("Success") /\ s.phase \notin {"NotYetStarted", "Queued"}
    BY <2>3 DEF IsStarted, HasFailed
  <2>7. MayBecome(n, s, status, stored)
    BY <1>3, <2>3, <2>4, <2>5, <2>6 DEF MayBecome
  <2> QED
    BY <1>1, <1>3, <1>4, <2>1, <2>3, <2>6, <2>7, OneNodeVisit
<1>7. CASE CanExecute(n) = "Ready"
  <2>1. PICK v \in NotYetStartedVisits :
            /\ v.to = "Succeeded" => ~IsBranch(n)
            /\ Moves(n, v.to, v.returns)
            /\ parallelism' = parallelism + (IF v.to = "Queued" THEN 1 ELSE 0)
            /\ UNCHANGED payload
    BY <1>7 DEF HandleNotYetStarted
  <2>2. /\ v.to \in {"Queued", "Failing", "Succeeded"} /\ v.returns \in {"Queued", "Pending"}
        /\ v.to \in TraversalPhases
    BY DEF NotYetStartedVisits, Visit, TraversalPhases, NodePhases
  <2> DEFINE s == [status[n] EXCEPT !.phase = v.to]
  <2>3. /\ s \in Status /\ [status EXCEPT ![n].phase = v.to] = [status EXCEPT ![n] = s]
        /\ s.phase = v.to /\ s.taken = status[n].taken /\ s.answered = status[n].answered
    BY <2>2, NewPhase
  <2> HIDE DEF s
  <2>4. /\ status' = [status EXCEPT ![n] = s] /\ dirty' = dirty \cup {n}
        /\ stack' = <<Absorb(Head(stack), v.returns)>> \o Tail(stack)
    BY <2>1, <2>3 DEF Moves
  <2>5. NodeOK(n, s, status)
    BY <1>2, <1>3, <2>1, <2>2, <2>3 DEF NodeOK, BranchOK, AgreesWithCase
  <2>6. MayStart(n, stored)
    <3>1. (Up(n) \cup Parents(n)) \cap dirty = {} /\ \A m \in Up(n) : Phase(m) = "Succeeded"
      BY <1>7 DEF CanExecute
    <3>2. \A m \in Up(n) \cup Parents(n) : stored[m] = status[m]
      BY <3>1 DEF RoundOK, Up, Parents
    <3> QED
      BY <3>1, <3>2 DEF MayStart, Phase
  <2>7. s.phase # "Skipped" /\ ~HasFailed(v.returns) /\ v.returns # "Complete"
    BY <2>2, <2>3 DEF HasFailed
  <2>8. parallelism' \in Nat /\ payload' = payload
    BY <1>4, <2>1
  <2>9. MayBecome(n, s, status, stored)
    BY <1>1, <1>3, <2>3, <2>5, <2>6, <2>7 DEF MayBecome
  <2> QED
    BY <1>1, <1>3, <1>4, <2>4, <2>7, <2>8, <2>9, OneNodeVisit
<1> QED
  BY <1>5, <1>6, <1>7 DEF CanExecute

(* The visits that a task node can have.                                   *)
LEMMA TaskVisitFacts ==
    ASSUME NEW n \in Nodes, status[n].phase \in TraversalPhases, ~IsOver(status[n].phase),
           status[n].phase # "NotYetStarted", NEW v \in TaskVisits(n)
    PROVE  /\ v.to \in NodePhases \ {"NotYetStarted", "Queued"} /\ v.to \in TraversalPhases
           /\ v.to = "Retrying" => status[n].phase = "RetryableFailure"
           /\ v.to = "RetryableFailure" => status[n].attempts < MaxRetries
           /\ v.returns # "Complete" /\ (HasFailed(v.returns) => v.to = v.returns)
           /\ v.payload \in {"none", "start", "finish", "leave", "abort"}
           /\ IsOver(v.to) => v.payload = "abort" \/ v = CacheHit \/ status[n].phase = "Succeeding"
           /\ v.payload = "start" => status[n].phase # "Succeeding" /\ v.to = "Running"
           /\ v = CacheHit => v.to = "Succeeded" /\ v.payload = "leave"
           /\ v.to = "Succeeding" => payload[n] = "ended" /\ v.payload = "finish"
           /\ v.to # "Skipped"
<1>1. /\ v \in Visits(status[n].phase, Outcomes)
      /\ v.to = "Succeeding" => payload[n] = "ended"
      /\ v.to = "RetryableFailure" => status[n].attempts < MaxRetries
      /\ v.to = status[n].phase => status[n].phase = "Running"
  BY DEF TaskVisits, Phase
<1>2. status[n].phase \in {"Queued", "Running", "Retrying", "RetryableFailure", "Failing", "TimingOut", "Succeeding"}
  BY DEF TraversalPhases, NodePhases, IsOver, IsDone, HasFailed
<1>3. CASE status[n].phase \in {"Queued", "Running", "Retrying"}
  <2>1. v \in QueuedOrRunningVisits(status[n].phase, Outcomes) \/ v = CacheHit
    BY <1>1, <1>3 DEF Visits
  <2>2. CASE v \in QueuedOrRunningVisits(status[n].phase, Outcomes)
    <3>1. /\ v.to \in {status[n].phase, "Running", "Succeeding", "Failing", "TimingOut", "RetryableFailure"}
          /\ v.returns = "Running" /\ v.payload \in {"none", "start", "finish"}
          /\ v.to = "Succeeding" => v.payload = "finish"
          /\ v.payload = "start" => v.to = "Running"
      BY <1>3, <2>2, OutcomesAssumption DEF QueuedOrRunningVisits, Visit, NodeOutcomes
    <3>2. v # CacheHit
      BY <3>1 DEF CacheHit, Visit
    <3> QED
      BY <1>1, <1>3, <3>1, <3>2 DEF NodePhases, TraversalPhases, IsOver, IsDone, HasFailed
  <2>3. CASE v = CacheHit
    BY <2>3 DEF CacheHit, Visit, NodePhases, TraversalPhases, IsOver, IsDone, HasFailed
  <2> QED
    BY <2>1, <2>2, <2>3
<1>4. CASE status[n].phase = "RetryableFailure"
  BY <1>1, <1>4 DEF Visits, Visit, CacheHit, NodePhases, TraversalPhases, IsOver, IsDone, HasFailed
<1>5. CASE status[n].phase \in {"Failing", "TimingOut"}
  BY <1>1, <1>5 DEF Visits, Visit, CacheHit, NodePhases, TraversalPhases, IsOver, IsDone, HasFailed
<1>6. CASE status[n].phase = "Succeeding"
  BY <1>1, <1>6 DEF Visits, Visit, CacheHit, NodePhases, TraversalPhases, IsOver, IsDone, HasFailed
<1> QED
  BY <1>2, <1>3, <1>4, <1>5, <1>6

LEMMA TaskOK ==
    ASSUME Types, AllStatusesOK, RoundOK, PayloadOK, NEW n \in Nodes, HandleTask(n),
           ~IsOver(status[n].phase), n \notin dirty
    PROVE  VisitOK(n)
<1>1. ~IsBranch(n) /\ status[n].phase # "NotYetStarted"
  BY DEF HandleTask, Phase
<1>2. PICK v \in TaskVisits(n) :
          /\ status' = [status EXCEPT ![n].phase = v.to,
                                      ![n].attempts = @ + (IF v.to = "Retrying" THEN 1 ELSE 0),
                                      ![n].answered = IF v = CacheHit THEN "yes" ELSE @]
          /\ dirty' = dirty \cup {n}
          /\ stack' = <<Absorb(Head(stack), v.returns)>> \o Tail(stack)
          /\ \E i \in Counts(n, v) : parallelism' = parallelism + i
          /\ payload' = [payload EXCEPT ![n] = PayloadAfter(n, v)]
  BY DEF HandleTask
<1>3. status \in [Nodes -> Status] /\ NodeOK(n, status[n], status) /\ StartedOK(status, stored)
  BY DEF AllStatusesOK, StatusOK
<1>4. /\ status[n].phase \in TraversalPhases /\ status[n].answered \in {"no", "yes"}
      /\ status[n].attempts \in 0..MaxRetries /\ MaxRetries \in Nat
      /\ status[n] \in Status /\ status[n].answered # "yes"
  <2>1. status[n].phase # "Succeeded"
    BY DEF IsOver, IsDone
  <2> QED
    BY <1>3, <2>1, BoundsAssumption DEF Status, NodeOK
<1>5. /\ v.to \in NodePhases \ {"NotYetStarted", "Queued"} /\ v.to \in TraversalPhases
      /\ v.to = "Retrying" => status[n].phase = "RetryableFailure"
      /\ v.to = "RetryableFailure" => status[n].attempts < MaxRetries
      /\ v.returns # "Complete" /\ (HasFailed(v.returns) => v.to = v.returns)
      /\ v.payload \in {"none", "start", "finish", "leave", "abort"}
      /\ IsOver(v.to) => v.payload = "abort" \/ v = CacheHit \/ status[n].phase = "Succeeding"
      /\ v.payload = "start" => status[n].phase # "Succeeding" /\ v.to = "Running"
      /\ v = CacheHit => v.to = "Succeeded" /\ v.payload = "leave"
      /\ v.to = "Succeeding" => payload[n] = "ended" /\ v.payload = "finish"
      /\ v.to # "Skipped"
  BY <1>1, <1>4, TaskVisitFacts
<1>6. PICK a \in 0..MaxRetries : /\ a = status[n].attempts + (IF v.to = "Retrying" THEN 1 ELSE 0)
                                 /\ v.to # "Retrying" => a = status[n].attempts
  BY <1>3, <1>4, <1>5 DEF NodeOK
<1>7. PICK y \in {"no", "yes"} : y = (IF v = CacheHit THEN "yes" ELSE status[n].answered)
  BY <1>4
<1> DEFINE s == [status[n] EXCEPT !.phase = v.to, !.attempts = a, !.answered = y]
<1>8. status' = [status EXCEPT ![n] = [status[n] EXCEPT !.phase = v.to, !.attempts = a, !.answered = y]]
  BY <1>2, <1>3, <1>6, <1>7
<1>9. status' = [status EXCEPT ![n] = s]
  BY <1>8
<1>10. s \in Status
  BY <1>4, <1>5, <1>6, <1>7 DEF Status
<1>11. s.phase = v.to /\ s.taken = status[n].taken /\ s.attempts = a /\ s.answered = y
  BY <1>4 DEF Status
<1> HIDE DEF s
<1>12. NodeOK(n, s, status)
  BY <1>1, <1>3, <1>4, <1>5, <1>6, <1>7, <1>10, <1>11 DEF NodeOK
<1>13. MayStart(n, stored)
  <2>1. status[n].phase # "Skipped"
    BY DEF IsOver, IsDone
  <2> QED
    BY <1>1, <1>3, <2>1 DEF StartedOK, IsStarted
<1>14. MayBecome(n, s, status, stored)
  BY <1>5, <1>11, <1>12, <1>13 DEF MayBecome
<1>15. parallelism' \in Nat
  <2>1. PICK i \in Counts(n, v) : parallelism' = parallelism + i
    BY <1>2
  <2>2. i \in {0, 1}
    BY DEF Counts
  <2> QED
    BY <2>1, <2>2 DEF Types
<1>16. PayloadAfter(n, v) \in {"none", "live", "ended"} /\ (v.payload = "abort" => PayloadAfter(n, v) = "none")
  <2>1. payload[n] \in {"none", "live", "ended"}
    BY DEF Types
  <2> QED
    BY <1>5, <2>1 DEF PayloadAfter
<1>17. /\ payload' \in [Nodes -> {"none", "live", "ended"}] /\ payload'[n] = PayloadAfter(n, v)
       /\ \A m \in Nodes : m # n => payload'[m] \in {"none", payload[m]}
  BY <1>2, <1>16 DEF Types
<1>18. ASSUME payload'[n] = "live"
       PROVE  ~IsBranch(n) /\ Accounted(stored[n]) /\ Accounted(s)
  <2>1. stored[n] = status[n]
    BY DEF RoundOK
  <2>2. IsAborted(status[n].phase)
    BY <1>1, <1>4, AbortedPhases
  <2>3. v.payload # "abort" /\ (v.payload # "start" => payload[n] = "live")
    BY <1>5, <1>16, <1>17, <1>18 DEF PayloadAfter
  <2>4. status[n].phase # "Succeeding"
    BY <1>4, <1>5, <2>3 DEF PayloadOK, Accounted
  <2>5. v = CacheHit \/ (~IsOver(v.to) /\ v.to # "NotYetStarted" /\ v.to # "Succeeding")
    BY <1>5, <2>3, <2>4
  <2>6. v = CacheHit \/ (IsAborted(v.to) /\ v.to # "Succeeding")
    BY <1>5, <2>5, AbortedPhases
  <2>7. v = CacheHit => y = "yes"
    BY <1>7
  <2> QED
    BY <1>1, <1>11, <2>1, <2>2, <2>4, <2>6, <2>7 DEF Accounted
<1>19. HasFailed(v.returns) => HasFailed(s.phase)
  BY <1>5, <1>11
<1> QED
  BY <1>1, <1>2, <1>5, <1>9, <1>14, <1>15, <1>17, <1>18, <1>19, OneNodeVisit

(* A branch that has not decided has touched none of its cases.            *)
LEMMA UndecidedCases ==
    ASSUME Types, AllStatusesOK, RoundOK, NEW n \in Nodes, status[n].phase = "Queued", status[n].taken = None,
           NEW c \in Cases(n)
    PROVE  c \in Nodes /\ status[c].phase = "NotYetStarted"
<1>1. c \in Nodes /\ Parents(c) = {n}
  BY GraphFacts
<1>2. ~IsStarted(status[c].phase)
  <2> SUFFICES ASSUME IsStarted(status[c].phase) PROVE FALSE
    OBVIOUS
  <2>1. stored[n].taken = c
    BY <1>1 DEF AllStatusesOK, StartedOK, MayStart
  <2> QED
    BY <1>1, <2>1, NodesAssumption DEF RoundOK, Lasts
<1>3. status[c].phase # "Skipped"
  BY <1>1 DEF AllStatusesOK, SkippedOK, MayBeSkipped
<1> QED
  BY <1>1, <1>2, <1>3 DEF IsStarted

LEMMA DecideOK ==
    ASSUME Types, AllStatusesOK, RoundOK, PayloadOK, NEW n \in Nodes, DecideBranch(n)
    PROVE  VisitOK(n)
<1>1. IsBranch(n) /\ status[n].phase \in {"Queued", "Running"} /\ status[n].taken = None
  BY DEF DecideBranch, Phase
<1>2. /\ StatusOK(status) /\ status \in [Nodes -> Status] /\ status[Start].phase = "Succeeded"
      /\ \A m \in Nodes : NodeOK(m, status[m], status)
  BY DEF AllStatusesOK, StatusOK
<1>3. status[n].phase = "Queued"
  BY <1>1, <1>2 DEF NodeOK, BranchOK
<1>4. \A m \in Cases(n) : m \in Nodes /\ status[m].phase = "NotYetStarted"
  BY <1>1, <1>3, UndecidedCases
<1>5. PICK c \in Cases(n) \cup {None}, p \in {"Running", "Failed", "TimedOut"} :
          /\ c = None <=> p = "Failed"
          /\ status' = [m \in Nodes |->
                  IF m = n THEN [status[n] EXCEPT !.phase = p, !.taken = c]
                  ELSE IF m \in Cases(n) \ {c} THEN [status[m] EXCEPT !.phase = "Skipped"]
                  ELSE status[m]]
          /\ stack' = <<Absorb(Head(stack), p)>> \o Tail(stack)
  BY DEF DecideBranch
<1>6. dirty' = dirty \cup Cases(n) \cup {n} /\ parallelism' = parallelism /\ payload' = payload
  BY DEF DecideBranch
<1>7. c = None <=> p = "Failed"
  BY <1>5
<1>8. /\ status'[n] = [status[n] EXCEPT !.phase = p, !.taken = c]
      /\ \A m \in Nodes : m # n /\ m \in Cases(n) /\ m # c => status'[m] = [status[m] EXCEPT !.phase = "Skipped"]
      /\ \A m \in Nodes : m # n /\ (m \notin Cases(n) \/ m = c) => status'[m] = status[m]
      /\ DOMAIN status' = Nodes /\ status' = [m \in Nodes |-> status'[m]]
  BY <1>5, <1>7
<1>9. n \notin Cases(n) /\ \A m \in Cases(n) : m # Start /\ Parents(m) = {n}
  BY GraphFacts
<1>10. /\ status'[n] \in Status /\ status'[n].phase = p /\ status'[n].taken = c
       /\ status'[n].answered = status[n].answered
  <2>1. status[n] \in Status /\ p \in TraversalPhases /\ c \in Nodes \cup {None}
    BY <1>2, <1>4 DEF TraversalPhases, NodePhases
  <2>2. [status[n] EXCEPT !.phase = p, !.taken = c] \in Status
    BY <2>1 DEF Status
  <2>3. LET s == [status[n] EXCEPT !.phase = p, !.taken = c] IN
        s.phase = p /\ s.taken = c /\ s.answered = status[n].answered
    BY <2>1 DEF Status
  <2> QED
    BY <1>8, <2>2, <2>3
<1>11. ASSUME NEW m \in Cases(n), m # c
       PROVE  /\ status'[m] \in Status /\ status'[m].phase = "Skipped" /\ status'[m].taken = status[m].taken
              /\ status'[m].answered = status[m].answered
  <2>1. status[m] \in Status /\ "Skipped" \in TraversalPhases /\ m \in Nodes /\ m # n
    BY <1>2, <1>4, <1>9 DEF TraversalPhases
  <2>2. [status[m] EXCEPT !.phase = "Skipped"] \in Status
    BY <2>1 DEF Status
  <2>3. /\ [status[m] EXCEPT !.phase = "Skipped"].phase = "Skipped"
        /\ [status[m] EXCEPT !.phase = "Skipped"].taken = status[m].taken
        /\ [status[m] EXCEPT !.phase = "Skipped"].answered = status[m].answered
    BY <2>1 DEF Status
  <2> QED
    BY <1>8, <1>11, <2>1, <2>2, <2>3
<1>12. \A m \in Nodes : m = n \/ (m \in Cases(n) /\ m # c) \/ status'[m] = status[m]
  BY <1>8
<1>13. status' \in [Nodes -> Status]
  <2>1. \A m \in Nodes : status'[m] \in Status
    BY <1>2, <1>10, <1>11, <1>12
  <2> QED
    BY <1>8, <2>1
<1>14. Lasts(status, status')
  <2>1. ~IsOver("Queued") /\ ~IsOver("NotYetStarted")
    BY DEF IsOver, IsDone, HasFailed
  <2> QED
    BY <1>1, <1>3, <1>4, <1>11, <1>12, <2>1 DEF Lasts
<1>15. ASSUME NEW m \in Nodes PROVE NodeOK(m, status'[m], status')
  <2>1. CASE m = n
    BY <1>2, <1>3, <1>7, <1>10, <2>1 DEF NodeOK, BranchOK, AgreesWithCase
  <2>2. CASE m \in Cases(n) /\ m # c
    <3>1. NodeOK(m, status[m], status)
      BY <1>2
    <3> QED
      BY <1>4, <1>11, <2>2, <3>1 DEF NodeOK, BranchOK, AgreesWithCase
  <2>3. CASE status'[m] = status[m]
    <3>1. NodeOK(m, status[m], status)
      BY <1>2
    <3>2. ASSUME IsBranch(m), status[m].phase = "Succeeded"
          PROVE  status'[status[m].taken] = status[status[m].taken]
      <4>1. status[m].taken \in Cases(m) /\ AgreesWithCase(status[m], status)
        BY <3>1, <3>2 DEF NodeOK, BranchOK
      <4>2. status[m].taken \in Nodes /\ IsOver(status[status[m].taken].phase)
        BY <3>2, <4>1, GraphFacts DEF AgreesWithCase, IsOver
      <4> QED
        BY <1>14, <4>2 DEF Lasts
    <3> QED
      BY <2>3, <3>1, <3>2 DEF NodeOK, AgreesWithCase
  <2> QED
    BY <1>12, <2>1, <2>2, <2>3
<1>16. StatusOK(status')
  <2>1. Start # n /\ Start \notin Cases(n)
    BY <1>2, <1>3, <1>9
  <2> QED
    BY <1>2, <1>12, <1>13, <1>15, <2>1, NodesAssumption DEF StatusOK
<1>17. StartedOK(status', stored)
  <2>1. StartedOK(status, stored)
    BY DEF AllStatusesOK
  <2> QED
    BY <1>3, <1>11, <1>12, <2>1 DEF StartedOK, IsStarted
<1>18. ASSUME NEW m \in Nodes, status'[m].phase = "Skipped" PROVE MayBeSkipped(m, status')
  <2>1. CASE m \in Cases(n) /\ m # c
    <3>1. Parents(m) = {n}
      BY <1>9, <2>1
    <3>2. status'[n].taken # m /\ status'[n].phase \notin {"NotYetStarted", "Queued"}
      BY <1>10, <2>1
    <3> QED
      BY <3>1, <3>2 DEF MayBeSkipped
  <2>2. CASE status'[m] = status[m]
    <3>1. MayBeSkipped(m, status)
      BY <1>18, <2>2 DEF AllStatusesOK, SkippedOK
    <3>0. \A b \in Parents(m) : status'[b] = status[b] /\ status'[b].phase \notin {"NotYetStarted", "Queued"}
      BY <1>3, <1>4, <1>12, <3>1 DEF Parents, MayBeSkipped
    <3>2. CASE \E u \in Up(m) : status[u].phase \in {"Skipped", "Failed", "TimedOut"}
      <4>1. PICK u \in Up(m) : status[u].phase \in {"Skipped", "Failed", "TimedOut"}
        BY <3>2
      <4>2. status'[u] = status[u]
        BY <1>14, <4>1 DEF Lasts, IsOver, IsDone, HasFailed, Up
      <4> QED
        BY <3>0, <4>1, <4>2 DEF MayBeSkipped
    <3>3. CASE \E b \in Parents(m) : status[b].taken # m
      BY <3>0, <3>3 DEF MayBeSkipped
    <3> QED
      BY <3>1, <3>2, <3>3 DEF MayBeSkipped
  <2> QED
    BY <1>7, <1>10, <1>12, <1>18, <2>1, <2>2
<1>19. Advanced(status')
  <2>1. \A b \in Nodes : IsBranch(b) /\ status[b].phase = "Running" => status'[b] = status[b]
    BY <1>3, <1>4, <1>12
  <2> QED
    BY <1>14, <1>16, <1>17, <1>18, <2>1 DEF Advanced, SkippedOK
<1>20. Marked(status', dirty')
  BY <1>4, <1>6, <1>12 DEF Marked, Types
<1>21. PayloadIn(payload', status')
  <2>1. \A m \in Nodes : payload[m] = "live" => m # n /\ m \notin Cases(n)
    BY <1>1, <1>2, <1>4 DEF PayloadOK, Accounted, IsAborted, NodeOK
  <2> QED
    BY <1>6, <1>12, <2>1 DEF PayloadIn, PayloadOK, Types
<1>22. HasFailed(p) => HasFailed(status'[n].phase)
  BY <1>10
<1>23. stack' = <<Absorb(Head(stack), p)>> \o Tail(stack) /\ p # "Complete"
  BY <1>5, <1>7
<1> QED
  BY <1>6, <1>19, <1>20, <1>21, <1>22, <1>23 DEF VisitOK, Types

(* An abort takes payloads away.                                           *)
LEMMA AbortsFacts ==
    ASSUME Types, PayloadOK, NEW n \in Nodes, IsBranch(n), AbortsWith(n)
    PROVE  /\ payload' \in [Nodes -> {"none", "live", "ended"}] /\ payload'[n] # "live"
           /\ \A m \in Nodes : payload'[m] \in {"none", payload[m]}
BY DEF AbortsWith, Types, PayloadOK

LEMMA FailingBranchOK ==
    ASSUME Types, AllStatusesOK, RoundOK, PayloadOK, NEW n \in Nodes, HandleFailingBranch(n)
    PROVE  VisitOK(n)
<1>1. /\ IsBranch(n) /\ status[n].phase = "Failing" /\ parallelism' = parallelism
      /\ status' = [status EXCEPT ![n].phase = "Failed"] /\ dirty' = dirty \cup {n}
      /\ stack' = <<Absorb(Head(stack), "Failed")>> \o Tail(stack) /\ AbortsWith(n)
  BY DEF HandleFailingBranch, Moves, Phase
<1> DEFINE s == [status[n] EXCEPT !.phase = "Failed"]
<1>2. /\ s \in Status /\ status' = [status EXCEPT ![n] = s]
      /\ s.phase = "Failed" /\ s.taken = status[n].taken /\ s.answered = status[n].answered
  <2>1. "Failed" \in TraversalPhases
    BY DEF TraversalPhases, NodePhases
  <2> QED
    BY <1>1, <2>1, NewPhase
<1> HIDE DEF s
<1>3. NodeOK(n, status[n], status)
  BY DEF AllStatusesOK, StatusOK
<1>4. NodeOK(n, s, status)
  BY <1>1, <1>2, <1>3 DEF NodeOK, BranchOK, AgreesWithCase
<1>5. MayStart(n, stored)
  BY <1>1 DEF AllStatusesOK, StartedOK, IsStarted
<1>6. MayBecome(n, s, status, stored)
  BY <1>1, <1>2, <1>4, <1>5 DEF MayBecome, IsOver, IsDone, HasFailed
<1>7. /\ payload' \in [Nodes -> {"none", "live", "ended"}] /\ payload'[n] # "live"
      /\ \A m \in Nodes : payload'[m] \in {"none", payload[m]}
  BY <1>1, AbortsFacts
<1>8. parallelism' \in Nat
  BY <1>1 DEF Types
<1>9. HasFailed("Failed") => HasFailed(s.phase)
  BY <1>2
<1> QED
  BY <1>1, <1>2, <1>6, <1>7, <1>8, <1>9, OneNodeVisit

LEMMA RetryableBranchOK ==
    ASSUME Types, AllStatusesOK, RoundOK, PayloadOK, NEW n \in Nodes, HandleRetryableBranch(n)
    PROVE  VisitOK(n)
<1>1. /\ IsBranch(n) /\ status[n].phase = "RetryableFailure" /\ parallelism' = parallelism
      /\ status' = [status EXCEPT ![n].phase = "Running", ![n].attempts = @ + 1]
      /\ dirty' = dirty \cup {n}
      /\ stack' = <<Absorb(Head(stack), "Pending")>> \o Tail(stack) /\ AbortsWith(n)
  BY DEF HandleRetryableBranch, Phase
<1>2. status \in [Nodes -> Status] /\ status[n] \in Status /\ NodeOK(n, status[n], status)
  BY DEF AllStatusesOK, StatusOK
<1>3. PICK a \in 0..MaxRetries : a = status[n].attempts + 1
  BY <1>1, <1>2, BoundsAssumption DEF NodeOK, Status
<1> DEFINE s == [status[n] EXCEPT !.phase = "Running", !.attempts = a]
<1>4. status' = [status EXCEPT ![n] = s]
  BY <1>1, <1>2, <1>3
<1>5. /\ s \in Status /\ s.phase = "Running" /\ s.taken = status[n].taken
      /\ s.answered = status[n].answered
  BY <1>2, <1>3 DEF Status, TraversalPhases, NodePhases
<1> HIDE DEF s
<1>6. NodeOK(n, s, status)
  BY <1>1, <1>2, <1>5 DEF NodeOK, BranchOK, AgreesWithCase
<1>7. MayStart(n, stored)
  BY <1>1 DEF AllStatusesOK, StartedOK, IsStarted
<1>8. MayBecome(n, s, status, stored)
  BY <1>1, <1>5, <1>6, <1>7 DEF MayBecome, IsOver, IsDone, HasFailed
<1>9. /\ payload' \in [Nodes -> {"none", "live", "ended"}] /\ payload'[n] # "live"
      /\ \A m \in Nodes : payload'[m] \in {"none", payload[m]}
  BY <1>1, AbortsFacts
<1>10. parallelism' \in Nat /\ ~HasFailed("Pending")
  BY <1>1 DEF Types, HasFailed
<1> QED
  BY <1>1, <1>4, <1>8, <1>9, <1>10, OneNodeVisit

---------------------------------------------------------------------------
(* The DAG and the policy stay, so that what holds of the new statuses     *)
(* holds in the new state.                                                 *)

LEMMA SameStatuses ==
    ASSUME graph' = graph, StatusOK(stored'), StatusOK(status'), StartedOK(stored', stored'),
           StartedOK(status', stored'), SkippedOK(stored'), SkippedOK(status')
    PROVE  AllStatusesOK'
<1>1. StatusOK(stored)' /\ StatusOK(status)'
  BY DEF StatusOK, NodeOK, BranchOK, AgreesWithCase, Cases, IsBranch
<1>2. StartedOK(stored, stored)' /\ StartedOK(status, stored)'
  BY DEF StartedOK, MayStart, Up, Parents, Cases, Down
<1>3. SkippedOK(stored)' /\ SkippedOK(status)'
  BY DEF SkippedOK, MayBeSkipped, Up, Parents, Cases, Down
<1> QED
  BY <1>1, <1>2, <1>3 DEF AllStatusesOK

LEMMA SameStack ==
    ASSUME graph' = graph, policy' = policy, StackOK(stack', status')
    PROVE  StackOK(stack, status)'
<1>1. \A i \in 1..Len(stack') : FrameOK(stack'[i], status')
  BY DEF StackOK
<1>2. ASSUME NEW i \in 1..Len(stack') PROVE FrameOK(stack[i], status)'
  <2>1. FrameOK(stack'[i], status')
    BY <1>1
  <2>2. stack'[i].kind = "down" => DownFrameOK(stack'[i], status')
    BY <2>1 DEF FrameOK
  <2>3. stack'[i].kind = "down" => DownFrameOK(stack[i], status)'
    BY <2>2 DEF DownFrameOK, Down, Parents, Cases, SomeFailed, Completed, Finished
  <2>4. stack'[i].kind = "case" => CaseFrameOK(stack[i], status)'
    BY <2>1 DEF FrameOK, CaseFrameOK, Cases, IsBranch
  <2> QED
    BY <2>1, <2>3, <2>4 DEF FrameOK
<1>3. /\ stack' \in Seq(Frames)
      /\ \A i \in 1..Len(stack') : i < Len(stack') => IsCalledBy(stack'[i], stack'[i+1], status')
      /\ \A i, j \in 1..Len(stack') : i < j /\ stack'[j].kind = "case" => stack'[i].kind = "case"
      /\ Len(stack') > 0 => stack'[Len(stack')].node = Start /\ stack'[Len(stack')].kind = "down"
  BY DEF StackOK
<1>4. \A i \in 1..Len(stack') : i < Len(stack') => IsCalledBy(stack[i], stack[i+1], status)'
  BY <1>3 DEF IsCalledBy, ChildrenIn, Down
<1> QED
  BY <1>2, <1>3, <1>4 DEF StackOK

(* A step within a round.                                                  *)
LEMMA RoundGoesOn ==
    ASSUME IInv, UNCHANGED <<graph, policy, workflow, stored, faults>>,
           stack # <<>> \/ workflow = "Running", stack' # <<>>,
           StatusOK(status'), StartedOK(status', stored), SkippedOK(status'), Lasts(status, status'),
           Marked(status', dirty'), PayloadIn(payload', status'), parallelism' \in Nat, StackOK(stack', status')
    PROVE  IInv'
<1>1. workflow = "Running" /\ workflow' = "Running"
  BY DEF IInv, RoundOK
<1>2. Types'
  BY DEF IInv, Types, Marked, PayloadIn
<1>3. AllStatusesOK'
  BY SameStatuses DEF IInv, AllStatusesOK
<1>4. RoundOK'
  <2>1. Lasts(stored', status')
    BY DEF IInv, RoundOK, Lasts
  <2>2. \A n \in Nodes \ dirty' : status'[n] = stored'[n]
    BY DEF Marked, IInv, RoundOK
  <2>3. Lasts(stored, status)'
    BY <2>1 DEF Lasts
  <2> QED
    BY <1>1, <2>2, <2>3 DEF RoundOK
<1>5. PayloadOK'
  BY DEF PayloadIn, PayloadOK, Accounted, IsBranch, Cases
<1>6. StackOK(stack, status)'
  BY SameStack
<1>7. SuccessIsComplete' /\ NoPayloadOutlivesWorkflow'
  BY <1>1 DEF SuccessIsComplete, NoPayloadOutlivesWorkflow
<1> QED
  BY <1>2, <1>3, <1>4, <1>5, <1>6, <1>7 DEF IInv

LEMMA VisitStep ==
    ASSUME IInv, VisitNext
    PROVE  IInv'
<1> DEFINE f == stack[1]
           n == ChildrenIn(f, status)[f.next]
<1>1. Types /\ AllStatusesOK /\ RoundOK /\ PayloadOK /\ StackOK(stack, status) /\ StatusOK(status)
  BY DEF IInv, AllStatusesOK
<1>2. stack # <<>> /\ UNCHANGED <<graph, policy, workflow, stored, faults>>
  BY DEF VisitNext
<1>3. stack \in Seq(Frames) /\ Len(stack) \in Nat \ {0} /\ Head(stack) = f /\ f \in Frames /\ FrameOK(f, status)
  BY <1>1, <1>2, TailFacts DEF StackOK
<1>4. Children(f) = ChildrenIn(f, status)
  BY DEF Children, ChildrenIn
<1>5. /\ ~f.stopped /\ f.next =< Len(ChildrenIn(f, status))
      /\ \/ /\ IsOver(Phase(n)) /\ f.kind = "down"
            /\ stack' = <<Frame(n, "down")>> \o stack
            /\ UNCHANGED <<status, dirty, parallelism, payload>>
         \/ /\ IsOver(Phase(n)) /\ f.kind = "case"
            /\ Passes(IF HasFailed(Phase(n)) THEN Phase(n) ELSE "Complete")
         \/ /\ ~IsOver(Phase(n)) /\ (n \in dirty \/ IsMaxParallelismAchieved(n)) /\ Passes("Running")
         \/ /\ ~IsOver(Phase(n)) /\ n \notin dirty
            /\ \/ HandleNotYetStarted(n) \/ HandleTask(n)
               \/ DecideBranch(n) \/ EnterCase(n)
               \/ HandleFailingBranch(n) \/ HandleRetryableBranch(n)
  BY <1>3, <1>4 DEF VisitNext
<1>6. /\ n \in Nodes /\ (f.kind = "down" => Parents(n) = {})
      /\ f.kind = "case" => n = status[f.node].taken /\ Parents(n) = {f.node}
  BY <1>1, <1>3, <1>5, NextChild
<1>7. f.kind \in {"down", "case"} /\ f.node \in Nodes /\ \A b \in Parents(n) : status[b].taken = n
  BY <1>3, <1>6 DEF Frames
<1>8. Advanced(status) /\ Marked(status, dirty) /\ PayloadIn(payload, status) /\ parallelism \in Nat
  BY <1>1, Unmoved DEF Types
<1>9. \A i \in 1..Len(stack) : stack[i].kind = "case" => IsBranch(stack[i].node) /\ status[stack[i].node].phase = "Running"
  BY <1>1 DEF StackOK, FrameOK, CaseFrameOK
<1>10. \A i \in 1..Len(stack) : stack[i].node \in Nodes
  <2>1. \A i \in 1..Len(stack) : stack[i] \in Frames
    BY <1>3
  <2> QED
    BY <2>1 DEF Frames
<1>11. ASSUME NEW st, Advanced(st), NEW result, Answers(f.kind, n, st, result)
       PROVE  StackOK(<<Absorb(Head(stack), result)>> \o Tail(stack), st)
  <2>1. \A i \in 1..Len(stack) : stack[i].kind = "case" => st[stack[i].node] = status[stack[i].node]
    BY <1>9, <1>10, <1>11 DEF Advanced
  <2>2. Lasts(status, st)
    BY <1>11 DEF Advanced
  <2> QED
    BY <1>1, <1>2, <1>5, <1>11, <2>1, <2>2, StackAbsorb
<1>12. \A result : <<Absorb(Head(stack), result)>> \o Tail(stack) # <<>>
  <2> SUFFICES ASSUME NEW result PROVE <<Absorb(Head(stack), result)>> \o Tail(stack) # <<>>
    OBVIOUS
  <2>1. Absorb(Head(stack), result) \in Frames
    BY <1>3, AbsorbFacts
  <2>2. Len(<<Absorb(Head(stack), result)>> \o Tail(stack)) = Len(stack)
    BY <1>2, <1>3, <2>1, ReplaceFacts
  <2> QED
    BY <1>3, <2>2
<1> HIDE DEF n, f
<1>13. ASSUME VisitOK(n) PROVE IInv'
  <2>1. /\ Advanced(status') /\ Marked(status', dirty') /\ PayloadIn(payload', status') /\ parallelism' \in Nat
        /\ StatusOK(status') /\ StartedOK(status', stored) /\ SkippedOK(status') /\ Lasts(status, status')
    BY <1>13 DEF VisitOK, Advanced
  <2>2. PICK result : /\ stack' = <<Absorb(Head(stack), result)>> \o Tail(stack)
                      /\ result # "Complete" /\ (HasFailed(result) => HasFailed(status'[n].phase))
    BY <1>13 DEF VisitOK
  <2>3. Answers(f.kind, n, status', result)
    <3> SUFFICES ASSUME HasFailed(result), f.kind = "down"
                 PROVE  SomeFailed(status') /\ Finished(n, status')
      BY <2>2 DEF Answers
    <3>1. HasFailed(status'[n].phase) /\ Parents(n) = {}
      BY <1>6, <2>2
    <3> QED
      BY <1>1, <1>6, <3>1, CoversGrow DEF SomeFailed
  <2>4. StackOK(stack', status') /\ stack' # <<>>
    BY <1>11, <1>12, <2>1, <2>2, <2>3
  <2> QED
    BY <1>2, <2>1, <2>4, RoundGoesOn
<1>14. CASE IsOver(Phase(n)) /\ f.kind = "down" /\ stack' = <<Frame(n, "down")>> \o stack
            /\ UNCHANGED <<status, dirty, parallelism, payload>>
  <2>1. StackOK(<<Frame(n, "down")>> \o stack, status)
    BY <1>1, <1>2, <1>5, <1>14, StackPush DEF Phase, n, f
  <2>2. StackOK(stack', status')
    BY <1>14, <2>1
  <2>3. stack' # <<>>
    <3>1. Len(<<Frame(n, "down")>> \o stack) = Len(stack) + 1
      BY <1>3, <1>6 DEF Frame, Frames
    <3> QED
      BY <1>3, <1>14, <3>1
  <2>4. /\ StatusOK(status') /\ StartedOK(status', stored) /\ SkippedOK(status') /\ Lasts(status, status')
        /\ Marked(status', dirty') /\ PayloadIn(payload', status') /\ parallelism' \in Nat
    BY <1>8, <1>14 DEF Advanced
  <2> QED
    BY <1>2, <2>2, <2>3, <2>4, RoundGoesOn
<1>15. CASE /\ IsOver(Phase(n)) /\ f.kind = "case"
            /\ Passes(IF HasFailed(Phase(n)) THEN Phase(n) ELSE "Complete")
  <2>1. PICK result : result = IF HasFailed(Phase(n)) THEN Phase(n) ELSE "Complete"
    OBVIOUS
  <2>2. /\ stack' = <<Absorb(Head(stack), result)>> \o Tail(stack)
        /\ UNCHANGED <<status, dirty, parallelism, payload>>
    BY <1>15, <2>1 DEF Passes
  <2>3. Answers("case", n, status, result)
    BY <1>15, <2>1 DEF Answers, Phase, IsOver, HasFailed
  <2>4. StackOK(stack', status') /\ stack' # <<>>
    BY <1>8, <1>11, <1>12, <1>15, <2>2, <2>3
  <2>5. /\ StatusOK(status') /\ StartedOK(status', stored) /\ SkippedOK(status') /\ Lasts(status, status')
        /\ Marked(status', dirty') /\ PayloadIn(payload', status') /\ parallelism' \in Nat
    BY <1>8, <2>2 DEF Advanced
  <2> QED
    BY <1>2, <2>4, <2>5, RoundGoesOn
<1>16. CASE Passes("Running")
  BY <1>1, <1>13, <1>16, PassesOK DEF HasFailed
<1>17. ASSUME ~IsOver(Phase(n)), EnterCase(n) PROVE IInv'
  <2>1. /\ IsBranch(n) /\ status[n].taken # None /\ status[n].phase \in {"Queued", "Running"}
        /\ stack' = <<Frame(n, "case")>> \o stack /\ UNCHANGED <<status, dirty, parallelism, payload>>
    BY <1>17 DEF EnterCase, Phase
  <2>2. status[n].phase = "Running"
    BY <1>1, <1>6, <2>1 DEF StatusOK, NodeOK, BranchOK
  <2>3. StackOK(<<Frame(n, "case")>> \o stack, status)
    BY <1>1, <1>2, <1>5, <2>1, <2>2, StackPush DEF n, f
  <2>4. StackOK(stack', status')
    BY <2>1, <2>3
  <2>5. stack' # <<>>
    <3>1. Len(<<Frame(n, "case")>> \o stack) = Len(stack) + 1
      BY <1>3, <1>6 DEF Frame, Frames
    <3> QED
      BY <1>3, <2>1, <3>1
  <2>6. /\ StatusOK(status') /\ StartedOK(status', stored) /\ SkippedOK(status') /\ Lasts(status, status')
        /\ Marked(status', dirty') /\ PayloadIn(payload', status') /\ parallelism' \in Nat
    BY <1>8, <2>1 DEF Advanced
  <2> QED
    BY <1>2, <2>4, <2>5, <2>6, RoundGoesOn
<1>18. ASSUME ~IsOver(Phase(n)), n \notin dirty,
              \/ HandleNotYetStarted(n) \/ HandleTask(n)
              \/ DecideBranch(n) \/ HandleFailingBranch(n) \/ HandleRetryableBranch(n)
       PROVE  VisitOK(n)
  BY <1>1, <1>6, <1>7, <1>18, NotYetStartedOK, TaskOK, DecideOK, FailingBranchOK,
     RetryableBranchOK DEF Phase
<1> QED
  BY <1>5, <1>13, <1>14, <1>15, <1>16, <1>17, <1>18

(* What a branch is told of its case, and what it becomes.                 *)
LEMMA CaseResult ==
    ASSUME Types, AllStatusesOK, NEW f, FrameOK(f, status), f.kind = "case",
           f.stopped \/ f.next > Len(ChildrenIn(f, status)), NEW to \in BranchPhases(f)
    PROVE  /\ f.node \in Nodes /\ IsBranch(f.node) /\ status[f.node].phase = "Running"
           /\ to \in {"Running", "RetryableFailure", "Succeeded", "Failed", "TimedOut"}
           /\ to = "Succeeded" => IsDone(status[status[f.node].taken].phase)
           /\ to = "RetryableFailure" => status[f.node].attempts < MaxRetries
<1>1. /\ f.node \in Nodes /\ f.next \in Nat \ {0} /\ f.failure \in {"none", "Failed", "TimedOut"}
      /\ f.stopped \in BOOLEAN /\ f.allCompleted \in BOOLEAN /\ (f.stopped => f.failure # "none")
      /\ CaseFrameOK(f, status)
  BY DEF FrameOK, Frames
<1>2. IsBranch(f.node) /\ status[f.node].phase = "Running"
  BY <1>1 DEF CaseFrameOK
<1>3. f.next # 1
  <2>1. Len(ChildrenIn(f, status)) = 1
    BY DEF ChildrenIn
  <2> QED
    BY <1>1, <2>1 DEF CaseFrameOK
<1>4. ~HasFailed(Phase(f.node))
  BY <1>2 DEF HasFailed, Phase
<1>5. CASE f.failure # "none" /\ (f.stopped \/ f.allCompleted)
  <2>1. Result(f) = f.failure /\ HasFailed(Result(f)) /\ Result(f) # "Complete"
    BY <1>1, <1>4, <1>5 DEF Result, HasFailed
  <2>2. to = "Failed"
    BY <2>1 DEF BranchPhases
  <2> QED
    BY <1>1, <1>2, <1>5, <2>2 DEF CaseFrameOK
<1>6. CASE ~(f.failure # "none" /\ (f.stopped \/ f.allCompleted)) /\ f.allCompleted
  <2>1. Result(f) = "Complete" /\ f.failure = "none"
    BY <1>4, <1>6 DEF Result
  <2>2. to = "Succeeded"
    BY <2>1 DEF BranchPhases, HasFailed
  <2> QED
    BY <1>1, <1>2, <1>3, <1>6, <2>1, <2>2 DEF CaseFrameOK
<1>7. CASE ~(f.failure # "none" /\ (f.stopped \/ f.allCompleted)) /\ ~f.allCompleted
  <2>1. Result(f) \in {"Success", "Pending"}
    BY <1>4, <1>7 DEF Result
  <2>2. /\ to \in {"Running", "RetryableFailure", "Failed", "TimedOut"}
        /\ to = "RetryableFailure" => status[f.node].attempts < MaxRetries
    BY <1>2, <2>1 DEF BranchPhases, BranchDeadlines, HasFailed, Phase
  <2> QED
    BY <1>1, <1>2, <2>2
<1> QED
  BY <1>5, <1>6, <1>7

LEMMA ReturnStep ==
    ASSUME IInv, Return
    PROVE  IInv'
<1> DEFINE f == stack[1]
           g == stack[2]
           callers == Tail(stack)
<1>1. Types /\ AllStatusesOK /\ RoundOK /\ PayloadOK /\ StackOK(stack, status) /\ StatusOK(status)
  BY DEF IInv, AllStatusesOK
<1>2. /\ Len(stack) > 1 /\ UNCHANGED <<graph, policy, workflow, stored, faults>>
      /\ parallelism' = parallelism /\ payload' = payload
  BY DEF Return
<1>3. /\ stack \in Seq(Frames) /\ Len(stack) \in Nat \ {0} /\ stack # <<>> /\ Head(stack) = f /\ f \in Frames
      /\ FrameOK(f, status)
  <2>1. stack \in Seq(Frames) /\ stack # <<>>
    BY <1>1, <1>2 DEF StackOK
  <2> QED
    BY <1>1, <2>1, TailFacts DEF StackOK
<1>4. Children(f) = ChildrenIn(f, status)
  BY DEF Children, ChildrenIn
<1>5. /\ f.stopped \/ f.next > Len(ChildrenIn(f, status))
      /\ \/ f.kind = "case" /\ ReturnFromCase(f, callers)
         \/ /\ f.kind = "down" /\ stack' = <<Absorb(Head(callers), Result(f))>> \o Tail(callers)
            /\ UNCHANGED <<status, dirty>>
  BY <1>3, <1>4 DEF Return
<1>6. /\ StackOK(callers, status) /\ callers # <<>> /\ callers[1] = g
      /\ \A i \in 1..Len(callers) : i + 1 \in 1..Len(stack) /\ callers[i] = stack[i+1]
      /\ IsCalledBy(f, g, status)
  BY <1>1, <1>2, StackPop
<1>7. g.next =< Len(ChildrenIn(g, status)) /\ f.node = ChildrenIn(g, status)[g.next]
  BY <1>6 DEF IsCalledBy
<1>8. FrameOK(g, status) /\ callers \in Seq(Frames) /\ Len(callers) \in Nat \ {0} /\ Head(callers) = g /\ g \in Frames
  <2>1. callers \in Seq(Frames)
    BY <1>6 DEF StackOK
  <2> HIDE DEF callers
  <2>2. Len(callers) \in Nat \ {0} /\ Head(callers) = g /\ g \in Frames /\ 1 \in 1..Len(callers)
    BY <1>6, <2>1, TailFacts
  <2> QED
    BY <1>6, <2>1, <2>2 DEF StackOK
<1>9. g.kind = "down" => Parents(f.node) = {}
  BY <1>1, <1>7, <1>8, NextChild
<1>10. f.node \in Nodes /\ g.kind \in {"down", "case"}
  BY <1>3, <1>8 DEF Frames
<1>11. Advanced(status) /\ Marked(status, dirty) /\ PayloadIn(payload, status) /\ parallelism \in Nat
  BY <1>1, Unmoved DEF Types
<1> HIDE DEF callers
<1>12. \A result : <<Absorb(Head(callers), result)>> \o Tail(callers) # <<>>
  <2> SUFFICES ASSUME NEW result PROVE <<Absorb(Head(callers), result)>> \o Tail(callers) # <<>>
    OBVIOUS
  <2>1. Absorb(Head(callers), result) \in Frames
    BY <1>8, AbsorbFacts
  <2>2. Len(<<Absorb(Head(callers), result)>> \o Tail(callers)) = Len(callers)
    BY <1>6, <1>8, <2>1, ReplaceFacts
  <2> QED
    BY <1>8, <2>2
<1>13. ASSUME NEW st, Lasts(status, st), NEW result, Answers(g.kind, f.node, st, result),
              \A m \in Nodes : m # f.node => st[m] = status[m],
              f.kind = "down" => st = status
       PROVE  StackOK(<<Absorb(Head(callers), result)>> \o Tail(callers), st)
  <2>1. ASSUME NEW i \in 1..Len(callers), callers[i].kind = "case"
        PROVE  st[callers[i].node] = status[callers[i].node]
    <3>1. i + 1 \in 1..Len(stack) /\ i + 1 > 1 /\ callers[i] = stack[i+1] /\ stack[i+1] \in Frames
      BY <1>3, <1>6, <1>8
    <3>2. stack[i+1].node # f.node /\ stack[i+1].node \in Nodes
      BY <1>1, <2>1, <3>1, CaseFramesDiffer DEF Frames
    <3> QED
      BY <1>13, <3>1, <3>2
  <2>2. /\ callers[1].next =< Len(ChildrenIn(callers[1], status))
        /\ Answers(callers[1].kind, ChildrenIn(callers[1], status)[callers[1].next], st, result)
    BY <1>6, <1>7, <1>13
  <2> QED
    BY ONLY <1>1, <1>6, <1>13, <2>1, <2>2, StackAbsorb
<1> HIDE DEF f, g
<1>14. CASE /\ f.kind = "down" /\ stack' = <<Absorb(Head(callers), Result(f))>> \o Tail(callers)
            /\ UNCHANGED <<status, dirty>>
  <2>1. g.kind = "down"
    <3>1. 1 \in 1..Len(stack) /\ 2 \in 1..Len(stack) /\ 1 < 2
      BY <1>2, <1>3
    <3> QED
      BY <1>1, <1>10, <1>14, <3>1 DEF StackOK, f, g
  <2>2. Answers("down", f.node, status, Result(f))
    BY <1>1, <1>3, <1>5, <1>14, ResultAnswers DEF ChildrenIn
  <2>3. Lasts(status, status)
    BY DEF Lasts
  <2>4. StackOK(stack', status') /\ stack' # <<>>
    BY <1>12, <1>13, <1>14, <2>1, <2>2, <2>3
  <2>5. /\ StatusOK(status') /\ StartedOK(status', stored) /\ SkippedOK(status') /\ Lasts(status, status')
        /\ Marked(status', dirty') /\ PayloadIn(payload', status') /\ parallelism' \in Nat
    BY <1>2, <1>11, <1>14 DEF Advanced
  <2> QED
    BY <1>2, <1>3, <2>4, <2>5, RoundGoesOn
<1>15. CASE f.kind = "case" /\ ReturnFromCase(f, callers)
  <2>1. PICK to \in BranchPhases(f) :
            /\ status' = [status EXCEPT ![f.node].phase = to]
            /\ dirty' = IF to = Phase(f.node) THEN dirty ELSE dirty \cup {f.node}
            /\ LET returns == CASE to = "Succeeded" -> "Success"
                                [] HasFailed(to)    -> to
                                [] OTHER            -> "Running"
               IN  stack' = <<Absorb(Head(callers), returns)>> \o Tail(callers)
    BY <1>15 DEF ReturnFromCase
  <2>2. /\ IsBranch(f.node) /\ status[f.node].phase = "Running"
        /\ to \in {"Running", "RetryableFailure", "Succeeded", "Failed", "TimedOut"}
        /\ to = "Succeeded" => IsDone(status[status[f.node].taken].phase)
        /\ to = "RetryableFailure" => status[f.node].attempts < MaxRetries
    BY <1>1, <1>3, <1>5, <1>15, CaseResult
  <2>3. PICK returns : /\ stack' = <<Absorb(Head(callers), returns)>> \o Tail(callers)
                       /\ returns # "Complete" /\ (HasFailed(returns) => HasFailed(to))
    <3>1. PICK returns : returns = CASE to = "Succeeded" -> "Success"
                                     [] HasFailed(to)    -> to
                                     [] OTHER            -> "Running"
      OBVIOUS
    <3>2. returns # "Complete" /\ (HasFailed(returns) => HasFailed(to))
      BY <2>2, <3>1 DEF HasFailed
    <3> QED
      BY <2>1, <3>1, <3>2
  <2> DEFINE s == [status[f.node] EXCEPT !.phase = to]
  <2>4. /\ s \in Status /\ status' = [status EXCEPT ![f.node] = s]
        /\ s.phase = to /\ s.taken = status[f.node].taken /\ s.attempts = status[f.node].attempts
        /\ s.answered = status[f.node].answered
    <3>1. to \in TraversalPhases
      BY <2>2 DEF TraversalPhases, NodePhases
    <3> QED
      BY <1>1, <1>10, <2>1, <3>1, NewPhase
  <2>5. status \in [Nodes -> Status] /\ NodeOK(f.node, status[f.node], status)
    BY <1>1, <1>10 DEF StatusOK
  <2>6. to = status[f.node].phase => s = status[f.node]
    BY <1>10, <2>5 DEF Status
  <2> HIDE DEF s
  <2>7. /\ status'[f.node] = s /\ status' \in [Nodes -> Status]
        /\ \A m \in Nodes : m # f.node => status'[m] = status[m]
    BY <1>10, <2>4, <2>5
  <2>8. NodeOK(f.node, s, status)
    BY <2>2, <2>4, <2>5 DEF NodeOK, BranchOK, AgreesWithCase
  <2>9. MayStart(f.node, stored)
    BY <1>1, <1>10, <2>2 DEF AllStatusesOK, StartedOK, IsStarted
  <2>10. MayBecome(f.node, s, status, stored)
    BY <2>2, <2>4, <2>8, <2>9 DEF MayBecome, IsOver, IsDone, HasFailed
  <2>11. StatusOK(status') /\ StartedOK(status', stored) /\ SkippedOK(status') /\ Lasts(status, status')
    BY <1>1, <1>10, <2>7, <2>10, OneNode DEF AllStatusesOK
  <2>12. Marked(status', dirty')
    BY <1>1, <1>10, <2>1, <2>6, <2>7 DEF Marked, Types, Phase
  <2>13. PayloadIn(payload', status')
    BY <1>1, <1>2, <1>10, <2>2, <2>7 DEF PayloadIn, PayloadOK, Types
  <2>14. Answers(g.kind, f.node, status', returns)
    <3> SUFFICES ASSUME HasFailed(returns)
                 PROVE  /\ HasFailed(status'[f.node].phase)
                        /\ g.kind = "down" => SomeFailed(status') /\ Finished(f.node, status')
      BY <2>3 DEF Answers
    <3>1. HasFailed(status'[f.node].phase)
      BY <2>3, <2>4, <2>7
    <3> QED
      BY <1>1, <1>9, <1>10, <3>1, CoversGrow DEF SomeFailed
  <2>15. StackOK(stack', status') /\ stack' # <<>>
    BY <1>12, <1>13, <1>15, <2>3, <2>7, <2>11, <2>14
  <2> QED
    BY <1>2, <1>3, <1>11, <2>11, <2>12, <2>13, <2>15, RoundGoesOn
<1> QED
  BY <1>5, <1>14, <1>15

---------------------------------------------------------------------------
(* Rounds begin and end.                                                   *)

LEMMA BeginStep ==
    ASSUME IInv, BeginRound
    PROVE  IInv'
<1> DEFINE f == Frame(Start, "down")
<1>1. Types /\ AllStatusesOK /\ PayloadOK
  BY DEF IInv
<1>2. /\ workflow = "Running" /\ stack' = <<f>>
      /\ UNCHANGED <<graph, policy, workflow, stored, status, dirty, parallelism, payload, faults>>
  BY DEF BeginRound
<1>3. /\ f \in Frames /\ f.node = Start /\ f.kind = "down" /\ f.next = 1 /\ f.stopped = FALSE
      /\ f.failure = "none"
  BY NodesAssumption DEF Frame, Frames
<1> HIDE DEF f
<1>4. FrameOK(f, status)
  <2>1. Parents(Start) = {} /\ status[Start].phase = "Succeeded"
    BY <1>1, GraphFacts DEF AllStatusesOK, StatusOK
  <2>2. DownFrameOK(f, status)
    BY <1>3, <2>1 DEF DownFrameOK, IsOver, IsDone
  <2> QED
    BY <1>3, <2>2 DEF FrameOK
<1>5. <<f>> \in Seq(Frames) /\ Len(<<f>>) = 1 /\ <<f>>[1] = f /\ <<f>> # <<>>
  BY <1>3
<1>6. StackOK(<<f>>, status)
  BY <1>3, <1>4, <1>5 DEF StackOK
<1>7. Advanced(status) /\ Marked(status, dirty) /\ PayloadIn(payload, status) /\ parallelism \in Nat
  BY <1>1, Unmoved DEF Types
<1>8. /\ StatusOK(status') /\ StartedOK(status', stored) /\ SkippedOK(status') /\ Lasts(status, status')
      /\ Marked(status', dirty') /\ PayloadIn(payload', status') /\ parallelism' \in Nat
      /\ StackOK(stack', status')
  BY <1>2, <1>6, <1>7 DEF Advanced
<1> QED
  BY <1>2, <1>5, <1>8, RoundGoesOn

(* Chosen, of any statuses.                                                *)
ChosenIn(b, st) ==
    {n \in Nodes : \A S \in SUBSET Nodes :
        (b \in S /\ \A m \in S : {st[m].taken} \ {None} \subseteq S) => n \in S}

LEMMA ChosenGrows ==
    ASSUME NEW st, NEW b \in Nodes
    PROVE  /\ b \in ChosenIn(b, st)
           /\ \A m \in ChosenIn(b, st) : st[m].taken \in Nodes \ {None} => st[m].taken \in ChosenIn(b, st)
<1>1. b \in ChosenIn(b, st)
  BY DEF ChosenIn
<1>2. ASSUME NEW m \in ChosenIn(b, st), st[m].taken \in Nodes \ {None} PROVE st[m].taken \in ChosenIn(b, st)
  <2> SUFFICES ASSUME NEW S \in SUBSET Nodes, b \in S, \A k \in S : {st[k].taken} \ {None} \subseteq S
               PROVE  st[m].taken \in S
    BY <1>2 DEF ChosenIn
  <2>1. m \in S
    BY DEF ChosenIn
  <2> QED
    BY <1>2, <2>1
<1> QED
  BY <1>1, <1>2

(* EndedEarly, of any statuses.                                            *)
EndedEarlyIn(b, st) ==
    HasFailed(st[b].phase) /\ st[b].taken # None /\ ~IsOver(st[st[b].taken].phase)

(* A set that holds what is at work outside of branches, and that goes     *)
(* into branches at work, misses only what is inside a branch that ended   *)
(* before its case did: branches nest to a finite depth.                   *)
LEMMA NestedAtWork ==
    ASSUME Types, NEW st, StatusOK(st), StartedOK(st, st), NEW A \in SUBSET Nodes,
           \A n \in Nodes : Parents(n) = {} /\ IsAborted(st[n].phase) => n \in A,
           \A b \in A : IsAborted(st[b].phase) /\ st[b].taken # None => st[b].taken \in A,
           NEW n \in Nodes, IsAborted(st[n].phase), n \notin A
    PROVE  \E b \in Nodes \ {n} : EndedEarlyIn(b, st) /\ n \in ChosenIn(b, st)
<1> DEFINE Inside(m) == \E b \in Nodes : EndedEarlyIn(b, st) /\ m \in ChosenIn(b, st)
           Z == {m \in Nodes : IsAborted(st[m].phase) /\ m \notin A /\ ~Inside(m)}
<1>1. Inside(n)
  <2> SUFFICES ASSUME ~Inside(n) PROVE FALSE
    OBVIOUS
  <2>1. n \in Z /\ Z \in SUBSET Nodes /\ Z # {}
    OBVIOUS
  <2> HIDE DEF Z
  <2>2. PICK m \in Z : \A b \in Z : m \notin Cases(b)
    BY <2>1, Nesting
  <2>3. m \in Nodes /\ IsAborted(st[m].phase) /\ m \notin A /\ ~Inside(m)
    BY <2>2 DEF Z
  <2> HIDE DEF Inside
  <2>4. PICK b \in Nodes : b \in Parents(m) /\ m \in Cases(b)
    BY <2>3 DEF Parents
  <2>5. st[b].taken = m
    BY <2>3, <2>4 DEF StartedOK, MayStart, IsStarted, IsAborted, CanHandleNode, NodePhases
  <2>6. m # None /\ IsBranch(b) /\ NodeOK(b, st[b], st)
    BY <2>3, <2>4, NodesAssumption DEF IsBranch, StatusOK
  <2>7. ~IsDone(st[m].phase) /\ ~HasFailed(st[m].phase)
    BY <2>3 DEF IsAborted, CanHandleNode, IsDone, HasFailed, NodePhases
  <2>8. st[b].phase \in {"Running", "RetryableFailure"} \/ HasFailed(st[b].phase)
    <3>1. BranchOK(st[b]) /\ AgreesWithCase(st[b], st) /\ st[b].taken # None
      BY <2>5, <2>6 DEF NodeOK
    <3>2. st[b].phase \in {"Running", "RetryableFailure", "Succeeded", "Failed", "TimedOut"}
      BY <3>1 DEF BranchOK
    <3> QED
      BY <2>5, <2>7, <3>1, <3>2 DEF AgreesWithCase, HasFailed
  <2>9. CASE HasFailed(st[b].phase)
    <3>1. m \in ChosenIn(b, st)
      BY <2>3, <2>5, <2>6, ChosenGrows
    <3>2. EndedEarlyIn(b, st)
      BY <2>5, <2>6, <2>7, <2>9 DEF EndedEarlyIn, IsOver
    <3> QED
      BY <2>3, <3>1, <3>2 DEF Inside
  <2>10. CASE st[b].phase \in {"Running", "RetryableFailure"}
    <3>1. IsAborted(st[b].phase)
      BY <2>10 DEF IsAborted, CanHandleNode, NodePhases
    <3>2. b \notin Z
      BY <2>2, <2>4
    <3>3. b \notin A
      BY <2>3, <2>5, <2>6, <3>1
    <3>4. Inside(b)
      BY <3>1, <3>2, <3>3 DEF Z
    <3>5. PICK t \in Nodes : EndedEarlyIn(t, st) /\ b \in ChosenIn(t, st)
      BY <3>4 DEF Inside
    <3>6. m \in ChosenIn(t, st)
      BY <2>3, <2>5, <2>6, <3>5, ChosenGrows
    <3> QED
      BY <2>3, <3>5, <3>6 DEF Inside
  <2> QED
    BY <2>8, <2>9, <2>10
<1>2. \A b \in Nodes : EndedEarlyIn(b, st) => b # n
  BY DEF EndedEarlyIn, HasFailed, IsAborted, CanHandleNode
<1> QED
  BY <1>1, <1>2

(* What a round records may be relied on once it is stored.                *)
LEMMA StartedStored ==
    ASSUME NEW was, NEW st, StartedOK(st, was), Lasts(was, st)
    PROVE  StartedOK(st, st)
<1> SUFFICES ASSUME NEW n \in Nodes, IsStarted(st[n].phase) PROVE MayStart(n, st)
  BY DEF StartedOK
<1>1. MayStart(n, was) /\ n # None
  BY NodesAssumption DEF StartedOK
<1>2. \A m \in Up(n) : st[m].phase = "Succeeded"
  BY <1>1 DEF MayStart, Lasts, IsOver, IsDone, Up
<1>3. \A b \in Parents(n) : st[b].taken = n
  BY <1>1 DEF MayStart, Lasts, Parents
<1> QED
  BY <1>2, <1>3 DEF MayStart

(* A workflow whose start node is completed has no node outside of a       *)
(* branch that is not done.                                                *)
LEMMA AllIsDone ==
    ASSUME Types, NEW st, Completed(Start, st), NEW n \in Nodes, Parents(n) = {}
    PROVE  IsDone(st[n].phase)
<1>1. PICK S \in SUBSET Nodes :
          Start \in S /\ \A m \in S : IsDone(st[m].phase) /\ ToSet(Down(m)) \subseteq S
  BY DEF Completed
<1>2. n \in S \/ \E b \in Nodes : n \in graph.cases[b]
  <2>1. \A m \in S : ToSet(graph.down[m]) \subseteq S
    BY <1>1 DEF Down
  <2> QED
    BY <1>1, <2>1, GraphsAssumption DEF Types, IsCompiled
<1>3. n \in S
  BY <1>2 DEF Parents, Cases
<1> QED
  BY <1>1, <1>3

(* What the start node's call tells handleRunningWorkflow.                 *)
LEMMA RoundAnswers ==
    ASSUME IInv, EndRound
    PROVE  Answers("down", Start, status, Result(Head(stack)))
<1> DEFINE f == stack[1]
<1>1. Types /\ StackOK(stack, status) /\ Len(stack) = 1
  BY DEF IInv, EndRound
<1>2. stack \in Seq(Frames) /\ stack # <<>> /\ Head(stack) = f
  BY <1>1 DEF StackOK
<1>3. FrameOK(f, status) /\ f.node = Start /\ f.kind = "down"
  <2>1. 1 \in 1..Len(stack)
    BY <1>1
  <2> QED
    BY <1>1, <2>1 DEF StackOK
<1>4. f.stopped \/ f.next > Len(Down(f.node))
  BY <1>2, <1>3 DEF EndRound, Children
<1> QED
  BY <1>1, <1>2, <1>3, <1>4, ResultAnswers

LEMMA EndStep ==
    ASSUME IInv, EndRound
    PROVE  IInv'
<1>1. Types /\ AllStatusesOK /\ RoundOK /\ PayloadOK
  BY DEF IInv
<1>2. /\ stored' = status /\ dirty' = {} /\ parallelism' = 0 /\ stack' = <<>>
      /\ UNCHANGED <<graph, policy, status, payload, faults>>
      /\ workflow' = CASE HasFailed(Result(Head(stack)))     -> "Failing"
                       [] Result(Head(stack)) = "Complete"   -> "Succeeding"
                       [] OTHER                              -> "Running"
  BY DEF EndRound
<1>3. /\ workflow' \in {"Failing", "Succeeding", "Running"}
      /\ workflow' = "Succeeding" => Result(Head(stack)) = "Complete"
  BY <1>2
<1>4. StartedOK(status, status)
  BY <1>1, StartedStored DEF AllStatusesOK, RoundOK
<1>5. Types'
  BY <1>1, <1>2, <1>3 DEF Types
<1>6. AllStatusesOK'
  BY <1>1, <1>2, <1>4, SameStatuses DEF AllStatusesOK
<1>7. RoundOK'
  BY <1>2 DEF RoundOK, Lasts
<1>8. PayloadOK'
  BY <1>1, <1>2 DEF PayloadOK, Accounted, IsBranch, Cases
<1>9. StackOK(stack', status')
  BY <1>2 DEF StackOK
<1>10. StackOK(stack, status)'
  BY <1>2, <1>9, SameStack
<1>11. ASSUME workflow' = "Succeeding" PROVE \A n \in Nodes : Parents(n) = {} => IsDone(status[n].phase)
  <2>1. Completed(Start, status)
    BY <1>3, <1>11, RoundAnswers DEF Answers
  <2> QED
    BY <1>1, <2>1, AllIsDone
<1>12. SuccessIsComplete'
  BY <1>2, <1>11 DEF SuccessIsComplete, Parents, Cases
<1>13. ASSUME workflow' = "Succeeding", NEW n \in Nodes, payload[n] = "live", status[n].answered # "yes"
       PROVE  \E b \in Nodes \ {n} : EndedEarlyIn(b, status) /\ n \in ChosenIn(b, status)
  <2>1. IsAborted(status[n].phase) /\ StatusOK(status)
    BY <1>1, <1>13 DEF PayloadOK, Accounted, AllStatusesOK
  <2>2. \A m \in Nodes : Parents(m) = {} /\ IsAborted(status[m].phase) => m \in {}
    BY <1>11, <1>13 DEF IsAborted, CanHandleNode, IsDone, NodePhases
  <2>3. {} \in SUBSET Nodes /\ n \notin {} /\ \A b \in {} : status[b].taken \in {}
    OBVIOUS
  <2> QED
    BY <1>1, <1>4, <2>1, <2>2, <2>3, NestedAtWork
<1>14. NoPayloadOutlivesWorkflow'
  <2>1. \A b \in Nodes : Chosen(b)' = ChosenIn(b, status) /\ EndedEarly(b)' = EndedEarlyIn(b, status)
    BY <1>2 DEF Chosen, ChosenIn, EndedEarly, EndedEarlyIn
  <2> QED
    BY <1>2, <1>3, <1>13, <2>1 DEF NoPayloadOutlivesWorkflow
<1> QED
  BY <1>5, <1>6, <1>7, <1>8, <1>10, <1>12, <1>14 DEF IInv

LEMMA LoseStep ==
    ASSUME IInv, LoseRound
    PROVE  IInv'
<1>1. Types /\ AllStatusesOK /\ RoundOK /\ PayloadOK
  BY DEF IInv
<1>2. /\ stack # <<>> /\ faults > 0 /\ faults' = faults - 1 /\ status' = stored
      /\ dirty' = {} /\ parallelism' = 0 /\ stack' = <<>>
      /\ UNCHANGED <<graph, policy, workflow, stored, payload>>
  BY DEF LoseRound
<1>3. workflow' = "Running"
  BY <1>1, <1>2 DEF RoundOK
<1>4. Types'
  BY <1>1, <1>2, BoundsAssumption DEF Types
<1>5. AllStatusesOK'
  BY <1>1, <1>2, SameStatuses DEF AllStatusesOK
<1>6. RoundOK'
  BY <1>2 DEF RoundOK, Lasts
<1>7. PayloadOK'
  BY <1>1, <1>2 DEF PayloadOK, Accounted, IsBranch, Cases
<1>8. StackOK(stack', status')
  BY <1>2 DEF StackOK
<1>9. StackOK(stack, status)'
  BY <1>2, <1>8, SameStack
<1>10. SuccessIsComplete' /\ NoPayloadOutlivesWorkflow'
  BY <1>3 DEF SuccessIsComplete, NoPayloadOutlivesWorkflow
<1> QED
  BY <1>4, <1>5, <1>6, <1>7, <1>9, <1>10 DEF IInv

(* Steps that leave every status as it is.                                 *)
LEMMA StatusesStay ==
    ASSUME IInv, UNCHANGED <<graph, policy, stored, round>>, Types', PayloadOK',
           workflow' # "Running" => stack = <<>>, SuccessIsComplete', NoPayloadOutlivesWorkflow'
    PROVE  IInv'
<1>1. Types /\ AllStatusesOK /\ RoundOK /\ StackOK(stack, status)
  BY DEF IInv
<1>2. UNCHANGED <<graph, policy, stored, status, dirty, parallelism, stack>>
  BY DEF round
<1>3. AllStatusesOK'
  BY <1>1, <1>2, SameStatuses DEF AllStatusesOK
<1>4. RoundOK'
  BY <1>1, <1>2 DEF RoundOK, Lasts
<1>5. StackOK(stack, status)'
  BY <1>1, <1>2, SameStack
<1> QED
  BY <1>3, <1>4, <1>5 DEF IInv

LEMMA TerminateStep ==
    ASSUME IInv, Terminate
    PROVE  IInv'
<1>1. /\ workflow' = "Failing" /\ faults' = faults - 1 /\ faults > 0 /\ stack = <<>>
      /\ UNCHANGED <<graph, policy, stored, round, payload>>
  BY DEF Terminate
<1>2. Types /\ PayloadOK /\ UNCHANGED <<status, dirty, parallelism>>
  BY <1>1 DEF IInv, round
<1>3. Types'
  BY <1>1, <1>2, BoundsAssumption DEF Types
<1>4. PayloadOK'
  BY <1>1, <1>2 DEF PayloadOK, Accounted, IsBranch, Cases
<1>5. SuccessIsComplete' /\ NoPayloadOutlivesWorkflow'
  BY <1>1 DEF SuccessIsComplete, NoPayloadOutlivesWorkflow
<1> QED
  BY <1>1, <1>3, <1>4, <1>5, StatusesStay

(* The recursion of AbortHandler goes on to whatever it goes to.           *)
LEMMA ReachGrows ==
    ASSUME NEW n \in Nodes
    PROVE  /\ AbortReach(n) \in SUBSET Nodes /\ n \in AbortReach(n)
           /\ \A k \in AbortReach(n) : \A m \in Nodes : m \in AbortGoesTo(k) => m \in AbortReach(n)
<1>1. AbortReach(n) \in SUBSET Nodes /\ n \in AbortReach(n)
  BY DEF AbortReach
<1>2. ASSUME NEW k \in AbortReach(n), NEW m \in Nodes, m \in AbortGoesTo(k) PROVE m \in AbortReach(n)
  <2> SUFFICES ASSUME NEW S \in SUBSET Nodes, n \in S, \A j \in S : AbortGoesTo(j) \subseteq S
               PROVE  m \in S
    BY DEF AbortReach
  <2>1. k \in S
    BY DEF AbortReach
  <2> QED
    BY <1>2, <2>1
<1> QED
  BY <1>1, <1>2

LEMMA AbortStep ==
    ASSUME IInv, AbortWorkflow
    PROVE  IInv'
<1>1. /\ workflow = "Failing" /\ workflow' = "Failed"
      /\ payload' = [n \in Nodes |-> IF n \in AbortedWith(Start) THEN "none" ELSE payload[n]]
      /\ UNCHANGED <<graph, policy, stored, round, faults>>
  BY DEF AbortWorkflow, AbortsWith
<1>2. Types /\ AllStatusesOK /\ PayloadOK /\ UNCHANGED <<status, dirty, parallelism>>
  BY <1>1 DEF IInv, round
<1>3. stack = <<>> /\ status = stored
  BY <1>1 DEF IInv, RoundOK
<1>4. Types'
  BY <1>1, <1>2 DEF Types
<1>5. PayloadOK'
  BY <1>1, <1>2 DEF PayloadOK, Accounted, IsBranch, Cases
<1>6. SuccessIsComplete'
  BY <1>1 DEF SuccessIsComplete
<1> DEFINE A == AbortReach(Start)
<1>7. /\ A \in SUBSET Nodes /\ Start \in A
      /\ \A k \in A : \A m \in Nodes : m \in AbortGoesTo(k) => m \in A
  BY ReachGrows, NodesAssumption
<1>8. ASSUME NEW n \in Nodes, payload'[n] = "live", stored[n].answered # "yes"
      PROVE  n \notin A /\ IsAborted(stored[n].phase)
  <2>1. payload[n] = "live" /\ n \notin AbortedWith(Start)
    BY <1>1, <1>8
  <2>2. IsAborted(stored[n].phase)
    BY <1>2, <1>8, <2>1 DEF PayloadOK, Accounted
  <2> QED
    BY <1>3, <2>1, <2>2 DEF AbortedWith, Phase
<1> HIDE DEF A
<1>9. \A k \in A : IsDone(stored[k].phase) => ToSet(Down(k)) \subseteq A
  <2> SUFFICES ASSUME NEW k \in A, IsDone(stored[k].phase), NEW m \in ToSet(Down(k)) PROVE m \in A
    OBVIOUS
  <2>1. k \in Nodes
    BY <1>7
  <2>2. m \in Nodes
    BY <1>2, <2>1, GraphFacts DEF ToSet
  <2>3. m \in AbortGoesTo(k)
    BY <1>3 DEF AbortGoesTo, Phase
  <2> QED
    BY <1>7, <2>2, <2>3
<1>10. \A b \in A : IsAborted(stored[b].phase) /\ stored[b].taken # None => stored[b].taken \in A
  <2> SUFFICES ASSUME NEW b \in A, IsAborted(stored[b].phase), stored[b].taken # None PROVE stored[b].taken \in A
    OBVIOUS
  <2>1. ~IsDone(stored[b].phase)
    BY DEF IsAborted, CanHandleNode, IsDone, NodePhases
  <2>2. stored[b].taken \in AbortGoesTo(b)
    BY <1>3, <2>1 DEF AbortGoesTo, Phase
  <2>3. b \in Nodes /\ stored \in [Nodes -> Status]
    BY <1>2, <1>7 DEF AllStatusesOK, StatusOK
  <2>4. stored[b].taken \in Nodes
    BY <2>3 DEF Status
  <2> QED
    BY <1>7, <2>2, <2>4
<1>11. \A n \in Nodes : Parents(n) = {} /\ IsAborted(stored[n].phase) => n \in A
  <2> SUFFICES ASSUME NEW n \in Nodes, Parents(n) = {}, IsAborted(stored[n].phase) PROVE n \in A
    OBVIOUS
  <2>1. IsStarted(stored[n].phase)
    BY DEF IsStarted, IsAborted, CanHandleNode, NodePhases
  <2> QED
    BY <1>2, <1>7, <1>9, <2>1, StartedIsReached DEF AllStatusesOK
<1>12. ASSUME NEW n \in Nodes, payload'[n] = "live", stored[n].answered # "yes"
       PROVE  \E b \in Nodes \ {n} : EndedEarlyIn(b, stored) /\ n \in ChosenIn(b, stored)
  <2>1. n \notin A /\ IsAborted(stored[n].phase)
    BY <1>8, <1>12
  <2>2. StatusOK(stored) /\ StartedOK(stored, stored)
    BY <1>2 DEF AllStatusesOK
  <2> QED
    BY <1>2, <1>7, <1>10, <1>11, <2>1, <2>2, NestedAtWork
<1>13. NoPayloadOutlivesWorkflow'
  <2>1. \A b \in Nodes : Chosen(b)' = ChosenIn(b, stored) /\ EndedEarly(b)' = EndedEarlyIn(b, stored)
    BY <1>1 DEF Chosen, ChosenIn, EndedEarly, EndedEarlyIn
  <2> QED
    BY <1>1, <1>12, <2>1 DEF NoPayloadOutlivesWorkflow
<1> QED
  BY <1>1, <1>3, <1>4, <1>5, <1>6, <1>13, StatusesStay

LEMMA QuietStep ==
    ASSUME IInv, UNCHANGED vars \/ \E n \in Nodes : PayloadEnds(n)
    PROVE  IInv'
<1>1. UNCHANGED <<graph, policy, workflow, stored, round, faults>>
  BY DEF vars, PayloadEnds
<1>2. Types /\ PayloadOK /\ SuccessIsComplete /\ NoPayloadOutlivesWorkflow /\ UNCHANGED <<status, dirty, parallelism>>
  BY <1>1 DEF IInv, round
<1>3. /\ payload' \in [Nodes -> {"none", "live", "ended"}]
      /\ \A n \in Nodes : payload'[n] = "live" => payload[n] = "live"
  <2>1. CASE UNCHANGED vars
    BY <1>2, <2>1 DEF vars, Types
  <2>2. CASE \E n \in Nodes : PayloadEnds(n)
    BY <1>2, <2>2 DEF PayloadEnds, Types
  <2> QED
    BY <2>1, <2>2
<1>4. Types'
  BY <1>1, <1>2, <1>3 DEF Types
<1>5. PayloadOK'
  BY <1>1, <1>2, <1>3 DEF PayloadOK, Accounted, IsBranch, Cases
<1>6. SuccessIsComplete'
  BY <1>1, <1>2 DEF SuccessIsComplete, Parents, Cases
<1>7. NoPayloadOutlivesWorkflow'
  <2>1. \A b \in Nodes : Chosen(b)' = Chosen(b) /\ EndedEarly(b)' = EndedEarly(b)
    BY <1>1 DEF Chosen, EndedEarly
  <2> QED
    BY <1>1, <1>2, <1>3, <2>1 DEF NoPayloadOutlivesWorkflow
<1>8. workflow' # "Running" => stack = <<>>
  BY <1>1 DEF IInv, RoundOK
<1> QED
  BY <1>1, <1>4, <1>5, <1>6, <1>7, <1>8, StatusesStay

LEMMA InitOK ==
    ASSUME Init
    PROVE  IInv
<1>1. /\ graph \in Graphs /\ policy \in Policies /\ workflow = "Running"
      /\ stored = [n \in Nodes |-> [phase |-> IF n = Start THEN "Succeeded" ELSE "NotYetStarted",
                                    taken |-> None, attempts |-> 0, answered |-> "no"]]
      /\ status = stored /\ dirty = {} /\ parallelism = 0 /\ stack = <<>>
      /\ payload = [n \in Nodes |-> "none"] /\ faults = MaxFaults
  BY DEF Init
<1>2. Types
  BY <1>1, BoundsAssumption DEF Types
<1>3. \A n \in Nodes : /\ stored[n].phase \in {"Succeeded", "NotYetStarted"}
                       /\ stored[n].phase = "Succeeded" <=> n = Start
                       /\ stored[n].taken = None /\ stored[n].answered = "no" /\ stored[n] \in Status
  BY <1>1, BoundsAssumption DEF Status, TraversalPhases, NodePhases
<1>4. Up(Start) = {} /\ Parents(Start) = {} /\ ~IsBranch(Start)
  <2>1. graph.cases[Start] = {} /\ \A m \in Nodes : Start \notin ToSet(graph.down[m])
    BY <1>1, GraphsAssumption DEF IsCompiled
  <2>2. Parents(Start) = {} /\ Start \in Nodes
    BY <1>2, GraphFacts, NodesAssumption
  <2>3. Up(Start) = {m \in Nodes : Start \in ToSet(Down(m))}
    BY <1>2, <2>2, GraphFacts
  <2> QED
    BY <2>1, <2>2, <2>3 DEF Down, IsBranch, Cases
<1>5. ASSUME NEW n \in Nodes PROVE NodeOK(n, stored[n], stored)
  <2>1. ~IsBranch(n) \/ stored[n].phase = "NotYetStarted"
    BY <1>3, <1>4
  <2> QED
    BY <1>3, <2>1 DEF NodeOK, BranchOK, AgreesWithCase
<1>6. StatusOK(stored)
  BY <1>1, <1>3, <1>5, NodesAssumption DEF StatusOK
<1>7. StartedOK(stored, stored) /\ SkippedOK(stored)
  BY <1>3, <1>4 DEF StartedOK, SkippedOK, IsStarted, MayStart
<1>8. AllStatusesOK
  BY <1>1, <1>6, <1>7 DEF AllStatusesOK
<1>9. RoundOK /\ PayloadOK
  BY <1>1 DEF RoundOK, PayloadOK, Lasts
<1>10. StackOK(stack, status)
  BY <1>1 DEF StackOK
<1>11. SuccessIsComplete /\ NoPayloadOutlivesWorkflow
  BY <1>1 DEF SuccessIsComplete, NoPayloadOutlivesWorkflow
<1> QED
  BY <1>2, <1>8, <1>9, <1>10, <1>11 DEF IInv

---------------------------------------------------------------------------
(* The theorems.                                                           *)

(* The walk of RecursiveNodeHandler keeps the invariant: statuses, the     *)
(* stack of calls, what a call knows of the nodes it has seen, and the     *)
(* payloads fit together in every state of every workflow.                 *)
THEOREM Invariance == Spec => []IInv
<1>1. Init => IInv
  BY InitOK
<1>2. IInv /\ [Next]_vars => IInv'
  <2> SUFFICES ASSUME IInv, [Next]_vars PROVE IInv'
    OBVIOUS
  <2>1. CASE BeginRound
    BY <2>1, BeginStep
  <2>2. CASE VisitNext
    BY <2>2, VisitStep
  <2>3. CASE Return
    BY <2>3, ReturnStep
  <2>4. CASE EndRound
    BY <2>4, EndStep
  <2>5. CASE LoseRound
    BY <2>5, LoseStep
  <2>6. CASE Terminate
    BY <2>6, TerminateStep
  <2>7. CASE AbortWorkflow
    BY <2>7, AbortStep
  <2>8. CASE Done \/ UNCHANGED vars \/ \E n \in Nodes : PayloadEnds(n)
    BY <2>8, QuietStep DEF Done
  <2> QED
    BY <2>1, <2>2, <2>3, <2>4, <2>5, <2>6, <2>7, <2>8 DEF Next
<1> QED
  BY <1>1, <1>2, PTL DEF Spec

(* Every part of the state keeps its type.                                 *)
THEOREM TypeCorrect == Spec => []TypeOK
<1>1. IInv => TypeOK
  BY DEF IInv, Types, AllStatusesOK, StatusOK, StackOK, TypeOK
<1> QED
  BY <1>1, Invariance, PTL

(* A node is taken up only after everything upstream of it is recorded as  *)
(* succeeded, and a case only after it is recorded as chosen, the nodes    *)
(* that the case itself is bound to included: CanExecute's dirty checks    *)
(* suffice for every DAG, wherever rounds are lost.                        *)
THEOREM NodesStartInOrder == Spec => []StartsAfterUpstream
<1>1. IInv => StartsAfterUpstream
  BY DEF IInv, AllStatusesOK, StartedOK, MayStart, IsStarted, StartsAfterUpstream, Phase
<1> QED
  BY <1>1, Invariance, PTL

(* What is skipped is skipped for a recorded reason, and a workflow        *)
(* succeeds only if each of its nodes succeeded or was skipped: the        *)
(* answers that handleDownstream gathers are true of all that is below.    *)
THEOREM OutcomesAreHonest == Spec => []OutcomeIsHonest
<1>1. IInv => OutcomeIsHonest
  <2> SUFFICES ASSUME IInv PROVE OutcomeIsHonest
    OBVIOUS
  <2>1. Types /\ SkippedOK(stored) /\ SuccessIsComplete
    BY DEF IInv, AllStatusesOK
  <2>2. Top = {n \in Nodes : Parents(n) = {}}
    BY DEF Top
  <2>3. workflow = "Succeeding" => \A n \in Top : IsDone(stored[n].phase)
    BY <2>1, <2>2 DEF SuccessIsComplete
  <2>4. \A n \in Nodes : stored[n].phase = "Skipped" =>
            \/ \E m \in Up(n) : stored[m].phase \in {"Skipped", "Failed", "TimedOut"}
            \/ \E b \in Parents(n) : stored[b].taken # n /\ stored[b].phase # "NotYetStarted"
    BY <2>1 DEF SkippedOK, MayBeSkipped
  <2> QED
    BY <2>3, <2>4 DEF OutcomeIsHonest
<1> QED
  BY <1>1, Invariance, PTL

(* AbortHandler finds everything that is at work, however the DAG and the  *)
(* branches in it are built, except what is inside a branch that one of    *)
(* its deadlines ended before its case was over, and what a lost visit had *)
(* started for a node that the cache then answered; and a workflow that    *)
(* succeeds leaves nothing else behind either.                             *)
THEOREM NothingOutlives == Spec => []NoPayloadOutlivesWorkflow
<1>1. IInv => NoPayloadOutlivesWorkflow
  BY DEF IInv
<1> QED
  BY <1>1, Invariance, PTL

(* A failed node fails the workflow only when, with                        *)
(* FAIL_AFTER_EXECUTABLE_NODES_COMPLETE, whatever could be executed is     *)
(* over; and no workflow fails without a failed node (handleDownstream,    *)
(* handleRunningWorkflow).                                                 *)
THEOREM ExecutableComplete == Spec => ExecutableNodesComplete
<1>1. IInv /\ [Next]_vars =>
          [(workflow = "Running" /\ workflow' = "Failing" /\ faults' = faults) =>
              /\ \E n \in Top : HasFailed(stored'[n].phase)
              /\ policy = "FailAfterExecutable" =>
                     \A n \in Top : (\A m \in Up(n) : stored'[m].phase = "Succeeded") => IsOver(stored'[n].phase)]_vars
  <2> SUFFICES ASSUME IInv, Next, workflow = "Running", workflow' = "Failing", faults' = faults
               PROVE  /\ \E n \in Top : HasFailed(stored'[n].phase)
                      /\ policy = "FailAfterExecutable" =>
                             \A n \in Top : (\A m \in Up(n) : stored'[m].phase = "Succeeded") => IsOver(stored'[n].phase)
    BY DEF vars
  <2>1. faults \in Nat
    BY BoundsAssumption DEF IInv, Types
  <2>2. EndRound
    BY <2>1 DEF Next, BeginRound, VisitNext, Return, LoseRound, Terminate, AbortWorkflow, Done, PayloadEnds, vars
  <2>3. /\ stored' = status
        /\ workflow' = CASE HasFailed(Result(Head(stack)))     -> "Failing"
                         [] Result(Head(stack)) = "Complete"   -> "Succeeding"
                         [] OTHER                              -> "Running"
    BY <2>2 DEF EndRound
  <2>4. HasFailed(Result(Head(stack)))
    BY <2>3
  <2>5. SomeFailed(status) /\ (policy = "FailAfterExecutable" => Finished(Start, status))
    BY <2>2, <2>4, RoundAnswers DEF Answers
  <2>6. Types /\ StartedOK(status, status)
    BY StartedStored DEF IInv, AllStatusesOK, RoundOK
  <2>7. Top = {n \in Nodes : Parents(n) = {}}
    BY DEF Top
  <2>8. \E n \in Top : HasFailed(status[n].phase)
    BY <2>5, <2>7 DEF SomeFailed
  <2>9. ASSUME policy = "FailAfterExecutable", NEW n \in Top, \A m \in Up(n) : status[m].phase = "Succeeded"
        PROVE  IsOver(status[n].phase)
    <3>1. PICK S \in SUBSET Nodes :
              /\ Start \in S
              /\ \A m \in S : IsOver(status[m].phase) /\ (IsDone(status[m].phase) => ToSet(Down(m)) \subseteq S)
      BY <2>5, <2>9 DEF Finished
    <3>2. CASE n = Start
      BY <3>1, <3>2
    <3>3. CASE n # Start
      <4>1. PICK m \in Up(n) : TRUE
        BY <2>6, <2>7, <3>3, TopIsReached
      <4>2. m \in Nodes /\ n \in Nodes /\ n \in ToSet(Down(m)) /\ status[m].phase = "Succeeded"
        BY <2>6, <2>7, <2>9, GraphFacts
      <4>3. Parents(m) = {} /\ IsStarted(status[m].phase) /\ IsDone(status[m].phase)
        BY <2>6, <4>2, GraphFacts DEF IsStarted, IsDone
      <4>4. m \in S
        BY <2>6, <3>1, <4>2, <4>3, StartedIsReached
      <4> QED
        BY <3>1, <4>2, <4>3, <4>4
    <3> QED
      BY <3>2, <3>3
  <2> QED
    BY <2>3, <2>8, <2>9
<1> QED
  BY <1>1, Invariance, PTL DEF Spec, ExecutableNodesComplete
=============================================================================
