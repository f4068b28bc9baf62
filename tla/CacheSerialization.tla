------------------------ MODULE CacheSerialization ------------------------
(***************************************************************************)
(* Nodes of any executions that run the same cacheable, cache-serializable *)
(* task on the same inputs: the node executor checks the catalog, reserves *)
(* the artifact in datacatalog, starts the payload, and when it is done    *)
(* writes the artifact and releases the reservation.                       *)
(*                                                                         *)
(* A reservation call is three steps of the manager (read the row, look at *)
(* the clock, write conditionally), so calls of different nodes interleave *)
(* with each other and with time.  Time is relative: a row holds the ticks *)
(* that are left of it, a call the ticks since it looked at the clock.     *)
(***************************************************************************)
EXTENDS Integers, FiniteSets

CONSTANTS
    Nodes,          \* nodes that compute the artifact
    Nobody,         \* not a node
    Grace,          \* heartbeat interval times the grace-period multiplier
    MaxCall,        \* ticks that a reservation call may take
    MaxAttempts,    \* attempts that a node has
    MaxFaults       \* failed calls and lost writes in a run

ASSUME NobodyAssumption == Nobody \notin Nodes \X Nat
ASSUME NodesAssumption == IsFiniteSet(Nodes)
ASSUME GraceAssumption == Grace \in Nat \ {0}
ASSUME CallAssumption == MaxCall \in Nat
ASSUME AttemptsAssumption == MaxAttempts \in Nat \ {0}
ASSUME FaultsAssumption == MaxFaults \in Nat

VARIABLES
    row,        \* the reservation's row: its owner and the ticks left of it
    cached,     \* the artifact is in the catalog
    phase,      \* phase[n]: the node's recorded phase
    attempt,    \* attempt[n]: the node's recorded attempts
    payload,    \* payload[n]: the current attempt's task
    pc,         \* pc[n]: where the visit to the node is
    seen,       \* seen[n]: the row that the node's call has read
    age,        \* age[n]: ticks since the node's call looked at the clock
    quiet,      \* quiet[n]: ticks since the node last got an answer
    late,       \* history: nodes that were too late to extend what they rely on
    faults      \* faults that may still happen

datacatalog == <<row, cached>>
status == <<phase, attempt>>
call == <<pc, seen, age>>
history == <<quiet, late>>
vars == <<datacatalog, status, payload, call, history, faults>>

Owners == Nodes \X Nat
NoRow == [owner |-> Nobody, left |-> 0]
LongAgo == 0 - (MaxCall + 1)

(* Waiting is Queued with the reason cacheSerializedReason.                *)
Phases ==
    {"NotYetStarted", "Queued", "Waiting", "Running", "RetryableFailure", "Failed", "Succeeded"}

IsDone(n) == phase[n] \in {"Failed", "Succeeded"}

OwnerIDOfNode(n) == n  \* mutant: one owner for all attempts

(* computeCatalogReservationOwnerID: each attempt is an owner of its own.  *)
OwnerID(n) == <<n, attempt[n]>>

Fault == faults > 0 /\ faults' = faults - 1

Go(n, at) == pc' = [pc EXCEPT ![n] = at]

(* The visit ends; the workflow's write that records the phase may fail.   *)
Record(n, to) ==
    /\ Go(n, "idle")
    /\ \/ phase' = [phase EXCEPT ![n] = to] /\ UNCHANGED faults
       \/ UNCHANGED phase /\ Fault

---------------------------------------------------------------------------
(* The node executor up to the reservation.                                *)

(* handleNotYetStartedNode: a hit in the catalog is the node's result.     *)
CheckCatalogCache(n) ==
    /\ pc[n] = "idle"
    /\ phase[n] = "NotYetStarted"
    /\ Record(n, IF cached THEN "Succeeded" ELSE "Queued")
    /\ UNCHANGED <<datacatalog, attempt, payload, seen, age, history>>

(* handleQueuedOrRunningNode looks into the catalog again only if the node *)
(* is known to have waited.                                                *)
CheckCatalogCacheAgain(n) ==
    /\ pc[n] = "idle"
    /\ phase[n] = "Waiting"
    /\ IF cached THEN Record(n, "Succeeded") ELSE Go(n, "get") /\ UNCHANGED <<phase, faults>>
    /\ UNCHANGED <<datacatalog, attempt, payload, seen, age, history>>

GetOrExtendCatalogReservation(n) ==
    /\ pc[n] = "idle"
    /\ phase[n] \in {"Queued", "Running"}
    /\ Go(n, "get")
    /\ UNCHANGED <<datacatalog, status, payload, seen, age, history, faults>>

---------------------------------------------------------------------------
(* tryAcquireReservation in datacatalog.                                   *)

(* A node whose reservation is held elsewhere waits if it is queued, but a *)
(* node that is already running goes on.                                   *)
Answer(n, acquired) ==
    /\ IF acquired \/ phase[n] = "Running"
       THEN /\ Go(n, "execute")
            /\ quiet' = [quiet EXCEPT ![n] = age[n]]
            /\ late' = IF age[n] >= Grace THEN late \cup {n} ELSE late
            /\ UNCHANGED <<phase, faults>>
       ELSE /\ Record(n, "Waiting")
            /\ UNCHANGED history
    /\ seen' = [seen EXCEPT ![n] = NoRow]
    /\ age' = [age EXCEPT ![n] = 0]
    /\ UNCHANGED <<attempt, payload, cached>>

GetReservation(n) ==
    /\ pc[n] = "get"
    /\ seen' = [seen EXCEPT ![n] = row]
    /\ Go(n, "now")
    /\ UNCHANGED <<datacatalog, status, payload, age, history, faults>>

(* The row is created if there was none, updated if it had run out or was  *)
(* this owner's, and left alone if it is someone else's.                   *)
DecidesIgnoringExpiry(n) ==  \* mutant: a lapsed reservation is not taken over
    IF seen[n] = NoRow THEN "create"
    ELSE IF seen[n].owner = OwnerID(n) THEN "update" ELSE "held"

Decides(n) ==
    IF seen[n] = NoRow THEN "create"
    ELSE IF seen[n].left < 0 \/ seen[n].owner = OwnerID(n) THEN "update" ELSE "held"

LookAtClock(n) ==
    /\ pc[n] = "now"
    /\ IF Decides(n) = "held" THEN Answer(n, FALSE) /\ UNCHANGED row
       ELSE /\ Go(n, Decides(n))
            /\ seen' = [seen EXCEPT ![n] = NoRow]
            /\ UNCHANGED <<datacatalog, status, payload, age, history, faults>>

(* INSERT ... ON CONFLICT DO NOTHING                                       *)
CreatesRow(n) == row = NoRow

(* UPDATE ... WHERE expires_at <= now OR owner_id = owner                  *)
UpdatesRowUnconditionally(n) == row # NoRow  \* mutant: the check of tryAcquireReservation will do

UpdatesRow(n) == row # NoRow /\ (row.left <= 0 - age[n] \/ row.owner = OwnerID(n))

Writes(n) ==
    \/ pc[n] = "create" /\ CreatesRow(n)
    \/ pc[n] = "update" /\ UpdatesRow(n)

WriteReservation(n) ==
    /\ Writes(n)
    /\ row' = [owner |-> OwnerID(n), left |-> Grace - age[n]]
    /\ \/ Answer(n, TRUE)
       \/ /\ Go(n, "idle")     \* the answer is lost
          /\ Fault
          /\ age' = [age EXCEPT ![n] = 0]
          /\ UNCHANGED <<cached, status, payload, seen, history>>

(* Someone else was faster; find out who.                                  *)
LoseRace(n) ==
    /\ pc[n] \in {"create", "update"}
    /\ ~Writes(n)
    /\ Go(n, "winner")
    /\ age' = [age EXCEPT ![n] = 0]
    /\ UNCHANGED <<datacatalog, status, payload, seen, history, faults>>

GetWinner(n) ==
    /\ pc[n] = "winner"
    /\ row # NoRow
    /\ Answer(n, row.owner = OwnerID(n))
    /\ UNCHANGED row

(* The visit ends in an error: the winner has released its reservation in  *)
(* the meantime, or any call has failed, or propeller has died.            *)
VisitFails(n) ==
    /\ pc[n] # "idle"
    /\ \/ pc[n] = "winner" /\ row = NoRow /\ UNCHANGED faults
       \/ Fault
    /\ Go(n, "idle")
    /\ seen' = [seen EXCEPT ![n] = NoRow]
    /\ age' = [age EXCEPT ![n] = 0]
    /\ UNCHANGED <<datacatalog, status, payload, history>>

---------------------------------------------------------------------------
(* The node executor after the reservation.                                *)

StartPayload(n) ==
    /\ pc[n] = "execute"
    /\ payload[n] = "none"
    /\ payload' = [payload EXCEPT ![n] = "running"]
    /\ Record(n, "Running")
    /\ UNCHANGED <<datacatalog, attempt, seen, age, history>>

PollPayload(n) ==
    /\ pc[n] = "execute"
    /\ payload[n] = "running"
    /\ Record(n, "Running")
    /\ UNCHANGED <<datacatalog, attempt, payload, seen, age, history>>

(* A failed attempt keeps its reservation.                                 *)
FailPayload(n) ==
    /\ pc[n] = "execute"
    /\ payload[n] = "failed"
    /\ Record(n, IF attempt[n] + 1 < MaxAttempts THEN "RetryableFailure" ELSE "Failed")
    /\ UNCHANGED <<datacatalog, attempt, payload, seen, age, history>>

(* A failure to write the artifact is only logged.                         *)
WriteCatalogCache(n) ==
    /\ pc[n] = "execute"
    /\ payload[n] = "succeeded"
    /\ \/ cached' = TRUE /\ UNCHANGED faults
       \/ UNCHANGED cached /\ Fault
    /\ Go(n, "release")
    /\ UNCHANGED <<row, status, payload, seen, age, history>>

(* DELETE ... WHERE owner_id = owner                                       *)
Released(n) == IF row.owner = OwnerID(n) THEN NoRow ELSE row

ReleaseCatalogReservation(n) ==
    /\ pc[n] = "release"
    /\ \/ row' = Released(n) /\ Record(n, "Succeeded")
       \/ Fault /\ UNCHANGED row    \* only logged
            /\ Go(n, "idle") /\ phase' = [phase EXCEPT ![n] = "Succeeded"]
    /\ UNCHANGED <<cached, attempt, payload, seen, age, history>>

(* handleRetryableFailure: the next attempt starts from phase Running.     *)
HandleRetryableFailure(n) ==
    /\ pc[n] = "idle"
    /\ phase[n] = "RetryableFailure"
    /\ \/ /\ phase' = [phase EXCEPT ![n] = "Running"]
          /\ attempt' = [attempt EXCEPT ![n] = @ + 1]
          /\ payload' = [payload EXCEPT ![n] = "none"]
          /\ UNCHANGED faults
       \/ UNCHANGED <<status, payload>> /\ Fault
    /\ UNCHANGED <<datacatalog, call, history>>

---------------------------------------------------------------------------
(* Everyone else.                                                          *)

PayloadEnds(n) ==
    /\ payload[n] = "running"
    /\ payload' \in {[payload EXCEPT ![n] = end] : end \in {"succeeded", "failed"}}
    /\ quiet' = [quiet EXCEPT ![n] = 0]
    /\ late' = late \ {n}
    /\ UNCHANGED <<datacatalog, status, call, faults>>

Aged(left) == IF left > LongAgo THEN left - 1 ELSE left

AgedRow(r) == IF r = NoRow THEN r ELSE [r EXCEPT !.left = Aged(@)]

HasClock(n) == pc[n] \in {"create", "update"}

(* A node relies on its reservation from the answer to the payload's end.  *)
Relies(n) == payload[n] = "running" \/ (payload[n] = "none" /\ pc[n] = "execute")

Tick ==
    /\ \A n \in Nodes : HasClock(n) => age[n] < MaxCall
    /\ row' = AgedRow(row)
    /\ seen' = [n \in Nodes |-> AgedRow(seen[n])]
    /\ age' = [n \in Nodes |-> IF HasClock(n) THEN age[n] + 1 ELSE age[n]]
    /\ quiet' = [n \in Nodes |-> IF Relies(n) /\ n \notin late THEN quiet[n] + 1 ELSE 0]
    /\ late' = {n \in Nodes : Relies(n) /\ (n \in late \/ quiet'[n] >= Grace)}
    /\ UNCHANGED <<cached, status, payload, pc, faults>>

---------------------------------------------------------------------------

Init ==
    /\ row = NoRow
    /\ cached = FALSE
    /\ phase = [n \in Nodes |-> "NotYetStarted"]
    /\ attempt = [n \in Nodes |-> 0]
    /\ payload = [n \in Nodes |-> "none"]
    /\ pc = [n \in Nodes |-> "idle"]
    /\ seen = [n \in Nodes |-> NoRow]
    /\ age = [n \in Nodes |-> 0]
    /\ quiet = [n \in Nodes |-> 0]
    /\ late = {}
    /\ faults = MaxFaults

Visit(n) ==
    \/ CheckCatalogCache(n) \/ CheckCatalogCacheAgain(n) \/ GetOrExtendCatalogReservation(n)
    \/ StartPayload(n) \/ PollPayload(n) \/ FailPayload(n) \/ WriteCatalogCache(n)
    \/ ReleaseCatalogReservation(n) \/ HandleRetryableFailure(n)

Manager(n) ==
    GetReservation(n) \/ LookAtClock(n) \/ WriteReservation(n) \/ LoseRace(n) \/ GetWinner(n)

Next ==
    \/ \E n \in Nodes : Visit(n) \/ Manager(n) \/ VisitFails(n) \/ PayloadEnds(n)
    \/ Tick

Spec == Init /\ [][Next]_vars

(* Workflows are re-evaluated for as long as they have a live node, calls  *)
(* end, time passes, and payloads come to an end (their nodes have         *)
(* deadlines).                                                             *)
Fairness ==
    /\ \A n \in Nodes :
        /\ WF_vars(Visit(n)) /\ WF_vars(Manager(n) \/ VisitFails(n)) /\ WF_vars(PayloadEnds(n))
    /\ WF_vars(Tick)

FairSpec == Spec /\ Fairness

---------------------------------------------------------------------------
(* Properties.                                                             *)

Rows == [owner : Owners, left : Int] \cup {NoRow}

(* Every variable has its type.                                            *)
TypeOK ==
    /\ row \in Rows
    /\ cached \in BOOLEAN
    /\ phase \in [Nodes -> Phases]
    /\ attempt \in [Nodes -> Nat]
    /\ payload \in [Nodes -> {"none", "running", "succeeded", "failed"}]
    /\ pc \in [Nodes -> {"idle", "get", "now", "create", "update", "winner", "execute", "release"}]
    /\ seen \in [Nodes -> Rows]
    /\ age \in [Nodes -> Nat]
    /\ quiet \in [Nodes -> Nat]
    /\ late \in SUBSET Nodes
    /\ faults \in Nat

Lease == INSTANCE ReservationLease WITH owner <- row.owner, left <- row.left

(* The calls, interleaved as they may be, implement a lease: the row only  *)
(* changes hands when it is free or has run out.                           *)
ImplementsLease == Lease!Spec

(* The payloads of two nodes that are both on their first attempt run at  *)
(* the same time only if one of the nodes did not ask for an extension for *)
(* as long as the grace period, whatever calls fail, race or lose their    *)
(* answers in between.                                                     *)
FirstAttemptsSerialized ==
    \A m, n \in Nodes :
        /\ payload[m] = "running" /\ payload[n] = "running" /\ m # n
        /\ attempt[m] = 0 /\ attempt[n] = 0
        => m \in late \/ n \in late

(* "Only a single instance is evaluated": the same for all attempts.       *)
Serialized ==
    \A m, n \in Nodes :
        payload[m] = "running" /\ payload[n] = "running" /\ m # n => m \in late \/ n \in late

(* "All others wait until completion and reuse the resulting cached        *)
(* outputs": nothing is computed that is in the catalog already.           *)
ResultIsReused ==
    [][\A n \in Nodes : payload[n] = "none" /\ payload'[n] = "running" => ~cached]_vars

(* A node that waits for another one's reservation comes to an end, even   *)
(* if the other one fails, dies or does not manage to release it.          *)
NobodyWaitsForever == \A n \in Nodes : phase[n] = "Waiting" ~> IsDone(n)
============================================================================
