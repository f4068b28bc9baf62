--------------------- MODULE CacheSerializationProofs ---------------------
(***************************************************************************)
(* CacheSerialization for any set of nodes, any grace period, any length   *)
(* of calls and any number of attempts and faults: the types, the lease    *)
(* that the calls implement, and the serialization of first attempts.      *)
(***************************************************************************)
EXTENDS CacheSerialization, TLAPS

---------------------------------------------------------------------------
(* Types.                                                                  *)

LEMMA RowTypes == NoRow \in Rows /\ \A r \in Rows : AgedRow(r) \in Rows
<1>1. NoRow \in Rows
  BY DEF Rows
<1>2. ASSUME NEW r \in Rows PROVE AgedRow(r) \in Rows
  <2>1. CASE r = NoRow
    BY <2>1, <1>1 DEF AgedRow
  <2>2. CASE r # NoRow
    <3>1. r \in [owner : Owners, left : Int]
      BY <2>2 DEF Rows
    <3>2. Aged(r.left) \in Int
      BY <3>1, CallAssumption DEF Aged, LongAgo
    <3> QED
      BY <2>2, <3>1, <3>2 DEF AgedRow, Rows
  <2> QED
    BY <2>1, <2>2
<1> QED
  BY <1>1, <1>2

LEMMA OwnerIDType ==
    ASSUME TypeOK, NEW n \in Nodes PROVE OwnerID(n) \in Owners
BY DEF TypeOK, OwnerID, Owners

LEMMA WrittenRowType ==
    ASSUME TypeOK, NEW n \in Nodes
    PROVE [owner |-> OwnerID(n), left |-> Grace - age[n]] \in Rows
<1>1. Grace - age[n] \in Int
  BY GraceAssumption DEF TypeOK
<1> QED
  BY <1>1, OwnerIDType DEF Rows

LEMMA TypeStep == TypeOK /\ [Next]_vars => TypeOK'
<1> SUFFICES ASSUME TypeOK, [Next]_vars PROVE TypeOK'
  OBVIOUS
<1> USE RowTypes DEF TypeOK, datacatalog, status, call, history, Go, Record, Fault, Phases
<1>1. ASSUME NEW n \in Nodes, Visit(n) PROVE TypeOK'
  <2>1. CASE CheckCatalogCache(n)
    BY <2>1 DEF CheckCatalogCache
  <2>2. CASE CheckCatalogCacheAgain(n)
    BY <2>2 DEF CheckCatalogCacheAgain
  <2>3. CASE GetOrExtendCatalogReservation(n)
    BY <2>3 DEF GetOrExtendCatalogReservation
  <2>4. CASE StartPayload(n)
    BY <2>4 DEF StartPayload
  <2>5. CASE PollPayload(n)
    BY <2>5 DEF PollPayload
  <2>6. CASE FailPayload(n)
    BY <2>6 DEF FailPayload
  <2>7. CASE WriteCatalogCache(n)
    <3>1. cached' \in BOOLEAN
      BY <2>7, Zenon DEF WriteCatalogCache
    <3>2. pc' = [pc EXCEPT ![n] = "release"] /\ faults' \in Nat
      BY <2>7 DEF WriteCatalogCache
    <3>3. UNCHANGED <<row, phase, attempt, payload, seen, age, quiet, late>>
      BY <2>7 DEF WriteCatalogCache
    <3> QED
      BY <3>1, <3>2, <3>3
  <2>8. CASE ReleaseCatalogReservation(n)
    BY <2>8 DEF ReleaseCatalogReservation, Released
  <2>9. CASE HandleRetryableFailure(n)
    BY <2>9 DEF HandleRetryableFailure
  <2> QED
    BY <1>1, <2>1, <2>2, <2>3, <2>4, <2>5, <2>6, <2>7, <2>8, <2>9 DEF Visit
<1>2. ASSUME NEW n \in Nodes, Manager(n) PROVE TypeOK'
  <2>1. CASE GetReservation(n)
    BY <2>1 DEF GetReservation
  <2>2. CASE LookAtClock(n)
    BY <2>2 DEF LookAtClock, Answer, Decides
  <2>3. CASE WriteReservation(n)
    BY <2>3, WrittenRowType DEF WriteReservation, Answer
  <2>4. CASE LoseRace(n)
    BY <2>4 DEF LoseRace
  <2>5. CASE GetWinner(n)
    BY <2>5 DEF GetWinner, Answer
  <2> QED
    BY <1>2, <2>1, <2>2, <2>3, <2>4, <2>5 DEF Manager
<1>3. ASSUME NEW n \in Nodes, VisitFails(n) PROVE TypeOK'
  BY <1>3 DEF VisitFails
<1>4. ASSUME NEW n \in Nodes, PayloadEnds(n) PROVE TypeOK'
  BY <1>4 DEF PayloadEnds
<1>5. CASE Tick
  BY <1>5 DEF Tick
<1>6. CASE UNCHANGED vars
  BY <1>6 DEF vars
<1> QED
  BY <1>1, <1>2, <1>3, <1>4, <1>5, <1>6 DEF Next

(* Every variable keeps its type.                                          *)
THEOREM TypeCorrect == Spec => []TypeOK
<1>1. Init => TypeOK
  <2> SUFFICES ASSUME Init PROVE TypeOK
    OBVIOUS
  <2>1. cached \in BOOLEAN
    BY Zenon DEF Init
  <2> QED
    BY <2>1, RowTypes, FaultsAssumption DEF Init, TypeOK, Phases
<1> QED
  BY <1>1, TypeStep, PTL DEF Spec


---------------------------------------------------------------------------
(* The lease.                                                              *)

(* Only a write, a release and time change the row.                        *)
LEMMA RowChanges ==
    ASSUME [Next]_vars
    PROVE  \/ row' = row
           \/ row' = AgedRow(row)
           \/ \E n \in Nodes : row' = Released(n)
           \/ \E n \in Nodes : /\ Writes(n)
                               /\ row' = [owner |-> OwnerID(n), left |-> Grace - age[n]]
<1> USE DEF datacatalog
<1>1. ASSUME NEW n \in Nodes, Visit(n) PROVE row' = row \/ row' = Released(n)
  BY <1>1 DEF Visit, CheckCatalogCache, CheckCatalogCacheAgain, GetOrExtendCatalogReservation,
     StartPayload, PollPayload, FailPayload, WriteCatalogCache, ReleaseCatalogReservation,
     HandleRetryableFailure
<1>2. ASSUME NEW n \in Nodes, Manager(n), ~WriteReservation(n) PROVE row' = row
  BY <1>2 DEF Manager, GetReservation, LookAtClock, LoseRace, GetWinner
<1>3. ASSUME NEW n \in Nodes, VisitFails(n) \/ PayloadEnds(n) PROVE row' = row
  BY <1>3 DEF VisitFails, PayloadEnds
<1>4. CASE UNCHANGED vars
  BY <1>4 DEF vars
<1> QED
  BY <1>1, <1>2, <1>3, <1>4 DEF Next, Tick, WriteReservation, Manager

LEMMA LeaseStep ==
    ASSUME TypeOK, TypeOK', [Next]_vars
    PROVE  [Lease!Next]_<<row.owner, row.left>>
<1> USE DEF Lease!Next
<1>1. CASE row' = row
  BY <1>1
<1>2. CASE row' = AgedRow(row)
  <2>1. CASE row = NoRow
    BY <1>2, <2>1 DEF AgedRow
  <2>2. CASE row # NoRow
    <3>1. row \in [owner : Owners, left : Int]
      BY <2>2 DEF TypeOK, Rows
    <3>2. row'.owner = row.owner /\ row'.left \in {row.left - 1, row.left}
      BY <1>2, <2>2, <3>1 DEF AgedRow, Aged
    <3> QED
      BY <3>2 DEF Lease!Elapse
  <2> QED
    BY <2>1, <2>2
<1>3. ASSUME NEW n \in Nodes, row' = Released(n) PROVE [Lease!Next]_<<row.owner, row.left>>
  <2>1. CASE row' = row
    BY <2>1
  <2>2. CASE row' # row
    <3>1. row.owner = OwnerID(n) /\ row' = NoRow
      BY <1>3, <2>2 DEF Released
    <3> QED
      BY <3>1, OwnerIDType DEF Lease!Release, NoRow
  <2> QED
    BY <2>1, <2>2
<1>4. ASSUME NEW n \in Nodes, Writes(n),
             row' = [owner |-> OwnerID(n), left |-> Grace - age[n]]
      PROVE  Lease!Next
  <2>1. row'.owner = OwnerID(n) /\ row'.left = Grace - age[n] /\ OwnerID(n) \in Owners
    BY <1>4, OwnerIDType
  <2>2. Grace - age[n] <= Grace
    BY GraceAssumption DEF TypeOK
  <2>3. CASE row = NoRow
    BY <2>1, <2>2, <2>3 DEF Lease!Acquire, NoRow
  <2>4. CASE row # NoRow /\ row.left <= 0 - age[n]
    <3>1. row.left <= 0
      <4>1. row.left \in Int /\ age[n] \in Nat
        BY <2>4 DEF TypeOK, Rows
      <4> QED
        BY <2>4, <4>1
    <3> QED
      BY <2>1, <2>2, <3>1 DEF Lease!Acquire
  <2>5. CASE row.owner = OwnerID(n)
    BY <2>1, <2>2, <2>5 DEF Lease!Extend
  <2> QED
    BY <1>4, <2>3, <2>4, <2>5 DEF Writes, CreatesRow, UpdatesRow
<1> QED
  BY RowChanges, <1>1, <1>2, <1>3, <1>4

(* The interleaved reads, clock readings and conditional writes of         *)
(* tryAcquireReservation and ReleaseReservation implement a lease, for any *)
(* number of nodes and with failing calls.                                 *)
THEOREM LeaseHolds == Spec => ImplementsLease
<1>1. Init => Lease!Init
  BY DEF Init, Lease!Init, NoRow
<1> QED
  BY <1>1, TypeCorrect, LeaseStep, PTL DEF Spec, ImplementsLease, Lease!Spec

---------------------------------------------------------------------------
(* First attempts.                                                         *)

FirstAttempt(n) == attempt[n] = 0

(* A node on its first attempt that relies on the reservation and was not  *)
(* too late with an extension has it, for as long as its grace lasts.      *)
Holds(n) ==
    FirstAttempt(n) /\ Relies(n) /\ n \notin late =>
        /\ row.owner = <<n, 0>>
        /\ row.left >= Grace - quiet[n]
        /\ quiet[n] < Grace

(* A call that found no row, or lost a race, is not the row's owner.       *)
IsNotOwner(n) ==
    pc[n] \in {"create", "winner"} \/ (pc[n] = "now" /\ seen[n] = NoRow) =>
        row.owner # OwnerID(n)

(* A call of a node that holds the reservation has read its own row.       *)
SawItself(n) ==
    FirstAttempt(n) /\ payload[n] = "running" /\ n \notin late /\ pc[n] = "now" =>
        seen[n].owner = <<n, 0>>

(* What a call knows of the time is not older than the last answer.        *)
ClockOK(n) ==
    /\ ~HasClock(n) => age[n] = 0
    /\ FirstAttempt(n) /\ payload[n] = "running" /\ n \notin late => age[n] <= quiet[n]

ProgressOK(n) ==
    /\ FirstAttempt(n) /\ phase[n] = "Running" => payload[n] # "none"
    /\ pc[n] = "release" => payload[n] = "succeeded"

NodeOK(n) == Holds(n) /\ IsNotOwner(n) /\ SawItself(n) /\ ClockOK(n) /\ ProgressOK(n)

IInv == \A n \in Nodes : NodeOK(n)


LEMMA Ownership ==
    ASSUME TypeOK, NEW m \in Nodes, NEW n \in Nodes, m # n
    PROVE  OwnerID(m) # OwnerID(n) /\ OwnerID(n) # <<m, 0>>
BY DEF OwnerID, TypeOK

LEMMA NoRowOwner ==
    ASSUME TypeOK, NEW n \in Nodes PROVE NoRow.owner # OwnerID(n) /\ NoRow.owner # <<n, 0>>
BY NobodyAssumption, OwnerIDType DEF NoRow, Owners

LEMMA VisitStep ==
    ASSUME TypeOK, IInv, NEW n \in Nodes, Visit(n), NEW m \in Nodes
    PROVE  NodeOK(m)'
<1> USE DEF IInv, NodeOK, Holds, IsNotOwner, SawItself, ClockOK, ProgressOK, FirstAttempt,
       Relies, HasClock, OwnerID, TypeOK, datacatalog, status, call, history, Go, Record, Phases
<1>1. CASE CheckCatalogCache(n)
  BY <1>1 DEF CheckCatalogCache
<1>2. CASE CheckCatalogCacheAgain(n)
  BY <1>2 DEF CheckCatalogCacheAgain
<1>3. CASE GetOrExtendCatalogReservation(n)
  BY <1>3 DEF GetOrExtendCatalogReservation
<1>4. CASE StartPayload(n)
  BY <1>4 DEF StartPayload
<1>5. CASE PollPayload(n)
  BY <1>5 DEF PollPayload
<1>6. CASE FailPayload(n)
  BY <1>6 DEF FailPayload
<1>7. CASE WriteCatalogCache(n)
  BY <1>7 DEF WriteCatalogCache
<1>8. CASE ReleaseCatalogReservation(n)
  <2>1. CASE row' = row
    BY <1>8, <2>1 DEF ReleaseCatalogReservation
  <2>2. CASE row' # row
    <3>1. row.owner = OwnerID(n) /\ row' = NoRow
      BY <1>8, <2>2 DEF ReleaseCatalogReservation, Released
    <3>2. CASE m = n
      BY <1>8, <3>1, <3>2, NoRowOwner DEF ReleaseCatalogReservation
    <3>3. CASE m # n
      BY <1>8, <3>1, <3>3, NoRowOwner, Ownership DEF ReleaseCatalogReservation
    <3> QED
      BY <3>2, <3>3
  <2> QED
    BY <2>1, <2>2
<1>9. CASE HandleRetryableFailure(n)
  BY <1>9 DEF HandleRetryableFailure
<1> QED
  BY <1>1, <1>2, <1>3, <1>4, <1>5, <1>6, <1>7, <1>8, <1>9 DEF Visit


LEMMA ManagerStep ==
    ASSUME TypeOK, IInv, NEW n \in Nodes, Manager(n), NEW m \in Nodes
    PROVE  NodeOK(m)'
<1> USE DEF IInv, NodeOK, Holds, IsNotOwner, SawItself, ClockOK, ProgressOK, FirstAttempt,
       Relies, HasClock, TypeOK, datacatalog, status, call, history, Go, Record, Phases
<1>1. CASE GetReservation(n)
  BY <1>1, NoRowOwner DEF GetReservation, OwnerID
<1>2. CASE LookAtClock(n)
  <2>1. CASE Decides(n) = "held"
    BY <1>2, <2>1 DEF LookAtClock, Answer, Decides, OwnerID
  <2>2. CASE Decides(n) # "held"
    BY <1>2, <2>2 DEF LookAtClock, Decides, OwnerID
  <2> QED
    BY <2>1, <2>2
<1>3. CASE WriteReservation(n)
  <2>1. row'.owner = OwnerID(n) /\ row'.left = Grace - age[n]
    BY <1>3 DEF WriteReservation
  <2>2. attempt' = attempt /\ payload' = payload
    BY <1>3 DEF WriteReservation, Answer
  <2>3. CASE m = n
    <3>1. pc'[n] \in {"execute", "idle"}
      BY <1>3 DEF WriteReservation, Answer
    <3>2. CASE Answer(n, TRUE)
      BY <1>3, <2>1, <2>2, <2>3, <3>1, <3>2, GraceAssumption DEF Answer, OwnerID, WriteReservation
    <3>3. CASE ~Answer(n, TRUE)
      <4>1. UNCHANGED <<phase, quiet, late>> /\ pc'[n] = "idle" /\ age'[n] = 0
        BY <1>3, <3>3 DEF WriteReservation
      <4>2. Holds(n)'
        <5> SUFFICES ASSUME FirstAttempt(n), payload[n] = "running", n \notin late
                     PROVE  Grace - age[n] >= Grace - quiet[n] /\ quiet[n] < Grace
          BY <2>1, <2>2, <4>1 DEF OwnerID
        <5>1. age[n] <= quiet[n] /\ quiet[n] < Grace /\ age[n] \in Nat /\ quiet[n] \in Nat
          OBVIOUS
        <5> QED
          BY <5>1, GraceAssumption
      <4>3. IsNotOwner(n)' /\ SawItself(n)'
        BY <4>1
      <4>4. ClockOK(n)' /\ ProgressOK(n)'
        BY <2>2, <4>1
      <4> QED
        BY <2>3, <4>2, <4>3, <4>4
    <3> QED
      BY <3>2, <3>3
  <2>4. CASE m # n
    <3>1. pc'[m] = pc[m] /\ seen'[m] = seen[m] /\ age'[m] = age[m] /\ quiet'[m] = quiet[m]
      BY <1>3, <2>4 DEF WriteReservation, Answer
    <3>2. (m \in late' <=> m \in late) /\ phase'[m] = phase[m]
      BY <1>3, <2>4 DEF WriteReservation, Answer
    <3>3. ~(FirstAttempt(m) /\ Relies(m) /\ m \notin late)
      <4> SUFFICES ASSUME FirstAttempt(m), Relies(m), m \notin late PROVE FALSE
        OBVIOUS
      <4>1. row.owner = <<m, 0>> /\ row.left >= Grace - quiet[m] /\ quiet[m] < Grace
        OBVIOUS
      <4>2. row # NoRow /\ row.owner # OwnerID(n)
        BY <4>1, <2>4, NoRowOwner, Ownership
      <4>3. row.left \in Int
        BY <4>2 DEF Rows
      <4>4. row.left > 0
        BY <4>1, <4>3, GraceAssumption
      <4>5. row.left <= 0 - age[n]
        BY <1>3, <4>2 DEF WriteReservation, Writes, CreatesRow, UpdatesRow
      <4> QED
        BY <4>3, <4>4, <4>5
    <3>4. OwnerID(m)' = OwnerID(m) /\ OwnerID(m) # OwnerID(n)
      BY <2>2, <2>4, Ownership DEF OwnerID
    <3> QED
      BY <2>1, <2>2, <3>1, <3>2, <3>3, <3>4
  <2> QED
    BY <2>3, <2>4
<1>4. CASE LoseRace(n)
  BY <1>4, NoRowOwner DEF LoseRace, Writes, CreatesRow, UpdatesRow, OwnerID
<1>5. CASE GetWinner(n)
  BY <1>5 DEF GetWinner, Answer, OwnerID
<1> QED
  BY <1>1, <1>2, <1>3, <1>4, <1>5 DEF Manager


LEMMA AgedOwner ==
    ASSUME NEW r \in Rows
    PROVE  AgedRow(r).owner = r.owner /\ (AgedRow(r) = NoRow <=> r = NoRow)
<1>1. CASE r = NoRow
  BY <1>1 DEF AgedRow
<1>2. CASE r # NoRow
  <2>1. r \in [owner : Owners, left : Int] /\ r.owner # Nobody
    BY <1>2, NobodyAssumption DEF Rows, Owners
  <2> QED
    BY <1>2, <2>1 DEF AgedRow, NoRow
<1> QED
  BY <1>1, <1>2

LEMMA TickStep ==
    ASSUME TypeOK, IInv, Tick, NEW n \in Nodes PROVE NodeOK(n)'
<1> USE DEF IInv, NodeOK, FirstAttempt, Relies, HasClock, TypeOK, status
<1>1. UNCHANGED <<phase, attempt, payload, pc>> /\ row' = AgedRow(row) /\ seen'[n] = AgedRow(seen[n])
  BY DEF Tick
<1>2. row'.owner = row.owner /\ seen'[n].owner = seen[n].owner
      /\ (seen'[n] = NoRow <=> seen[n] = NoRow)
  BY <1>1, AgedOwner
<1>3. Relies(n) /\ n \notin late' => n \notin late /\ quiet'[n] = quiet[n] + 1 /\ quiet'[n] < Grace
  BY GraceAssumption DEF Tick
<1>4. Holds(n)'
  <2> SUFFICES ASSUME FirstAttempt(n), Relies(n), n \notin late'
               PROVE  row'.owner = <<n, 0>> /\ row'.left >= Grace - quiet'[n] /\ quiet'[n] < Grace
    BY <1>1 DEF Holds
  <2>1. row.owner = <<n, 0>> /\ row.left >= Grace - quiet[n]
    BY <1>3 DEF Holds
  <2>2. row # NoRow
    BY <2>1, NoRowOwner
  <2>3. row \in [owner : Owners, left : Int]
    BY <2>2 DEF Rows
  <2>4. row'.left \in {row.left - 1, row.left}
    BY <1>1, <2>2, <2>3 DEF AgedRow, Aged
  <2> QED
    BY <1>2, <1>3, <2>1, <2>3, <2>4, GraceAssumption
<1>5. IsNotOwner(n)' /\ SawItself(n)'
  <2>1. n \notin late' /\ Relies(n) => n \notin late
    BY <1>3
  <2> QED
    BY <1>1, <1>2, <2>1 DEF IsNotOwner, SawItself, OwnerID
<1>6. ClockOK(n)'
  <2>1. age'[n] = IF HasClock(n) THEN age[n] + 1 ELSE age[n]
    BY DEF Tick
  <2> QED
    BY <1>1, <1>3, <2>1 DEF ClockOK
<1>7. ProgressOK(n)'
  BY <1>1 DEF ProgressOK
<1> QED
  BY <1>4, <1>5, <1>6, <1>7

LEMMA InvariantStep == TypeOK /\ IInv /\ [Next]_vars => IInv'
<1> SUFFICES ASSUME TypeOK, IInv, [Next]_vars, NEW m \in Nodes PROVE NodeOK(m)'
  BY DEF IInv
<1>1. ASSUME NEW n \in Nodes, VisitFails(n) \/ PayloadEnds(n) PROVE NodeOK(m)'
  BY <1>1 DEF VisitFails, PayloadEnds, IInv, NodeOK, Holds, IsNotOwner, SawItself, ClockOK,
     ProgressOK, FirstAttempt, Relies, HasClock, OwnerID, TypeOK, datacatalog, status, call,
     history, Go
<1>2. CASE UNCHANGED vars
  BY <1>2 DEF vars, IInv, NodeOK, Holds, IsNotOwner, SawItself, ClockOK, ProgressOK,
     FirstAttempt, Relies, HasClock, OwnerID, datacatalog, status, call, history
<1> QED
  BY <1>1, <1>2, VisitStep, ManagerStep, TickStep DEF Next

(* Two first attempts run at the same time only if one of the nodes let a  *)
(* whole grace period pass without asking for an extension.                *)
THEOREM FirstAttemptsHold == Spec => []FirstAttemptsSerialized
<1>1. Init => IInv
  BY NoRowOwner, GraceAssumption DEF Init, IInv, NodeOK, Holds, IsNotOwner, SawItself, ClockOK,
     ProgressOK, FirstAttempt, Relies, HasClock
<1>2. IInv => FirstAttemptsSerialized
  BY DEF IInv, NodeOK, Holds, FirstAttempt, Relies, FirstAttemptsSerialized
<1> QED
  BY <1>1, <1>2, TypeCorrect, InvariantStep, PTL DEF Spec

============================================================================
