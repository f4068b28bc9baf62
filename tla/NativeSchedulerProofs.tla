----------------------- MODULE NativeSchedulerProofs -----------------------
(***************************************************************************)
(* NativeScheduler for any number of schedules, any period, and any        *)
(* changes, crashes and refusals.                                          *)
(***************************************************************************)
EXTENDS NativeScheduler, FiniteSetLemmas

---------------------------------------------------------------------------
(* The inductive invariant.                                                *)

(* What the process has read is not newer than the clock, and a process    *)
(* that is down has neither jobs nor fires.                                *)
ProcOK ==
    /\ proc.phase = "down" => fires = {} /\ \A s \in Schedules : ~jobs[s].isJob
    /\ proc.times # {} => proc.phase = "catchup" /\ proc.at \in Schedules
    /\ proc.readAt =< now /\ proc.until =< now
    /\ \A t \in proc.times : t > rows[proc.at].updatedAt \/ rows[proc.at].updatedAt >= proc.readAt

(* A last execution time, saved or not, is one of a settled execution, or  *)
(* of none since the schedule was last changed.                            *)
LastOK(s, last) == last =< now /\ (last > rows[s].updatedAt => Settled(s, last))

RowOK(s) == rows[s].updatedAt =< now /\ LastOK(s, snapshot[s])

JobOK(s) ==
    jobs[s].isJob =>
        /\ LastOK(s, jobs[s].last)
        /\ jobs[s].catchupFrom # nil =>
               jobs[s].catchupFrom >= rows[s].updatedAt \/ rows[s].updatedAt >= proc.readAt
        /\ jobs[s].next \in now .. now + Period
        /\ IsCron(s) => jobs[s].next % Period = 0

FireOK(f) ==
    /\ f.time =< now
    /\ f.isOfJob => jobs[f.schedule].isJob
    /\ f.step = "updates" => Settled(f.schedule, f.time)

(* Catch-up has still to come to the time t.                               *)
Pending(s, t) ==
    \/ /\ jobs[s].catchupFrom # nil /\ jobs[s].catchupFrom < t
       /\ proc.phase = "booted" \/ (proc.phase = "catchup" /\ s \in proc.left /\ t =< proc.until)
    \/ proc.phase = "catchup" /\ proc.at = s /\ t \in proc.times

GapOK(s) ==
    jobs[s].isJob /\ IsCron(s) =>
        \A t \in Owed(s, now) : Settled(s, t) \/ InFlight(s, t) \/ jobs[s].next = t \/ Pending(s, t)

SavedOK(s) == IsCron(s) => \A t \in Owed(s, snapshot[s]) : Settled(s, t) \/ InFlight(s, t)

SchedulesOK == \A s \in Schedules : RowOK(s) /\ JobOK(s) /\ GapOK(s) /\ SavedOK(s)

IInv == TypeOK /\ ProcOK /\ SchedulesOK /\ \A f \in fires : FireOK(f)

---------------------------------------------------------------------------
(* Multiples of the period.                                                *)

LEMMA Division ==
    ASSUME NEW P \in Nat \ {0}, NEW a \in Int
    PROVE  a \div P \in Int /\ a % P \in 0..P-1 /\ a = P * (a \div P) + (a % P)
OBVIOUS

LEMMA Multiple ==
    ASSUME NEW P \in Nat \ {0}, NEW a \in Int, a % P = 0
    PROVE  \E k \in Int : a = P * k
<1>1. a \div P \in Int /\ a = P * (a \div P) + (a % P)
  BY Division
<1>2. a = P * (a \div P)
  BY <1>1
<1> QED
  BY <1>1, <1>2

LEMMA NoRemainder ==
    ASSUME NEW P \in Nat \ {0}, NEW q \in Int, NEW k \in Int, NEW r \in 0..P-1, P * k = P * q + r
    PROVE  r = 0
<1>1. P * (k - q) = r
  OBVIOUS
<1>2. CASE k - q >= 1
  <2>1. P * (k - q) >= P * 1
    BY <1>2
  <2> QED
    BY <1>1, <2>1
<1>3. CASE k - q =< -1
  <2>1. P * (k - q) =< P * (-1)
    BY <1>3
  <2> QED
    BY <1>1, <2>1
<1>4. CASE k = q
  BY <1>1, <1>4
<1> QED
  BY <1>2, <1>3, <1>4

LEMMA MultipleMod ==
    ASSUME NEW P \in Nat \ {0}, NEW k \in Int
    PROVE  (P * k) % P = 0
<1> DEFINE a == P * k
<1>1. a \in Int
  OBVIOUS
<1>2. a = P * (a \div P) + (a % P) /\ a \div P \in Int /\ a % P \in 0..P-1
  <2> HIDE DEF a
  <2> QED
    BY <1>1, Division
<1> QED
  BY <1>2, NoRemainder

(* Two scheduled times are at least a period apart.                        *)
LEMMA MultiplesApart ==
    ASSUME NEW P \in Nat \ {0}, NEW a \in Int, NEW b \in Int, a % P = 0, b % P = 0, a < b
    PROVE  a + P =< b
<1>1. PICK k \in Int : a = P * k
  BY Multiple
<1>2. PICK q \in Int : b = P * q
  BY Multiple
<1>3. q - k >= 1
  <2> SUFFICES ASSUME q =< k PROVE FALSE
    BY <1>1, <1>2
  <2>1. P * q =< P * k
    OBVIOUS
  <2> QED
    BY <1>1, <1>2, <2>1
<1>4. P * (q - k) >= P * 1
  BY <1>3
<1>5. P * (q - k) = b - a
  BY <1>1, <1>2
<1> QED
  BY <1>4, <1>5

LEMMA MultipleAfter ==
    ASSUME NEW P \in Nat \ {0}, NEW a \in Int, a % P = 0
    PROVE  (a + P) % P = 0
<1>1. PICK k \in Int : a = P * k
  BY Multiple
<1>2. a + P = P * (k + 1) /\ k + 1 \in Int
  BY <1>1
<1>3. (P * (k + 1)) % P = 0
  BY <1>2, MultipleMod
<1> QED
  BY <1>2, <1>3

(* There is a scheduled time within a period.                              *)
LEMMA MultipleExists ==
    ASSUME NEW P \in Nat \ {0}, NEW a \in Int, NEW from \in Int
    PROVE  \E t \in a + 1 .. a + P : (t - from) % P = 0
<1> DEFINE d == a - from
           r == d % P
           q == d \div P
           t == a + P - r
<1>1. d \in Int /\ d = a - from
  OBVIOUS
<1> HIDE DEF d
<1>2. q \in Int /\ r \in 0..P-1 /\ d = P * q + r
  BY <1>1, Division
<1> HIDE DEF r, q
<1>3. t - from = P * (q + 1) /\ q + 1 \in Int
  BY <1>1, <1>2
<1>4. t \in a + 1 .. a + P
  BY <1>2
<1> HIDE DEF t
<1>5. (P * (q + 1)) % P = 0
  BY <1>3, MultipleMod
<1>6. (t - from) % P = 0
  BY <1>3, <1>5
<1> QED
  BY <1>4, <1>6

(* The library's next time.                                                *)
LEMMA NextTimeFacts ==
    ASSUME NEW s, NEW from \in Nat, NEW after \in Nat
    PROVE  /\ NextTime(s, from, after) \in after + 1 .. after + Period
           /\ IsCron(s) => NextTime(s, from, after) % Period = 0
<1>1. Period \in Nat \ {0} /\ after \in Int /\ from \in Int /\ 0 \in Int
  BY SchedulerAssumption
<1>2. \E t \in after + 1 .. after + Period : IsScheduled(s, from, t)
  <2>1. CASE rows[s].isRate
    <3>1. \E t \in after + 1 .. after + Period : (t - from) % Period = 0
      BY <1>1, MultipleExists, Zenon
    <3> QED
      BY <2>1, <3>1 DEF IsScheduled
  <2>2. CASE ~rows[s].isRate
    <3>1. \E t \in after + 1 .. after + Period : (t - 0) % Period = 0
      BY <1>1, MultipleExists, Zenon
    <3>2. \A t \in after + 1 .. after + Period : t - 0 = t
      BY <1>1
    <3> QED
      BY <2>2, <3>1, <3>2 DEF IsScheduled
  <2> QED
    BY <2>1, <2>2
<1>3. NextTime(s, from, after) \in after + 1 .. after + Period /\ IsScheduled(s, from, NextTime(s, from, after))
  BY <1>2 DEF NextTime
<1> QED
  BY <1>3 DEF IsCron, IsScheduled

---------------------------------------------------------------------------
(* What the types give.                                                    *)

LEMMA TypeFacts ==
    ASSUME TypeOK
    PROVE  /\ now \in Nat \ {0} /\ now =< MaxTime /\ MaxTime \in Nat \ {0} /\ Period \in Nat \ {0}
           /\ \A s \in Schedules : /\ rows[s].updatedAt \in Nat \ {0} /\ snapshot[s] \in Nat
                                   /\ rows[s].active \in BOOLEAN /\ rows[s].isRate \in BOOLEAN
           /\ \A s \in Schedules : jobs[s].isJob \in BOOLEAN /\ (jobs[s].isJob => jobs[s] \in Job)
           /\ proc.readAt \in Nat /\ proc.until \in Nat /\ proc.times \subseteq Nat \ {0}
           /\ \A f \in fires : f \in Fires /\ f.schedule \in Schedules /\ f.time \in Nat \ {0}
<1>1. now \in 1..MaxTime /\ MaxTime \in Nat \ {0} /\ Period \in Nat \ {0}
  BY SchedulerAssumption DEF TypeOK, Times
<1>2. \A s \in Schedules : /\ rows[s].updatedAt \in Nat \ {0} /\ snapshot[s] \in Nat
                           /\ rows[s].active \in BOOLEAN /\ rows[s].isRate \in BOOLEAN
  <2>1. rows \in [Schedules -> Rows] /\ snapshot \in [Schedules -> {nil} \cup Times]
    BY DEF TypeOK
  <2>2. \A r \in Rows : r.updatedAt \in Nat \ {0} /\ r.active \in BOOLEAN /\ r.isRate \in BOOLEAN
    BY <1>1 DEF Rows, Times
  <2> QED
    BY <1>1, <2>1, <2>2 DEF Times, nil
<1>3. \A s \in Schedules : jobs[s].isJob \in BOOLEAN /\ (jobs[s].isJob => jobs[s] \in Job)
  <2>1. jobs \in [Schedules -> Job \cup {NoJob}]
    BY DEF TypeOK
  <2>2. NoJob.isJob = FALSE /\ \A j \in Job : j.isJob = TRUE
    BY DEF NoJob, Job
  <2> QED
    BY <2>1, <2>2
<1>4. proc.readAt \in Nat /\ proc.until \in Nat /\ proc.times \subseteq Nat \ {0}
  <2>1. proc \in Procs
    BY DEF TypeOK
  <2> QED
    BY <1>1, <2>1 DEF Procs, Times, nil
<1>5. \A f \in fires : f \in Fires /\ f.schedule \in Schedules /\ f.time \in Nat \ {0}
  <2>1. \A f \in Fires : f.schedule \in Schedules /\ f.time \in Nat \ {0}
    BY <1>1 DEF Fires
  <2>2. fires \subseteq Fires
    BY DEF TypeOK
  <2> QED
    BY <2>1, <2>2
<1>6. now \in Nat \ {0} /\ now =< MaxTime
  BY <1>1
<1> QED
  BY <1>1, <1>2, <1>3, <1>4, <1>5, <1>6

LEMMA JobFacts ==
    ASSUME NEW j \in Job
    PROVE  j.isJob = TRUE /\ j.last \in Nat /\ j.catchupFrom \in Nat /\ j.next \in Nat \ {0}
<1>1. MaxTime \in Nat \ {0} /\ Period \in Nat \ {0}
  BY SchedulerAssumption
<1>2. j.isJob = TRUE /\ j.last \in {nil} \cup Times /\ j.catchupFrom \in {nil} \cup Times
  BY DEF Job
<1>3. j.next \in 1..(MaxTime + Period)
  BY DEF Job
<1> QED
  BY <1>1, <1>2, <1>3 DEF Times, nil

LEMMA OwedFacts ==
    ASSUME NEW s, IsCron(s), rows[s].updatedAt \in Nat, NEW to \in Nat
    PROVE  \A t : t \in Owed(s, to) <=> t \in Nat /\ t > rows[s].updatedAt /\ t =< to /\ t % Period = 0
BY DEF Owed, CatchUpTimes, IsScheduled, IsCron

(* A schedule whose row has not changed owes the same.                     *)
LEMMA OwedStays ==
    ASSUME NEW s, rows'[s] = rows[s], NEW to
    PROVE  Owed(s, to)' = Owed(s, to) /\ IsCron(s)' = IsCron(s)
BY DEF Owed, CatchUpTimes, IsScheduled, IsCron

---------------------------------------------------------------------------
(* Most steps change a few things and leave the parts of the invariant     *)
(* that speak of others.                                                   *)

Covered(s, t) == Settled(s, t) \/ InFlight(s, t)

(* What is settled stays so; what is being fired is fired on, or settled.  *)
Progress ==
    \A s, t : /\ Settled(s, t) => Settled(s, t)'
              /\ Covered(s, t) => Covered(s, t)'

LEMMA RowKept ==
    ASSUME Progress, NEW s, RowOK(s), rows'[s] = rows[s], snapshot'[s] = snapshot[s],
           now \in Nat, now' \in Nat, now =< now', rows[s].updatedAt \in Nat, snapshot[s] \in Nat
    PROVE  RowOK(s)'
BY DEF Progress, RowOK, LastOK

LEMMA SavedKept ==
    ASSUME Progress, NEW s, SavedOK(s), rows'[s] = rows[s], snapshot'[s] = snapshot[s]
    PROVE  SavedOK(s)'
<1>1. Owed(s, snapshot[s])' = Owed(s, snapshot[s]) /\ IsCron(s)' = IsCron(s)
  BY DEF Owed, CatchUpTimes, IsScheduled, IsCron
<1> QED
  BY <1>1 DEF SavedOK, Progress, Covered

LEMMA JobKept ==
    ASSUME Progress, NEW s, JobOK(s), rows'[s] = rows[s], jobs'[s] = jobs[s], now' = now, proc'.readAt = proc.readAt
    PROVE  JobOK(s)'
BY DEF Progress, JobOK, LastOK, IsCron

LEMMA GapKept ==
    ASSUME Progress, NEW s, GapOK(s), rows'[s] = rows[s], now' = now,
           jobs'[s].isJob => jobs[s].isJob,
           \A t \in Owed(s, now) : jobs[s].next = t => jobs'[s].next = t \/ Covered(s, t)',
           jobs[s].isJob /\ IsCron(s) => \A t \in Owed(s, now) : Pending(s, t) => Pending(s, t)' \/ Covered(s, t)'
    PROVE  GapOK(s)'
<1>1. Owed(s, now)' = Owed(s, now) /\ IsCron(s)' = IsCron(s)
  BY DEF Owed, CatchUpTimes, IsScheduled, IsCron
<1> QED
  BY <1>1 DEF GapOK, Progress, Covered

(* A step of catch-up, or of a fire, that leaves the jobs.                 *)
LEMMA SchedulesKept ==
    ASSUME IInv, Progress, UNCHANGED <<now, rows, snapshot, jobs>>, proc'.readAt = proc.readAt,
           \A s \in Schedules : \A t : jobs[s].isJob /\ IsCron(s) /\ t \in Owed(s, now) /\ Pending(s, t) =>
                                          Pending(s, t)' \/ Covered(s, t)'
    PROVE  SchedulesOK'
<1>1. ASSUME NEW s \in Schedules PROVE RowOK(s)' /\ JobOK(s)' /\ GapOK(s)' /\ SavedOK(s)'
  <2>1. RowOK(s) /\ JobOK(s) /\ GapOK(s) /\ SavedOK(s)
    BY DEF IInv, SchedulesOK
  <2>2. rows'[s] = rows[s] /\ snapshot'[s] = snapshot[s] /\ jobs'[s] = jobs[s] /\ now' = now
    OBVIOUS
  <2>3. RowOK(s)'
    <3>1. now \in Nat /\ now' \in Nat /\ now =< now' /\ rows[s].updatedAt \in Nat /\ snapshot[s] \in Nat
      BY TypeFacts DEF IInv
    <3> QED
      BY <2>1, <2>2, <3>1, RowKept
  <2>4. JobOK(s)'
    BY <2>1, <2>2, JobKept
  <2>5. GapOK(s)'
    BY <2>1, <2>2, GapKept
  <2>6. SavedOK(s)'
    BY <2>1, <2>2, SavedKept
  <2> QED
    BY <2>3, <2>4, <2>5, <2>6
<1> QED
  BY <1>1 DEF SchedulesOK

---------------------------------------------------------------------------
(* Schedule management.                                                    *)

LEMMA ChangeStep ==
    ASSUME IInv, NEW c \in Schedules, NEW active \in BOOLEAN, Change(c, active)
    PROVE  IInv'
<1>1. /\ changes > 0 /\ changes' = changes - 1
      /\ rows' = [rows EXCEPT ![c].active = active, ![c].updatedAt = now]
      /\ UNCHANGED <<now, snapshot, proc, jobs, fires, created, refused, passedOver, faults>>
  BY DEF Change
<1>2. TypeOK /\ ProcOK /\ SchedulesOK /\ \A f \in fires : FireOK(f)
  BY DEF IInv
<1>3. /\ now \in Nat \ {0} /\ Period \in Nat \ {0}
      /\ \A s \in Schedules : rows[s].updatedAt \in Nat \ {0} /\ snapshot[s] \in Nat
      /\ proc.readAt \in Nat /\ proc.until \in Nat
  BY <1>2, TypeFacts
<1>4. /\ rows'[c].updatedAt = now /\ rows'[c].isRate = rows[c].isRate /\ rows' \in [Schedules -> Rows]
      /\ \A s \in Schedules : s # c => rows'[s] = rows[s]
  <2>1. rows \in [Schedules -> Rows] /\ now \in Times
    BY <1>2 DEF TypeOK
  <2>2. [rows[c] EXCEPT !.active = active, !.updatedAt = now] \in Rows
    BY <2>1 DEF Rows
  <2>3. /\ [rows[c] EXCEPT !.active = active, !.updatedAt = now].updatedAt = now
        /\ [rows[c] EXCEPT !.active = active, !.updatedAt = now].isRate = rows[c].isRate
    BY <2>1 DEF Rows
  <2>4. rows' = [rows EXCEPT ![c] = [rows[c] EXCEPT !.active = active, !.updatedAt = now]]
    BY <1>1, <2>1
  <2> QED
    BY <2>1, <2>2, <2>3, <2>4
<1>5. TypeOK'
  BY <1>1, <1>2, <1>4, SchedulerAssumption DEF TypeOK, Times
<1>6. Progress
  BY <1>1 DEF Progress, Covered, Settled, InFlight
<1>7. ProcOK'
  <2>1. \A t \in proc.times : t > rows'[proc.at].updatedAt \/ rows'[proc.at].updatedAt >= proc.readAt
    <3> SUFFICES ASSUME NEW t \in proc.times
                 PROVE  t > rows'[proc.at].updatedAt \/ rows'[proc.at].updatedAt >= proc.readAt
      OBVIOUS
    <3>1. proc.at \in Schedules
      BY <1>2 DEF ProcOK
    <3>2. CASE proc.at = c
      <4>1. rows'[proc.at].updatedAt = now /\ proc.readAt =< now
        BY <1>2, <1>4, <3>2 DEF ProcOK
      <4> QED
        BY <1>3, <4>1
    <3>3. CASE proc.at # c
      BY <1>2, <1>4, <3>1, <3>3 DEF ProcOK
    <3> QED
      BY <3>2, <3>3
  <2> QED
    BY <1>1, <1>2, <2>1 DEF ProcOK
<1>8. ASSUME NEW s \in Schedules PROVE RowOK(s)' /\ JobOK(s)' /\ GapOK(s)' /\ SavedOK(s)'
  <2>1. RowOK(s) /\ JobOK(s) /\ GapOK(s) /\ SavedOK(s)
    BY <1>2 DEF SchedulesOK
  <2>2. CASE s # c
    <3>1. rows'[s] = rows[s]
      BY <1>4, <2>2
    <3>2. RowOK(s)'
      <4>1. /\ snapshot'[s] = snapshot[s] /\ now \in Nat /\ now' \in Nat /\ now =< now'
            /\ rows[s].updatedAt \in Nat /\ snapshot[s] \in Nat
        BY <1>1, <1>3
      <4> QED
        BY <1>6, <2>1, <3>1, <4>1, RowKept
    <3>3. JobOK(s)'
      BY <1>1, <1>6, <2>1, <3>1, JobKept
    <3>4. GapOK(s)'
      <4>1. \A t : Pending(s, t) => Pending(s, t)'
        BY <1>1 DEF Pending
      <4> QED
        BY <1>1, <1>6, <2>1, <3>1, <4>1, GapKept
    <3>5. SavedOK(s)'
      BY <1>1, <1>6, <2>1, <3>1, SavedKept
    <3> QED
      BY <3>2, <3>3, <3>4, <3>5
  <2>3. CASE s = c
    <3>1. RowOK(s)'
      BY <1>1, <1>3, <1>4, <2>1, <2>3 DEF RowOK, LastOK
    <3>2. JobOK(s)'
      <4> SUFFICES ASSUME jobs[s].isJob PROVE JobOK(s)'
        BY <1>1 DEF JobOK
      <4>1. jobs[s].last \in Nat /\ jobs[s].catchupFrom \in Nat
        BY <1>2, TypeFacts, JobFacts
      <4>2. LastOK(s, jobs[s].last)'
        BY <1>1, <1>3, <1>4, <2>1, <2>3, <4>1 DEF JobOK, LastOK
      <4>3. rows'[s].updatedAt >= proc'.readAt
        BY <1>1, <1>2, <1>3, <1>4, <2>3 DEF ProcOK
      <4> QED
        BY <1>1, <1>4, <2>1, <2>3, <4>2, <4>3 DEF JobOK, IsCron
    <3>3. Owed(s, now)' = {} /\ Owed(s, snapshot[s])' = {}
      <4>1. snapshot[s] =< now /\ snapshot[s] \in Nat /\ now \in Nat
        BY <1>3, <2>1 DEF RowOK, LastOK
      <4> QED
        BY <1>1, <1>3, <1>4, <2>3, <4>1 DEF Owed, CatchUpTimes
    <3>4. GapOK(s)' /\ SavedOK(s)'
      BY <3>3 DEF GapOK, SavedOK
    <3> QED
      BY <3>1, <3>2, <3>4
  <2> QED
    BY <2>2, <2>3
<1>9. \A f \in fires' : FireOK(f)'
  BY <1>1, <1>2 DEF FireOK, Settled
<1> QED
  BY <1>5, <1>7, <1>8, <1>9 DEF IInv, SchedulesOK

---------------------------------------------------------------------------
(* Catch-up.                                                               *)

LEMMA ProcFields ==
    ASSUME NEW p \in Procs
    PROVE  /\ p.phase \in {"down", "booted", "catchup", "running"} /\ p.readAt \in {nil} \cup Times
           /\ p.until \in {nil} \cup Times /\ p.left \in SUBSET Schedules
           /\ p.at \in Schedules \cup {NoSchedule} /\ p.times \in SUBSET Times
BY DEF Procs

LEMMA BeginCatchUpStep ==
    ASSUME IInv, BeginCatchUp
    PROVE  IInv'
<1> DEFINE left == {s \in Schedules : jobs[s].isJob}
<1>1. /\ proc.phase = "booted"
      /\ proc' = [proc EXCEPT !.phase = "catchup", !.until = now, !.left = left]
      /\ UNCHANGED <<now, rows, snapshot, jobs, fires, created, refused, passedOver, changes, faults>>
  BY DEF BeginCatchUp
<1>2. TypeOK /\ ProcOK /\ SchedulesOK /\ \A f \in fires : FireOK(f)
  BY DEF IInv
<1>3. now \in Nat \ {0} /\ \A s \in Schedules : rows[s].updatedAt \in Nat \ {0}
  BY <1>2, TypeFacts
<1>4. left \in SUBSET Schedules /\ \A s \in Schedules : jobs[s].isJob => s \in left
  OBVIOUS
<1> HIDE DEF left
<1>5. /\ proc' \in Procs /\ proc'.phase = "catchup" /\ proc'.until = now /\ proc'.left = left
      /\ proc'.readAt = proc.readAt /\ proc'.at = proc.at /\ proc'.times = proc.times
  <2>1. proc \in Procs /\ now \in Times
    BY <1>2 DEF TypeOK
  <2> QED
    BY <1>1, <1>4, <2>1 DEF Procs
<1>6. proc.times = {}
  BY <1>1, <1>2 DEF ProcOK
<1>7. TypeOK'
  BY <1>1, <1>2, <1>5, <1>6 DEF TypeOK
<1>8. Progress
  BY <1>1 DEF Progress, Covered, Settled, InFlight
<1>9. ProcOK'
  BY <1>1, <1>2, <1>3, <1>5, <1>6 DEF ProcOK
<1>10. SchedulesOK'
  <2>1. ASSUME NEW s \in Schedules, NEW t, jobs[s].isJob, t \in Owed(s, now), Pending(s, t)
        PROVE  Pending(s, t)'
    <3>1. jobs[s].catchupFrom # nil /\ jobs[s].catchupFrom < t
      BY <1>1, <2>1 DEF Pending
    <3>2. t =< now
      BY <1>3, <2>1 DEF Owed, CatchUpTimes
    <3> QED
      BY <1>1, <1>4, <1>5, <2>1, <3>1, <3>2 DEF Pending
  <2> QED
    BY <1>1, <1>5, <1>8, <2>1, SchedulesKept
<1>11. \A f \in fires' : FireOK(f)'
  BY <1>1, <1>2 DEF FireOK, Settled
<1> QED
  BY <1>7, <1>9, <1>10, <1>11 DEF IInv

LEMMA EndCatchUpStep ==
    ASSUME IInv, EndCatchUp
    PROVE  IInv'
<1>1. /\ proc.phase = "catchup" /\ proc.left = {} /\ proc.at = NoSchedule
      /\ proc' = [proc EXCEPT !.phase = "running"]
      /\ UNCHANGED <<now, rows, snapshot, jobs, fires, created, refused, passedOver, changes, faults>>
  BY DEF EndCatchUp
<1>2. TypeOK /\ ProcOK /\ SchedulesOK /\ \A f \in fires : FireOK(f)
  BY DEF IInv
<1>3. /\ proc' \in Procs /\ proc'.phase = "running" /\ proc'.until = proc.until
      /\ proc'.readAt = proc.readAt /\ proc'.at = proc.at /\ proc'.times = proc.times
  <2>1. proc \in Procs
    BY <1>2 DEF TypeOK
  <2> QED
    BY <1>1, <2>1 DEF Procs
<1>4. proc.times = {}
  BY <1>1, <1>2, SchedulerAssumption DEF ProcOK
<1>5. TypeOK'
  BY <1>1, <1>2, <1>3, <1>4 DEF TypeOK
<1>6. Progress
  BY <1>1 DEF Progress, Covered, Settled, InFlight
<1>7. ProcOK'
  BY <1>1, <1>2, <1>3, <1>4 DEF ProcOK
<1>8. SchedulesOK'
  <2>1. \A s, t : ~Pending(s, t)
    BY <1>1, <1>4 DEF Pending
  <2> QED
    BY <1>1, <1>3, <1>6, <2>1, SchedulesKept
<1>9. \A f \in fires' : FireOK(f)'
  BY <1>1, <1>2 DEF FireOK, Settled
<1> QED
  BY <1>5, <1>7, <1>8, <1>9 DEF IInv

LEMMA CatchUpScheduleStep ==
    ASSUME IInv, NEW c \in Schedules, CatchUpSchedule(c)
    PROVE  IInv'
<1> DEFINE times == IF jobs[c].isJob /\ jobs[c].catchupFrom # nil
                    THEN CatchUpTimes(c, jobs[c].catchupFrom, proc.until) ELSE {}
           at == IF times = {} THEN proc.at ELSE c
<1>1. /\ proc.phase = "catchup" /\ proc.at = NoSchedule /\ c \in proc.left
      /\ proc' = [proc EXCEPT !.left = proc.left \ {c}, !.at = at, !.times = times]
      /\ UNCHANGED <<now, rows, snapshot, jobs, fires, created, refused, passedOver, changes, faults>>
  BY DEF CatchUpSchedule
<1>2. TypeOK /\ ProcOK /\ SchedulesOK /\ \A f \in fires : FireOK(f)
  BY DEF IInv
<1>3. /\ now \in Nat \ {0} /\ now =< MaxTime /\ MaxTime \in Nat /\ proc.until \in Nat /\ proc.until =< now
      /\ \A s \in Schedules : rows[s].updatedAt \in Nat \ {0}
      /\ proc.readAt \in Nat
  BY <1>2, TypeFacts DEF ProcOK
<1>4. proc \in Procs
  BY <1>2 DEF TypeOK
<1>5. ASSUME NEW t \in times
      PROVE  /\ t \in Times /\ t =< proc.until
             /\ t > rows[c].updatedAt \/ rows[c].updatedAt >= proc.readAt
  <2>1. /\ jobs[c].isJob /\ jobs[c].catchupFrom # nil
        /\ t \in CatchUpTimes(c, jobs[c].catchupFrom, proc.until)
    BY <1>5
  <2>2. jobs[c].catchupFrom \in Nat
    BY <1>2, <2>1, TypeFacts, JobFacts
  <2>3. t \in jobs[c].catchupFrom + 1 .. proc.until
    BY <2>1 DEF CatchUpTimes
  <2>4. t \in Times /\ t =< proc.until
    BY <1>3, <2>2, <2>3 DEF Times
  <2>5. jobs[c].catchupFrom >= rows[c].updatedAt \/ rows[c].updatedAt >= proc.readAt
    BY <1>2, <2>1 DEF SchedulesOK, JobOK
  <2> QED
    BY <1>3, <2>2, <2>3, <2>4, <2>5
<1>6. ASSUME NEW t, jobs[c].isJob, IsCron(c), t \in Owed(c, now), jobs[c].catchupFrom # nil,
             jobs[c].catchupFrom < t, t =< proc.until
      PROVE  t \in times
  <2>1. t \in Nat /\ t % Period = 0
    BY <1>3, <1>6, OwedFacts
  <2>2. jobs[c].catchupFrom \in Nat
    BY <1>2, <1>6, TypeFacts, JobFacts
  <2> QED
    BY <1>3, <1>6, <2>1, <2>2 DEF CatchUpTimes, IsScheduled, IsCron
<1>7. times \in SUBSET Times /\ at \in Schedules \cup {NoSchedule} /\ (times # {} => at = c)
  BY <1>1, <1>5
<1> HIDE DEF times, at
<1>8. /\ proc' \in Procs /\ proc'.phase = "catchup" /\ proc'.until = proc.until /\ proc'.left = proc.left \ {c}
      /\ proc'.readAt = proc.readAt /\ proc'.at = at /\ proc'.times = times
  BY <1>1, <1>4, <1>7 DEF Procs
<1>9. TypeOK'
  BY <1>1, <1>2, <1>5, <1>8 DEF TypeOK
<1>10. Progress
  BY <1>1 DEF Progress, Covered, Settled, InFlight
<1>11. ProcOK'
  <2>1. \A t \in times : t > rows[at].updatedAt \/ rows[at].updatedAt >= proc.readAt
    BY <1>5, <1>7
  <2> QED
    BY <1>1, <1>2, <1>7, <1>8, <2>1 DEF ProcOK
<1>12. SchedulesOK'
  <2>1. ASSUME NEW s \in Schedules, NEW t, jobs[s].isJob, IsCron(s), t \in Owed(s, now), Pending(s, t)
        PROVE  Pending(s, t)'
    <3>1. /\ jobs[s].catchupFrom # nil /\ jobs[s].catchupFrom < t
          /\ s \in proc.left /\ t =< proc.until
      BY <1>1, <2>1, SchedulerAssumption DEF Pending
    <3>2. CASE s = c
      <4>1. t \in times
        BY <1>6, <2>1, <3>1, <3>2
      <4> QED
        BY <1>7, <1>8, <3>2, <4>1 DEF Pending
    <3>3. CASE s # c
      BY <1>1, <1>8, <3>1, <3>3 DEF Pending
    <3> QED
      BY <3>2, <3>3
  <2> QED
    BY <1>1, <1>8, <1>10, <2>1, SchedulesKept
<1>13. \A f \in fires' : FireOK(f)'
  BY <1>1, <1>2 DEF FireOK, Settled
<1> QED
  BY <1>9, <1>11, <1>12, <1>13 DEF IInv

(* An execution of catch-up is created, or refused.                        *)
LEMMA CaughtUpStep ==
    ASSUME IInv, proc.times # {}, CaughtUp(Min(proc.times)),
           UNCHANGED <<now, rows, snapshot, jobs, fires, passedOver, changes>>,
           created \subseteq created', refused \subseteq refused',
           <<proc.at, Min(proc.times)>> \in created' \cup refused',
           created' \subseteq created \cup {<<proc.at, Min(proc.times)>>},
           refused' \subseteq refused \cup {<<proc.at, Min(proc.times)>>},
           faults' \in 0..MaxFaults
    PROVE  IInv'
<1> DEFINE t == Min(proc.times)
           at == IF proc.times = {t} THEN NoSchedule ELSE proc.at
<1>1. proc' = [proc EXCEPT !.times = proc.times \ {t}, !.at = at]
  BY DEF CaughtUp
<1>2. TypeOK /\ ProcOK /\ SchedulesOK /\ \A f \in fires : FireOK(f)
  BY DEF IInv
<1>3. proc \in Procs /\ proc.times \in SUBSET Times /\ proc.phase = "catchup" /\ proc.at \in Schedules
  BY <1>2 DEF TypeOK, ProcOK, Procs
<1>4. t \in proc.times
  <2>1. proc.times \in SUBSET Nat
    BY <1>2, TypeFacts
  <2>2. \E m \in proc.times : \A x \in proc.times : m =< x
    BY <2>1, NatMin
  <2> QED
    BY <2>2 DEF Min
<1>5. at \in Schedules \cup {NoSchedule} /\ (proc.times # {t} => at = proc.at)
  BY <1>3
<1> HIDE DEF t, at
<1>6. /\ proc' \in Procs /\ proc'.phase = proc.phase /\ proc'.until = proc.until /\ proc'.left = proc.left
      /\ proc'.readAt = proc.readAt /\ proc'.at = at /\ proc'.times = proc.times \ {t}
  BY <1>1, <1>3, <1>5 DEF Procs
<1>7. proc'.times # {} => at = proc.at
  BY <1>4, <1>5, <1>6
<1>8. /\ created \subseteq created' /\ refused \subseteq refused' /\ <<proc.at, t>> \in created' \cup refused'
      /\ created' \subseteq created \cup {<<proc.at, t>>} /\ refused' \subseteq refused \cup {<<proc.at, t>>}
  BY DEF t
<1>9. TypeOK'
  <2>1. <<proc.at, t>> \in Schedules \X Times
    BY <1>3, <1>4
  <2>2. created' \subseteq Schedules \X Times /\ refused' \subseteq Schedules \X Times
    BY <1>2, <1>8, <2>1 DEF TypeOK
  <2>3. \A x \in proc'.times : x =< proc'.until
    BY <1>2, <1>6 DEF TypeOK
  <2> QED
    BY <1>2, <1>6, <2>2, <2>3 DEF TypeOK
<1>10. Progress
  BY <1>8 DEF Progress, Covered, Settled, InFlight
<1>11. ProcOK'
  BY <1>2, <1>6, <1>7 DEF ProcOK
<1>12. SchedulesOK'
  <2>1. ASSUME NEW s \in Schedules, NEW x, jobs[s].isJob, IsCron(s), x \in Owed(s, now), Pending(s, x)
        PROVE  Pending(s, x)' \/ Covered(s, x)'
    <3>1. CASE proc.at = s /\ x = t
      BY <1>8, <3>1 DEF Covered, Settled
    <3>2. CASE proc.at = s /\ x \in proc.times /\ x # t
      BY <1>3, <1>6, <1>7, <3>2 DEF Pending
    <3>3. CASE ~(proc.at = s /\ x \in proc.times)
      BY <1>3, <1>6, <2>1, <3>3 DEF Pending
    <3> QED
      BY <3>1, <3>2, <3>3
  <2> QED
    BY <1>6, <1>10, <2>1, SchedulesKept
<1>13. \A f \in fires' : FireOK(f)'
  BY <1>2, <1>10 DEF FireOK, Progress
<1> QED
  BY <1>9, <1>11, <1>12, <1>13 DEF IInv

LEMMA CatchUpStep ==
    ASSUME IInv, CatchUp
    PROVE  IInv'
<1> DEFINE t == Min(proc.times)
<1>1. /\ proc.times # {} /\ created' = created \cup {<<proc.at, t>>} /\ CaughtUp(t)
      /\ UNCHANGED <<now, rows, snapshot, jobs, fires, refused, passedOver, changes, faults>>
  BY DEF CatchUp
<1>2. faults' \in 0..MaxFaults
  BY <1>1 DEF IInv, TypeOK
<1> QED
  BY <1>1, <1>2, CaughtUpStep

LEMMA CatchUpSkipsStep ==
    ASSUME IInv, CatchUpSkips
    PROVE  IInv'
<1> DEFINE t == Min(proc.times)
<1>1. /\ proc.times # {} /\ refused' = refused \cup {<<proc.at, t>>} /\ CaughtUp(t)
      /\ faults > 0 /\ faults' = faults - 1
      /\ UNCHANGED <<now, rows, snapshot, jobs, fires, created, passedOver, changes>>
  BY DEF CatchUpSkips
<1>2. faults' \in 0..MaxFaults
  BY <1>1, SchedulerAssumption DEF IInv, TypeOK
<1> QED
  BY <1>1, <1>2, CaughtUpStep

---------------------------------------------------------------------------
(* The process starts and ends.                                            *)

LEMMA ScheduledJobFacts ==
    ASSUME TypeOK, NEW s \in Schedules, NEW last \in {nil} \cup Times
    PROVE  /\ ScheduledJob(s, last) \in Job
           /\ ScheduledJob(s, last).last = last /\ ScheduledJob(s, last).catchupFrom = last
           /\ ScheduledJob(s, last).next \in now + 1 .. now + Period
           /\ IsCron(s) => ScheduledJob(s, last).next % Period = 0
<1> DEFINE from == IF last = nil THEN now ELSE last
           next == NextTime(s, from, now)
<1>1. now \in Nat \ {0} /\ now =< MaxTime /\ MaxTime \in Nat \ {0} /\ Period \in Nat \ {0}
  BY TypeFacts
<1>2. from \in Nat
  BY <1>1 DEF Times, nil
<1> HIDE DEF from
<1>3. next \in now + 1 .. now + Period /\ (IsCron(s) => next % Period = 0)
  BY <1>1, <1>2, NextTimeFacts
<1>4. ScheduledJob(s, last) = [isJob |-> TRUE, last |-> last, catchupFrom |-> last, next |-> next]
  BY DEF ScheduledJob, from
<1> HIDE DEF next
<1>5. next \in 1..(MaxTime + Period)
  BY <1>1, <1>3
<1>6. [isJob |-> TRUE, last |-> last, catchupFrom |-> last, next |-> next] \in Job
  BY <1>5 DEF Job
<1> QED
  BY <1>3, <1>4, <1>6

LEMMA LastExecTimeFacts ==
    ASSUME TypeOK, NEW s \in Schedules
    PROVE  /\ LastExecTime(s) \in Times
           /\ LastExecTime(s) = rows[s].updatedAt \/ LastExecTime(s) = snapshot[s]
           /\ LastExecTime(s) >= rows[s].updatedAt /\ LastExecTime(s) >= snapshot[s]
<1>1. rows[s].updatedAt \in Times /\ snapshot[s] \in {nil} \cup Times /\ MaxTime \in Nat
  BY SchedulerAssumption DEF TypeOK, Rows
<1>2. \E x \in {rows[s].updatedAt, snapshot[s]} : \A y \in {rows[s].updatedAt, snapshot[s]} : x >= y
  BY <1>1 DEF Times, nil
<1>3. /\ LastExecTime(s) \in {rows[s].updatedAt, snapshot[s]}
      /\ \A y \in {rows[s].updatedAt, snapshot[s]} : LastExecTime(s) >= y
  BY <1>2 DEF LastExecTime, Max
<1> QED
  BY <1>1, <1>3 DEF Times, nil

LEMMA BootStep ==
    ASSUME IInv, Boot
    PROVE  IInv'
<1>1. /\ proc.phase = "down" /\ jobs' = BootStrapSchedulesFromSnapShot
      /\ proc' = [Down EXCEPT !.phase = "booted", !.readAt = now]
      /\ UNCHANGED <<now, rows, snapshot, fires, created, refused, passedOver, changes, faults>>
  BY DEF Boot
<1>2. TypeOK /\ ProcOK /\ SchedulesOK /\ \A f \in fires : FireOK(f)
  BY DEF IInv
<1>3. /\ now \in Nat \ {0} /\ Period \in Nat \ {0}
      /\ \A s \in Schedules : rows[s].updatedAt \in Nat \ {0} /\ snapshot[s] \in Nat
  BY <1>2, TypeFacts
<1>4. /\ proc' \in Procs /\ proc'.phase = "booted" /\ proc'.readAt = now /\ proc'.until = nil /\ proc'.times = {}
  <2>1. Down \in Procs /\ Down.until = nil /\ Down.times = {} /\ now \in Times
    BY <1>2 DEF Down, Procs, TypeOK
  <2>2. proc' \in Procs
    BY <1>1, <2>1 DEF Procs
  <2> QED
    BY <1>1, <2>1, <2>2 DEF Procs
<1>5. fires = {}
  BY <1>1, <1>2 DEF ProcOK
<1>6. ASSUME NEW s \in Schedules
      PROVE  /\ rows[s].active => jobs'[s] = ScheduledJob(s, LastExecTime(s))
             /\ ~rows[s].active => jobs'[s] = NoJob
  BY <1>1 DEF BootStrapSchedulesFromSnapShot
<1>7. TypeOK'
  <2>1. \A s \in Schedules : jobs'[s] \in Job \cup {NoJob}
    BY <1>2, <1>6, LastExecTimeFacts, ScheduledJobFacts
  <2>2. jobs' \in [Schedules -> Job \cup {NoJob}]
    BY <1>1, <2>1 DEF BootStrapSchedulesFromSnapShot
  <2> QED
    BY <1>1, <1>2, <1>4, <2>2 DEF TypeOK
<1>8. Progress
  BY <1>1 DEF Progress, Covered, Settled, InFlight
<1>9. ProcOK'
  BY <1>3, <1>1, <1>4 DEF ProcOK, nil
<1>10. ASSUME NEW s \in Schedules PROVE RowOK(s)' /\ JobOK(s)' /\ GapOK(s)' /\ SavedOK(s)'
  <2>1. RowOK(s) /\ SavedOK(s)
    BY <1>2 DEF SchedulesOK
  <2>2. rows'[s] = rows[s] /\ snapshot'[s] = snapshot[s] /\ now' = now
    BY <1>1
  <2>3. RowOK(s)'
    <3>1. now \in Nat /\ now' \in Nat /\ now =< now' /\ rows[s].updatedAt \in Nat /\ snapshot[s] \in Nat
      BY <1>3, <2>2
    <3> QED
      BY <1>8, <2>1, <2>2, <3>1, RowKept
  <2>4. SavedOK(s)'
    BY <1>8, <2>1, <2>2, SavedKept
  <2>5. CASE ~rows[s].active
    <3>1. ~jobs'[s].isJob
      BY <1>6, <2>5 DEF NoJob
    <3> QED
      BY <2>3, <2>4, <3>1 DEF JobOK, GapOK
  <2>6. CASE rows[s].active
    <3> DEFINE last == LastExecTime(s)
    <3>1. /\ last \in Times /\ (last = rows[s].updatedAt \/ last = snapshot[s])
          /\ last >= rows[s].updatedAt /\ last >= snapshot[s]
      BY <1>2, LastExecTimeFacts
    <3>2. jobs'[s] = ScheduledJob(s, last)
      BY <1>6, <2>6
    <3> HIDE DEF last
    <3>3. /\ jobs'[s] \in Job /\ jobs'[s].last = last /\ jobs'[s].catchupFrom = last
          /\ jobs'[s].next \in now + 1 .. now + Period /\ (IsCron(s) => jobs'[s].next % Period = 0)
      BY <1>2, <3>1, <3>2, ScheduledJobFacts
    <3>4. last \in Nat \ {0}
      BY <3>1, SchedulerAssumption DEF Times
    <3>5. last =< now /\ (last > rows[s].updatedAt => last = snapshot[s] /\ Settled(s, last))
      BY <1>3, <2>1, <3>1, <3>4 DEF RowOK, LastOK
    <3>6. JobOK(s)'
      <4>1. LastOK(s, jobs[s].last)'
        BY <1>8, <2>2, <3>3, <3>5 DEF LastOK, Progress
      <4>2. jobs'[s].next \in now' .. now' + Period
        BY <1>3, <2>2, <3>3
      <4>3. IsCron(s)' => jobs'[s].next % Period = 0
        BY <2>2, <3>3 DEF IsCron
      <4>4. jobs'[s].catchupFrom >= rows'[s].updatedAt
        BY <2>2, <3>1, <3>3
      <4> QED
        BY <4>1, <4>2, <4>3, <4>4 DEF JobOK
    <3>7. GapOK(s)'
      <4> SUFFICES ASSUME IsCron(s)', NEW t \in Owed(s, now)'
                   PROVE  Covered(s, t)' \/ Pending(s, t)'
        BY DEF GapOK, Covered
      <4>1. IsCron(s) /\ t \in Owed(s, now)
        BY <1>1, <2>2, OwedStays
      <4>2. t \in Nat /\ t > rows[s].updatedAt /\ t % Period = 0
        BY <1>3, <4>1, OwedFacts
      <4>3. CASE t =< last
        <5>1. last = snapshot[s]
          BY <1>3, <3>1, <3>4, <4>2, <4>3
        <5>2. t \in Owed(s, snapshot[s])
          BY <1>3, <4>1, <4>2, <4>3, <5>1, OwedFacts
        <5> QED
          BY <1>8, <2>1, <4>1, <5>2 DEF SavedOK, Covered, Progress
      <4>4. CASE last < t
        BY <1>4, <3>3, <3>4, <4>4 DEF Pending, nil
      <4> QED
        BY <3>4, <4>2, <4>3, <4>4
    <3> QED
      BY <2>3, <2>4, <3>6, <3>7
  <2> QED
    BY <2>5, <2>6, <1>2, TypeFacts
<1>11. \A f \in fires' : FireOK(f)'
  BY <1>1, <1>5
<1> QED
  BY <1>7, <1>9, <1>10, <1>11 DEF IInv, SchedulesOK

LEMMA ExitStep ==
    ASSUME IInv, Exit
    PROVE  IInv'
<1>1. /\ faults > 0 /\ faults' = faults - 1 /\ proc' = Down
      /\ jobs' = [s \in Schedules |-> NoJob] /\ fires' = {} /\ passedOver' = passedOver \cup Overtaken
      /\ UNCHANGED <<now, rows, snapshot, created, refused, changes>>
  BY DEF Exit
<1>2. TypeOK /\ ProcOK /\ SchedulesOK /\ \A f \in fires : FireOK(f)
  BY DEF IInv
<1>3. /\ now \in Nat \ {0} /\ now =< MaxTime /\ MaxTime \in Nat
      /\ \A s \in Schedules : rows[s].updatedAt \in Nat \ {0} /\ snapshot[s] \in Nat
      /\ \A f \in fires : f.schedule \in Schedules /\ f.time \in Nat \ {0}
  BY <1>2, TypeFacts
<1>4. /\ proc' \in Procs /\ proc'.phase = "down" /\ proc'.readAt = nil /\ proc'.until = nil /\ proc'.times = {}
  BY <1>1 DEF Down, Procs
<1>5. \A s \in Schedules : jobs'[s] = NoJob /\ ~jobs'[s].isJob
  BY <1>1 DEF NoJob
<1>6. Overtaken \subseteq Schedules \X Times
  BY <1>2, <1>3 DEF Overtaken, FireOK, Times
<1>7. TypeOK'
  <2>1. faults' \in 0..MaxFaults
    BY <1>1, <1>2, SchedulerAssumption DEF TypeOK
  <2>2. jobs' \in [Schedules -> Job \cup {NoJob}]
    BY <1>1
  <2>3. passedOver' \subseteq Schedules \X Times
    BY <1>1, <1>2, <1>6 DEF TypeOK
  <2> QED
    BY <1>1, <1>2, <1>4, <2>1, <2>2, <2>3 DEF TypeOK
<1>8. ProcOK'
  BY <1>1, <1>3, <1>4, <1>5 DEF ProcOK, nil
<1>9. \A s, t : Settled(s, t) => Settled(s, t)'
  BY <1>1 DEF Settled
<1>10. ASSUME NEW s \in Schedules PROVE RowOK(s)' /\ JobOK(s)' /\ GapOK(s)' /\ SavedOK(s)'
  <2>1. RowOK(s) /\ SavedOK(s)
    BY <1>2 DEF SchedulesOK
  <2>2. rows'[s] = rows[s] /\ snapshot'[s] = snapshot[s] /\ now' = now
    BY <1>1
  <2>3. RowOK(s)'
    BY <1>9, <2>1, <2>2 DEF RowOK, LastOK
  <2>4. JobOK(s)' /\ GapOK(s)'
    BY <1>5 DEF JobOK, GapOK
  <2>5. SavedOK(s)'
    <3> SUFFICES ASSUME IsCron(s)', NEW t \in Owed(s, snapshot[s])' PROVE Settled(s, t)'
      BY DEF SavedOK
    <3>1. IsCron(s) /\ t \in Owed(s, snapshot[s])
      BY <2>2, OwedStays
    <3>2. t \in Nat /\ t > rows[s].updatedAt /\ t =< snapshot[s]
      BY <1>3, <3>1, OwedFacts
    <3>3. CASE Settled(s, t)
      BY <1>9, <3>3
    <3>4. CASE t = snapshot[s]
      BY <1>9, <2>1, <3>2, <3>4 DEF RowOK, LastOK
    <3>5. CASE InFlight(s, t) /\ t < snapshot[s]
      <4>1. <<s, t>> \in Overtaken
        BY <3>5 DEF InFlight, Overtaken
      <4> QED
        BY <1>1, <4>1 DEF Settled
    <3> QED
      BY <1>3, <2>1, <3>1, <3>2, <3>3, <3>4, <3>5 DEF SavedOK
  <2> QED
    BY <2>3, <2>4, <2>5
<1>11. \A f \in fires' : FireOK(f)'
  BY <1>1
<1> QED
  BY <1>7, <1>8, <1>10, <1>11 DEF IInv, SchedulesOK

---------------------------------------------------------------------------
(* Jobs.                                                                   *)

LEMMA FireStep ==
    ASSUME IInv, NEW c \in Schedules, Fire(c)
    PROVE  IInv'
<1> DEFINE n == now + Period
<1>0. PICK new : new = [schedule |-> c, time |-> now, isOfJob |-> TRUE, step |-> "executes"]
  OBVIOUS
<1>1. /\ proc.phase # "down" /\ jobs[c].isJob /\ jobs[c].next = now
      /\ fires' = fires \cup {new} /\ jobs' = [jobs EXCEPT ![c].next = n]
      /\ UNCHANGED <<now, rows, snapshot, proc, created, refused, passedOver, changes, faults>>
  BY <1>0 DEF Fire
<1>2. TypeOK /\ ProcOK /\ SchedulesOK /\ \A f \in fires : FireOK(f)
  BY DEF IInv
<1>3. /\ now \in Nat \ {0} /\ now =< MaxTime /\ MaxTime \in Nat /\ Period \in Nat \ {0}
      /\ \A s \in Schedules : rows[s].updatedAt \in Nat \ {0} /\ snapshot[s] \in Nat
      /\ \A f \in fires : f.schedule \in Schedules /\ f.time \in Nat \ {0}
  BY <1>2, TypeFacts
<1>4. n \in 1..(MaxTime + Period) /\ n \in now .. now + Period
  BY <1>3
<1>5. IsCron(c) => n % Period = 0
  <2> SUFFICES ASSUME IsCron(c) PROVE n % Period = 0
    OBVIOUS
  <2>1. now % Period = 0 /\ now \in Int
    BY <1>1, <1>2, <1>3 DEF SchedulesOK, JobOK
  <2> QED
    BY <1>3, <2>1, MultipleAfter
<1>6. /\ new \in Fires /\ new.schedule = c /\ new.time = now /\ new.step = "executes"
  <2>1. now \in 1..(MaxTime + Period)
    BY <1>3
  <2> QED
    BY <1>0, <2>1 DEF Fires
<1> HIDE DEF n
<1>7. /\ jobs' \in [Schedules -> Job \cup {NoJob}] /\ jobs'[c] \in Job
      /\ jobs'[c].last = jobs[c].last /\ jobs'[c].catchupFrom = jobs[c].catchupFrom /\ jobs'[c].next = n
      /\ \A s \in Schedules : s # c => jobs'[s] = jobs[s]
  <2>1. jobs[c] \in Job /\ jobs \in [Schedules -> Job \cup {NoJob}]
    BY <1>1, <1>2, TypeFacts DEF TypeOK
  <2>2. jobs' = [jobs EXCEPT ![c] = [jobs[c] EXCEPT !.next = n]]
    BY <1>1, <2>1
  <2>3. /\ [jobs[c] EXCEPT !.next = n] \in Job
        /\ [jobs[c] EXCEPT !.next = n].last = jobs[c].last
        /\ [jobs[c] EXCEPT !.next = n].catchupFrom = jobs[c].catchupFrom
        /\ [jobs[c] EXCEPT !.next = n].next = n
    BY <1>4, <2>1 DEF Job
  <2> QED
    BY <2>1, <2>2, <2>3
<1>8. TypeOK'
  BY <1>1, <1>2, <1>6, <1>7 DEF TypeOK
<1>9. Progress
  BY <1>1 DEF Progress, Covered, Settled, InFlight
<1>10. ProcOK'
  BY <1>1, <1>2 DEF ProcOK
<1>11. InFlight(c, now)'
  BY <1>1, <1>6 DEF InFlight
<1>12. ASSUME NEW s \in Schedules PROVE RowOK(s)' /\ JobOK(s)' /\ GapOK(s)' /\ SavedOK(s)'
  <2>1. RowOK(s) /\ JobOK(s) /\ GapOK(s) /\ SavedOK(s)
    BY <1>2 DEF SchedulesOK
  <2>2. rows'[s] = rows[s] /\ snapshot'[s] = snapshot[s] /\ now' = now /\ proc' = proc
    BY <1>1
  <2>3. RowOK(s)'
    <3>1. now \in Nat /\ now' \in Nat /\ now =< now' /\ rows[s].updatedAt \in Nat /\ snapshot[s] \in Nat
      BY <1>3, <2>2
    <3> QED
      BY <1>9, <2>1, <2>2, <3>1, RowKept
  <2>4. SavedOK(s)'
    BY <1>9, <2>1, <2>2, SavedKept
  <2>5. JobOK(s)'
    <3>1. CASE s # c
      BY <1>7, <1>9, <2>1, <2>2, <3>1, JobKept
    <3>2. CASE s = c
      BY <1>1, <1>4, <1>5, <1>7, <1>9, <2>1, <2>2, <3>2 DEF JobOK, LastOK, IsCron, Progress
    <3> QED
      BY <3>1, <3>2
  <2>6. GapOK(s)'
    <3>1. \A t : Pending(s, t) => Pending(s, t)'
      BY <1>7, <2>2 DEF Pending
    <3>2. \A t : jobs[s].next = t => jobs'[s].next = t \/ Covered(s, t)'
      BY <1>1, <1>7, <1>11 DEF Covered
    <3>3. jobs'[s].isJob => jobs[s].isJob
      BY <1>1, <1>7
    <3> QED
      BY <1>9, <2>1, <2>2, <3>1, <3>2, <3>3, GapKept
  <2> QED
    BY <2>3, <2>4, <2>5, <2>6
<1>13. \A f \in fires' : FireOK(f)'
  <2>1. \A s \in Schedules : jobs[s].isJob => jobs'[s].isJob
    BY <1>7, JobFacts
  <2>2. ASSUME NEW f \in fires PROVE FireOK(f)'
    <3>1. FireOK(f) /\ f.schedule \in Schedules
      BY <1>2, <1>3
    <3>2. f.time =< now' /\ (f.isOfJob => jobs'[f.schedule].isJob)
      BY <1>1, <2>1, <3>1 DEF FireOK
    <3> QED
      BY <1>9, <3>1, <3>2 DEF FireOK, Progress
  <2>3. FireOK(new)'
    <3>1. jobs'[new.schedule].isJob
      BY <1>1, <1>6, <2>1
    <3>2. new.time =< now'
      BY <1>1, <1>3, <1>6
    <3> QED
      BY <1>6, <3>1, <3>2 DEF FireOK
  <2> QED
    BY <1>1, <2>2, <2>3
<1> QED
  BY <1>8, <1>10, <1>12, <1>13 DEF IInv, SchedulesOK

(* An execution of a fire is created, or refused.                          *)
LEMMA ComparedStep ==
    ASSUME IInv, NEW f \in fires, f.step = "executes", fires' = Compared(f),
           UNCHANGED <<now, rows, snapshot, proc, jobs, passedOver, changes>>,
           created \subseteq created', refused \subseteq refused',
           <<f.schedule, f.time>> \in created' \cup refused',
           created' \subseteq created \cup {<<f.schedule, f.time>>},
           refused' \subseteq refused \cup {<<f.schedule, f.time>>},
           faults' \in 0..MaxFaults
    PROVE  IInv'
<1> DEFINE done == [f EXCEPT !.step = "updates"]
<1>1. TypeOK /\ ProcOK /\ SchedulesOK /\ \A g \in fires : FireOK(g)
  BY DEF IInv
<1>2. /\ now \in Nat \ {0} /\ now =< MaxTime /\ MaxTime \in Nat
      /\ f \in Fires /\ f.schedule \in Schedules /\ f.time \in Nat \ {0}
  BY <1>1, TypeFacts
<1>3. f.time =< now /\ (f.isOfJob => jobs[f.schedule].isJob)
  BY <1>1 DEF FireOK
<1>4. /\ done \in Fires /\ done.schedule = f.schedule /\ done.time = f.time /\ done.isOfJob = f.isOfJob
      /\ done.step = "updates"
  BY <1>2 DEF Fires
<1>5. fires \ {f} \subseteq fires' /\ fires' \subseteq fires \cup {done}
  BY DEF Compared
<1> HIDE DEF done
<1>6. TypeOK'
  <2>1. <<f.schedule, f.time>> \in Schedules \X Times
    BY <1>2, <1>3 DEF Times
  <2>2. created' \subseteq Schedules \X Times /\ refused' \subseteq Schedules \X Times
    BY <1>1, <2>1 DEF TypeOK
  <2>3. fires' \subseteq Fires
    BY <1>1, <1>4, <1>5 DEF TypeOK
  <2> QED
    BY <1>1, <2>2, <2>3 DEF TypeOK
<1>7. Progress
  <2>1. \A s, t : Settled(s, t) => Settled(s, t)'
    BY DEF Settled
  <2>2. Settled(f.schedule, f.time)'
    BY DEF Settled
  <2>3. ASSUME NEW s, NEW t, InFlight(s, t) PROVE Covered(s, t)'
    <3>1. PICK g \in fires : g.schedule = s /\ g.time = t /\ g.step = "executes"
      BY <2>3 DEF InFlight
    <3>2. CASE g = f
      BY <2>2, <3>1, <3>2 DEF Covered
    <3>3. CASE g # f
      BY <1>5, <3>1, <3>3 DEF Covered, InFlight
    <3> QED
      BY <3>2, <3>3
  <2> QED
    BY <2>1, <2>3 DEF Progress, Covered
<1>8. ProcOK'
  BY <1>1 DEF ProcOK
<1>9. SchedulesOK'
  <2>1. \A s, t : Pending(s, t) => Pending(s, t)'
    BY DEF Pending
  <2> QED
    BY <1>7, <2>1, SchedulesKept
<1>10. \A g \in fires' : FireOK(g)'
  <2>1. \A g \in fires : FireOK(g)'
    BY <1>1, <1>7 DEF FireOK, Progress
  <2>2. FireOK(done)'
    <3>1. Settled(f.schedule, f.time)'
      BY DEF Settled
    <3> QED
      BY <1>3, <1>4, <3>1 DEF FireOK
  <2> QED
    BY <1>5, <2>1, <2>2
<1> QED
  BY <1>6, <1>8, <1>9, <1>10 DEF IInv

LEMMA ExecuteStep ==
    ASSUME IInv, NEW f \in fires, Execute(f)
    PROVE  IInv'
<1>1. faults' \in 0..MaxFaults
  BY DEF Execute, IInv, TypeOK
<1> QED
  BY <1>1, ComparedStep DEF Execute

LEMMA ExecuteFailsStep ==
    ASSUME IInv, NEW f \in fires, ExecuteFails(f)
    PROVE  IInv'
<1>1. faults' \in 0..MaxFaults
  BY SchedulerAssumption DEF ExecuteFails, IInv, TypeOK
<1> QED
  BY <1>1, ComparedStep DEF ExecuteFails

LEMMA UpdateLastStep ==
    ASSUME IInv, NEW f \in fires, UpdateLast(f)
    PROVE  IInv'
<1>1. /\ f.step = "updates" /\ fires' = fires \ {f}
      /\ jobs' = IF f.isOfJob THEN [jobs EXCEPT ![f.schedule].last = f.time] ELSE jobs
      /\ UNCHANGED <<now, rows, snapshot, proc, created, refused, passedOver, changes, faults>>
  BY DEF UpdateLast
<1>2. TypeOK /\ ProcOK /\ SchedulesOK /\ \A g \in fires : FireOK(g)
  BY DEF IInv
<1>3. /\ now \in Nat \ {0} /\ now =< MaxTime /\ MaxTime \in Nat
      /\ \A s \in Schedules : rows[s].updatedAt \in Nat \ {0} /\ snapshot[s] \in Nat
      /\ \A g \in fires : g.schedule \in Schedules /\ g.time \in Nat \ {0}
  BY <1>2, TypeFacts
<1>4. f.time =< now /\ (f.isOfJob => jobs[f.schedule].isJob) /\ Settled(f.schedule, f.time)
  BY <1>1, <1>2 DEF FireOK
<1>5. f.time \in Times
  BY <1>3, <1>4 DEF Times
<1>6. /\ jobs' \in [Schedules -> Job \cup {NoJob}]
      /\ \A s \in Schedules : ~(f.isOfJob /\ s = f.schedule) => jobs'[s] = jobs[s]
      /\ f.isOfJob => /\ jobs'[f.schedule] \in Job /\ jobs'[f.schedule].last = f.time
                      /\ jobs'[f.schedule].catchupFrom = jobs[f.schedule].catchupFrom
                      /\ jobs'[f.schedule].next = jobs[f.schedule].next
  <2>1. jobs \in [Schedules -> Job \cup {NoJob}]
    BY <1>2 DEF TypeOK
  <2>2. CASE ~f.isOfJob
    BY <1>1, <2>1, <2>2
  <2>3. CASE f.isOfJob
    <3> DEFINE j == [jobs[f.schedule] EXCEPT !.last = f.time]
    <3>1. jobs[f.schedule] \in Job
      BY <1>2, <1>3, <1>4, <2>3, TypeFacts
    <3>2. jobs' = [jobs EXCEPT ![f.schedule] = j]
      BY <1>1, <2>1, <2>3
    <3>3. /\ j \in Job /\ j.last = f.time
          /\ j.catchupFrom = jobs[f.schedule].catchupFrom /\ j.next = jobs[f.schedule].next
      BY <1>5, <3>1 DEF Job
    <3> HIDE DEF j
    <3> QED
      BY <1>3, <2>1, <2>3, <3>2, <3>3
  <2> QED
    BY <2>2, <2>3
<1>7. ASSUME NEW s \in Schedules
      PROVE  /\ jobs'[s].isJob <=> jobs[s].isJob
             /\ jobs[s].isJob => jobs'[s].catchupFrom = jobs[s].catchupFrom /\ jobs'[s].next = jobs[s].next
             /\ jobs'[s] = jobs[s] \/ (jobs'[s].last = f.time /\ s = f.schedule)
  BY <1>4, <1>6, JobFacts
<1>8. TypeOK'
  BY <1>1, <1>2, <1>6 DEF TypeOK
<1>9. Progress
  BY <1>1 DEF Progress, Covered, Settled, InFlight
<1>10. ProcOK'
  BY <1>1, <1>2, <1>7 DEF ProcOK
<1>11. ASSUME NEW s \in Schedules PROVE RowOK(s)' /\ JobOK(s)' /\ GapOK(s)' /\ SavedOK(s)'
  <2>1. RowOK(s) /\ JobOK(s) /\ GapOK(s) /\ SavedOK(s)
    BY <1>2 DEF SchedulesOK
  <2>2. rows'[s] = rows[s] /\ snapshot'[s] = snapshot[s] /\ now' = now /\ proc' = proc
    BY <1>1
  <2>3. RowOK(s)'
    <3>1. now \in Nat /\ now' \in Nat /\ now =< now' /\ rows[s].updatedAt \in Nat /\ snapshot[s] \in Nat
      BY <1>3, <2>2
    <3> QED
      BY <1>9, <2>1, <2>2, <3>1, RowKept
  <2>4. SavedOK(s)'
    BY <1>9, <2>1, <2>2, SavedKept
  <2>5. JobOK(s)'
    <3> SUFFICES ASSUME jobs[s].isJob PROVE JobOK(s)'
      BY <1>7 DEF JobOK
    <3>1. LastOK(s, jobs[s].last)'
      <4>1. CASE jobs'[s] = jobs[s]
        BY <1>9, <2>1, <2>2, <4>1 DEF JobOK, LastOK, Progress
      <4>2. CASE jobs'[s].last = f.time /\ s = f.schedule
        BY <1>4, <1>9, <2>2, <4>2 DEF LastOK, Progress
      <4> QED
        BY <1>7, <4>1, <4>2
    <3> QED
      BY <1>7, <2>1, <2>2, <3>1 DEF JobOK, IsCron
  <2>6. GapOK(s)'
    <3>1. CASE ~jobs[s].isJob
      BY <1>7, <3>1 DEF GapOK
    <3>2. CASE jobs[s].isJob
      <4>1. \A t : Pending(s, t) => Pending(s, t)'
        BY <1>7, <2>2, <3>2 DEF Pending
      <4> QED
        BY <1>7, <1>9, <2>1, <2>2, <3>2, <4>1, GapKept
    <3> QED
      BY <3>1, <3>2
  <2> QED
    BY <2>3, <2>4, <2>5, <2>6
<1>12. \A g \in fires' : FireOK(g)'
  <2> SUFFICES ASSUME NEW g \in fires PROVE FireOK(g)'
    BY <1>1
  <2>1. FireOK(g) /\ g.schedule \in Schedules
    BY <1>2, <1>3
  <2>2. g.time =< now' /\ (g.isOfJob => jobs'[g.schedule].isJob)
    BY <1>1, <1>7, <2>1 DEF FireOK
  <2> QED
    BY <1>9, <2>1, <2>2 DEF FireOK, Progress
<1> QED
  BY <1>8, <1>10, <1>11, <1>12 DEF IInv, SchedulesOK

---------------------------------------------------------------------------
(* The updater, the snapshot runner and time.                              *)

LEMMA UpdateStep ==
    ASSUME IInv, Update
    PROVE  IInv'
<1> DEFINE Detached(f) == [f EXCEPT !.isOfJob = @ /\ f.schedule \notin Removed]
           Passed == UNION {{s} \X CatchUpTimes(s, rows[s].updatedAt, now) : s \in Missing}
<1>1. /\ proc.phase # "down"
      /\ jobs' = [s \in Schedules |->
                     IF s \in Missing THEN ScheduledJob(s, nil) ELSE IF s \in Removed THEN NoJob ELSE jobs[s]]
      /\ fires' = {Detached(f) : f \in fires} /\ passedOver' = passedOver \cup Passed
      /\ UNCHANGED <<now, rows, snapshot, proc, created, refused, changes, faults>>
  BY DEF Update
<1>2. TypeOK /\ ProcOK /\ SchedulesOK /\ \A f \in fires : FireOK(f)
  BY DEF IInv
<1>3. /\ now \in Nat \ {0} /\ now =< MaxTime /\ MaxTime \in Nat
      /\ \A s \in Schedules : rows[s].updatedAt \in Nat \ {0} /\ snapshot[s] \in Nat
      /\ \A f \in fires : f \in Fires /\ f.schedule \in Schedules /\ f.time \in Nat \ {0}
  BY <1>2, TypeFacts
<1>4. ASSUME NEW s \in Schedules
      PROVE  /\ s \in Missing => jobs'[s] = ScheduledJob(s, nil)
             /\ s \in Removed => jobs'[s] = NoJob
             /\ s \notin Missing \cup Removed => jobs'[s] = jobs[s]
  BY <1>1 DEF Missing, Removed
<1>5. ASSUME NEW f \in fires
      PROVE  /\ Detached(f) \in Fires /\ Detached(f).schedule = f.schedule /\ Detached(f).time = f.time
             /\ Detached(f).step = f.step
             /\ Detached(f).isOfJob => f.isOfJob /\ f.schedule \notin Removed
  <2>1. f \in Fires
    BY <1>3
  <2>2. PICK b \in BOOLEAN : b <=> (f.isOfJob /\ f.schedule \notin Removed)
    OBVIOUS
  <2>3. Detached(f) = [f EXCEPT !.isOfJob = b]
    <3>1. b = (f.isOfJob /\ f.schedule \notin Removed)
      BY <2>2, Zenon
    <3> QED
      BY <3>1, Zenon
  <2>4. /\ [f EXCEPT !.isOfJob = b] \in Fires /\ [f EXCEPT !.isOfJob = b].schedule = f.schedule
        /\ [f EXCEPT !.isOfJob = b].time = f.time /\ [f EXCEPT !.isOfJob = b].step = f.step
        /\ [f EXCEPT !.isOfJob = b].isOfJob = b
    BY <2>1 DEF Fires
  <2> HIDE DEF Detached
  <2> QED
    BY <2>2, <2>3, <2>4
<1>6. \A s \in Missing : \A t \in Owed(s, now) : <<s, t>> \in Passed
  BY DEF Owed
<1>7. Passed \subseteq Schedules \X Times
  <2>1. \A s \in Schedules : CatchUpTimes(s, rows[s].updatedAt, now) \subseteq Times
    BY <1>3 DEF CatchUpTimes, Times
  <2> QED
    BY <2>1 DEF Missing
<1> HIDE DEF Detached, Passed
<1>8. TypeOK'
  <2>1. nil \in {nil} \cup Times
    OBVIOUS
  <2>2. \A s \in Schedules : jobs'[s] \in Job \cup {NoJob}
    <3>1. \A s \in Schedules : jobs[s] \in Job \cup {NoJob}
      BY <1>2 DEF TypeOK
    <3> QED
      BY <1>2, <1>4, <2>1, <3>1, ScheduledJobFacts
  <2>3. jobs' \in [Schedules -> Job \cup {NoJob}]
    BY <1>1, <2>2
  <2>4. fires' \subseteq Fires
    BY <1>1, <1>5
  <2>5. passedOver' \subseteq Schedules \X Times
    BY <1>1, <1>2, <1>7 DEF TypeOK
  <2> QED
    BY <1>1, <1>2, <2>3, <2>4, <2>5 DEF TypeOK
<1>9. Progress
  <2>1. \A s, t : Settled(s, t) => Settled(s, t)'
    BY <1>1 DEF Settled
  <2>2. ASSUME NEW s, NEW t, InFlight(s, t) PROVE InFlight(s, t)'
    <3>1. PICK f \in fires : f.schedule = s /\ f.time = t /\ f.step = "executes"
      BY <2>2 DEF InFlight
    <3>2. Detached(f) \in fires'
      BY <1>1
    <3> QED
      BY <1>5, <3>1, <3>2 DEF InFlight
  <2> QED
    BY <2>1, <2>2 DEF Progress, Covered
<1>10. ProcOK'
  BY <1>1, <1>2 DEF ProcOK
<1>11. ASSUME NEW s \in Schedules PROVE RowOK(s)' /\ JobOK(s)' /\ GapOK(s)' /\ SavedOK(s)'
  <2>1. RowOK(s) /\ JobOK(s) /\ GapOK(s) /\ SavedOK(s)
    BY <1>2 DEF SchedulesOK
  <2>2. rows'[s] = rows[s] /\ snapshot'[s] = snapshot[s] /\ now' = now /\ proc' = proc
    BY <1>1
  <2>3. RowOK(s)'
    <3>1. now \in Nat /\ now' \in Nat /\ now =< now' /\ rows[s].updatedAt \in Nat /\ snapshot[s] \in Nat
      BY <1>3, <2>2
    <3> QED
      BY <1>9, <2>1, <2>2, <3>1, RowKept
  <2>4. SavedOK(s)'
    BY <1>9, <2>1, <2>2, SavedKept
  <2>5. CASE s \in Missing
    <3>1. /\ jobs'[s].last = nil /\ jobs'[s].catchupFrom = nil
          /\ jobs'[s].next \in now + 1 .. now + Period /\ (IsCron(s) => jobs'[s].next % Period = 0)
      BY <1>2, <1>4, <2>5, ScheduledJobFacts
    <3>2. LastOK(s, jobs[s].last)'
      BY <1>3, <2>2, <3>1 DEF LastOK, nil
    <3>3. jobs'[s].next \in now' .. now' + Period
      BY <1>3, <2>2, <3>1, SchedulerAssumption
    <3>4. IsCron(s)' => jobs'[s].next % Period = 0
      BY <2>2, <3>1 DEF IsCron
    <3>5. JobOK(s)'
      BY <3>1, <3>2, <3>3, <3>4 DEF JobOK
    <3>6. \A t \in Owed(s, now)' : Settled(s, t)'
      BY <1>1, <1>6, <2>2, <2>5, OwedStays DEF Settled
    <3> QED
      BY <2>3, <2>4, <3>5, <3>6 DEF GapOK
  <2>6. CASE s \in Removed
    <3>1. ~jobs'[s].isJob
      BY <1>4, <2>6 DEF NoJob
    <3> QED
      BY <2>3, <2>4, <3>1 DEF JobOK, GapOK
  <2>7. CASE s \notin Missing \cup Removed
    <3>1. jobs'[s] = jobs[s]
      BY <1>4, <2>7
    <3>2. JobOK(s)'
      BY <1>9, <2>1, <2>2, <3>1, JobKept
    <3>3. \A t : Pending(s, t) => Pending(s, t)'
      BY <2>2, <3>1 DEF Pending
    <3>4. GapOK(s)'
      BY <1>9, <2>1, <2>2, <3>1, <3>3, GapKept
    <3> QED
      BY <2>3, <2>4, <3>2, <3>4
  <2> QED
    BY <2>5, <2>6, <2>7
<1>12. \A g \in fires' : FireOK(g)'
  <2> SUFFICES ASSUME NEW g \in fires' PROVE FireOK(g)'
    OBVIOUS
  <2>1. PICK f \in fires : g = Detached(f)
    BY <1>1
  <2>2. FireOK(f) /\ f.schedule \in Schedules
    BY <1>2, <1>3
  <2>3. /\ g.schedule = f.schedule /\ g.time = f.time /\ g.step = f.step
        /\ g.isOfJob => f.isOfJob /\ f.schedule \notin Removed
    BY <1>5, <2>1
  <2>4. g.isOfJob => jobs'[g.schedule].isJob
    <3> SUFFICES ASSUME g.isOfJob PROVE jobs'[f.schedule].isJob
      BY <2>3
    <3>1. jobs[f.schedule].isJob
      BY <2>2, <2>3 DEF FireOK
    <3>2. f.schedule \notin Missing
      BY <3>1 DEF Missing
    <3> QED
      BY <1>4, <2>2, <2>3, <3>1, <3>2
  <2> QED
    BY <1>1, <1>9, <2>2, <2>3, <2>4 DEF FireOK, Progress
<1> QED
  BY <1>8, <1>10, <1>11, <1>12 DEF IInv, SchedulesOK

LEMMA SaveSnapshotStep ==
    ASSUME IInv, SaveSnapshot
    PROVE  IInv'
<1>1. /\ proc.phase = "running"
      /\ snapshot' = [s \in Schedules |-> IF jobs[s].isJob THEN jobs[s].last ELSE nil]
      /\ UNCHANGED <<now, rows, proc, jobs, fires, created, refused, passedOver, changes, faults>>
  BY DEF SaveSnapshot, CanSave
<1>2. TypeOK /\ ProcOK /\ SchedulesOK /\ \A f \in fires : FireOK(f)
  BY DEF IInv
<1>3. /\ now \in Nat \ {0} /\ Period \in Nat \ {0}
      /\ \A s \in Schedules : /\ rows[s].updatedAt \in Nat \ {0}
                              /\ jobs[s].isJob \in BOOLEAN /\ (jobs[s].isJob => jobs[s] \in Job)
  BY <1>2, TypeFacts
<1>4. \A s \in Schedules : /\ jobs[s].isJob => snapshot'[s] = jobs[s].last
                           /\ ~jobs[s].isJob => snapshot'[s] = nil
  BY <1>1
<1>5. TypeOK'
  <2>1. \A s \in Schedules : snapshot'[s] \in {nil} \cup Times
    BY <1>3, <1>4 DEF Job
  <2>2. snapshot' \in [Schedules -> {nil} \cup Times]
    BY <1>1, <2>1
  <2> QED
    BY <1>1, <1>2, <2>2 DEF TypeOK
<1>6. Progress
  BY <1>1 DEF Progress, Covered, Settled, InFlight
<1>7. ProcOK'
  BY <1>1, <1>2 DEF ProcOK
<1>8. ASSUME NEW s \in Schedules PROVE RowOK(s)' /\ JobOK(s)' /\ GapOK(s)' /\ SavedOK(s)'
  <2>1. RowOK(s) /\ JobOK(s) /\ GapOK(s)
    BY <1>2 DEF SchedulesOK
  <2>2. rows'[s] = rows[s] /\ jobs'[s] = jobs[s] /\ now' = now /\ proc' = proc
    BY <1>1
  <2>3. JobOK(s)'
    BY <1>6, <2>1, <2>2, JobKept
  <2>4. GapOK(s)'
    <3>1. \A t : Pending(s, t) => Pending(s, t)'
      BY <2>2 DEF Pending
    <3> QED
      BY <1>6, <2>1, <2>2, <3>1, GapKept
  <2>5. CASE ~jobs[s].isJob
    <3>1. snapshot'[s] = 0
      BY <1>4, <2>5 DEF nil
    <3>2. RowOK(s)'
      BY <1>3, <2>1, <2>2, <3>1 DEF RowOK, LastOK
    <3>3. Owed(s, snapshot[s])' = {}
      BY <1>3, <2>2, <3>1 DEF Owed, CatchUpTimes
    <3> QED
      BY <2>3, <2>4, <3>2, <3>3 DEF SavedOK
  <2>6. CASE jobs[s].isJob
    <3>1. /\ snapshot'[s] = jobs[s].last /\ jobs[s].last \in Nat /\ jobs[s].next \in Nat
          /\ jobs[s].last =< now /\ (jobs[s].last > rows[s].updatedAt => Settled(s, jobs[s].last))
          /\ jobs[s].next >= now
      <4>1. snapshot'[s] = jobs[s].last /\ jobs[s].last \in Nat /\ jobs[s].next \in Nat
        BY <1>3, <1>4, <2>6, JobFacts
      <4>2. LastOK(s, jobs[s].last) /\ jobs[s].next \in now .. now + Period
        BY <2>1, <2>6 DEF JobOK
      <4> QED
        BY <1>3, <4>1, <4>2 DEF LastOK
    <3>2. RowOK(s)'
      BY <1>6, <2>1, <2>2, <3>1 DEF RowOK, LastOK, Progress
    <3>3. SavedOK(s)'
      <4> SUFFICES ASSUME IsCron(s)', NEW t \in Owed(s, snapshot[s])' PROVE Covered(s, t)'
        BY DEF SavedOK, Covered
      <4>1. IsCron(s) /\ t \in Owed(s, jobs[s].last)
        BY <2>2, <3>1 DEF Owed, CatchUpTimes, IsScheduled, IsCron
      <4>2. t \in Nat /\ t > rows[s].updatedAt /\ t =< jobs[s].last /\ t % Period = 0
        BY <1>3, <3>1, <4>1, OwedFacts
      <4>3. t \in Owed(s, now)
        BY <1>3, <3>1, <4>1, <4>2, OwedFacts
      <4>4. ~Pending(s, t)
        BY <1>1 DEF Pending
      <4>5. CASE jobs[s].next = t
        <5>1. t = jobs[s].last
          BY <1>3, <3>1, <4>2, <4>5
        <5> QED
          BY <1>6, <3>1, <4>2, <5>1 DEF Covered, Progress
      <4>6. CASE Covered(s, t)
        BY <1>6, <4>6 DEF Progress
      <4> QED
        BY <2>1, <2>6, <4>1, <4>3, <4>4, <4>5, <4>6 DEF GapOK, Covered
    <3> QED
      BY <2>3, <2>4, <3>2, <3>3
  <2> QED
    BY <2>5, <2>6
<1>9. \A f \in fires' : FireOK(f)'
  BY <1>1, <1>2 DEF FireOK, Settled
<1> QED
  BY <1>5, <1>7, <1>8, <1>9 DEF IInv, SchedulesOK

LEMMA TickStep ==
    ASSUME IInv, Tick
    PROVE  IInv'
<1>1. /\ now < MaxTime /\ now' = now + 1 /\ \A s \in Schedules : jobs[s].isJob => jobs[s].next > now
      /\ UNCHANGED <<rows, snapshot, proc, jobs, fires, created, refused, passedOver, changes, faults>>
  BY DEF Tick
<1>2. TypeOK /\ ProcOK /\ SchedulesOK /\ \A f \in fires : FireOK(f)
  BY DEF IInv
<1>3. /\ now \in Nat \ {0} /\ MaxTime \in Nat /\ Period \in Nat \ {0} /\ proc.readAt \in Nat /\ proc.until \in Nat
      /\ \A s \in Schedules : rows[s].updatedAt \in Nat \ {0} /\ snapshot[s] \in Nat
      /\ \A s \in Schedules : jobs[s].isJob => jobs[s] \in Job
      /\ \A f \in fires : f.time \in Nat
  BY <1>2, TypeFacts
<1>4. TypeOK'
  <2>1. now' \in Times
    BY <1>1, <1>3 DEF Times
  <2> QED
    BY <1>1, <1>2, <2>1 DEF TypeOK
<1>5. Progress
  BY <1>1 DEF Progress, Covered, Settled, InFlight
<1>6. ProcOK'
  <2>1. proc.readAt =< now' /\ proc.until =< now'
    BY <1>1, <1>2, <1>3 DEF ProcOK
  <2> QED
    BY <1>1, <1>2, <2>1 DEF ProcOK
<1>7. ASSUME NEW s \in Schedules PROVE RowOK(s)' /\ JobOK(s)' /\ GapOK(s)' /\ SavedOK(s)'
  <2>1. RowOK(s) /\ JobOK(s) /\ GapOK(s) /\ SavedOK(s)
    BY <1>2 DEF SchedulesOK
  <2>2. rows'[s] = rows[s] /\ snapshot'[s] = snapshot[s] /\ jobs'[s] = jobs[s] /\ proc' = proc
    BY <1>1
  <2>3. RowOK(s)'
    <3>1. now \in Nat /\ now' \in Nat /\ now =< now' /\ rows[s].updatedAt \in Nat /\ snapshot[s] \in Nat
      BY <1>1, <1>3
    <3> QED
      BY <1>5, <2>1, <2>2, <3>1, RowKept
  <2>4. SavedOK(s)'
    BY <1>5, <2>1, <2>2, SavedKept
  <2>5. CASE ~jobs[s].isJob
    BY <2>2, <2>3, <2>4, <2>5 DEF JobOK, GapOK
  <2>6. CASE jobs[s].isJob
    <3>1. jobs[s].last \in Nat /\ jobs[s].next \in Nat
      BY <1>3, <2>6, JobFacts
    <3>2. /\ jobs[s].next > now /\ jobs[s].next =< now + Period /\ jobs[s].last =< now
          /\ IsCron(s) => jobs[s].next % Period = 0
      <4>1. jobs[s].next \in now .. now + Period /\ jobs[s].last =< now
        BY <2>1, <2>6 DEF JobOK, LastOK
      <4>2. IsCron(s) => jobs[s].next % Period = 0
        BY <2>1, <2>6 DEF JobOK
      <4>3. jobs[s].next =< now + Period
        BY <1>3, <3>1, <4>1
      <4> QED
        BY <1>1, <2>6, <4>1, <4>2, <4>3
    <3>3. JobOK(s)'
      <4>1. LastOK(s, jobs[s].last)'
        BY <1>1, <1>3, <1>5, <2>1, <2>2, <2>6, <3>1, <3>2 DEF JobOK, LastOK, Progress
      <4>2. jobs'[s].next \in now' .. now' + Period
        BY <1>1, <1>3, <2>2, <3>1, <3>2
      <4> QED
        BY <2>1, <2>2, <2>6, <4>1, <4>2 DEF JobOK, IsCron
    <3>4. GapOK(s)'
      <4> SUFFICES ASSUME IsCron(s)', NEW t \in Owed(s, now)'
                   PROVE  Covered(s, t)' \/ jobs'[s].next = t \/ Pending(s, t)'
        BY DEF GapOK, Covered
      <4>1. IsCron(s) /\ t \in Owed(s, now + 1)
        BY <1>1, <2>2 DEF Owed, CatchUpTimes, IsScheduled, IsCron
      <4>2. t \in Nat /\ t > rows[s].updatedAt /\ t =< now + 1 /\ t % Period = 0
        <5>1. now + 1 \in Nat /\ rows[s].updatedAt \in Nat
          BY <1>3
        <5> QED
          BY <4>1, <5>1, OwedFacts
      <4>3. CASE t = now + 1
        <5>1. t =< jobs[s].next /\ jobs[s].next < t + Period /\ t \in Int /\ jobs[s].next \in Int
          BY <1>3, <3>1, <3>2, <4>2, <4>3
        <5>2. ~(t < jobs[s].next)
          <6> SUFFICES ASSUME t < jobs[s].next PROVE FALSE
            OBVIOUS
          <6>1. t + Period =< jobs[s].next
            BY <1>3, <3>2, <4>1, <4>2, <5>1, MultiplesApart
          <6> QED
            BY <1>3, <5>1, <6>1
        <5> QED
          BY <2>2, <5>1, <5>2
      <4>4. CASE t =< now
        <5>1. t \in Owed(s, now)
          BY <1>3, <4>1, <4>2, <4>4, OwedFacts
        <5>2. Covered(s, t) \/ jobs[s].next = t \/ Pending(s, t)
          BY <2>1, <2>6, <4>1, <5>1 DEF GapOK, Covered
        <5>3. Pending(s, t) => Pending(s, t)'
          BY <2>2 DEF Pending
        <5> QED
          BY <1>5, <2>2, <5>2, <5>3 DEF Progress
      <4> QED
        BY <1>3, <4>2, <4>3, <4>4
    <3> QED
      BY <2>3, <2>4, <3>3, <3>4
  <2> QED
    BY <2>5, <2>6
<1>8. \A f \in fires' : FireOK(f)'
  <2> SUFFICES ASSUME NEW f \in fires PROVE FireOK(f)'
    BY <1>1
  <2>1. FireOK(f) /\ f.time =< now + 1
    BY <1>2, <1>3 DEF FireOK
  <2> QED
    BY <1>1, <1>5, <2>1 DEF FireOK, Progress
<1> QED
  BY <1>4, <1>6, <1>7, <1>8 DEF IInv, SchedulesOK

---------------------------------------------------------------------------
(* The invariant holds.                                                    *)

LEMMA InitIInv ==
    ASSUME Init
    PROVE  IInv
<1>1. PICK active, isRate \in BOOLEAN :
          rows = [s \in Schedules |-> [active |-> active, updatedAt |-> 1, isRate |-> isRate]]
  BY DEF Init
<1>2. /\ now = 1 /\ snapshot = [s \in Schedules |-> nil] /\ proc = Down
      /\ jobs = [s \in Schedules |-> NoJob] /\ fires = {} /\ created = {} /\ refused = {} /\ passedOver = {}
      /\ changes = MaxChanges /\ faults = MaxFaults
  BY DEF Init
<1>3. 1 \in Times
  BY SchedulerAssumption DEF Times
<1>4. proc \in Procs /\ proc.phase = "down" /\ proc.readAt = nil /\ proc.until = nil /\ proc.times = {}
  BY <1>2 DEF Down, Procs
<1>5. \A s \in Schedules : rows[s].updatedAt = 1 /\ rows[s] \in Rows
  BY <1>1, <1>3 DEF Rows
<1>6. \A s \in Schedules : snapshot[s] = 0 /\ ~jobs[s].isJob
  BY <1>2 DEF nil, NoJob
<1>7. TypeOK
  <2>1. rows \in [Schedules -> Rows]
    BY <1>1, <1>5
  <2>2. changes \in 0..MaxChanges /\ faults \in 0..MaxFaults
    BY <1>2, SchedulerAssumption
  <2> QED
    BY <1>2, <1>3, <1>4, <2>1, <2>2 DEF TypeOK
<1>8. ProcOK
  BY <1>2, <1>4, <1>6 DEF ProcOK, nil
<1>9. ASSUME NEW s \in Schedules PROVE RowOK(s) /\ JobOK(s) /\ GapOK(s) /\ SavedOK(s)
  <2>1. RowOK(s)
    BY <1>2, <1>5, <1>6 DEF RowOK, LastOK
  <2>2. JobOK(s) /\ GapOK(s)
    BY <1>6 DEF JobOK, GapOK
  <2>3. Owed(s, snapshot[s]) = {}
    BY <1>5, <1>6 DEF Owed, CatchUpTimes
  <2> QED
    BY <2>1, <2>2, <2>3 DEF SavedOK
<1> QED
  BY <1>2, <1>7, <1>8, <1>9 DEF IInv, SchedulesOK

LEMMA Stutter ==
    ASSUME IInv, UNCHANGED vars
    PROVE  IInv'
<1> USE DEF vars
<1>1. TypeOK'
  BY DEF IInv, TypeOK
<1>2. ProcOK'
  BY DEF IInv, ProcOK
<1>3. SchedulesOK'
  BY DEF IInv, SchedulesOK, RowOK, JobOK, GapOK, SavedOK, LastOK, Settled, InFlight, Pending, Owed,
         CatchUpTimes, IsScheduled, IsCron
<1>4. \A f \in fires' : FireOK(f)'
  BY DEF IInv, FireOK, Settled
<1> QED
  BY <1>1, <1>2, <1>3, <1>4 DEF IInv

LEMMA NextStep ==
    ASSUME IInv, [Next]_vars
    PROVE  IInv'
<1>1. CASE UNCHANGED vars
  BY <1>1, Stutter
<1>2. CASE Next
  <2>1. ASSUME NEW s \in Schedules, Manage(s) PROVE IInv'
    BY <2>1, ChangeStep DEF Manage, Activate, Deactivate
  <2>2. ASSUME NEW s \in Schedules, Fire(s) PROVE IInv'
    BY <2>2, FireStep
  <2>3. CASE Boots
    BY <2>3, BootStep, BeginCatchUpStep, CatchUpStep, EndCatchUpStep, CatchUpScheduleStep DEF Boots
  <2>4. CASE CatchUpSkips
    BY <2>4, CatchUpSkipsStep
  <2>5. CASE CatchUpFails \/ Crash
    BY <2>5, ExitStep DEF CatchUpFails, Crash
  <2>6. ASSUME NEW f \in fires, Runs(f) \/ ExecuteFails(f) PROVE IInv'
    BY <2>6, ExecuteStep, UpdateLastStep, ExecuteFailsStep DEF Runs
  <2>7. CASE Update
    BY <2>7, UpdateStep
  <2>8. CASE SaveSnapshot
    BY <2>8, SaveSnapshotStep
  <2>9. CASE Tick
    BY <2>9, TickStep
  <2>10. CASE EndOfTime
    BY <2>10, Stutter DEF EndOfTime
  <2> QED
    BY <1>2, <2>1, <2>2, <2>3, <2>4, <2>5, <2>6, <2>7, <2>8, <2>9, <2>10 DEF Next
<1> QED
  BY <1>1, <1>2

(* The scheduler's steps preserve what catch-up, fires, the job store and  *)
(* snapshots owe each other.                                               *)
THEOREM Invariance == Spec => []IInv
<1>1. Init => IInv
  BY InitIInv
<1>2. IInv /\ [Next]_vars => IInv'
  BY NextStep
<1> QED
  BY <1>1, <1>2, PTL DEF Spec

(* Type correctness.                                                       *)
THEOREM TypeCorrect == Spec => []TypeOK
<1>1. IInv => TypeOK
  BY DEF IInv
<1> QED
  BY <1>1, Invariance, PTL

(* Nothing at or before a saved last execution time is lost but for the    *)
(* losses the scheduler has, whatever crashes, refusals and changes of     *)
(* schedules there are.                                                    *)
THEOREM WatermarkHolds == Spec => []WatermarkIsHonest
<1>1. IInv => WatermarkIsHonest
  BY DEF IInv, SchedulesOK, SavedOK, WatermarkIsHonest
<1> QED
  BY <1>1, Invariance, PTL

(* Between what catch-up executes and what the library fires there is no   *)
(* gap: once catch-up has ended, a time that is due is settled, being      *)
(* fired, or the next that the library fires.                              *)
THEOREM NoGap == Spec => []NoGapAfterCatchUp
<1>1. IInv => NoGapAfterCatchUp
  <2> SUFFICES ASSUME IInv, proc.phase = "running", NEW s \in Schedules, IsCron(s), rows[s].active, jobs[s].isJob,
                      NEW t \in Owed(s, now)
               PROVE  Settled(s, t) \/ InFlight(s, t) \/ jobs[s].next = t
    BY DEF NoGapAfterCatchUp
  <2>1. ~Pending(s, t)
    BY DEF Pending
  <2> QED
    BY <2>1 DEF IInv, SchedulesOK, GapOK
<1> QED
  BY <1>1, Invariance, PTL

(* Catch-up creates no execution of a time before the schedule was last    *)
(* activated, unless its row changed after the process read it.            *)
THEOREM CatchUpStartsAtActivation == Spec => NothingBeforeActivation
<1> DEFINE Starts == \A s \in Schedules, t \in Times :
                        <<s, t>> \in created' \ created /\ fires' = fires =>
                            t > rows[s].updatedAt \/ rows[s].updatedAt >= proc.readAt
<1>1. IInv /\ [Next]_vars => [Starts]_vars
  <2> SUFFICES ASSUME IInv, Next, NEW s \in Schedules, NEW t \in Times,
                      <<s, t>> \in created' \ created, fires' = fires
               PROVE  t > rows[s].updatedAt \/ rows[s].updatedAt >= proc.readAt
    OBVIOUS
  <2>1. CASE CatchUp
    <3>1. proc.times # {} /\ <<s, t>> = <<proc.at, Min(proc.times)>>
      BY <2>1 DEF CatchUp
    <3>2. proc.times \in SUBSET Nat
      BY TypeFacts DEF IInv
    <3>3. \E m \in proc.times : \A x \in proc.times : m =< x
      BY <3>1, <3>2, NatMin
    <3>4. Min(proc.times) \in proc.times
      BY <3>3 DEF Min
    <3>5. s = proc.at /\ t \in proc.times
      BY <3>1, <3>4
    <3> QED
      BY <3>5 DEF IInv, ProcOK
  <2>2. ASSUME NEW f \in fires, Execute(f) PROVE FALSE
    <3>1. f.step = "executes" /\ fires' = Compared(f)
      BY <2>2 DEF Execute
    <3>2. f \in Fires
      BY <2>2 DEF IInv, TypeOK
    <3>3. [f EXCEPT !.step = "updates"] # f
      BY <3>1, <3>2 DEF Fires
    <3>4. f \notin fires'
      BY <3>1, <3>3 DEF Compared
    <3> QED
      BY <2>2, <3>4
  <2>3. CASE UNCHANGED created
    BY <2>3
  <2> QED
    BY <2>1, <2>2, <2>3 DEF Next, Manage, Activate, Deactivate, Change, Fire, Boots, Boot, BeginCatchUp, EndCatchUp,
       CatchUpSchedule, CatchUpSkips, CatchUpFails, Exit, Crash, Runs, UpdateLast, ExecuteFails, Update,
       SaveSnapshot, Tick, EndOfTime, vars
<1>2. Spec => [][Starts]_vars
  BY <1>1, Invariance, PTL DEF Spec
<1> QED
  BY <1>2 DEF NothingBeforeActivation
=============================================================================
