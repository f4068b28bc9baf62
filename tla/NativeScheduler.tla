--------------------------- MODULE NativeScheduler ---------------------------
(***************************************************************************)
(* The native scheduler of flyteadmin: rows of schedules that launch plans *)
(* activate and deactivate, a process that registers them with a cron      *)
(* library, catches up from a snapshot when it starts, fires executions,   *)
(* each in a goroutine of its own, and saves the snapshot from time to     *)
(* time; and the executions that admin creates, one for each schedule and  *)
(* scheduled time.                                                         *)
(***************************************************************************)
EXTENDS Integers, FiniteSets, FiniteSetsExt

CONSTANTS
    Schedules,          \* the schedulable entities
    Period,             \* time from one execution to the next
    NoSchedule,         \* no schedule is being caught up
    MaxTime,            \* bound: the clock
    MaxChanges,         \* bound: activations and deactivations
    MaxFaults           \* bound: crashes, and executions that are not created

ASSUME SchedulerAssumption ==
    /\ IsFiniteSet(Schedules) /\ NoSchedule \notin Schedules
    /\ Period \in Nat \ {0} /\ MaxTime \in Nat \ {0}
    /\ MaxChanges \in Nat /\ MaxFaults \in Nat

VARIABLES
    now,                \* the clock
    rows,               \* the rows of the database
    snapshot,           \* last execution times of the last snapshot that was saved
    proc,               \* the scheduler's process and its catch-up
    jobs,               \* the job store, with the library's entries
    fires,              \* goroutines that fire an execution
    created,            \* executions in admin
    refused,            \* for the properties: times admin created nothing for
    passedOver,         \* for the properties: times nobody will ask admin for
    changes, faults     \* changes and faults that may still happen

vars == <<now, rows, snapshot, proc, jobs, fires, created, refused, passedOver, changes, faults>>

(* Times begin at 1; 0 is a nil *time.Time.                                *)
nil == 0
Times == 1..MaxTime

(* A row has a fixed rate or else a cron expression.                       *)
Rows == [active : BOOLEAN, updatedAt : Times, isRate : BOOLEAN]
Job == [isJob : {TRUE}, last : {nil} \cup Times, catchupFrom : {nil} \cup Times, next : 1..(MaxTime + Period)]
NoJob == [isJob |-> FALSE]
Procs == [phase : {"down", "booted", "catchup", "running"}, readAt : {nil} \cup Times,
          until : {nil} \cup Times, left : SUBSET Schedules,
          at : Schedules \cup {NoSchedule}, times : SUBSET Times]
Down == [phase |-> "down", readAt |-> nil, until |-> nil, left |-> {}, at |-> NoSchedule, times |-> {}]

(* A fire goes on when its schedule is removed from the job store, but is  *)
(* then no longer of a job of the store.                                   *)
Fires == [schedule : Schedules, time : 1..(MaxTime + Period), isOfJob : BOOLEAN,
          step : {"executes", "updates"}]

TypeOK ==
    /\ now \in Times
    /\ rows \in [Schedules -> Rows]
    /\ snapshot \in [Schedules -> {nil} \cup Times]
    /\ proc \in Procs /\ \A t \in proc.times : t =< proc.until
    /\ jobs \in [Schedules -> Job \cup {NoJob}]
    /\ fires \subseteq Fires
    /\ created \subseteq Schedules \X Times
    /\ refused \subseteq Schedules \X Times /\ passedOver \subseteq Schedules \X Times
    /\ changes \in 0..MaxChanges /\ faults \in 0..MaxFaults

Init ==
    /\ now = 1
    /\ \E active, isRate \in BOOLEAN :
           rows = [s \in Schedules |-> [active |-> active, updatedAt |-> 1, isRate |-> isRate]]
    /\ snapshot = [s \in Schedules |-> nil]
    /\ proc = Down
    /\ jobs = [s \in Schedules |-> NoJob]
    /\ fires = {} /\ created = {} /\ refused = {} /\ passedOver = {}
    /\ changes = MaxChanges /\ faults = MaxFaults

---------------------------------------------------------------------------
(* Scheduled times.  Those of a fixed rate count from the time they are    *)
(* computed from.                                                          *)

IsScheduled(s, from, t) == IF rows[s].isRate THEN (t - from) % Period = 0 ELSE t % Period = 0

CatchUpTimesExclusive(s, from, to) ==  \* mutant: the last time is left out
    {t \in from + 1 .. to - 1 : IsScheduled(s, from, t)}

(* GetCatchUpTimes.                                                        *)
CatchUpTimes(s, from, to) == {t \in from + 1 .. to : IsScheduled(s, from, t)}

(* The library's next time after the given one.                            *)
NextTime(s, from, after) == CHOOSE t \in after + 1 .. after + Period : IsScheduled(s, from, t)

---------------------------------------------------------------------------
(* Schedule management: every update of a row sets its time.               *)

Change(s, active) ==
    /\ changes > 0
    /\ changes' = changes - 1
    /\ rows' = [rows EXCEPT ![s].active = active, ![s].updatedAt = now]
    /\ UNCHANGED <<now, snapshot, proc, jobs, fires, created, refused, passedOver, faults>>

Activate(s) == Change(s, TRUE)
Deactivate(s) == Change(s, FALSE)

---------------------------------------------------------------------------
(* The process starts: it reads the snapshot and the rows and registers    *)
(* the active ones; the library is already running.                        *)

LastExecTimeFromSnapshot(s) ==  \* mutant: the time of the row is ignored
    IF snapshot[s] # nil THEN snapshot[s] ELSE rows[s].updatedAt

LastExecTimeOrNow(s) ==  \* mutant: without a snapshot, begin now
    IF snapshot[s] # nil THEN Max({rows[s].updatedAt, snapshot[s]}) ELSE now

LastExecTime(s) == Max({rows[s].updatedAt, snapshot[s]})

(* ScheduleJob.                                                            *)
ScheduledJob(s, last) ==
    [isJob |-> TRUE, last |-> last, catchupFrom |-> last,
     next |-> NextTime(s, IF last = nil THEN now ELSE last, now)]

BootStrapSchedulesFromSnapShot ==
    [s \in Schedules |-> IF rows[s].active THEN ScheduledJob(s, LastExecTime(s)) ELSE NoJob]

Boot ==
    /\ proc.phase = "down"
    /\ jobs' = BootStrapSchedulesFromSnapShot
    /\ proc' = [Down EXCEPT !.phase = "booted", !.readAt = now]
    /\ UNCHANGED <<now, rows, snapshot, fires, created, refused, passedOver, changes, faults>>

---------------------------------------------------------------------------
(* CatchupAll: schedules one after the other, each from the time it was    *)
(* registered with, its times in order.                                    *)

BeginCatchUp ==
    /\ proc.phase = "booted"
    /\ proc' = [proc EXCEPT !.phase = "catchup", !.until = now, !.left = {s \in Schedules : jobs[s].isJob}]
    /\ UNCHANGED <<now, rows, snapshot, jobs, fires, created, refused, passedOver, changes, faults>>

(* A schedule may have been removed, or replaced, since.                   *)
CatchUpSchedule(s) ==
    /\ proc.phase = "catchup" /\ proc.at = NoSchedule /\ s \in proc.left
    /\ LET times == IF jobs[s].isJob /\ jobs[s].catchupFrom # nil
                    THEN CatchUpTimes(s, jobs[s].catchupFrom, proc.until) ELSE {}
       IN  proc' = [proc EXCEPT !.left = @ \ {s}, !.at = IF times = {} THEN @ ELSE s, !.times = times]
    /\ UNCHANGED <<now, rows, snapshot, jobs, fires, created, refused, passedOver, changes, faults>>

CaughtUp(t) ==
    proc' = [proc EXCEPT !.times = @ \ {t}, !.at = IF proc.times = {t} THEN NoSchedule ELSE @]

(* Execute: that it exists already is a success.                           *)
CatchUp ==
    /\ proc.times # {}
    /\ LET t == Min(proc.times)
       IN  created' = created \cup {<<proc.at, t>>} /\ CaughtUp(t)
    /\ UNCHANGED <<now, rows, snapshot, jobs, fires, refused, passedOver, changes, faults>>

(* The project is inactive: nothing is created, and that is no error.      *)
CatchUpSkips ==
    /\ proc.times # {} /\ faults > 0
    /\ faults' = faults - 1
    /\ LET t == Min(proc.times)
       IN  refused' = refused \cup {<<proc.at, t>>} /\ CaughtUp(t)
    /\ UNCHANGED <<now, rows, snapshot, jobs, fires, created, passedOver, changes>>

EndCatchUp ==
    /\ proc.phase = "catchup" /\ proc.left = {} /\ proc.at = NoSchedule
    /\ proc' = [proc EXCEPT !.phase = "running"]
    /\ UNCHANGED <<now, rows, snapshot, jobs, fires, created, refused, passedOver, changes, faults>>

---------------------------------------------------------------------------
(* Jobs.                                                                   *)

Fire(s) ==
    /\ proc.phase # "down" /\ jobs[s].isJob /\ jobs[s].next = now
    /\ fires' = fires \cup {[schedule |-> s, time |-> now, isOfJob |-> TRUE, step |-> "executes"]}
    /\ jobs' = [jobs EXCEPT ![s].next = now + Period]
    /\ UNCHANGED <<now, rows, snapshot, proc, created, refused, passedOver, changes, faults>>

(* GoCronJob.Run compares the time with the last one of its job and then   *)
(* updates it, without a lock.                                             *)
Compared(f) ==
    (fires \ {f}) \cup
    (IF f.isOfJob /\ jobs[f.schedule].last < f.time THEN {[f EXCEPT !.step = "updates"]} ELSE {})

Execute(f) ==
    /\ f.step = "executes"
    /\ created' = created \cup {<<f.schedule, f.time>>}
    /\ fires' = Compared(f)
    /\ UNCHANGED <<now, rows, snapshot, proc, jobs, refused, passedOver, changes, faults>>

(* Not created after all retries, or not at all: Run goes on all the same. *)
ExecuteFails(f) ==
    /\ f.step = "executes" /\ faults > 0
    /\ faults' = faults - 1
    /\ refused' = refused \cup {<<f.schedule, f.time>>}
    /\ fires' = Compared(f)
    /\ UNCHANGED <<now, rows, snapshot, proc, jobs, created, passedOver, changes>>

UpdateLast(f) ==
    /\ f.step = "updates"
    /\ fires' = fires \ {f}
    /\ jobs' = IF f.isOfJob THEN [jobs EXCEPT ![f.schedule].last = f.time] ELSE jobs
    /\ UNCHANGED <<now, rows, snapshot, proc, created, refused, passedOver, changes, faults>>

---------------------------------------------------------------------------
(* The updater and the snapshot runner.                                    *)

Missing == {s \in Schedules : rows[s].active /\ ~jobs[s].isJob}
Removed == {s \in Schedules : ~rows[s].active /\ jobs[s].isJob}

(* UpdateSchedules.  What was due before a schedule is registered is not   *)
(* fired.                                                                  *)
Update ==
    /\ proc.phase # "down" /\ Missing \cup Removed # {}
    /\ jobs' = [s \in Schedules |->
                   IF s \in Missing THEN ScheduledJob(s, nil)
                   ELSE IF s \in Removed THEN NoJob ELSE jobs[s]]
    /\ fires' = {[f EXCEPT !.isOfJob = @ /\ f.schedule \notin Removed] : f \in fires}
    /\ passedOver' = passedOver \cup
           UNION {{s} \X CatchUpTimes(s, rows[s].updatedAt, now) : s \in Missing}
    /\ UNCHANGED <<now, rows, snapshot, proc, created, refused, changes, faults>>

MaySave == proc.phase # "down"  \* mutant: snapshots are saved from the start

(* Snapshots are saved once all schedules are caught up.                   *)
CanSave == proc.phase = "running"

(* CalculateSnapshot and Save: an empty snapshot is not saved.             *)
SaveSnapshot ==
    LET times == [s \in Schedules |-> IF jobs[s].isJob THEN jobs[s].last ELSE nil]
    IN  /\ CanSave
        /\ \E s \in Schedules : times[s] # nil
        /\ snapshot' = times
        /\ UNCHANGED <<now, rows, proc, jobs, fires, created, refused, passedOver, changes, faults>>

---------------------------------------------------------------------------
(* The end of a process, and time.                                         *)

(* What it was firing is fired again when it is next caught up, unless a   *)
(* later time was saved.                                                   *)
Overtaken ==
    {<<f.schedule, f.time>> : f \in {g \in fires : g.step = "executes" /\ g.time < snapshot[g.schedule]}}

Exit ==
    /\ proc.phase # "down" /\ faults > 0
    /\ faults' = faults - 1
    /\ proc' = Down
    /\ jobs' = [s \in Schedules |-> NoJob]
    /\ fires' = {}
    /\ passedOver' = passedOver \cup Overtaken
    /\ UNCHANGED <<now, rows, snapshot, created, refused, changes>>

Crash == Exit

(* An execution that catch-up cannot create ends the process.              *)
CatchUpFails == proc.times # {} /\ Exit

(* The library fires what is due before time goes on.                      *)
Tick ==
    /\ now < MaxTime
    /\ \A s \in Schedules : jobs[s].isJob => jobs[s].next > now
    /\ now' = now + 1
    /\ UNCHANGED <<rows, snapshot, proc, jobs, fires, created, refused, passedOver, changes, faults>>

EndOfTime == now = MaxTime /\ UNCHANGED vars

Manage(s) == Activate(s) \/ Deactivate(s)

Boots == Boot \/ BeginCatchUp \/ CatchUp \/ EndCatchUp \/ \E s \in Schedules : CatchUpSchedule(s)

Runs(f) == Execute(f) \/ UpdateLast(f)

Next ==
    \/ \E s \in Schedules : Manage(s) \/ Fire(s)
    \/ Boots \/ CatchUpSkips \/ CatchUpFails
    \/ \E f \in fires : Runs(f) \/ ExecuteFails(f)
    \/ Update \/ SaveSnapshot \/ Crash \/ Tick \/ EndOfTime

Spec == Init /\ [][Next]_vars

(* The process is restarted, catches up, fires what is due and reads the   *)
(* rows every 30 seconds; a fire is retried until admin answers.           *)
FairSpec ==
    /\ Spec
    /\ WF_vars(Boots) /\ WF_vars(Update) /\ WF_vars(Tick)
    /\ \A s \in Schedules : WF_vars(Fire(s))
    /\ WF_vars(\E f \in fires : Runs(f))

---------------------------------------------------------------------------
(* Properties.                                                             *)

IsCron(s) == ~rows[s].isRate
Owed(s, to) == CatchUpTimes(s, rows[s].updatedAt, to)
InFlight(s, t) == \E f \in fires : f.schedule = s /\ f.time = t /\ f.step = "executes"
Settled(s, t) == <<s, t>> \in created \cup refused \cup passedOver

(* Nothing at or before the last execution time that is saved will be      *)
(* caught up again: since the schedule was activated, all of it has been   *)
(* executed, is being fired, or is one of the losses the scheduler has: a  *)
(* fire that failed, was overtaken by a later one before a crash, or was   *)
(* due before the updater registered the schedule.                         *)
WatermarkIsHonest ==
    \A s \in Schedules : IsCron(s) /\ rows[s].active =>
        \A t \in Owed(s, snapshot[s]) : Settled(s, t) \/ InFlight(s, t)

(* Catch-up leaves no gap between the times it executes and those the      *)
(* library fires.                                                          *)
NoGapAfterCatchUp ==
    proc.phase = "running" =>
        \A s \in Schedules : IsCron(s) /\ rows[s].active /\ jobs[s].isJob =>
            \A t \in Owed(s, now) : Settled(s, t) \/ InFlight(s, t) \/ jobs[s].next = t

(* Catch-up executes nothing of the time before the last activation, also  *)
(* when the snapshot is older, except of a row that changed since the      *)
(* process read it.                                                        *)
NothingBeforeActivation ==
    [][\A s \in Schedules, t \in Times :
          <<s, t>> \in created' \ created /\ fires' = fires =>
              t > rows[s].updatedAt \/ rows[s].updatedAt >= proc.readAt]_vars

(* Every time of an active schedule is executed in the end, whatever       *)
(* restarts there are, or is one of the losses.                            *)
ScheduledTimesAreExecuted ==
    \A s \in Schedules : IsCron(s) => \A t \in Times :
        (rows[s].active /\ t \in Owed(s, now)) ~> (Settled(s, t) \/ ~rows[s].active \/ t \notin Owed(s, now))

(* What the documentation says of the snapshot: it is used to schedule any *)
(* missed schedules.  After catch-up, no time until then is missing but    *)
(* those that admin refused.                                               *)
MissedAreCaughtUp ==
    proc.phase = "running" =>
        \A s \in Schedules : IsCron(s) /\ rows[s].active =>
            \A t \in Owed(s, proc.until) : <<s, t>> \in created \cup refused \/ InFlight(s, t)
=============================================================================
