-------------------------- MODULE SituationReports --------------------------
(***************************************************************************)
(* The daily situation reports of situation.go.  A task owned by a user    *)
(* gets one report row per calendar day.  A run of                         *)
(* generateSituationReport is a goroutine: it claims its task in the       *)
(* in-memory map situationRun, marks the day's row 'running', works for    *)
(* minutes with the language model and the web search, and then stores     *)
(* its result in separate short database sections, each under dbMutex.     *)
(* Runs are started by the scheduler's ticker and by the user; the user    *)
(* edits, pauses and deletes tasks meanwhile; the process may stop at any  *)
(* step, after which recoverStaleSituationReports runs at startup.         *)
(*                                                                         *)
(* Time is counted in units of a quarter of an hour or coarser; a day has  *)
(* HoursPerDay * UnitsPerHour units.  Reports are dated by the UTC day,    *)
(* the hour a task is due at is compared with the local hour.              *)
(***************************************************************************)
EXTENDS Integers, FiniteSets

CONSTANTS
  Tasks,              \* ids of situation tasks
  Runs,               \* goroutines; generateID() gives each a report id, the run itself
  None,               \* no run, no task, and the id of a row that does not exist
  HoursPerDay, UnitsPerHour, LocalOffset,  \* the clock and the time zone, in units
  MaxNow,             \* bound on the clock
  MaxEdits,           \* bound on concurrent update requests
  SchedulerInterval,  \* situationSchedulerPeriodic(30 * time.Minute)
  StaleAge,           \* 15 minutes: a 'running' row older than this is abandoned
  RetryAge,           \* 30 minutes: a 'failed' row is left alone for this long
  MaxAttempts         \* situationMaxAttempts

ASSUME ClockAssumption ==
  /\ HoursPerDay \in Nat \ {0}
  /\ UnitsPerHour \in Nat \ {0}
  /\ LocalOffset \in Nat
  /\ MaxNow \in Nat
  /\ MaxEdits \in Nat
  /\ SchedulerInterval \in Nat \ {0}
ASSUME LimitAssumption ==
  /\ StaleAge \in Nat
  /\ RetryAge \in Nat
  /\ MaxAttempts \in Nat \ {0}
ASSUME NoneAssumption == None \notin Runs \cup Tasks

VARIABLES
  now,           \* time.Now(), in units
  day,           \* time.Now().UTC().Format("2006-01-02")
  tasks,         \* table situation_tasks
  rows,          \* table situation_reports, by task and date
  situationRun,  \* the in-memory map of tasks being generated
  run,           \* the goroutines
  sched,         \* the scheduler: tasks of the current tick still to be looked at
  lastTick,      \* when the ticker last fired
  edits          \* update requests between their read and their write

vars == <<now, day, tasks, rows, situationRun, run, sched, lastTick, edits>>

NoDay == -1
DayLength == HoursPerDay * UnitsPerHour
Days == 0..MaxNow       \* a day is at least one unit long
Hours == 0..(HoursPerDay - 1)
LocalHour == ((now + LocalOffset) \div UnitsPerHour) % HoursPerDay

NoRow == [id |-> None, status |-> "none", attempts |-> 0,
          updated |-> 0, author |-> None]
Exists(row) == row.id # None

\* Between the claim and the deferred release.
Claimed == {"claimed", "opened", "working", "bump", "store", "close", "release"}
\* ... and after the date of the report has been read.
Dated == Claimed \ {"claimed", "release"}

-----------------------------------------------------------------------------
Init ==
  /\ now = 0
  /\ day = 0
  /\ tasks = [t \in Tasks |-> [created |-> FALSE, enabled |-> FALSE, deleted |-> FALSE,
                               hour |-> 0, lastRun |-> NoDay]]
  /\ rows = [t \in Tasks |-> [d \in Days |-> NoRow]]
  /\ situationRun = {}
  /\ run = [r \in Runs |-> [pc |-> "idle", task |-> None, today |-> NoDay,
                            found |-> FALSE, failed |-> FALSE]]
  /\ sched = [today |-> 0, hour |-> 0, pending |-> {}]
  /\ lastTick = 0
  /\ edits = {}

-----------------------------------------------------------------------------
(* Time, the process and the user.                                         *)

Tick ==
  /\ now < MaxNow
  /\ now' = now + 1
  /\ day' = IF (now + 1) % DayLength = 0 THEN day + 1 ELSE day
  /\ UNCHANGED <<tasks, rows, situationRun, run, sched, lastTick, edits>>

CreateTask(t, h) ==
  /\ ~tasks[t].created
  /\ tasks' = [tasks EXCEPT ![t].created = TRUE, ![t].enabled = TRUE, ![t].hour = h]
  /\ UNCHANGED <<now, day, rows, situationRun, run, sched, lastTick, edits>>

\* The PUT handler reads the task, overlays what the request carries and writes
\* the result later.  h and e are the hour and the flag it will write: new
\* values, or, for what the request does not carry, the ones it read.
ReadForUpdate(t, h, e) ==
  /\ tasks[t].created
  /\ Cardinality(edits) < MaxEdits
  /\ edits' = edits \cup {[task |-> t, hour |-> h, enabled |-> e, read |-> tasks[t]]}
  /\ UNCHANGED <<now, day, tasks, rows, situationRun, run, sched, lastTick>>

\* Fault: the write puts back what was read of the deletion, too.
WriteBackDeleted(task, u) ==
  [task EXCEPT !.enabled = u.enabled, !.hour = u.hour, !.deleted = u.read.deleted]

\* The columns updateSituationTask writes.
UpdatedTask(task, u) == [task EXCEPT !.enabled = u.enabled, !.hour = u.hour]

WriteUpdate(u) ==
  /\ edits' = edits \ {u}
  /\ tasks' = [tasks EXCEPT ![u.task] = UpdatedTask(@, u)]
  /\ UNCHANGED <<now, day, rows, situationRun, run, sched, lastTick>>

SetEnabled(t, e) ==
  /\ tasks[t].created
  /\ tasks' = [tasks EXCEPT ![t].enabled = e]
  /\ UNCHANGED <<now, day, rows, situationRun, run, sched, lastTick, edits>>

DeleteTask(t) ==
  /\ tasks[t].created
  /\ tasks' = [tasks EXCEPT ![t].deleted = TRUE]
  /\ UNCHANGED <<now, day, rows, situationRun, run, sched, lastTick, edits>>

Spawn(r, t) ==
  /\ run[r].pc = "idle"
  /\ run' = [run EXCEPT ![r].pc = "spawned", ![r].task = t]

Generate(r, t) ==
  /\ tasks[t].created /\ ~tasks[t].deleted
  /\ Spawn(r, t)
  /\ UNCHANGED <<now, day, tasks, rows, situationRun, sched, lastTick, edits>>

\* The process dies; at startup recoverStaleSituationReports runs before the
\* scheduler is started and before requests are served.  Its UPDATE may fail,
\* which is logged only.
RecoverStale(row) ==
  IF row.status = "running" THEN [row EXCEPT !.status = "failed"] ELSE row

Restart(recovered) ==
  /\ situationRun' = {}
  /\ run' = [r \in Runs |-> IF run[r].pc = "idle" THEN run[r] ELSE [run[r] EXCEPT !.pc = "done"]]
  /\ sched' = [sched EXCEPT !.pending = {}]
  /\ lastTick' = now
  /\ edits' = {}
  /\ rows' = IF recovered THEN [t \in Tasks |-> [d \in Days |-> RecoverStale(rows[t][d])]]
              ELSE rows
  /\ UNCHANGED <<now, day, tasks>>

-----------------------------------------------------------------------------
(* The scheduler: a tick reads the clock and the enabled tasks once, then  *)
(* looks at one task after the other with what it read.                    *)

SchedulerTick ==
  /\ sched.pending = {}
  /\ now - lastTick >= SchedulerInterval
  /\ lastTick' = now
  /\ sched' = [today |-> day, hour |-> LocalHour,
               pending |-> {[task |-> t, lastRun |-> tasks[t].lastRun, hour |-> tasks[t].hour] :
                              t \in {u \in Tasks : /\ tasks[u].created
                                                   /\ tasks[u].enabled
                                                   /\ ~tasks[u].deleted}}]
  /\ UNCHANGED <<now, day, tasks, rows, situationRun, run, edits>>

\* The list of the enabled tasks cannot be read: nothing is looked at.
SchedulerTickFails ==
  /\ sched.pending = {}
  /\ now - lastTick >= SchedulerInterval
  /\ lastTick' = now
  /\ UNCHANGED <<now, day, tasks, rows, situationRun, run, sched, edits>>

\* situationTaskDue, on the task as the tick read it and the row of the day; a
\* row that cannot be read counts as none.
TaskDue(s, row) ==
  LET age == now - row.updated
  IN  IF s.lastRun # sched.today \/ ~Exists(row)
      THEN sched.hour >= s.hour
      ELSE /\ row.status # "completed"
           /\ ~(row.status = "running" /\ age < StaleAge)
           /\ ~(row.status = "failed" /\ age < RetryAge)

Dispatch(s, row, r) ==
  /\ sched' = [sched EXCEPT !.pending = @ \ {s}]
  /\ TaskDue(s, row)
  /\ Spawn(r, s.task)
  /\ UNCHANGED <<now, day, tasks, rows, situationRun, lastTick, edits>>

Skip(s, row) ==
  /\ sched' = [sched EXCEPT !.pending = @ \ {s}]
  /\ ~TaskDue(s, row)
  /\ UNCHANGED <<now, day, tasks, rows, situationRun, run, lastTick, edits>>

-----------------------------------------------------------------------------
(* One run of generateSituationReport.                                     *)

\* Fault: the map is written without being read first.
AlwaysFree(t) == TRUE

Free(t) == t \notin situationRun

Claim(r) ==
  /\ run[r].pc = "spawned"
  /\ IF Free(run[r].task)
     THEN /\ situationRun' = situationRun \cup {run[r].task}
          /\ run' = [run EXCEPT ![r].pc = "claimed"]
     ELSE /\ run' = [run EXCEPT ![r].pc = "done"]
          /\ UNCHANGED situationRun
  /\ UNCHANGED <<now, day, tasks, rows, sched, lastTick, edits>>

\* Reads the date and the day's row; a recent 'running' row ends the run.
OpenAt(r, row) ==
  /\ run[r].pc = "claimed"
  /\ run' = [run EXCEPT ![r].today = day,
                        ![r].pc = IF row.status = "running" /\ now - row.updated < StaleAge
                                  THEN "release" ELSE "opened"]
  /\ UNCHANGED <<now, day, tasks, rows, situationRun, sched, lastTick, edits>>

Open(r) == OpenAt(r, rows[run[r].task][day])

\* The error of the read is not looked at: the run goes on as if there were no row.
OpenUnread(r) == OpenAt(r, NoRow)

\* INSERT ... ON CONFLICT(task_id, date) DO UPDATE: the first row of the day
\* keeps its id and its attempts.
UpsertedRow(row, r) ==
  [row EXCEPT !.id = IF Exists(row) THEN @ ELSE r, !.status = "running",
              !.updated = now, !.author = None]

MarkRunning(r) ==
  /\ run[r].pc = "opened"
  /\ rows' = [rows EXCEPT ![run[r].task][run[r].today] = UpsertedRow(@, r)]
  /\ run' = [run EXCEPT ![r].pc = "working"]
  /\ UNCHANGED <<now, day, tasks, situationRun, sched, lastTick, edits>>

\* Fault: the early return is taken without the release.
MarkRunningLeaks(r) ==
  /\ run[r].pc = "opened"
  /\ run' = [run EXCEPT ![r].pc = "done"]
  /\ UNCHANGED <<now, day, tasks, rows, situationRun, sched, lastTick, edits>>

MarkRunningFails(r) ==
  /\ run[r].pc = "opened"
  /\ run' = [run EXCEPT ![r].pc = "release"]
  /\ UNCHANGED <<now, day, tasks, rows, situationRun, sched, lastTick, edits>>

\* The gathering rounds and the composition: found web results or none, and
\* failed when a call to the language model failed.
Compose(r, found, failed) ==
  /\ run[r].pc = "working"
  /\ run' = [run EXCEPT ![r].found = found, ![r].failed = failed,
                        ![r].pc = IF found \/ failed THEN "store" ELSE "bump"]
  /\ UNCHANGED <<now, day, tasks, rows, situationRun, sched, lastTick, edits>>

\* Fault: an empty run is never retried.
NeverRetry(attempts) == FALSE

Retry(attempts) == attempts < MaxAttempts

BumpedRow(row) == [row EXCEPT !.attempts = @ + 1]

BumpAttempts(r) ==
  /\ run[r].pc = "bump"
  /\ rows' = [rows EXCEPT ![run[r].task][run[r].today] = BumpedRow(@)]
  /\ run' = [run EXCEPT ![r].pc = "store",
                        ![r].failed = Retry(rows[run[r].task][run[r].today].attempts + 1)]
  /\ UNCHANGED <<now, day, tasks, situationRun, sched, lastTick, edits>>

\* The UPDATE or the SELECT after it fails: the run goes on with a count of 0.
BumpFails(r) ==
  /\ run[r].pc = "bump"
  /\ run' = [run EXCEPT ![r].pc = "store", ![r].failed = Retry(0)]
  /\ UNCHANGED <<now, day, tasks, rows, situationRun, sched, lastTick, edits>>

BumpUnread(r) ==
  /\ run[r].pc = "bump"
  /\ rows' = [rows EXCEPT ![run[r].task][run[r].today] = BumpedRow(@)]
  /\ run' = [run EXCEPT ![r].pc = "store", ![r].failed = Retry(0)]
  /\ UNCHANGED <<now, day, tasks, situationRun, sched, lastTick, edits>>

\* UPDATE ... WHERE id = ?: no row of that id, nothing is stored.
StoredRow(row, r) ==
  IF row.id = r
  THEN [row EXCEPT !.status = IF run[r].failed THEN "failed" ELSE "completed",
                   !.updated = now, !.author = r]
  ELSE row

StoreResult(r) ==
  /\ run[r].pc = "store"
  /\ rows' = [rows EXCEPT ![run[r].task][run[r].today] = StoredRow(@, r)]
  /\ run' = [run EXCEPT ![r].pc = IF run[r].failed THEN "release" ELSE "close"]
  /\ UNCHANGED <<now, day, tasks, situationRun, sched, lastTick, edits>>

\* A failed UPDATE is logged and the run goes on.
StoreFails(r) ==
  /\ run[r].pc = "store"
  /\ run' = [run EXCEPT ![r].pc = IF run[r].failed THEN "release" ELSE "close"]
  /\ UNCHANGED <<now, day, tasks, rows, situationRun, sched, lastTick, edits>>

\* updateSituationTaskLastRun.
CloseDay(r) ==
  /\ run[r].pc = "close"
  /\ tasks' = [tasks EXCEPT ![run[r].task].lastRun = run[r].today]
  /\ run' = [run EXCEPT ![r].pc = "release"]
  /\ UNCHANGED <<now, day, rows, situationRun, sched, lastTick, edits>>

\* Its error is ignored: the day stays open.
CloseDayFails(r) ==
  /\ run[r].pc = "close"
  /\ run' = [run EXCEPT ![r].pc = "release"]
  /\ UNCHANGED <<now, day, tasks, rows, situationRun, sched, lastTick, edits>>

\* The deferred delete.
Release(r) ==
  /\ run[r].pc = "release"
  /\ situationRun' = situationRun \ {run[r].task}
  /\ run' = [run EXCEPT ![r].pc = "done"]
  /\ UNCHANGED <<now, day, tasks, rows, sched, lastTick, edits>>

RunStep(r) ==
  \/ Claim(r)
  \/ Open(r)
  \/ MarkRunning(r)
  \/ \E found, failed \in BOOLEAN : Compose(r, found, failed)
  \/ BumpAttempts(r)
  \/ StoreResult(r)
  \/ CloseDay(r)
  \/ Release(r)

RunFault(r) ==
  \/ OpenUnread(r)
  \/ MarkRunningFails(r)
  \/ BumpFails(r)
  \/ BumpUnread(r)
  \/ StoreFails(r)
  \/ CloseDayFails(r)

DayRow(s) == rows[s.task][sched.today]

LooksAt(s, row) == Skip(s, row) \/ \E r \in Runs : Dispatch(s, row, r)

SchedulerStep ==
  \/ SchedulerTick
  \/ SchedulerTickFails
  \/ \E s \in sched.pending : \E row \in {DayRow(s), NoRow} : LooksAt(s, row)

UserStep ==
  \/ \E t \in Tasks :
       \/ \E h \in Hours : CreateTask(t, h)
       \/ \E h \in Hours, e \in BOOLEAN : ReadForUpdate(t, h, e)
       \/ \E e \in BOOLEAN : SetEnabled(t, e)
       \/ DeleteTask(t)
       \/ \E r \in Runs : Generate(r, t)
  \/ \E u \in edits : WriteUpdate(u)

Next ==
  \/ Tick
  \/ \E recovered \in BOOLEAN : Restart(recovered)
  \/ UserStep
  \/ SchedulerStep
  \/ \E r \in Runs : RunStep(r) \/ RunFault(r)

Spec == Init /\ [][Next]_vars

\* Every call a run makes is bounded by a timeout, and its sections of dbMutex
\* are short: a run that has started takes its next step.
FairSpec == Spec /\ \A r \in Runs : WF_vars(RunStep(r))

\* Nothing goes wrong and nobody interferes: no restart, no database error,
\* no request but the creation of tasks.
QuietNext ==
  \/ Tick
  \/ \E t \in Tasks, h \in Hours : CreateTask(t, h)
  \/ SchedulerTick
  \/ \E s \in sched.pending : LooksAt(s, DayRow(s))
  \/ \E r \in Runs : RunStep(r)

QuietSpec == Init /\ [][QuietNext]_vars

-----------------------------------------------------------------------------
(* Properties.                                                             *)

RowType == [id : Runs \cup {None}, status : {"none", "running", "failed", "completed"},
            attempts : Nat, updated : 0..MaxNow, author : Runs \cup {None}]
TaskType == [created : BOOLEAN, enabled : BOOLEAN, deleted : BOOLEAN,
             hour : Hours, lastRun : Days \cup {NoDay}]
RunType == [pc : {"idle", "spawned", "done"} \cup Claimed, task : Tasks \cup {None},
            today : Days \cup {NoDay}, found : BOOLEAN, failed : BOOLEAN]
DueType == [task : Tasks, lastRun : Days \cup {NoDay}, hour : Hours]
EditType == [task : Tasks, hour : Hours, enabled : BOOLEAN, read : TaskType]

\* The type of every variable.
TypeOK ==
  /\ now \in 0..MaxNow /\ lastTick \in 0..MaxNow
  /\ day \in 0..now
  /\ tasks \in [Tasks -> TaskType]
  /\ rows \in [Tasks -> [Days -> RowType]]
  /\ situationRun \subseteq Tasks
  /\ run \in [Runs -> RunType]
  /\ sched \in [today : Days, hour : Hours, pending : SUBSET DueType]
  /\ edits \subseteq EditType

IsClaimed(r) == run[r].pc \in Claimed

\* The map and the goroutines agree: a task is in situationRun exactly when one
\* run holds it, and never two (generateSituationReport's claim and its
\* deferred release, over every way a run can end).
ClaimExclusive ==
  /\ \A r \in Runs : IsClaimed(r) => run[r].task \in situationRun
  /\ \A t \in situationRun : \E r \in Runs : IsClaimed(r) /\ run[r].task = t
  /\ \A r, s \in Runs : IsClaimed(r) /\ IsClaimed(s) /\ run[r].task = run[s].task => r = s

\* While a run works, the row it marked stays 'running' and empty: neither
\* another run nor the recovery at startup writes it under the run.
LiveRunOwnsRow ==
  \A r \in Runs : run[r].pc \in {"working", "bump", "store"} =>
    LET row == rows[run[r].task][run[r].today]
    IN  row.status = "running" /\ row.author = None

\* A task's day is closed by last_run_date only after a run that found web
\* results, or once MaxAttempts runs of that day came back empty.
DayClosedForAReason ==
  \A t \in Tasks : LET d == tasks[t].lastRun IN d # NoDay =>
    \/ rows[t][d].attempts >= MaxAttempts
    \/ \E r \in Runs : /\ run[r].task = t /\ run[r].today = d
                       /\ run[r].found /\ ~run[r].failed

\* last_run_date never goes back to an earlier day, although runs cross
\* midnight, outlive their date and race updates of the same task.
LastRunNeverGoesBack ==
  [][\A t \in Tasks : tasks[t].lastRun <= tasks'[t].lastRun]_tasks

\* A deleted task stays deleted: an update that read it before the deletion
\* does not bring it back.
DeletedStaysDeleted ==
  [][\A t \in Tasks : tasks[t].deleted => tasks'[t].deleted]_tasks

\* Every run that starts ends, and so a task is not left claimed for ever.
RunsEnd == \A t \in Tasks : t \in situationRun ~> t \notin situationRun

\* The run that closes a day has stored its report.  README.md:14 has a report
\* without results retried later the same day, so the retry's report is kept.
ClosingRunHasStored ==
  \A r \in Runs : run[r].pc = "close" =>
    rows[run[r].task][run[r].today].status = "completed"

-----------------------------------------------------------------------------
(* The inductive invariant behind the theorems.                            *)

\* Runs that hold or have held a claim belong to a task; a date is read after
\* the claim and is never in the future.
RunsWellFormed ==
  /\ \A r \in Runs : run[r].pc # "idle" => run[r].task \in Tasks
  /\ \A r \in Runs : run[r].pc \in Dated => run[r].today \in 0..day

\* No task has a last run after today, nor after the date of the run that is
\* generating for it.
LastRunBound ==
  /\ \A t \in Tasks : tasks[t].lastRun <= day
  /\ \A r \in Runs : run[r].pc \in Dated => tasks[run[r].task].lastRun <= run[r].today

IInv == TypeOK /\ RunsWellFormed /\ ClaimExclusive /\ LiveRunOwnsRow /\ LastRunBound
=============================================================================
