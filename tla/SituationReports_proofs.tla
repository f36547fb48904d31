---------------------- MODULE SituationReports_proofs ----------------------
(***************************************************************************)
(* Proofs about SituationReports for every set of tasks and runs and every *)
(* bound.  IInv is inductive: exclusive claims (ClaimExclusive) are what   *)
(* keeps a second run away from the row and from last_run_date of the      *)
(* first, so LiveRunOwnsRow and LastRunBound are only inductive together   *)
(* with it.                                                                *)
(***************************************************************************)
EXTENDS SituationReports, TLAPS

USE ClockAssumption, LimitAssumption, NoneAssumption

\* The process dies and starts again, with or without the recovery of its rows.
Restarts == \E recovered \in BOOLEAN : Restart(recovered)

LEMMA HourInHours == TypeOK => LocalHour \in Hours
BY SMT DEF TypeOK, LocalHour, Hours

LEMMA InitIInv == Init => IInv
<1> SUFFICES ASSUME Init PROVE IInv
  OBVIOUS
<1>1. TypeOK
  BY DEF Init, TypeOK, TaskType, RowType, RunType, NoRow, Days, Hours, NoDay, Claimed
<1>2. RunsWellFormed /\ ClaimExclusive /\ LiveRunOwnsRow
  BY DEF Init, RunsWellFormed, ClaimExclusive, LiveRunOwnsRow, IsClaimed, Claimed, Dated
<1>3. LastRunBound
  BY DEF Init, LastRunBound, Claimed, Dated, NoDay
<1> QED
  BY <1>1, <1>2, <1>3 DEF IInv

(***************************************************************************)
(* What the steps write has the right type.                                *)
(***************************************************************************)
LEMMA SpawnType ==
  ASSUME run \in [Runs -> RunType], NEW r \in Runs, NEW t \in Tasks, Spawn(r, t)
  PROVE  run' \in [Runs -> RunType]
BY DEF Spawn, RunType

LEMMA RunAtType ==
  ASSUME run \in [Runs -> RunType], NEW r \in Runs,
         NEW p \in {"idle", "spawned", "done"} \cup Claimed,
         run' = [run EXCEPT ![r].pc = p]
  PROVE  run' \in [Runs -> RunType]
BY DEF RunType

LEMMA RecoverType ==
  ASSUME NEW row \in RowType PROVE RecoverStale(row) \in RowType
BY DEF RowType, RecoverStale

LEMMA UpsertType ==
  ASSUME NEW row \in RowType, NEW r \in Runs, now \in 0..MaxNow
  PROVE  UpsertedRow(row, r) \in RowType
BY DEF RowType, UpsertedRow

LEMMA StoredType ==
  ASSUME NEW row \in RowType, NEW r \in Runs, now \in 0..MaxNow
  PROVE  StoredRow(row, r) \in RowType
BY DEF RowType, StoredRow

LEMMA BumpedType ==
  ASSUME NEW row \in RowType PROVE BumpedRow(row) \in RowType
BY DEF RowType, BumpedRow

LEMMA RetryType == \A n \in Nat : Retry(n) \in BOOLEAN
BY DEF Retry

LEMMA RunFailedType ==
  ASSUME run \in [Runs -> RunType], NEW r \in Runs, NEW b \in BOOLEAN,
         run' = [run EXCEPT ![r].pc = "store", ![r].failed = b]
  PROVE  run' \in [Runs -> RunType]
BY DEF RunType, Claimed

LEMMA TaskUpdateType ==
  ASSUME NEW task \in TaskType, NEW u \in EditType
  PROVE  UpdatedTask(task, u) \in TaskType
BY DEF TaskType, EditType, UpdatedTask

LEMMA TaskCreatedType ==
  ASSUME tasks \in [Tasks -> TaskType], NEW t \in Tasks, NEW h \in Hours,
         tasks' = [tasks EXCEPT ![t].created = TRUE, ![t].enabled = TRUE, ![t].hour = h]
  PROVE  tasks' \in [Tasks -> TaskType]
<1> DEFINE new == [tasks[t] EXCEPT !.created = TRUE, !.enabled = TRUE, !.hour = h]
<1>1. new \in TaskType
  BY DEF TaskType
<1>2. tasks' = [tasks EXCEPT ![t] = new]
  OBVIOUS
<1> HIDE DEF new
<1> QED
  BY <1>1, <1>2

LEMMA TaskEnabledType ==
  ASSUME tasks \in [Tasks -> TaskType], NEW t \in Tasks, NEW e \in BOOLEAN,
         tasks' = [tasks EXCEPT ![t].enabled = e]
  PROVE  tasks' \in [Tasks -> TaskType]
BY DEF TaskType

LEMMA TaskDeletedType ==
  ASSUME tasks \in [Tasks -> TaskType], NEW t \in Tasks,
         tasks' = [tasks EXCEPT ![t].deleted = TRUE]
  PROVE  tasks' \in [Tasks -> TaskType]
BY DEF TaskType

LEMMA TaskClosedType ==
  ASSUME tasks \in [Tasks -> TaskType], NEW t \in Tasks, NEW d \in Days,
         tasks' = [tasks EXCEPT ![t].lastRun = d]
  PROVE  tasks' \in [Tasks -> TaskType]
<1> DEFINE new == [tasks[t] EXCEPT !.lastRun = d]
<1>1. new \in TaskType
  BY DEF TaskType
<1>2. tasks' = [tasks EXCEPT ![t] = new]
  OBVIOUS
<1> HIDE DEF new
<1> QED
  BY <1>1, <1>2

\* A run that has read its date works on a row of the table.
LEMMA DatedRow ==
  ASSUME TypeOK, RunsWellFormed, NEW r \in Runs, run[r].pc \in Dated
  PROVE  /\ run[r].task \in Tasks /\ run[r].today \in Days
         /\ rows[run[r].task][run[r].today] \in RowType
<1>1. run[r].task \in Tasks /\ run[r].today \in Days
  BY DEF TypeOK, RunsWellFormed, Dated, Claimed, Days
<1> QED
  BY <1>1 DEF TypeOK

(***************************************************************************)
(* Type correctness, action by action.                                     *)
(***************************************************************************)
LEMMA TypeStep == TypeOK /\ RunsWellFormed /\ [Next]_vars => TypeOK'
<1> SUFFICES ASSUME TypeOK, RunsWellFormed, [Next]_vars PROVE TypeOK'
  OBVIOUS
<1>a. /\ now \in 0..MaxNow /\ lastTick \in 0..MaxNow /\ day \in 0..now /\ day \in Days
      /\ tasks \in [Tasks -> TaskType]
      /\ rows \in [Tasks -> [Days -> RowType]]
      /\ run \in [Runs -> RunType]
      /\ sched \in [today : Days, hour : Hours, pending : SUBSET DueType]
      /\ situationRun \subseteq Tasks /\ edits \subseteq EditType
  BY DEF TypeOK, Days
<1>b. LocalHour \in Hours
  BY HourInHours
<1>1. CASE Tick
  BY <1>1 DEF Tick, TypeOK
<1>2. CASE Restarts
  <2>4. run' = [r \in Runs |-> IF run[r].pc = "idle" THEN run[r] ELSE [run[r] EXCEPT !.pc = "done"]]
    BY <1>2 DEF Restarts, Restart
  <2>1. run' \in [Runs -> RunType]
    BY <2>4, <1>a DEF RunType
  <2>2. rows' \in [Tasks -> [Days -> RowType]]
    BY <1>2, <1>a, RecoverType DEF Restarts, Restart
  <2>3. sched' \in [today : Days, hour : Hours, pending : SUBSET DueType]
    BY <1>2, <1>a DEF Restarts, Restart
  <2> QED
    BY <1>2, <1>a, <2>1, <2>2, <2>3 DEF Restarts, Restart, TypeOK
<1>3. ASSUME NEW t \in Tasks, NEW h \in Hours, CreateTask(t, h) PROVE TypeOK'
  <2>1. tasks' \in [Tasks -> TaskType]
    BY <1>3, <1>a, TaskCreatedType DEF CreateTask
  <2> QED
    BY <1>3, <1>a, <2>1 DEF CreateTask, TypeOK
<1>4. ASSUME NEW t \in Tasks, NEW h \in Hours, NEW e \in BOOLEAN, ReadForUpdate(t, h, e)
      PROVE TypeOK'
  <2>1. tasks[t] \in TaskType
    BY <1>a
  <2>2. edits' \subseteq EditType
    BY <1>4, <1>a, <2>1 DEF ReadForUpdate, EditType
  <2> QED
    BY <1>4, <1>a, <2>2 DEF ReadForUpdate, TypeOK
<1>5. ASSUME NEW t \in Tasks, NEW e \in BOOLEAN, SetEnabled(t, e) PROVE TypeOK'
  <2>1. tasks' \in [Tasks -> TaskType]
    BY <1>5, <1>a, TaskEnabledType DEF SetEnabled
  <2> QED
    BY <1>5, <1>a, <2>1 DEF SetEnabled, TypeOK
<1>6. ASSUME NEW t \in Tasks, DeleteTask(t) PROVE TypeOK'
  <2>1. tasks' \in [Tasks -> TaskType]
    BY <1>6, <1>a, TaskDeletedType DEF DeleteTask
  <2> QED
    BY <1>6, <1>a, <2>1 DEF DeleteTask, TypeOK
<1>7. ASSUME NEW t \in Tasks, NEW r \in Runs, Generate(r, t) PROVE TypeOK'
  BY <1>7, <1>a, SpawnType DEF Generate, TypeOK
<1>8. ASSUME NEW u \in edits, WriteUpdate(u) PROVE TypeOK'
  <2>1. u \in EditType /\ u.task \in Tasks
    BY <1>a DEF EditType
  <2>2. tasks' \in [Tasks -> TaskType]
    BY <1>8, <1>a, <2>1, TaskUpdateType DEF WriteUpdate
  <2> QED
    BY <1>8, <1>a, <2>2 DEF WriteUpdate, TypeOK
<1>24. CASE SchedulerTickFails
  BY <1>24, <1>a DEF SchedulerTickFails, TypeOK
<1>9. CASE SchedulerTick
  <2>1. sched'.pending \subseteq DueType
    BY <1>9, <1>a DEF SchedulerTick, DueType, TaskType
  <2>2. sched' \in [today : Days, hour : Hours, pending : SUBSET DueType]
    BY <1>9, <1>a, <1>b, <2>1 DEF SchedulerTick
  <2> QED
    BY <1>9, <1>a, <2>2 DEF SchedulerTick, TypeOK
<1>10. ASSUME NEW s \in sched.pending, NEW row, Skip(s, row) PROVE TypeOK'
  <2>1. sched' \in [today : Days, hour : Hours, pending : SUBSET DueType]
    BY <1>10, <1>a DEF Skip
  <2> QED
    BY <1>10, <1>a, <2>1 DEF Skip, TypeOK
<1>11. ASSUME NEW s \in sched.pending, NEW row, NEW r \in Runs, Dispatch(s, row, r) PROVE TypeOK'
  <2>1. sched' \in [today : Days, hour : Hours, pending : SUBSET DueType]
    BY <1>11, <1>a DEF Dispatch
  <2>2. s \in DueType /\ s.task \in Tasks
    BY <1>a DEF DueType
  <2>3. run' \in [Runs -> RunType]
    BY <1>11, <1>a, <2>2, SpawnType DEF Dispatch
  <2> QED
    BY <1>11, <1>a, <2>1, <2>3 DEF Dispatch, TypeOK
<1>12. ASSUME NEW r \in Runs, Claim(r) PROVE TypeOK'
  <2>1. run' \in [Runs -> RunType]
    BY <1>12, <1>a, RunAtType DEF Claim, Claimed
  <2>2. situationRun' \subseteq Tasks
    BY <1>12, <1>a DEF Claim, RunsWellFormed
  <2> QED
    BY <1>12, <1>a, <2>1, <2>2 DEF Claim, TypeOK
<1>13. ASSUME NEW r \in Runs, Open(r) \/ OpenUnread(r) PROVE TypeOK'
  <2>1. PICK row : OpenAt(r, row)
    BY <1>13 DEF Open, OpenUnread
  <2>2. run' \in [Runs -> RunType]
    BY <2>1, <1>a DEF OpenAt, RunType, Claimed
  <2> QED
    BY <2>1, <1>a, <2>2 DEF OpenAt, TypeOK
<1>14. ASSUME NEW r \in Runs, MarkRunning(r) PROVE TypeOK'
  <2>1. /\ run[r].task \in Tasks /\ run[r].today \in Days
        /\ rows[run[r].task][run[r].today] \in RowType
    BY <1>14, DatedRow DEF MarkRunning, Dated, Claimed
  <2>2. UpsertedRow(rows[run[r].task][run[r].today], r) \in RowType
    BY <1>a, <2>1, UpsertType
  <2>3. rows' \in [Tasks -> [Days -> RowType]]
    BY <1>14, <1>a, <2>1, <2>2 DEF MarkRunning
  <2>4. run' \in [Runs -> RunType]
    BY <1>14, <1>a, RunAtType DEF MarkRunning, Claimed
  <2> QED
    BY <1>14, <1>a, <2>3, <2>4 DEF MarkRunning, TypeOK
<1>15. ASSUME NEW r \in Runs, MarkRunningFails(r) PROVE TypeOK'
  <2>1. run' \in [Runs -> RunType]
    BY <1>15, <1>a, RunAtType DEF MarkRunningFails, Claimed
  <2> QED
    BY <1>15, <1>a, <2>1 DEF MarkRunningFails, TypeOK
<1>16. ASSUME NEW r \in Runs, NEW found \in BOOLEAN, NEW failed \in BOOLEAN,
              Compose(r, found, failed)
       PROVE TypeOK'
  <2>1. run' \in [Runs -> RunType]
    BY <1>16, <1>a DEF Compose, RunType, Claimed
  <2> QED
    BY <1>16, <1>a, <2>1 DEF Compose, TypeOK
<1>17. ASSUME NEW r \in Runs, BumpAttempts(r) PROVE TypeOK'
  <2>1. /\ run[r].task \in Tasks /\ run[r].today \in Days
        /\ rows[run[r].task][run[r].today] \in RowType
    BY <1>17, DatedRow DEF BumpAttempts, Dated, Claimed
  <2>2. rows' \in [Tasks -> [Days -> RowType]]
    BY <1>17, <1>a, <2>1, BumpedType DEF BumpAttempts
  <2>3. Retry(rows[run[r].task][run[r].today].attempts + 1) \in BOOLEAN
    BY <2>1, RetryType DEF RowType
  <2>4. run' \in [Runs -> RunType]
    BY <1>17, <1>a, <2>3, RunFailedType DEF BumpAttempts
  <2> QED
    BY <1>17, <1>a, <2>2, <2>4 DEF BumpAttempts, TypeOK
<1>18. ASSUME NEW r \in Runs, BumpFails(r) PROVE TypeOK'
  <2> Retry(0) \in BOOLEAN
    BY RetryType
  <2>1. run' \in [Runs -> RunType]
    BY <1>18, <1>a, RunFailedType DEF BumpFails
  <2> QED
    BY <1>18, <1>a, <2>1 DEF BumpFails, TypeOK
<1>25. ASSUME NEW r \in Runs, BumpUnread(r) PROVE TypeOK'
  <2>1. /\ run[r].task \in Tasks /\ run[r].today \in Days
        /\ rows[run[r].task][run[r].today] \in RowType
    BY <1>25, DatedRow DEF BumpUnread, Dated, Claimed
  <2>2. rows' \in [Tasks -> [Days -> RowType]]
    BY <1>25, <1>a, <2>1, BumpedType DEF BumpUnread
  <2>3. Retry(0) \in BOOLEAN
    BY RetryType
  <2>4. run' \in [Runs -> RunType]
    BY <1>25, <1>a, <2>3, RunFailedType DEF BumpUnread
  <2> QED
    BY <1>25, <1>a, <2>2, <2>4 DEF BumpUnread, TypeOK
<1>26. ASSUME NEW r \in Runs, CloseDayFails(r) PROVE TypeOK'
  <2>1. run' \in [Runs -> RunType]
    BY <1>26, <1>a, RunAtType DEF CloseDayFails, Claimed
  <2> QED
    BY <1>26, <1>a, <2>1 DEF CloseDayFails, TypeOK
<1>19. ASSUME NEW r \in Runs, StoreResult(r) PROVE TypeOK'
  <2>1. /\ run[r].task \in Tasks /\ run[r].today \in Days
        /\ rows[run[r].task][run[r].today] \in RowType
    BY <1>19, DatedRow DEF StoreResult, Dated, Claimed
  <2>2. StoredRow(rows[run[r].task][run[r].today], r) \in RowType
    BY <1>a, <2>1, StoredType
  <2>3. rows' \in [Tasks -> [Days -> RowType]]
    BY <1>19, <1>a, <2>1, <2>2 DEF StoreResult
  <2>4. run' \in [Runs -> RunType]
    BY <1>19, <1>a, RunAtType DEF StoreResult, Claimed
  <2> QED
    BY <1>19, <1>a, <2>3, <2>4 DEF StoreResult, TypeOK
<1>23. ASSUME NEW r \in Runs, StoreFails(r) PROVE TypeOK'
  <2>1. run' \in [Runs -> RunType]
    BY <1>23, <1>a, RunAtType DEF StoreFails, Claimed
  <2> QED
    BY <1>23, <1>a, <2>1 DEF StoreFails, TypeOK
<1>20. ASSUME NEW r \in Runs, CloseDay(r) PROVE TypeOK'
  <2>1. /\ run[r].task \in Tasks /\ run[r].today \in Days
        /\ rows[run[r].task][run[r].today] \in RowType
    BY <1>20, DatedRow DEF CloseDay, Dated, Claimed
  <2>2. tasks' \in [Tasks -> TaskType]
    BY <1>20, <1>a, <2>1, TaskClosedType DEF CloseDay
  <2>3. run' \in [Runs -> RunType]
    BY <1>20, <1>a, RunAtType DEF CloseDay, Claimed
  <2> QED
    BY <1>20, <1>a, <2>2, <2>3 DEF CloseDay, TypeOK
<1>21. ASSUME NEW r \in Runs, Release(r) PROVE TypeOK'
  <2>1. run' \in [Runs -> RunType]
    BY <1>21, <1>a, RunAtType DEF Release
  <2> QED
    BY <1>21, <1>a, <2>1 DEF Release, TypeOK
<1>22. CASE UNCHANGED vars
  BY <1>22 DEF vars, TypeOK
<1> QED
  BY <1>1, <1>2, <1>3, <1>4, <1>5, <1>6, <1>7, <1>8, <1>9, <1>10, <1>11, <1>12, <1>13,
     <1>14, <1>15, <1>16, <1>17, <1>18, <1>19, <1>20, <1>21, <1>22, <1>23, <1>24, <1>25, <1>26
     DEF Next, Restarts, UserStep, SchedulerStep, LooksAt, RunStep, RunFault

(***************************************************************************)
(* The other parts of IInv.                                                *)
(***************************************************************************)
LEMMA QuietStep ==
  ASSUME IInv, UNCHANGED <<rows, situationRun, run>>, day' \in Nat, day <= day',
         \A t \in Tasks : tasks'[t].lastRun = tasks[t].lastRun
  PROVE  (RunsWellFormed /\ ClaimExclusive /\ LiveRunOwnsRow /\ LastRunBound)'
<1>1. day \in Nat /\ \A t \in Tasks : tasks[t].lastRun \in Int
  BY DEF IInv, TypeOK, TaskType, Days, NoDay
<1>2. RunsWellFormed'
  BY <1>1 DEF IInv, RunsWellFormed
<1>3. ClaimExclusive'
  BY DEF IInv, ClaimExclusive, IsClaimed
<1>4. LiveRunOwnsRow'
  BY DEF IInv, LiveRunOwnsRow
<1>5. LastRunBound'
  BY <1>1 DEF IInv, LastRunBound, RunsWellFormed, Dated, Claimed
<1> QED
  BY <1>2, <1>3, <1>4, <1>5

\* The steps that leave runs, claims and rows alone.
EditNext ==
  \/ \E t \in Tasks, h \in Hours : CreateTask(t, h)
  \/ \E t \in Tasks, h \in Hours, e \in BOOLEAN : ReadForUpdate(t, h, e)
  \/ \E t \in Tasks, e \in BOOLEAN : SetEnabled(t, e)
  \/ \E t \in Tasks : DeleteTask(t)
  \/ \E u \in edits : WriteUpdate(u)
  \/ SchedulerTick
  \/ SchedulerTickFails
  \/ \E s \in sched.pending : \E row \in {DayRow(s), NoRow} : Skip(s, row)
  \/ Tick
  \/ UNCHANGED vars

LEMMA EditStep ==
  ASSUME IInv, EditNext
  PROVE  (RunsWellFormed /\ ClaimExclusive /\ LiveRunOwnsRow /\ LastRunBound)'
<1> DEFINE Kept == /\ UNCHANGED <<rows, situationRun, run>>
                   /\ day' \in Nat /\ day <= day'
                   /\ \A t \in Tasks : tasks'[t].lastRun = tasks[t].lastRun
<1>1. tasks \in [Tasks -> TaskType] /\ day \in Nat
  BY DEF IInv, TypeOK
<1>2. ASSUME NEW t \in Tasks, NEW h \in Hours, CreateTask(t, h) PROVE Kept
  BY <1>1, <1>2 DEF CreateTask, TaskType
<1>3. ASSUME NEW t \in Tasks, NEW h \in Hours, NEW e \in BOOLEAN, ReadForUpdate(t, h, e)
      PROVE Kept
  BY <1>1, <1>3 DEF ReadForUpdate
<1>4. ASSUME NEW t \in Tasks, NEW e \in BOOLEAN, SetEnabled(t, e) PROVE Kept
  BY <1>1, <1>4 DEF SetEnabled, TaskType
<1>5. ASSUME NEW t \in Tasks, DeleteTask(t) PROVE Kept
  BY <1>1, <1>5 DEF DeleteTask, TaskType
<1>6. ASSUME NEW u \in edits, WriteUpdate(u) PROVE Kept
  <2>1. u.task \in Tasks
    BY DEF IInv, TypeOK, EditType
  <2> QED
    BY <1>1, <1>6, <2>1 DEF WriteUpdate, UpdatedTask, TaskType
<1>7. ASSUME SchedulerTick PROVE Kept
  BY <1>1, <1>7 DEF SchedulerTick
<1>12. ASSUME SchedulerTickFails PROVE Kept
  BY <1>1, <1>12 DEF SchedulerTickFails
<1>11. ASSUME NEW s \in sched.pending, NEW row, Skip(s, row) PROVE Kept
  BY <1>1, <1>11 DEF Skip
<1>8. ASSUME Tick PROVE Kept
  BY <1>1, <1>8 DEF Tick
<1>9. ASSUME UNCHANGED vars PROVE Kept
  BY <1>1, <1>9 DEF vars
<1>10. Kept
  BY <1>2, <1>3, <1>4, <1>5, <1>6, <1>7, <1>8, <1>9, <1>11, <1>12
     DEF EditNext
<1> QED
  BY <1>10, QuietStep

LEMMA SpawnStep ==
  ASSUME IInv, NEW r \in Runs, NEW t \in Tasks, Spawn(r, t),
         UNCHANGED <<day, tasks, rows, situationRun>>
  PROVE  (RunsWellFormed /\ ClaimExclusive /\ LiveRunOwnsRow /\ LastRunBound)'
<1>1. run \in [Runs -> RunType]
  BY DEF IInv, TypeOK
<1>2. /\ \A s \in Runs \ {r} : run'[s] = run[s]
      /\ run[r].pc = "idle" /\ run'[r].pc = "spawned" /\ run'[r].task = t
  BY <1>1 DEF Spawn, RunType
<1> QED
  BY <1>2 DEF IInv, RunsWellFormed, ClaimExclusive, IsClaimed, LiveRunOwnsRow, LastRunBound, Dated, Claimed

\* A step of r that leaves the tables alone, neither claims nor releases, and
\* reaches no step that r's row or date must be ready for.
LEMMA AdvanceStep ==
  ASSUME IInv, NEW r \in Runs, UNCHANGED <<day, tasks, rows, situationRun>>,
         \A s \in Runs \ {r} : run'[s] = run[s],
         run'[r].task = run[r].task, run'[r].today = run[r].today,
         \/ run[r].pc \in Claimed /\ run'[r].pc = "release"
         \/ run[r].pc \in {"working", "bump", "store"} /\ run'[r].pc \in {"bump", "store", "close"}
  PROVE  (RunsWellFormed /\ ClaimExclusive /\ LiveRunOwnsRow /\ LastRunBound)'
BY DEF IInv, RunsWellFormed, ClaimExclusive, IsClaimed, LiveRunOwnsRow, LastRunBound, Dated, Claimed

LEMMA ClaimStep ==
  ASSUME IInv, NEW r \in Runs, Claim(r)
  PROVE  (RunsWellFormed /\ ClaimExclusive /\ LiveRunOwnsRow /\ LastRunBound)'
<1>1. run \in [Runs -> RunType]
  BY DEF IInv, TypeOK
<1>2. /\ \A s \in Runs \ {r} : run'[s] = run[s]
      /\ run[r].pc = "spawned" /\ run'[r].task = run[r].task /\ run'[r].today = run[r].today
      /\ UNCHANGED <<day, tasks, rows>>
  BY <1>1 DEF Claim, RunType
<1>3. CASE run[r].task \notin situationRun
  <2>1. run'[r].pc = "claimed" /\ situationRun' = situationRun \cup {run[r].task}
    BY <1>1, <1>3 DEF Claim, Free, RunType
  <2> QED
    BY <1>2, <1>3, <2>1 DEF IInv, RunsWellFormed, ClaimExclusive, IsClaimed, LiveRunOwnsRow, LastRunBound, Dated, Claimed
<1>4. CASE run[r].task \in situationRun
  <2>1. run'[r].pc = "done" /\ situationRun' = situationRun
    BY <1>1, <1>4 DEF Claim, Free, RunType
  <2> QED
    BY <1>2, <1>4, <2>1 DEF IInv, RunsWellFormed, ClaimExclusive, IsClaimed, LiveRunOwnsRow, LastRunBound, Dated, Claimed
<1> QED
  BY <1>3, <1>4

LEMMA OpenStep ==
  ASSUME IInv, NEW r \in Runs, Open(r) \/ OpenUnread(r)
  PROVE  (RunsWellFormed /\ ClaimExclusive /\ LiveRunOwnsRow /\ LastRunBound)'
<1>1. run \in [Runs -> RunType] /\ day \in Nat
  BY DEF IInv, TypeOK
<1>2. /\ \A s \in Runs \ {r} : run'[s] = run[s]
      /\ run[r].pc = "claimed" /\ run'[r].pc \in {"release", "opened"}
      /\ run'[r].task = run[r].task /\ run'[r].today = day
      /\ UNCHANGED <<day, tasks, rows, situationRun>>
  <2>1. PICK row : OpenAt(r, row)
    BY DEF Open, OpenUnread
  <2> QED
    BY <1>1, <2>1 DEF OpenAt, RunType
<1> QED
  BY <1>1, <1>2 DEF IInv, RunsWellFormed, ClaimExclusive, IsClaimed, LiveRunOwnsRow, LastRunBound, Dated, Claimed

\* A step of r on the row of r: the only live run of that task is r.
LEMMA RowStep ==
  ASSUME IInv, NEW r \in Runs, UNCHANGED <<day, tasks, situationRun>>,
         run[r].pc \in Dated,
         \A s \in Runs \ {r} : run'[s] = run[s],
         run'[r].task = run[r].task, run'[r].today = run[r].today,
         run'[r].pc \in {"working", "store", "close", "release"},
         NEW row, rows' = [rows EXCEPT ![run[r].task][run[r].today] = row],
         run'[r].pc \in {"working", "store"} => row.status = "running" /\ row.author = None
  PROVE  (RunsWellFormed /\ ClaimExclusive /\ LiveRunOwnsRow /\ LastRunBound)'
<1>1. /\ rows \in [Tasks -> [Days -> RowType]]
      /\ run[r].task \in Tasks /\ run[r].today \in Days
  BY DatedRow DEF IInv, TypeOK
<1>2. RunsWellFormed' /\ ClaimExclusive' /\ LastRunBound'
  BY DEF IInv, RunsWellFormed, ClaimExclusive, IsClaimed, LiveRunOwnsRow, LastRunBound, Dated, Claimed
<1>3. ASSUME NEW s \in Runs, run'[s].pc \in {"working", "bump", "store"}
      PROVE  LET w == rows'[run'[s].task][run'[s].today]
             IN  w.status = "running" /\ w.author = None
  <2>1. CASE s = r
    BY <1>1, <1>3, <2>1
  <2>2. CASE s # r
    <3>1. run'[s] = run[s] /\ run[s].task # run[r].task
      BY <1>3, <2>2 DEF IInv, ClaimExclusive, IsClaimed, Dated, Claimed
    <3>2. rows'[run[s].task] = rows[run[s].task]
      BY <1>1, <3>1
    <3> QED
      BY <1>3, <3>1, <3>2 DEF IInv, LiveRunOwnsRow
  <2> QED
    BY <2>1, <2>2
<1>4. LiveRunOwnsRow'
  BY <1>3 DEF LiveRunOwnsRow
<1> QED
  BY <1>2, <1>4

LEMMA CloseStep ==
  ASSUME IInv, NEW r \in Runs, CloseDay(r)
  PROVE  (RunsWellFormed /\ ClaimExclusive /\ LiveRunOwnsRow /\ LastRunBound)'
<1>1. run \in [Runs -> RunType] /\ tasks \in [Tasks -> TaskType] /\ day \in Nat
  BY DEF IInv, TypeOK
<1>2. /\ \A s \in Runs \ {r} : run'[s] = run[s]
      /\ run[r].pc = "close" /\ run'[r].pc = "release"
      /\ run'[r].task = run[r].task /\ run'[r].today = run[r].today
      /\ UNCHANGED <<day, rows, situationRun>>
  BY <1>1 DEF CloseDay, RunType
<1>3. run[r].task \in Tasks /\ run[r].today \in 0..day
  BY <1>2 DEF IInv, RunsWellFormed, Dated, Claimed
<1>4. /\ tasks'[run[r].task].lastRun = run[r].today
      /\ \A t \in Tasks \ {run[r].task} : tasks'[t] = tasks[t]
  BY <1>1, <1>3 DEF CloseDay, TaskType
<1>5. RunsWellFormed' /\ ClaimExclusive' /\ LiveRunOwnsRow'
  BY <1>2 DEF IInv, RunsWellFormed, ClaimExclusive, IsClaimed, LiveRunOwnsRow, Dated, Claimed
<1>6. ASSUME NEW s \in Runs, run'[s].pc \in Dated
      PROVE  tasks'[run'[s].task].lastRun <= run'[s].today
  <2>1. s # r /\ run'[s] = run[s]
    BY <1>2, <1>6 DEF Dated
  <2>2. run[s].task # run[r].task /\ run[s].task \in Tasks
    BY <1>2, <1>6, <2>1 DEF IInv, RunsWellFormed, ClaimExclusive, IsClaimed, Dated, Claimed
  <2> QED
    BY <1>4, <1>6, <2>1, <2>2 DEF IInv, LastRunBound
<1>7. LastRunBound'
  BY <1>1, <1>2, <1>3, <1>4, <1>6 DEF IInv, LastRunBound
<1> QED
  BY <1>5, <1>7

LEMMA ReleaseStep ==
  ASSUME IInv, NEW r \in Runs, Release(r)
  PROVE  (RunsWellFormed /\ ClaimExclusive /\ LiveRunOwnsRow /\ LastRunBound)'
<1>1. run \in [Runs -> RunType]
  BY DEF IInv, TypeOK
<1>2. /\ \A s \in Runs \ {r} : run'[s] = run[s]
      /\ run[r].pc = "release" /\ run'[r].pc = "done"
      /\ run'[r].task = run[r].task /\ run'[r].today = run[r].today
      /\ situationRun' = situationRun \ {run[r].task}
      /\ UNCHANGED <<day, tasks, rows>>
  BY <1>1 DEF Release, RunType
<1> QED
  BY <1>2 DEF IInv, RunsWellFormed, ClaimExclusive, IsClaimed, LiveRunOwnsRow, LastRunBound, Dated, Claimed

LEMMA RestartStep ==
  ASSUME IInv, Restarts
  PROVE  (RunsWellFormed /\ ClaimExclusive /\ LiveRunOwnsRow /\ LastRunBound)'
<1>1. run \in [Runs -> RunType]
  BY DEF IInv, TypeOK
<1>2. /\ \A s \in Runs : /\ run'[s].pc \in {"idle", "done"}
                         /\ run'[s].pc # "idle" => run[s].pc # "idle"
                         /\ run'[s].task = run[s].task
      /\ situationRun' = {} /\ UNCHANGED <<day, tasks>>
  BY <1>1 DEF Restarts, Restart, RunType
<1> QED
  BY <1>2 DEF IInv, RunsWellFormed, ClaimExclusive, IsClaimed, LiveRunOwnsRow, LastRunBound, Dated, Claimed

LEMMA NextIInv == IInv /\ [Next]_vars => IInv'
<1> SUFFICES ASSUME IInv, [Next]_vars PROVE IInv'
  OBVIOUS
<1> DEFINE Rest == RunsWellFormed /\ ClaimExclusive /\ LiveRunOwnsRow /\ LastRunBound
<1>1. TypeOK'
  BY TypeStep DEF IInv
<1>a. /\ run \in [Runs -> RunType] /\ rows \in [Tasks -> [Days -> RowType]]
      /\ \A s \in sched.pending : s.task \in Tasks
  BY DEF IInv, TypeOK, DueType
<1>2. ASSUME EditNext PROVE Rest'
  BY <1>2, EditStep
<1>3. ASSUME NEW r \in Runs, NEW t \in Tasks, Generate(r, t) PROVE Rest'
  BY <1>3, SpawnStep DEF Generate
<1>4. ASSUME NEW s \in sched.pending, NEW row, NEW r \in Runs, Dispatch(s, row, r) PROVE Rest'
  BY <1>4, <1>a, SpawnStep DEF Dispatch
<1>5. ASSUME NEW r \in Runs, Claim(r) \/ Open(r) \/ OpenUnread(r) \/ CloseDay(r) \/ Release(r)
      PROVE  Rest'
  BY <1>5, ClaimStep, OpenStep, CloseStep, ReleaseStep
<1>6. ASSUME NEW r \in Runs, MarkRunning(r) PROVE Rest'
  <2>1. /\ run[r].task \in Tasks /\ run[r].today \in Days
        /\ rows[run[r].task][run[r].today] \in RowType
    BY <1>6, DatedRow DEF MarkRunning, Dated, Claimed, IInv
  <2>2. LET row == UpsertedRow(rows[run[r].task][run[r].today], r)
        IN  row.status = "running" /\ row.author = None
    BY <2>1 DEF UpsertedRow, RowType
  <2>3. rows' = [rows EXCEPT ![run[r].task][run[r].today]
                   = UpsertedRow(rows[run[r].task][run[r].today], r)]
    BY <1>6, <1>a, <2>1 DEF MarkRunning
  <2>4. /\ run[r].pc \in Dated /\ run'[r].pc = "working"
        /\ \A s \in Runs \ {r} : run'[s] = run[s]
        /\ run'[r].task = run[r].task /\ run'[r].today = run[r].today
        /\ UNCHANGED <<day, tasks, situationRun>>
    BY <1>6, <1>a DEF MarkRunning, RunType, Dated, Claimed
  <2> QED
    BY <2>2, <2>3, <2>4, RowStep
<1>7. ASSUME NEW r \in Runs, BumpAttempts(r) PROVE Rest'
  <2>1. /\ run[r].task \in Tasks /\ run[r].today \in Days
        /\ rows[run[r].task][run[r].today] \in RowType
    BY <1>7, DatedRow DEF BumpAttempts, Dated, Claimed, IInv
  <2>2. LET row == BumpedRow(rows[run[r].task][run[r].today])
        IN  row.status = "running" /\ row.author = None
    BY <1>7, <2>1 DEF BumpAttempts, BumpedRow, RowType, IInv, LiveRunOwnsRow
  <2>3. rows' = [rows EXCEPT ![run[r].task][run[r].today]
                   = BumpedRow(rows[run[r].task][run[r].today])]
    BY <1>7, <1>a, <2>1 DEF BumpAttempts
  <2>4. /\ run[r].pc \in Dated /\ run'[r].pc = "store"
        /\ \A s \in Runs \ {r} : run'[s] = run[s]
        /\ run'[r].task = run[r].task /\ run'[r].today = run[r].today
        /\ UNCHANGED <<day, tasks, situationRun>>
    BY <1>7, <1>a DEF BumpAttempts, RunType, Dated, Claimed
  <2> QED
    BY <2>2, <2>3, <2>4, RowStep
<1>13. ASSUME NEW r \in Runs, BumpUnread(r) PROVE Rest'
  <2>1. /\ run[r].task \in Tasks /\ run[r].today \in Days
        /\ rows[run[r].task][run[r].today] \in RowType
    BY <1>13, DatedRow DEF BumpUnread, Dated, Claimed, IInv
  <2>2. LET row == BumpedRow(rows[run[r].task][run[r].today])
        IN  row.status = "running" /\ row.author = None
    BY <1>13, <2>1 DEF BumpUnread, BumpedRow, RowType, IInv, LiveRunOwnsRow
  <2>3. rows' = [rows EXCEPT ![run[r].task][run[r].today]
                   = BumpedRow(rows[run[r].task][run[r].today])]
    BY <1>13, <1>a, <2>1 DEF BumpUnread
  <2>4. /\ run[r].pc \in Dated /\ run'[r].pc = "store"
        /\ \A s \in Runs \ {r} : run'[s] = run[s]
        /\ run'[r].task = run[r].task /\ run'[r].today = run[r].today
        /\ UNCHANGED <<day, tasks, situationRun>>
    BY <1>13, <1>a DEF BumpUnread, RunType, Dated, Claimed
  <2> QED
    BY <2>2, <2>3, <2>4, RowStep
<1>8. ASSUME NEW r \in Runs, StoreResult(r) PROVE Rest'
  <2>1. /\ run[r].task \in Tasks /\ run[r].today \in Days
    BY <1>8, DatedRow DEF StoreResult, Dated, Claimed, IInv
  <2>2. rows' = [rows EXCEPT ![run[r].task][run[r].today]
                   = StoredRow(rows[run[r].task][run[r].today], r)]
    BY <1>8, <1>a, <2>1 DEF StoreResult
  <2>3. /\ run[r].pc \in Dated /\ run'[r].pc \in {"release", "close"}
        /\ \A s \in Runs \ {r} : run'[s] = run[s]
        /\ run'[r].task = run[r].task /\ run'[r].today = run[r].today
        /\ UNCHANGED <<day, tasks, situationRun>>
    BY <1>8, <1>a DEF StoreResult, RunType, Dated, Claimed
  <2> QED
    BY <2>2, <2>3, RowStep
<1>9. ASSUME NEW r \in Runs,
             MarkRunningFails(r) \/ BumpFails(r) \/ StoreFails(r) \/ CloseDayFails(r)
      PROVE  Rest'
  <2>1. /\ \A s \in Runs \ {r} : run'[s] = run[s]
        /\ run'[r].task = run[r].task /\ run'[r].today = run[r].today
        /\ UNCHANGED <<day, tasks, rows, situationRun>>
    BY <1>9, <1>a DEF MarkRunningFails, BumpFails, StoreFails, CloseDayFails, RunType
  <2>2. \/ run[r].pc \in Claimed /\ run'[r].pc = "release"
        \/ /\ run[r].pc \in {"working", "bump", "store"}
           /\ run'[r].pc \in {"bump", "store", "close"}
    BY <1>9, <1>a DEF MarkRunningFails, BumpFails, StoreFails, CloseDayFails, RunType, Claimed
  <2> QED
    BY <2>1, <2>2, AdvanceStep
<1>12. ASSUME NEW r \in Runs, NEW found \in BOOLEAN, NEW failed \in BOOLEAN,
              Compose(r, found, failed)
       PROVE  Rest'
  <2>1. /\ \A s \in Runs \ {r} : run'[s] = run[s]
        /\ run'[r].task = run[r].task /\ run'[r].today = run[r].today
        /\ UNCHANGED <<day, tasks, rows, situationRun>>
    BY <1>12, <1>a DEF Compose, RunType
  <2>2. run[r].pc = "working" /\ run'[r].pc \in {"bump", "store"}
    BY <1>12, <1>a DEF Compose, RunType
  <2> QED
    BY <2>1, <2>2, AdvanceStep
<1>10. ASSUME Restarts PROVE Rest'
  BY <1>10, RestartStep
<1>11. Rest'
  BY <1>2, <1>3, <1>4, <1>5, <1>6, <1>7, <1>8, <1>9, <1>10, <1>12, <1>13
     DEF Next, Restarts, UserStep, SchedulerStep, LooksAt, RunStep, RunFault, EditNext
<1> QED
  BY <1>1, <1>11 DEF IInv

(***************************************************************************)
(* Theorems.                                                               *)
(***************************************************************************)

\* IInv, and with it the type of every variable, holds in every reachable state.
THEOREM Invariance == Spec => []IInv
<1> QED
  BY InitIInv, NextIInv, PTL DEF Spec

\* situationRun and the goroutines of generateSituationReport agree, and no two
\* runs ever generate for the same task.
THEOREM ClaimsAreExclusive == Spec => []ClaimExclusive
<1>1. IInv => ClaimExclusive
  BY DEF IInv
<1> QED
  BY <1>1, Invariance, PTL

\* Nothing writes the row a live run has marked 'running', whatever the user,
\* the scheduler and a restart do meanwhile.
THEOREM RunningRowIsOwned == Spec => []LiveRunOwnsRow
<1>1. IInv => LiveRunOwnsRow
  BY DEF IInv
<1> QED
  BY <1>1, Invariance, PTL

\* last_run_date only moves forward: a run that crosses midnight cannot undo
\* the day closed by a later one, because the later one cannot start before
\* the first has released its claim.
THEOREM LastRunIsMonotone == Spec => LastRunNeverGoesBack
<1> DEFINE Kept == \A t \in Tasks : tasks[t].lastRun <= tasks'[t].lastRun
<1>1. IInv /\ [Next]_vars => [Kept]_tasks
  <2> SUFFICES ASSUME IInv, Next, tasks' # tasks PROVE Kept
    BY DEF vars
  <2>1. tasks \in [Tasks -> TaskType] /\ \A t \in Tasks : tasks[t].lastRun \in Int
    BY DEF IInv, TypeOK, TaskType, Days, NoDay
  <2>2. ASSUME NEW t \in Tasks, NEW h \in Hours, CreateTask(t, h) PROVE Kept
    BY <2>1, <2>2 DEF CreateTask, TaskType
  <2>3. ASSUME NEW t \in Tasks, NEW e \in BOOLEAN, SetEnabled(t, e) PROVE Kept
    BY <2>1, <2>3 DEF SetEnabled, TaskType
  <2>4. ASSUME NEW t \in Tasks, DeleteTask(t) PROVE Kept
    BY <2>1, <2>4 DEF DeleteTask, TaskType
  <2>5. ASSUME NEW u \in edits, WriteUpdate(u) PROVE Kept
    <3>1. u.task \in Tasks
      BY DEF IInv, TypeOK, EditType
    <3> QED
      BY <2>1, <2>5, <3>1 DEF WriteUpdate, UpdatedTask, TaskType
  <2>6. ASSUME NEW r \in Runs, CloseDay(r) PROVE Kept
    <3>1. run[r].task \in Tasks /\ run[r].today \in Int
      BY <2>6 DEF CloseDay, IInv, RunsWellFormed, Dated, Claimed, TypeOK
    <3>2. tasks[run[r].task].lastRun <= run[r].today
      BY <2>6 DEF CloseDay, IInv, LastRunBound, Dated, Claimed
    <3> QED
      BY <2>1, <2>6, <3>1, <3>2 DEF CloseDay, TaskType
  <2> QED
    BY <2>2, <2>3, <2>4, <2>5, <2>6
       DEF Next, UserStep, SchedulerStep, LooksAt, RunStep, RunFault, Tick, Restarts, Restart, ReadForUpdate,
           Generate, WriteUpdate, SchedulerTick, SchedulerTickFails, Dispatch, Skip, Claim, Open, OpenUnread, OpenAt, MarkRunning,
           MarkRunningFails, Compose, BumpAttempts, BumpFails, BumpUnread, StoreResult, StoreFails, CloseDayFails, Release
<1> QED
  BY <1>1, Invariance, PTL DEF Spec, LastRunNeverGoesBack

\* No interleaving of an update with a deletion brings a deleted task back.
THEOREM DeletionIsFinal == Spec => DeletedStaysDeleted
<1> DEFINE Kept == \A t \in Tasks : tasks[t].deleted => tasks'[t].deleted
<1>1. IInv /\ [Next]_vars => [Kept]_tasks
  <2> SUFFICES ASSUME IInv, Next, tasks' # tasks PROVE Kept
    BY DEF vars
  <2>1. tasks \in [Tasks -> TaskType]
    BY DEF IInv, TypeOK
  <2>2. ASSUME NEW t \in Tasks, NEW h \in Hours, CreateTask(t, h) PROVE Kept
    BY <2>1, <2>2 DEF CreateTask, TaskType
  <2>3. ASSUME NEW t \in Tasks, NEW e \in BOOLEAN, SetEnabled(t, e) PROVE Kept
    BY <2>1, <2>3 DEF SetEnabled, TaskType
  <2>4. ASSUME NEW t \in Tasks, DeleteTask(t) PROVE Kept
    BY <2>1, <2>4 DEF DeleteTask, TaskType
  <2>5. ASSUME NEW u \in edits, WriteUpdate(u) PROVE Kept
    BY <2>1, <2>5 DEF WriteUpdate, UpdatedTask, TaskType
  <2>6. ASSUME NEW r \in Runs, CloseDay(r) PROVE Kept
    BY <2>1, <2>6 DEF CloseDay, TaskType
  <2> QED
    BY <2>2, <2>3, <2>4, <2>5, <2>6
       DEF Next, UserStep, SchedulerStep, LooksAt, RunStep, RunFault, Tick, Restarts, Restart, ReadForUpdate,
           Generate, WriteUpdate, SchedulerTick, SchedulerTickFails, Dispatch, Skip, Claim, Open, OpenUnread, OpenAt, MarkRunning,
           MarkRunningFails, Compose, BumpAttempts, BumpFails, BumpUnread, StoreResult, StoreFails, CloseDayFails, Release
<1> QED
  BY <1>1, Invariance, PTL DEF Spec, DeletedStaysDeleted

(***************************************************************************)
(* Why days are closed.  A run that has found something keeps it to its    *)
(* end, and attempts are only ever counted up, so that a reason that is    *)
(* there when a run comes to close the day is there for good.              *)
(***************************************************************************)
Reason(t, d) ==
  \/ rows[t][d].attempts >= MaxAttempts
  \/ \E r \in Runs : run[r].task = t /\ run[r].today = d /\ run[r].found /\ ~run[r].failed

Late == {"store", "close", "release", "done"}

FoundLate == \A r \in Runs : run[r].found => run[r].pc \in Late

ClosesForAReason ==
  \A r \in Runs : run[r].pc \in {"store", "close"} =>
    /\ run[r].pc = "close" => ~run[r].failed
    /\ ~run[r].failed => Reason(run[r].task, run[r].today)

ReasonInv == IInv /\ FoundLate /\ ClosesForAReason /\ DayClosedForAReason

\* What each step does to the runs: those that have found something go on with it.
LEMMA LateRunsKeep ==
  ASSUME IInv, FoundLate, Next
  PROVE  /\ FoundLate'
         /\ \A r \in Runs : run[r].pc \in Late =>
              /\ run'[r].task = run[r].task /\ run'[r].today = run[r].today
              /\ run'[r].found = run[r].found /\ run'[r].failed = run[r].failed
              /\ run'[r].pc \in Late
<1> DEFINE Goal == /\ FoundLate'
                   /\ \A r \in Runs : run[r].pc \in Late =>
                        /\ run'[r].task = run[r].task /\ run'[r].today = run[r].today
                        /\ run'[r].found = run[r].found /\ run'[r].failed = run[r].failed
                        /\ run'[r].pc \in Late
<1>a. run \in [Runs -> RunType]
  BY DEF IInv, TypeOK
<1>1. ASSUME run' = run PROVE Goal
  BY <1>1 DEF FoundLate
<1>2. CASE Restarts
  BY <1>2, <1>a DEF Restarts, Restart, FoundLate, Late, RunType
<1>3. ASSUME NEW r \in Runs, NEW t \in Tasks, Spawn(r, t) PROVE Goal
  BY <1>3, <1>a DEF Spawn, FoundLate, Late, RunType
<1>4. ASSUME NEW r \in Runs, RunStep(r) \/ RunFault(r) PROVE Goal
  <2>1. CASE Claim(r)
    BY <2>1, <1>a DEF Claim, FoundLate, Late, RunType
  <2>2. CASE Open(r) \/ OpenUnread(r)
    BY <2>2, <1>a DEF Open, OpenUnread, OpenAt, FoundLate, Late, RunType
  <2>3. CASE MarkRunning(r) \/ MarkRunningFails(r)
    BY <2>3, <1>a DEF MarkRunning, MarkRunningFails, FoundLate, Late, RunType
  <2>4. ASSUME NEW found \in BOOLEAN, NEW failed \in BOOLEAN, Compose(r, found, failed) PROVE Goal
    BY <2>4, <1>a DEF Compose, FoundLate, Late, RunType
  <2>5. CASE BumpAttempts(r) \/ BumpFails(r) \/ BumpUnread(r)
    BY <2>5, <1>a DEF BumpAttempts, BumpFails, BumpUnread, FoundLate, Late, RunType
  <2>6. CASE StoreResult(r) \/ StoreFails(r)
    BY <2>6, <1>a DEF StoreResult, StoreFails, FoundLate, Late, RunType
  <2>7. CASE CloseDay(r) \/ CloseDayFails(r) \/ Release(r)
    BY <2>7, <1>a DEF CloseDay, CloseDayFails, Release, FoundLate, Late, RunType
  <2> QED
    BY <1>4, <2>1, <2>2, <2>3, <2>4, <2>5, <2>6, <2>7 DEF RunStep, RunFault
<1>5. \/ run' = run \/ Restarts
      \/ \E r \in Runs : (\E t \in Tasks : Spawn(r, t)) \/ RunStep(r) \/ RunFault(r)
  <2>1. \A s \in sched.pending : s.task \in Tasks
    BY DEF IInv, TypeOK, DueType
  <2> QED
    BY <2>1 DEF Next, Restarts, UserStep, SchedulerStep, LooksAt, Tick, CreateTask, ReadForUpdate, SetEnabled,
       DeleteTask, Generate, WriteUpdate, SchedulerTick, SchedulerTickFails, Skip, Dispatch
<1> QED
  BY <1>1, <1>2, <1>3, <1>4, <1>5

\* Attempts are never taken back.
LEMMA AttemptsStay ==
  ASSUME IInv, Next, NEW t \in Tasks, NEW d \in Days
  PROVE  rows'[t][d].attempts >= rows[t][d].attempts
<1> DEFINE Goal == rows'[t][d].attempts >= rows[t][d].attempts
<1>a. /\ rows \in [Tasks -> [Days -> RowType]] /\ rows[t][d].attempts \in Nat
      /\ TypeOK /\ RunsWellFormed
  BY DEF IInv, TypeOK, RowType
<1>1. CASE rows' = rows
  BY <1>1, <1>a
<1>2. CASE Restarts
  <2>1. rows'[t][d] = rows[t][d] \/ rows'[t][d] = RecoverStale(rows[t][d])
    BY <1>2 DEF Restarts, Restart
  <2> QED
    BY <2>1, <1>a DEF RecoverStale, RowType
<1>3. ASSUME NEW r \in Runs, MarkRunning(r) \/ BumpAttempts(r) \/ BumpUnread(r) \/ StoreResult(r)
      PROVE  Goal
  <2>1. run[r].pc \in Dated
    BY <1>3 DEF MarkRunning, BumpAttempts, BumpUnread, StoreResult, Dated, Claimed
  <2>2. run[r].task \in Tasks /\ run[r].today \in Days
    BY <2>1, <1>a, DatedRow
  <2>3. \/ rows'[t][d] = rows[t][d]
        \/ rows'[t][d] \in {UpsertedRow(rows[t][d], r), BumpedRow(rows[t][d]), StoredRow(rows[t][d], r)}
    BY <1>3, <2>2, <1>a DEF MarkRunning, BumpAttempts, BumpUnread, StoreResult
  <2>4. \A row \in RowType : /\ UpsertedRow(row, r).attempts = row.attempts
                             /\ BumpedRow(row).attempts = row.attempts + 1
                             /\ StoredRow(row, r).attempts = row.attempts
    BY DEF UpsertedRow, BumpedRow, StoredRow, RowType
  <2>5. rows[t][d] \in RowType
    BY <1>a
  <2> QED
    BY <2>3, <2>4, <2>5, <1>a
<1>4. \/ rows' = rows \/ Restarts
      \/ \E r \in Runs : MarkRunning(r) \/ BumpAttempts(r) \/ BumpUnread(r) \/ StoreResult(r)
  BY DEF Next, Restarts, UserStep, SchedulerStep, LooksAt, RunStep, RunFault, Tick, CreateTask, ReadForUpdate,
     SetEnabled, DeleteTask, Generate, WriteUpdate, SchedulerTick, SchedulerTickFails, Skip, Dispatch, Claim, Open,
     OpenUnread, OpenAt, MarkRunningFails, Compose, BumpFails, StoreFails, CloseDay, CloseDayFails, Release
<1> QED
  BY <1>1, <1>2, <1>3, <1>4

LEMMA ReasonStays ==
  ASSUME IInv, FoundLate, Next, NEW t \in Tasks, NEW d \in Days, Reason(t, d)
  PROVE  Reason(t, d)'
<1>1. rows[t][d].attempts \in Nat /\ rows'[t][d].attempts \in Nat
  BY NextIInv DEF IInv, TypeOK, RowType
<1>2. CASE rows[t][d].attempts >= MaxAttempts
  BY <1>1, <1>2, AttemptsStay DEF Reason
<1>3. ASSUME NEW r \in Runs,
             run[r].task = t /\ run[r].today = d /\ run[r].found /\ ~run[r].failed
      PROVE  Reason(t, d)'
  BY <1>3, LateRunsKeep DEF FoundLate, Reason
<1> QED
  BY <1>2, <1>3 DEF Reason

\* A run comes to store or to close with a reason, or with a failure.
LEMMA ClosingStep ==
  ASSUME IInv, FoundLate, ClosesForAReason, Next
  PROVE  ClosesForAReason'
<1> SUFFICES ASSUME NEW r \in Runs, run'[r].pc \in {"store", "close"}
             PROVE  /\ run'[r].pc = "close" => ~run'[r].failed
                    /\ ~run'[r].failed => Reason(run[r].task, run[r].today)'
                    /\ run'[r].task = run[r].task /\ run'[r].today = run[r].today
  BY DEF ClosesForAReason, Reason
<1>a. run \in [Runs -> RunType] /\ TypeOK /\ RunsWellFormed
  BY DEF IInv, TypeOK
<1> DEFINE Goal == /\ run'[r].pc = "close" => ~run'[r].failed
                   /\ ~run'[r].failed => Reason(run[r].task, run[r].today)'
                   /\ run'[r].task = run[r].task /\ run'[r].today = run[r].today
<1>b. ASSUME run[r].pc \in {"store", "close"},
             run'[r].pc = "close" => run[r].pc = "close" \/ ~run[r].failed
      PROVE  Goal
  <2>1. run[r].task \in Tasks /\ run[r].today \in Days
    BY <1>b, <1>a, DatedRow DEF Dated, Claimed
  <2>2. /\ run'[r].task = run[r].task /\ run'[r].today = run[r].today
        /\ run'[r].failed = run[r].failed
    BY <1>b, LateRunsKeep DEF Late
  <2> QED
    BY <1>b, <2>1, <2>2, ReasonStays DEF ClosesForAReason
<1>1. CASE run'[r] = run[r]
  BY <1>1, <1>b
<1>2. CASE StoreResult(r) \/ StoreFails(r)
  BY <1>2, <1>a, <1>b DEF StoreResult, StoreFails, RunType
<1>3. ASSUME NEW found \in BOOLEAN, NEW failed \in BOOLEAN, Compose(r, found, failed) PROVE Goal
  BY <1>3, <1>a DEF Compose, RunType, Reason
<1>4. CASE BumpAttempts(r)
  <2>1. /\ run[r].task \in Tasks /\ run[r].today \in Days
        /\ rows[run[r].task][run[r].today] \in RowType
    BY <1>4, <1>a, DatedRow DEF BumpAttempts, Dated, Claimed
  <2> DEFINE row == rows[run[r].task][run[r].today]
  <2>2. rows'[run[r].task][run[r].today] = BumpedRow(row)
    BY <1>4, <1>a, <2>1 DEF BumpAttempts, TypeOK
  <2>3. row.attempts \in Nat /\ BumpedRow(row).attempts = row.attempts + 1
    BY <2>1 DEF BumpedRow, RowType
  <2>4. /\ run'[r].pc = "store" /\ run'[r].failed = Retry(row.attempts + 1)
        /\ run'[r].task = run[r].task /\ run'[r].today = run[r].today
    BY <1>4, <1>a DEF BumpAttempts, RunType
  <2>5. rows'[run'[r].task][run'[r].today].attempts = row.attempts + 1
    BY <2>2, <2>3, <2>4
  <2>6. ~run'[r].failed => row.attempts + 1 >= MaxAttempts
    <3>1. ~Retry(row.attempts + 1) => row.attempts + 1 >= MaxAttempts
      BY <2>3 DEF Retry
    <3>2. ~run'[r].failed => ~Retry(row.attempts + 1)
      BY <2>4, Zenon
    <3> QED
      BY <3>1, <3>2
  <2> HIDE DEF row
  <2> QED
    BY <2>4, <2>5, <2>6 DEF Reason
<1>5. CASE BumpFails(r) \/ BumpUnread(r)
  BY <1>5, <1>a DEF BumpFails, BumpUnread, Retry, RunType
<1>6. \/ run'[r] = run[r]
      \/ StoreResult(r) \/ StoreFails(r) \/ BumpAttempts(r) \/ BumpFails(r) \/ BumpUnread(r)
      \/ \E found, failed \in BOOLEAN : Compose(r, found, failed)
  <2>1. ASSUME NEW s \in Runs, (\E t \in Tasks : Spawn(s, t)) \/ RunStep(s) \/ RunFault(s)
        PROVE  s = r \/ run'[r] = run[r]
    BY <2>1, <1>a DEF Spawn, RunStep, RunFault, Claim, Open, OpenUnread, OpenAt, MarkRunning, MarkRunningFails, Compose,
       BumpAttempts, BumpFails, BumpUnread, StoreResult, StoreFails, CloseDay, CloseDayFails, Release
  <2>2. ASSUME \/ \E t \in Tasks : Spawn(r, t)
               \/ Claim(r) \/ Open(r) \/ OpenUnread(r) \/ MarkRunning(r) \/ MarkRunningFails(r)
               \/ CloseDay(r) \/ CloseDayFails(r) \/ Release(r)
        PROVE  FALSE
    BY <2>2, <1>a DEF Spawn, Claim, Open, OpenUnread, OpenAt, MarkRunning, MarkRunningFails, CloseDay,
       CloseDayFails, Release, RunType
  <2>3. ~Restarts \/ run'[r] = run[r]
    BY <1>a DEF Restarts, Restart, RunType
  <2>4. \/ run' = run \/ Restarts
        \/ \E s \in Runs : (\E t \in Tasks : Spawn(s, t)) \/ RunStep(s) \/ RunFault(s)
    <3>1. \A s \in sched.pending : s.task \in Tasks
      BY <1>a DEF TypeOK, DueType
    <3> QED
      BY <3>1 DEF Next, Restarts, UserStep, SchedulerStep, LooksAt, Tick, CreateTask, ReadForUpdate, SetEnabled,
         DeleteTask, Generate, WriteUpdate, SchedulerTick, SchedulerTickFails, Skip, Dispatch
  <2>5. ASSUME RunStep(r) \/ RunFault(r)
        PROVE  \/ StoreResult(r) \/ StoreFails(r) \/ BumpAttempts(r) \/ BumpFails(r) \/ BumpUnread(r)
               \/ \E found, failed \in BOOLEAN : Compose(r, found, failed)
    BY <2>5, <2>2 DEF RunStep, RunFault
  <2> QED
    BY <2>1, <2>2, <2>3, <2>4, <2>5
<1> QED
  BY <1>1, <1>2, <1>3, <1>4, <1>5, <1>6

\* last_run_date changes only when a run closes a day.
LEMMA ClosedDays ==
  ASSUME IInv, Next, NEW t \in Tasks, tasks'[t].lastRun # tasks[t].lastRun
  PROVE  \E r \in Runs : /\ run[r].pc = "close" /\ run[r].task = t
                         /\ tasks'[t].lastRun = run[r].today
<1>a. tasks \in [Tasks -> TaskType] /\ RunsWellFormed
  BY DEF IInv, TypeOK
<1>1. ASSUME EditNext PROVE FALSE
  <2>1. ASSUME NEW u \in edits, WriteUpdate(u) PROVE FALSE
    <3>1. u.task \in Tasks
      BY DEF IInv, TypeOK, EditType
    <3> QED
      BY <2>1, <3>1, <1>a DEF WriteUpdate, UpdatedTask, TaskType
  <2>2. ASSUME NEW u \in Tasks, NEW h \in Hours, CreateTask(u, h) PROVE FALSE
    BY <2>2, <1>a DEF CreateTask, TaskType
  <2>3. ASSUME NEW u \in Tasks, DeleteTask(u) \/ \E e \in BOOLEAN : SetEnabled(u, e) PROVE FALSE
    BY <2>3, <1>a DEF DeleteTask, SetEnabled, TaskType
  <2>4. tasks' # tasks
    OBVIOUS
  <2> QED
    BY <1>1, <2>1, <2>2, <2>3, <2>4 DEF EditNext, ReadForUpdate, SchedulerTick, SchedulerTickFails, Skip, Tick, vars
<1>2. ASSUME NEW r \in Runs, CloseDay(r)
      PROVE  run[r].pc = "close" /\ run[r].task = t /\ tasks'[t].lastRun = run[r].today
  <2>1. run[r].task \in Tasks /\ run[r].pc = "close"
    BY <1>2, <1>a DEF CloseDay, RunsWellFormed
  <2> QED
    BY <1>2, <1>a, <2>1 DEF CloseDay, TaskType
<1>3. tasks' = tasks \/ EditNext \/ \E r \in Runs : CloseDay(r)
  BY DEF Next, UserStep, SchedulerStep, LooksAt, RunStep, RunFault, EditNext, Restarts, Restart, Generate, Dispatch, Claim,
     Open, OpenUnread, OpenAt, MarkRunning, MarkRunningFails, Compose, BumpAttempts, BumpFails, BumpUnread, StoreResult, StoreFails, CloseDayFails, Release
<1> QED
  BY <1>1, <1>2, <1>3

LEMMA ReasonStep == ReasonInv /\ [Next]_vars => ReasonInv'
<1>1. ASSUME ReasonInv, Next PROVE ReasonInv'
  <2>1. IInv' /\ FoundLate' /\ ClosesForAReason'
    BY <1>1, NextIInv, LateRunsKeep, ClosingStep DEF ReasonInv
  <2>2. ASSUME NEW t \in Tasks, NEW d \in Days, tasks'[t].lastRun = d
        PROVE  Reason(t, d)'
    <3>1. CASE tasks[t].lastRun = d
      <4>1. Reason(t, d)
        BY <1>1, <3>1 DEF ReasonInv, DayClosedForAReason, Reason, Days, NoDay
      <4> QED
        BY <1>1, <4>1, ReasonStays DEF ReasonInv
    <3>2. CASE tasks[t].lastRun # d
      <4>1. PICK r \in Runs : run[r].pc = "close" /\ run[r].task = t /\ run[r].today = d
        BY <1>1, <2>2, <3>2, ClosedDays DEF ReasonInv
      <4>2. Reason(t, d)
        BY <1>1, <4>1 DEF ReasonInv, ClosesForAReason
      <4> QED
        BY <1>1, <4>2, ReasonStays DEF ReasonInv
    <3> QED
      BY <3>1, <3>2
  <2>3. \A t \in Tasks : tasks'[t].lastRun \in Days \cup {NoDay}
    BY <2>1 DEF IInv, TypeOK, TaskType
  <2> QED
    BY <2>1, <2>2, <2>3 DEF ReasonInv, DayClosedForAReason, Reason
<1>2. ASSUME ReasonInv, UNCHANGED vars PROVE ReasonInv'
  BY <1>2, NextIInv DEF ReasonInv, FoundLate, ClosesForAReason, Reason, DayClosedForAReason, vars
<1> QED
  BY <1>1, <1>2

\* A day is closed only after a run that found results, or after MaxAttempts empty
\* ones: no interleaving, failing call or restart closes it without.
THEOREM DaysAreClosedForAReason == Spec => []DayClosedForAReason
<1>1. Init => ReasonInv
  BY InitIInv DEF Init, ReasonInv, FoundLate, ClosesForAReason, DayClosedForAReason, NoDay
<1>2. ReasonInv => DayClosedForAReason
  BY DEF ReasonInv
<1> QED
  BY <1>1, <1>2, ReasonStep, PTL DEF Spec
=============================================================================
