--------------------------- MODULE ExpenseReports ---------------------------
(***************************************************************************)
(* The AI reports on one user's expenses of one kind of period (week,      *)
(* month or quarter): tryAutoGenerateReport, run by the scheduler every    *)
(* half hour and by requests at any time, with no lock between them.       *)
(*                                                                         *)
(* A report is a row of expense_reports without any key but its number, so *)
(* only the number of rows of a period counts.  The transactions of a      *)
(* period are there or not; the model's answer comes or not.               *)
(***************************************************************************)
EXTENDS FiniteSets, Integers

CONSTANTS
  Requests,    \* generateExpenseReport handlers that may run at a time
  Scheduler,        \* the goroutine of startAutoReportScheduler
  MaxPeriod,   \* bound on the periods that pass
  MaxFaults    \* bound on the database calls that fail

ASSUME SchedulerAssumption == Scheduler \notin Requests /\ IsFiniteSet(Requests)
ASSUME BoundAssumption == MaxPeriod \in Nat /\ MaxFaults \in Nat

VARIABLES
  current,   \* the period of today
  booked,    \* are there transactions in the period
  rows,      \* the number of reports of the period
  pc,        \* the next statement of a run
  period,    \* the period a run computed when it began
  alone,     \* a run has met no other run of its period and no failed deletion
  faults

vars == <<current, booked, rows, pc, period, alone, faults>>
run == <<pc, period, alone>>

Run == Requests \cup {Scheduler}
Period == 0..MaxPeriod
Live(r) == pc[r] \notin {"idle", "checked"}
LiveOn(p) == {r \in Run : Live(r) /\ period[r] = p}

Init ==
  /\ current = 0
  /\ booked = [p \in Period |-> FALSE]
  /\ rows = [p \in Period |-> 0]
  /\ pc = [r \in Run |-> "idle"]
  /\ period = [r \in Run |-> 0]
  /\ alone = [r \in Run |-> TRUE]
  /\ faults = 0

Fault == faults < MaxFaults /\ faults' = faults + 1

Goto(r, s) == pc' = [pc EXCEPT ![r] = s]

-----------------------------------------------------------------------------
\* computePeriodDates: from here on the run is about that period.
Begin(r) ==
  /\ Goto(r, "exists")
  /\ period' = [period EXCEPT ![r] = current]
  /\ alone' = [q \in Run |-> IF q = r THEN LiveOn(current) = {}
                             ELSE alone[q] /\ q \notin LiveOn(current)]
  /\ UNCHANGED <<current, booked, rows, faults>>

\* A request of the user.
Request(r) ==
  /\ r \in Requests
  /\ pc[r] = "idle"
  /\ Begin(r)

\* Fault: any report of the kind is found, whatever its period.
ReportOfAnyPeriod(p) == \E q \in Period : rows[q] > 0

ReportExistsForPeriod(p) == rows[p] > 0

\* The scheduler looks whether there is a report; an error counts as none.  Users
\* without any transaction are not in its list.
SchedulerTick ==
  /\ pc[Scheduler] = "idle"
  /\ \E p \in Period : booked[p]
  /\ \/ ~ReportExistsForPeriod(current) /\ UNCHANGED faults
     \/ Fault
  /\ Goto(Scheduler, "checked")
  /\ UNCHANGED <<current, booked, rows, period, alone>>

SchedulerBegins ==
  /\ pc[Scheduler] = "checked"
  /\ Begin(Scheduler)

Exists(r) ==
  /\ pc[r] = "exists"
  /\ Goto(r, IF ReportExistsForPeriod(period[r]) THEN "delete" ELSE "read")
  /\ UNCHANGED <<current, booked, rows, period, alone, faults>>

ExistsFails(r) ==
  /\ pc[r] = "exists"
  /\ Fault
  /\ Goto(r, "idle")
  /\ UNCHANGED <<current, booked, rows, period, alone>>

\* Fault: the old reports stay.
NoneDeleted(n) == n

DeleteExpenseReportForPeriod(n) == 0

Delete(r) ==
  /\ pc[r] = "delete"
  /\ rows' = [rows EXCEPT ![period[r]] = DeleteExpenseReportForPeriod(@)]
  /\ Goto(r, "read")
  /\ UNCHANGED <<current, booked, period, alone, faults>>

\* A failed deletion is logged only.
DeleteFails(r) ==
  /\ pc[r] = "delete"
  /\ Fault
  /\ Goto(r, "read")
  /\ alone' = [alone EXCEPT ![r] = FALSE]
  /\ UNCHANGED <<current, booked, rows, period>>

\* The expenses and bank transactions of the period, if there are any.
Read(r) ==
  /\ pc[r] = "read"
  /\ Goto(r, IF booked[period[r]] THEN "ask" ELSE "idle")
  /\ UNCHANGED <<current, booked, rows, period, alone, faults>>

\* Errors of the two queries are ignored: the lists are empty.
ReadFails(r) ==
  /\ pc[r] = "read"
  /\ Fault
  /\ Goto(r, "idle")
  /\ UNCHANGED <<current, booked, rows, period, alone>>

Answered(r) ==
  /\ pc[r] = "ask"
  /\ Goto(r, "save")
  /\ UNCHANGED <<current, booked, rows, period, alone, faults>>

\* No key, no answer in 120 s, a status other than 200, or an answer without text.
NotAnswered(r) ==
  /\ pc[r] = "ask"
  /\ Goto(r, "idle")
  /\ UNCHANGED <<current, booked, rows, period, alone, faults>>

Save(r) ==
  /\ pc[r] = "save"
  /\ rows' = [rows EXCEPT ![period[r]] = @ + 1]
  /\ Goto(r, "idle")
  /\ UNCHANGED <<current, booked, period, alone, faults>>

\* The summary is answered all the same.
SaveFails(r) ==
  /\ pc[r] = "save"
  /\ Fault
  /\ Goto(r, "idle")
  /\ UNCHANGED <<current, booked, rows, period, alone>>

-----------------------------------------------------------------------------
(* What goes on around the runs.                                           *)

\* Expenses and transactions are added, imported and deleted.
Book(p) ==
  /\ booked' = [booked EXCEPT ![p] = ~@]
  /\ UNCHANGED <<current, rows, run, faults>>

NextPeriod ==
  /\ current < MaxPeriod
  /\ current' = current + 1
  /\ UNCHANGED <<booked, rows, run, faults>>

\* All runs end with the process.
Restart ==
  /\ Fault
  /\ pc' = [r \in Run |-> "idle"]
  /\ UNCHANGED <<current, booked, rows, period, alone>>

Generate(r) ==
  Exists(r) \/ Delete(r) \/ Read(r) \/ Answered(r) \/ NotAnswered(r) \/ Save(r)

Fails(r) == ExistsFails(r) \/ DeleteFails(r) \/ ReadFails(r) \/ SaveFails(r)

Next ==
  \/ \E r \in Run : Request(r) \/ Generate(r) \/ Fails(r)
  \/ SchedulerTick \/ SchedulerBegins
  \/ \E p \in Period : Book(p)
  \/ NextPeriod
  \/ Restart

Spec == Init /\ [][Next]_vars

\* The ticker goes on ticking and every statement of the scheduler's runs ends; the
\* model answers from time to time.
SchedulerFairness ==
  /\ WF_vars(SchedulerTick) /\ WF_vars(SchedulerBegins)
  /\ WF_vars(Generate(Scheduler))
  /\ SF_vars(Answered(Scheduler))

-----------------------------------------------------------------------------
(* Properties.                                                             *)

Step == {"idle", "checked", "exists", "delete", "read", "ask", "save"}

\* The type of every variable.
TypeOK ==
  /\ current \in Period
  /\ booked \in [Period -> BOOLEAN] /\ rows \in [Period -> Nat]
  /\ pc \in [Run -> Step] /\ period \in [Run -> Period] /\ alone \in [Run -> BOOLEAN]
  /\ \A r \in Requests : pc[r] # "checked"
  /\ faults \in 0..MaxFaults

\* A run that met no other run of its period leaves exactly one report of it, its
\* own, however many runs at the same time and failures before had left.
UndisturbedRunLeavesOneReport ==
  [][\A r \in Run : Save(r) /\ alone[r] => rows'[period[r]] = 1]_vars

\* What is true of the runs that are alone: nobody else is about their period, and
\* once past the deletion there is no report of it.
AloneIsAlone ==
  \A r \in Run : Live(r) /\ alone[r] =>
    /\ LiveOn(period[r]) = {r}
    /\ pc[r] \in {"read", "ask", "save"} => rows[period[r]] = 0

\* The runs about the period that have its deletion, if there was one, behind them.
PastDelete(p) == {r \in LiveOn(p) : pc[r] \in {"read", "ask", "save"}}

EachRunAddsOne == \A p \in Period :
  rows[p] + Cardinality(PastDelete(p)) <= Cardinality(Run) + faults

IInv == TypeOK /\ AloneIsAlone /\ EachRunAddsOne

\* However requests and the scheduler overlap, a period never has more reports than
\* there are runs at a time and deletions that failed: duplicates do not pile up.
DuplicatesAreBounded == \A p \in Period : rows[p] <= Cardinality(Run) + faults

\* A period with transactions gets a report, whatever runs failed before, unless it
\* is over or its transactions are gone.
EventuallyReported ==
  \A p \in Period :
    (current = p /\ booked[p]) ~> (rows[p] > 0 \/ current # p \/ ~booked[p])
=============================================================================
