-------------------------- MODULE MCBackgroundJobs --------------------------
(***************************************************************************)
(* The two jobs of the server that a ticker repeats and requests start as  *)
(* well, side by side: the reports on expenses and the index of texts.     *)
(* They share no state, so a behaviour is one job's, and the other stays   *)
(* in its initial state.                                                   *)
(***************************************************************************)
EXTENDS ExpenseReports, RagIndex

VARIABLE job

Expenses == job = "expenses"
Index == job = "index"

JobsInit == job \in {"expenses", "index"} /\ Init /\ RagInit

JobsNext ==
  /\ UNCHANGED job
  /\ \/ Expenses /\ Next /\ UNCHANGED ragVars
     \/ Index /\ RagNext /\ UNCHANGED vars

\* Nothing is booked while the job is the index, so that the scheduler asks for nothing.
JobsSpec ==
  /\ JobsInit /\ [][JobsNext]_<<job, vars, ragVars>>
  /\ SchedulerFairness
  /\ Index => RagFairness
=============================================================================
