------------------------------ MODULE Holdings ------------------------------
(***************************************************************************)
(* The holdings of a user and the composition of the ETFs among them       *)
(* (src/main.go).  AddHolding, ModifyHolding and RemoveHolding change the  *)
(* row in a section of dbMutex and leave the components (assets, sectors,  *)
(* regions) to a goroutine, which deletes the old ones, asks the data      *)
(* service and inserts what it answers, each in a section of its own.  The *)
(* periodic refresh does the same for every ETF of a list it has read      *)
(* before.  Nothing orders two goroutines of one holding.                  *)
(*                                                                         *)
(* Fund stands for what the ticker and exchange of a form name, and for    *)
(* its ISIN.  SQLite is opened without _foreign_keys, so the ON DELETE     *)
(* CASCADE of the schema is not in force: a removal leaves the components. *)
(***************************************************************************)
EXTENDS Integers, Sequences, FiniteSets

CONSTANTS
    Funds,         \* instruments: ticker, exchange and ISIN
    NoISIN,        \* a form without an ISIN
    Parts,         \* the tables of components in the order they are filled
    MaxFetches,    \* places of externalFetchSem
    MaxHoldings,   \* bound: ids that are generated
    MaxRequests,   \* bound: requests
    MaxFaults      \* bound: failing calls, empty answers and restarts

Ids == 1 .. MaxHoldings

ASSUME HoldingsAssumption ==
    /\ NoISIN \notin Funds
    /\ Parts \in Seq(STRING) /\ Parts # <<>> /\ MaxFetches \in Nat \ {0}
    /\ MaxHoldings \in Nat \ {0} /\ MaxRequests \in Nat /\ MaxFaults \in Nat

VARIABLES
    holdings,    \* the table, by id: None or [fund, isin, etf]
    components,  \* rows of each table by holding and the fund they are of
    tasks,       \* what each request and each refresh goroutine is doing
    fetches,     \* places taken in externalFetchSem
    generated,   \* ids generated
    requests, faults,
    disturbed,   \* holdings with which something went wrong since the last clean refresh
    entered      \* the ISIN a user gave last, and whether nothing was then going on

holdingVars == <<holdings, components, tasks, fetches, generated, requests, faults, disturbed, entered>>

None == [is |-> "none"]
Exists(id) == holdings[id] # None
Forms == [fund : Funds, isin : Funds \union {NoISIN}, etf : BOOLEAN]
\* A form names an instrument by its own ISIN or leaves the ISIN out.
Filled == {form \in Forms : form.isin \in {form.fund, NoISIN}}

\* The requests in their order, and the refresh of each holding.
Requests == {"request"} \X (1 .. MaxRequests)
Refreshes == {"refresh"} \X Ids
Tasks == Requests \union Refreshes
Idle == [at |-> "idle"]
Task(at, id, form) ==
    [at |-> at, id |-> id, form |-> form, wasETF |-> FALSE, next |-> 1, deleted |-> FALSE, clean |-> TRUE]
On(id) == {t \in Tasks : tasks[t] # Idle /\ tasks[t].id = id}
NoRows == [p \in 1 .. Len(Parts) |-> [f \in Funds |-> 0]]

\* Tasks that have met another one on their holding.
Soiled(id, all) == [t \in Tasks |-> IF t \in On(id) THEN [all[t] EXCEPT !.clean = FALSE] ELSE all[t]]

\* Task "t" begins as "task"; it disturbs what is going on with its holding.
Begins(t, task) ==
    LET id == task.id IN
    /\ tasks' = [Soiled(id, tasks) EXCEPT ![t] = [task EXCEPT !.clean = On(id) = {}]]
    /\ disturbed' = IF On(id) = {} THEN disturbed ELSE disturbed \union {id}

Continues(t, at) == tasks' = [tasks EXCEPT ![t].at = at]

\* The end of a goroutine, with the deferred release of its place.
Ends(t, ok) ==
    LET task == tasks[t] IN
    /\ tasks' = [tasks EXCEPT ![t] = Idle]
    /\ fetches' = IF t \in Refreshes THEN fetches - 1 ELSE fetches
    /\ disturbed' = IF ~ok THEN disturbed \union {task.id}
                    ELSE IF task.clean /\ (task.deleted \/ task.at = "delete") THEN disturbed \ {task.id}
                    ELSE disturbed

Fault == faults < MaxFaults /\ faults' = faults + 1
NewRequest(r) == r[2] = requests + 1 /\ requests' = requests + 1

Enters(id, isin, alone) == entered' = [entered EXCEPT ![id] = [isin |-> isin, alone |-> alone]]

\* AddHolding of something new: a row, and the components of an ETF are asked for.
AddHolding(r) ==
    /\ NewRequest(r)
    /\ generated < MaxHoldings /\ generated' = generated + 1
    /\ \E form \in Filled :
           LET id == generated + 1 IN
           /\ \A other \in Ids : Exists(other) => holdings[other].fund # form.fund
           /\ holdings' = [holdings EXCEPT ![id] = form]
           /\ Enters(id, form.isin, TRUE)
           /\ IF form.etf THEN Begins(r, Task("ask", id, form)) ELSE UNCHANGED <<tasks, disturbed>>
    /\ UNCHANGED <<components, fetches, faults>>

\* AddHolding of what is held: the row keeps its id and its ETF flag and gets the new ISIN;
\* the components are asked for under the id that was generated and is in no row.
MergeHolding(r) ==
    /\ NewRequest(r)
    /\ generated < MaxHoldings /\ generated' = generated + 1
    /\ \E form \in Filled, id \in Ids :
           LET changed == holdings[id].isin # form.isin
               soiled == IF changed THEN Soiled(id, tasks) ELSE tasks
           IN
           /\ Exists(id) /\ holdings[id].fund = form.fund
           /\ holdings' = [holdings EXCEPT ![id].isin = form.isin]
           /\ Enters(id, form.isin, On(id) = {})
           /\ tasks' = IF form.etf THEN [soiled EXCEPT ![r] = Task("ask", generated + 1, form)] ELSE soiled
           /\ disturbed' = IF changed THEN disturbed \union {id} ELSE disturbed
    /\ UNCHANGED <<components, fetches, faults>>

RemoveHolding(id) ==
    /\ requests < MaxRequests /\ requests' = requests + 1
    /\ Exists(id)
    /\ holdings' = [holdings EXCEPT ![id] = None]
    /\ UNCHANGED <<components, tasks, fetches, generated, faults, disturbed, entered>>

\* ModifyHolding, its first section: was it an ETF?  A failed query counts as no.
ReadForModify(r) ==
    /\ NewRequest(r)
    /\ \E form \in Filled, id \in 1 .. generated :
           \/ /\ Exists(id)
              /\ Begins(r, [Task("modify", id, form) EXCEPT !.wasETF = holdings[id].etf])
              /\ UNCHANGED faults
           \/ /\ Fault
              /\ tasks' = [Soiled(id, tasks) EXCEPT ![r] = [Task("modify", id, form) EXCEPT !.clean = FALSE]]
              /\ disturbed' = disturbed \union {id}
    /\ UNCHANGED <<holdings, components, fetches, generated, entered>>

\* A bug for Then: an ETF that stays one is fetched again without a deletion.
Then_NoDeletion(wasETF, isETF) ==
    CASE wasETF /\ ~isETF -> "delete"
      [] isETF -> "ask"
      [] OTHER -> "end"

\* The goroutine that a modification starts.
Then(wasETF, isETF) ==
    CASE wasETF -> "delete"
      [] ~wasETF /\ isETF -> "ask"
      [] OTHER -> "end"

\* A bug for WriteModified: the goroutine gets the ISIN that was there before.
WriteModified_OldISIN(r) ==
    LET task == tasks[r]
        id == task.id
        next == Then(task.wasETF, task.form.etf)
    IN
    /\ task.at = "modify"
    /\ IF ~Exists(id)
       THEN Ends(r, TRUE) /\ UNCHANGED <<holdings, entered>>
       ELSE /\ holdings' = [holdings EXCEPT ![id] = task.form]
            /\ Enters(id, task.form.isin, On(id) = {r})
            /\ IF next = "end"
               THEN Ends(r, TRUE)
               ELSE /\ tasks' = [tasks EXCEPT ![r].at = next, ![r].form.isin = holdings[id].isin]
                    /\ UNCHANGED <<disturbed, fetches>>
    /\ UNCHANGED <<components, generated, requests, faults>>

\* ... its second section: the row, if it is still there.
WriteModified(r) ==
    LET task == tasks[r]
        id == task.id
        next == Then(task.wasETF, task.form.etf)
    IN
    /\ task.at = "modify"
    /\ IF ~Exists(id)
       THEN Ends(r, TRUE) /\ UNCHANGED <<holdings, entered>>
       ELSE /\ holdings' = [holdings EXCEPT ![id] = task.form]
            /\ Enters(id, task.form.isin, On(id) = {r})
            /\ IF next = "end"
               THEN Ends(r, TRUE)
               ELSE Continues(r, next) /\ UNCHANGED <<disturbed, fetches>>
    /\ UNCHANGED <<components, generated, requests, faults>>

Listed == {id \in Ids : Exists(id) /\ holdings[id].etf}

\* One tick of updateETFDataPeriodic: the ETFs are listed, and a goroutine of each waits
\* for a place.  The goroutines of the last tick are over.
Refresh ==
    /\ \A t \in Refreshes : tasks[t] = Idle
    /\ tasks' = [t \in Tasks |->
           IF t \in Refreshes /\ t[2] \in Listed
           THEN [Task("wait", t[2], holdings[t[2]]) EXCEPT !.clean = On(t[2]) = {}]
           ELSE IF \E id \in Listed : t \in On(id) THEN [tasks[t] EXCEPT !.clean = FALSE]
           ELSE tasks[t]]
    /\ disturbed' = disturbed \union {id \in Listed : On(id) # {}}
    /\ UNCHANGED <<holdings, components, fetches, generated, requests, faults, entered>>

\* acquireExternalFetch.
Acquire(t) ==
    /\ tasks[t].at = "wait" /\ fetches < MaxFetches
    /\ fetches' = fetches + 1
    /\ Continues(t, "delete")
    /\ UNCHANGED <<holdings, components, generated, requests, faults, disturbed, entered>>

\* deleteETFDataForHolding: one transaction; after an error the goroutine returns.
Delete(t) ==
    LET task == tasks[t] IN
    /\ task.at = "delete"
    /\ \/ /\ components' = [components EXCEPT ![task.id] = NoRows]
          /\ IF task.form.etf
             THEN /\ tasks' = [tasks EXCEPT ![t].at = "ask", ![t].deleted = TRUE]
                  /\ UNCHANGED <<fetches, disturbed>>
             ELSE Ends(t, TRUE)
          /\ UNCHANGED faults
       \/ /\ Fault /\ Ends(t, FALSE) /\ UNCHANGED components
    /\ UNCHANGED <<holdings, generated, requests, entered>>

\* The ISIN of an answer is written by updateHoldingISINByID; an error is logged only.
Answered(t) ==
    LET task == tasks[t] IN
    /\ task.form.isin # NoISIN
    /\ Continues(t, "insert")
    /\ \/ /\ holdings' = IF Exists(task.id) THEN [holdings EXCEPT ![task.id].isin = task.form.isin] ELSE holdings
          /\ UNCHANGED faults
       \/ Fault /\ UNCHANGED holdings
    /\ UNCHANGED <<fetches, disturbed>>

\* A bug for NotAnswered: the place is kept when the request fails.
NotAnswered_KeepsThePlace(t) ==
    /\ tasks' = [tasks EXCEPT ![t] = Idle]
    /\ IF tasks[t].form.isin = NoISIN
       THEN UNCHANGED <<faults, disturbed>>
       ELSE Fault /\ disturbed' = disturbed \union {tasks[t].id}
    /\ UNCHANGED <<holdings, fetches>>

\* An error, or an empty answer, which the service gives without an ISIN or when its own
\* source fails: nothing is inserted.
NotAnswered(t) ==
    /\ IF tasks[t].form.isin = NoISIN
       THEN Ends(t, TRUE) /\ UNCHANGED faults
       ELSE Ends(t, FALSE) /\ Fault
    /\ UNCHANGED holdings

\* The request to the data service and what follows its answer at once.
Ask(t) ==
    /\ tasks[t].at = "ask"
    /\ Answered(t) \/ NotAnswered(t)
    /\ UNCHANGED <<components, generated, requests, entered>>

\* addAsset, addSector and addRegion for all rows of a table; an error is logged only.
Insert(t) ==
    LET task == tasks[t]
        last == task.next = Len(Parts)
    IN
    /\ task.at = "insert"
    /\ \/ /\ components' = [components EXCEPT ![task.id][task.next][task.form.isin] = @ + 1]
          /\ IF last THEN Ends(t, TRUE)
             ELSE tasks' = [tasks EXCEPT ![t].next = @ + 1] /\ UNCHANGED <<fetches, disturbed>>
          /\ UNCHANGED faults
       \/ /\ Fault /\ UNCHANGED components
          /\ IF last THEN Ends(t, FALSE)
             ELSE /\ tasks' = [tasks EXCEPT ![t].next = @ + 1, ![t].clean = FALSE]
                  /\ disturbed' = disturbed \union {task.id} /\ UNCHANGED fetches
    /\ UNCHANGED <<holdings, generated, requests, entered>>

\* The server ends and is started again: the goroutines are gone.
RestartServer ==
    /\ Fault
    /\ tasks' = [t \in Tasks |-> Idle] /\ fetches' = 0
    /\ disturbed' = disturbed \union {id \in Ids : On(id) # {}}
    /\ UNCHANGED <<holdings, components, generated, requests, entered>>

\* One holding, whose components are as they should be; instruments are interchangeable.
HoldingsInit ==
    /\ generated = 1
    /\ \E form \in Filled :
           /\ form.fund = CHOOSE f \in Funds : TRUE
           /\ holdings = [id \in Ids |-> IF id = 1 THEN form ELSE None]
           /\ components = [id \in Ids |-> [p \in 1 .. Len(Parts) |-> [f \in Funds |->
                  IF id = 1 /\ form.etf /\ form.isin = f THEN 1 ELSE 0]]]
           /\ entered = [id \in Ids |-> [isin |-> IF id = 1 THEN form.isin ELSE NoISIN, alone |-> TRUE]]
    /\ tasks = [t \in Tasks |-> Idle] /\ fetches = 0
    /\ requests = 0 /\ faults = 0 /\ disturbed = {}

\* The next step of a request or a refresh that has begun.
Proceeds(t) == WriteModified(t) \/ Acquire(t) \/ Delete(t) \/ Ask(t) \/ Insert(t)

HoldingsNext ==
    \/ \E r \in Requests : AddHolding(r) \/ MergeHolding(r) \/ ReadForModify(r)
    \/ \E id \in Ids : RemoveHolding(id)
    \/ \E t \in Tasks : Proceeds(t)
    \/ Refresh \/ RestartServer

\* The ticker ticks, and what has begun goes on, as every request in it has a timeout.
\* Nothing is assumed of the users.
HoldingsFairness == WF_holdingVars(Refresh) /\ \A t \in Tasks : WF_holdingVars(Proceeds(t))

HoldingsSpec == HoldingsInit /\ [][HoldingsNext]_holdingVars /\ HoldingsFairness

(***************************************************************************)
(* Properties.                                                             *)
(***************************************************************************)

\* The type of every variable.
HoldingsTypeOK ==
    /\ holdings \in [Ids -> Forms \union {None}]
    /\ components \in [Ids -> [1 .. Len(Parts) -> [Funds -> Nat]]]
    /\ DOMAIN tasks = Tasks /\ fetches \in 0 .. MaxFetches /\ generated \in 0 .. MaxHoldings
    /\ requests \in 0 .. MaxRequests /\ faults \in 0 .. MaxFaults /\ disturbed \subseteq Ids
    /\ entered \in [Ids -> [isin : Funds \union {NoISIN}, alone : BOOLEAN]]

\* Every table has the rows of the holding's ETF once and no others.
Matches(id) ==
    \A p \in 1 .. Len(Parts), f \in Funds :
        components[id][p][f] = IF holdings[id].etf /\ holdings[id].isin = f THEN 1 ELSE 0

\* When nothing is going on with a holding, its components are those of its ETF, once,
\* unless since the last refresh that ran through undisturbed two operations on it
\* overlapped, one failed, or a merge changed its ISIN: deletion and insertion are paired
\* over all sequences of additions, conversions, modifications and refreshes, and a
\* refresh that is left alone makes up for what went wrong before it.
ComponentsMatchUnlessDisturbed ==
    \A id \in Ids : Exists(id) /\ id \notin disturbed /\ On(id) = {} => Matches(id)

\* An answer brings back an ISIN that the user has replaced only if it was asked for
\* before: what was entered while nothing was going on with the holding stays.
EnteredISINStays ==
    \A id \in Ids : Exists(id) /\ entered[id].alone => holdings[id].isin = entered[id].isin

\* Whatever overlapped, failed or was cut off, each ETF has its components once again and
\* again: the periodic refresh always gets its place and gets through.
EtfsAreMadeWhole ==
    \A id \in Ids : []<>(Exists(id) /\ holdings[id].etf => Matches(id))
=============================================================================
