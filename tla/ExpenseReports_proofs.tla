------------------------ MODULE ExpenseReports_proofs ------------------------
(***************************************************************************)
(* For any finite number of requests at a time, any number of periods and  *)
(* of failures: duplicates of a report are bounded, and a run that met no  *)
(* other one leaves exactly one report.                                    *)
(*                                                                         *)
(* Each run that has its deletion behind it may still add one row; so rows *)
(* and such runs together never outnumber the runs there are, failed       *)
(* deletions aside.  That, and that a run alone on its period finds no row *)
(* after its deletion, is the inductive invariant.                         *)
(***************************************************************************)
EXTENDS ExpenseReports, FiniteSetTheorems, TLAPS

Past == {"read", "ask", "save"}

LEMMA RunsAreFinite == IsFiniteSet(Run) /\ Scheduler \in Run /\ Scheduler \notin Requests /\ Requests \subseteq Run
BY SchedulerAssumption, FS_AddElement DEF Run

LEMMA PastIsFinite ==
  ASSUME NEW p
  PROVE  /\ PastDelete(p) \subseteq Run /\ IsFiniteSet(PastDelete(p))
         /\ Cardinality(PastDelete(p)) \in Nat /\ Cardinality(Run) \in Nat
         /\ Cardinality(PastDelete(p)) <= Cardinality(Run)
<1>1. PastDelete(p) \subseteq Run
  BY DEF PastDelete, LiveOn
<1>2. IsFiniteSet(PastDelete(p)) /\ Cardinality(PastDelete(p)) <= Cardinality(Run)
  BY <1>1, RunsAreFinite, FS_Subset
<1> QED
  BY <1>1, <1>2, RunsAreFinite, FS_CardinalityType

LEMMA PastIs ==
  ASSUME NEW p
  PROVE  PastDelete(p) = {r \in Run : pc[r] \in Past /\ period[r] = p}
BY DEF PastDelete, LiveOn, Live, Past

LEMMA InitIInv == Init => IInv
<1> SUFFICES ASSUME Init PROVE IInv
  OBVIOUS
<1>1. TypeOK
  BY BoundAssumption, RunsAreFinite DEF Init, TypeOK, Period, Step
<1>2. AloneIsAlone
  BY DEF Init, AloneIsAlone, Live
<1>3. EachRunAddsOne
  BY PastIsFinite DEF Init, EachRunAddsOne
<1> QED
  BY <1>1, <1>2, <1>3 DEF IInv

-----------------------------------------------------------------------------
\* The types, action by action.
LEMMA PeriodsAreNumbers == Period \subseteq Nat /\ 0 \in Period /\ MaxPeriod \in Nat
BY BoundAssumption DEF Period

LEMMA FaultKeepsBound == ASSUME faults \in 0..MaxFaults, Fault PROVE faults' \in 0..MaxFaults
BY BoundAssumption DEF Fault

LEMMA GotoKeepsSteps ==
  ASSUME pc \in [Run -> Step], NEW r \in Run, NEW s \in Step, Goto(r, s)
  PROVE  pc' \in [Run -> Step]
BY DEF Goto

LEMMA BeginKeepsTypes ==
  ASSUME TypeOK, NEW r \in Run, Begin(r)
  PROVE  TypeOK'
<1>1. pc' = [pc EXCEPT ![r] = "exists"]
  BY DEF Begin, Goto
<1>2. /\ pc' \in [Run -> Step]
      /\ \A q \in Requests : pc'[q] # "checked"
  BY <1>1, RunsAreFinite DEF TypeOK, Step
<1>3. period' \in [Run -> Period]
  BY DEF Begin, TypeOK
<1>4. alone' \in [Run -> BOOLEAN]
  <2>1. alone' = [q \in Run |-> IF q = r THEN LiveOn(current) = {}
                                ELSE alone[q] /\ q \notin LiveOn(current)]
    BY DEF Begin
  <2> QED
    BY <2>1, Zenon
<1> QED
  BY <1>2, <1>3, <1>4 DEF Begin, TypeOK

LEMMA TypeStep == TypeOK /\ [Next]_vars => TypeOK'
<1> SUFFICES ASSUME TypeOK, [Next]_vars PROVE TypeOK'
  OBVIOUS
<1> USE RunsAreFinite
<1>1. ASSUME NEW r \in Run, Request(r) PROVE TypeOK'
  BY <1>1, BeginKeepsTypes DEF Request
<1>2. ASSUME NEW r \in Run, Generate(r) PROVE TypeOK'
  BY <1>2 DEF TypeOK, Generate, Exists, Delete, Read, Answered, NotAnswered, Save, Goto, Step,
              DeleteExpenseReportForPeriod
<1>3. ASSUME NEW r \in Run, Fails(r) PROVE TypeOK'
  <2>1. faults' \in 0..MaxFaults
    BY <1>3, FaultKeepsBound DEF TypeOK, Fails, ExistsFails, DeleteFails, ReadFails, SaveFails
  <2>2. Goto(r, "idle") \/ Goto(r, "read")
    BY <1>3 DEF Fails, ExistsFails, DeleteFails, ReadFails, SaveFails
  <2>3. pc' \in [Run -> Step] /\ \A q \in Requests : pc'[q] # "checked"
    BY <2>2 DEF TypeOK, Goto, Step
  <2>4. alone' \in [Run -> BOOLEAN]
    BY <1>3 DEF TypeOK, Fails, ExistsFails, DeleteFails, ReadFails, SaveFails
  <2>5. UNCHANGED <<current, booked, rows, period>>
    BY <1>3 DEF Fails, ExistsFails, DeleteFails, ReadFails, SaveFails
  <2> QED
    BY <2>1, <2>3, <2>4, <2>5 DEF TypeOK
<1>4. ASSUME SchedulerTick PROVE TypeOK'
  <2>1. faults' \in 0..MaxFaults
    BY <1>4, FaultKeepsBound DEF TypeOK, SchedulerTick
  <2>2. pc' \in [Run -> Step] /\ \A q \in Requests : pc'[q] # "checked"
    BY <1>4 DEF TypeOK, SchedulerTick, Goto, Step
  <2> QED
    BY <1>4, <2>1, <2>2 DEF TypeOK, SchedulerTick
<1>5. ASSUME SchedulerBegins PROVE TypeOK'
  BY <1>5, BeginKeepsTypes DEF SchedulerBegins
<1>6. ASSUME NEW p \in Period, Book(p) PROVE TypeOK'
  <2>1. booked' \in [Period -> BOOLEAN]
    BY <1>6, Zenon DEF TypeOK, Book
  <2> QED
    BY <1>6, <2>1 DEF TypeOK, Book, run
<1>7. ASSUME NextPeriod PROVE TypeOK'
  <2>1. current' \in Period
    BY <1>7, BoundAssumption DEF TypeOK, NextPeriod, Period
  <2> QED
    BY <1>7, <2>1 DEF TypeOK, NextPeriod, run
<1>8. ASSUME Restart PROVE TypeOK'
  <2>1. faults' \in 0..MaxFaults
    BY <1>8, FaultKeepsBound DEF TypeOK, Restart
  <2> QED
    BY <1>8, <2>1 DEF TypeOK, Restart, Step
<1>9. ASSUME UNCHANGED vars PROVE TypeOK'
  BY <1>9 DEF TypeOK, vars
<1> QED
  BY <1>1, <1>2, <1>3, <1>4, <1>5, <1>6, <1>7, <1>8, <1>9 DEF Next

-----------------------------------------------------------------------------
(* The runs that are alone.                                                *)

\* The same in terms of pairs of runs.
LEMMA AloneInPairs ==
  AloneIsAlone <=>
    \A r \in Run : Live(r) /\ alone[r] =>
      /\ \A q \in Run : Live(q) /\ period[q] = period[r] => q = r
      /\ pc[r] \in Past => rows[period[r]] = 0
BY DEF AloneIsAlone, LiveOn, Past

LEMMA AloneInPairsNext ==
  AloneIsAlone' <=>
    \A r \in Run : Live(r)' /\ alone'[r] =>
      /\ \A q \in Run : Live(q)' /\ period'[q] = period'[r] => q = r
      /\ pc'[r] \in Past => rows'[period'[r]] = 0
BY DEF AloneIsAlone, LiveOn, Past

\* A statement of a live run keeps it, if the run has no report to count with after
\* its deletion.
LEMMA AloneStatement ==
  ASSUME TypeOK, AloneIsAlone, NEW r \in Run, Live(r), NEW s, Goto(r, s), period' = period,
         \A q \in Run : alone'[q] => alone[q],
         \A p \in Period : p # period[r] => rows'[p] = rows[p],
         s \in Past /\ alone'[r] => rows'[period[r]] = 0
  PROVE  AloneIsAlone'
<1> SUFFICES ASSUME NEW q \in Run, Live(q)', alone'[q]
             PROVE  /\ \A x \in Run : Live(x)' /\ period[x] = period[q] => x = q
                    /\ pc'[q] \in Past => rows'[period[q]] = 0
  BY AloneInPairsNext
<1>1. \A x \in Run : pc'[x] = IF x = r THEN s ELSE pc[x]
  BY DEF TypeOK, Goto
<1>2. \A x \in Run : Live(x)' => Live(x)
  BY <1>1 DEF Live
<1>3. /\ \A x \in Run : Live(x) /\ period[x] = period[q] => x = q
      /\ pc[q] \in Past => rows[period[q]] = 0
  BY <1>2, AloneInPairs
<1>4. \A x \in Run : Live(x)' /\ period[x] = period[q] => x = q
  BY <1>2, <1>3
<1>5. ASSUME pc'[q] \in Past PROVE rows'[period[q]] = 0
  <2>1. CASE q = r
    BY <2>1, <1>1, <1>5
  <2>2. CASE q # r
    <3>1. pc[q] \in Past /\ period[r] # period[q] /\ period[q] \in Period
      BY <2>2, <1>1, <1>3, <1>5 DEF TypeOK
    <3> QED
      BY <3>1, <1>3
  <2> QED
    BY <2>1, <2>2
<1> QED
  BY <1>4, <1>5

LEMMA AloneBegin ==
  ASSUME TypeOK, AloneIsAlone, NEW r \in Run, ~Live(r), Begin(r)
  PROVE  AloneIsAlone'
<1> SUFFICES ASSUME NEW q \in Run, Live(q)', alone'[q]
             PROVE  /\ \A x \in Run : Live(x)' /\ period'[x] = period'[q] => x = q
                    /\ pc'[q] \in Past => rows'[period'[q]] = 0
  BY AloneInPairsNext
<1>1. \A x \in Run : /\ pc'[x] = IF x = r THEN "exists" ELSE pc[x]
                     /\ period'[x] = IF x = r THEN current ELSE period[x]
                     /\ x # r => Live(x)' = Live(x)
  BY DEF TypeOK, Begin, Goto, Live
<1>2. CASE q = r
  <2>1. LiveOn(current) = {}
    BY <1>2 DEF Begin
  <2> QED
    BY <1>1, <1>2, <2>1 DEF LiveOn, Past
<1>3. CASE q # r
  <2>1. alone[q] /\ q \notin LiveOn(current)
    BY <1>3 DEF Begin
  <2>2. Live(q) /\ period[q] # current
    BY <1>1, <1>3, <2>1 DEF LiveOn
  <2>3. /\ \A x \in Run : Live(x) /\ period[x] = period[q] => x = q
        /\ pc[q] \in Past => rows[period[q]] = 0
    BY <2>1, <2>2, AloneInPairs
  <2>4. rows' = rows
    BY DEF Begin
  <2> QED
    BY <1>1, <1>3, <2>2, <2>3, <2>4
<1> QED
  BY <1>2, <1>3

-----------------------------------------------------------------------------
(* The count of reports.                                                   *)

Room(p) == rows[p] + Cardinality(PastDelete(p)) <= Cardinality(Run) + faults

LEMMA PastIsFiniteNext ==
  ASSUME NEW p
  PROVE  /\ PastDelete(p)' \subseteq Run /\ IsFiniteSet(PastDelete(p)')
         /\ Cardinality(PastDelete(p)') \in Nat /\ Cardinality(Run) \in Nat
         /\ Cardinality(PastDelete(p)') <= Cardinality(Run)
<1>1. PastDelete(p)' \subseteq Run
  BY DEF PastDelete, LiveOn
<1>2. IsFiniteSet(PastDelete(p)') /\ Cardinality(PastDelete(p)') <= Cardinality(Run)
  BY <1>1, RunsAreFinite, FS_Subset
<1> QED
  BY <1>1, <1>2, RunsAreFinite, FS_CardinalityType

\* No run of the period gets past its deletion and no row is added.
LEMMA RoomKept ==
  ASSUME TypeOK, TypeOK', NEW p \in Period, Room(p),
         rows'[p] = rows[p], faults' >= faults, PastDelete(p)' \subseteq PastDelete(p)
  PROVE  Room(p)'
<1>1. Cardinality(PastDelete(p)') <= Cardinality(PastDelete(p))
  BY PastIsFinite, FS_Subset
<1>2. rows[p] \in Nat /\ faults \in Nat /\ faults' \in Nat
  BY BoundAssumption DEF TypeOK
<1> QED
  BY <1>1, <1>2, PastIsFinite, PastIsFiniteNext DEF Room

\* There is no report of the period any more.
LEMMA RoomEmpty ==
  ASSUME TypeOK', NEW p \in Period, rows'[p] = 0
  PROVE  Room(p)'
<1>1. faults' \in Nat
  BY BoundAssumption DEF TypeOK
<1> QED
  BY <1>1, PastIsFiniteNext DEF Room

\* A run gets past its deletion and the deletion failed.
LEMMA RoomFault ==
  ASSUME TypeOK, TypeOK', NEW p \in Period, Room(p), NEW r \in Run,
         rows'[p] = rows[p], faults' = faults + 1, PastDelete(p)' \subseteq PastDelete(p) \cup {r}
  PROVE  Room(p)'
<1>1. /\ IsFiniteSet(PastDelete(p) \cup {r})
      /\ Cardinality(PastDelete(p) \cup {r}) <= Cardinality(PastDelete(p)) + 1
  <2>1. PICK C : C = PastDelete(p)
    OBVIOUS
  <2>2. IsFiniteSet(C) /\ Cardinality(C) \in Nat
    BY <2>1, PastIsFinite
  <2>3. IsFiniteSet(C \cup {r}) /\ (Cardinality(C \cup {r}) = Cardinality(C) \/ Cardinality(C \cup {r}) = Cardinality(C) + 1)
    BY <2>2, FS_AddElement, Zenon
  <2> QED
    BY <2>1, <2>2, <2>3
<1>2. Cardinality(PastDelete(p)') <= Cardinality(PastDelete(p) \cup {r})
  BY <1>1, FS_Subset
<1>3. Cardinality(PastDelete(p) \cup {r}) \in Nat
  BY <1>1, FS_CardinalityType
<1>4. rows[p] \in Nat /\ faults \in Nat
  BY BoundAssumption DEF TypeOK
<1> QED
  BY <1>1, <1>2, <1>3, <1>4, PastIsFinite, PastIsFiniteNext DEF Room

\* A run adds its row and is over.
LEMMA RoomSaved ==
  ASSUME TypeOK, TypeOK', NEW p \in Period, Room(p), NEW r \in PastDelete(p),
         rows'[p] = rows[p] + 1, faults' = faults, PastDelete(p)' \subseteq PastDelete(p) \ {r}
  PROVE  Room(p)'
<1>1. /\ IsFiniteSet(PastDelete(p) \ {r})
      /\ Cardinality(PastDelete(p) \ {r}) = Cardinality(PastDelete(p)) - 1
  BY PastIsFinite, FS_RemoveElement
<1>2. Cardinality(PastDelete(p)') <= Cardinality(PastDelete(p)) - 1
  BY <1>1, FS_Subset
<1>3. rows[p] \in Nat /\ faults \in Nat
  BY BoundAssumption DEF TypeOK
<1> QED
  BY <1>2, <1>3, PastIsFinite, PastIsFiniteNext DEF Room

\* A step that changes nothing but where run r goes, and not past its deletion.
LEMMA RoomElsewhere ==
  ASSUME TypeOK, NEW p \in Period, NEW r \in Run, NEW s, Goto(r, s), period' = period,
         s \notin Past \/ pc[r] \in Past \/ period[r] # p
  PROVE  PastDelete(p)' \subseteq PastDelete(p)
<1>1. \A x \in Run : pc'[x] = IF x = r THEN s ELSE pc[x]
  BY DEF TypeOK, Goto
<1>2. PastDelete(p)' = {x \in Run : pc'[x] \in Past /\ period'[x] = p}
  BY DEF PastDelete, LiveOn, Live, Past
<1> QED
  BY <1>1, <1>2, PastIs

LEMMA RoomNext ==
  ASSUME NEW p
  PROVE  PastDelete(p)' = {x \in Run : pc'[x] \in Past /\ period'[x] = p}
BY DEF PastDelete, LiveOn, Live, Past

LEMMA RoomIs == EachRunAddsOne <=> \A p \in Period : Room(p)
BY DEF EachRunAddsOne, Room

LEMMA RoomIsNext == EachRunAddsOne' <=> \A p \in Period : Room(p)'
BY DEF EachRunAddsOne, Room

LEMMA BeginKeepsRoom ==
  ASSUME TypeOK, TypeOK', EachRunAddsOne, NEW r \in Run, Begin(r)
  PROVE  EachRunAddsOne'
<1> SUFFICES ASSUME NEW p \in Period PROVE Room(p)'
  BY RoomIsNext
<1>1. PastDelete(p)' \subseteq PastDelete(p)
  <2>1. \A x \in Run : /\ pc'[x] = IF x = r THEN "exists" ELSE pc[x]
                       /\ period'[x] = IF x = r THEN current ELSE period[x]
    BY DEF TypeOK, Begin, Goto
  <2> QED
    BY <2>1, PastIs, RoomNext DEF Past
<1>2. rows'[p] = rows[p] /\ faults' >= faults
  BY BoundAssumption DEF Begin, TypeOK
<1> QED
  BY <1>1, <1>2, RoomKept, RoomIs

-----------------------------------------------------------------------------
(* The invariant.                                                          *)

LEMMA GenerateKeeps ==
  ASSUME IInv, TypeOK', NEW r \in Run, Generate(r)
  PROVE  AloneIsAlone' /\ EachRunAddsOne'
<1> USE DEF IInv
<1>0. /\ period[r] \in Period /\ faults \in Nat /\ rows \in [Period -> Nat]
      /\ pc \in [Run -> Step]
  BY BoundAssumption DEF TypeOK
<1>1. CASE Exists(r)
  <2> DEFINE s == IF ReportExistsForPeriod(period[r]) THEN "delete" ELSE "read"
  <2>1. Live(r) /\ Goto(r, s) /\ UNCHANGED <<rows, period, alone, faults>>
    BY <1>1 DEF Exists, Live
  <2>2. s = "read" => rows[period[r]] = 0
    BY <1>0 DEF ReportExistsForPeriod
  <2>3. AloneIsAlone'
    BY <2>1, <2>2, AloneStatement DEF Past
  <2>4. ASSUME NEW p \in Period PROVE Room(p)'
    <3>1. CASE s = "read" /\ p = period[r]
      BY <2>1, <2>2, <3>1, RoomEmpty
    <3>2. CASE ~(s = "read" /\ p = period[r])
      <4>1. PastDelete(p)' \subseteq PastDelete(p)
        BY <2>1, <3>2, RoomElsewhere DEF Past
      <4> QED
        BY <1>0, <2>1, <4>1, RoomKept, RoomIs
    <3> QED
      BY <3>1, <3>2
  <2> QED
    BY <2>3, <2>4, RoomIsNext
<1>2. CASE Delete(r)
  <2>1. /\ Live(r) /\ Goto(r, "read") /\ UNCHANGED <<period, alone, faults>>
        /\ \A p \in Period : rows'[p] = IF p = period[r] THEN 0 ELSE rows[p]
    BY <1>0, <1>2 DEF Delete, Live, DeleteExpenseReportForPeriod
  <2>2. AloneIsAlone'
    BY <1>0, <2>1, AloneStatement
  <2>3. ASSUME NEW p \in Period PROVE Room(p)'
    <3>1. CASE p = period[r]
      BY <2>1, <3>1, RoomEmpty
    <3>2. CASE p # period[r]
      BY <1>0, <2>1, <3>2, RoomElsewhere, RoomKept, RoomIs
    <3> QED
      BY <3>1, <3>2
  <2> QED
    BY <2>2, <2>3, RoomIsNext
<1>3. CASE Read(r) \/ Answered(r) \/ NotAnswered(r)
  <2>1. PICK s \in {"ask", "save", "idle"} :
          /\ pc[r] \in Past /\ Live(r) /\ Goto(r, s) /\ UNCHANGED <<rows, period, alone, faults>>
    BY <1>3 DEF Read, Answered, NotAnswered, Live, Past
  <2>2. alone[r] => rows[period[r]] = 0
    BY <2>1, AloneInPairs
  <2>3. AloneIsAlone'
    BY <2>1, <2>2, AloneStatement
  <2>4. ASSUME NEW p \in Period PROVE Room(p)'
    BY <1>0, <2>1, RoomElsewhere, RoomKept, RoomIs
  <2> QED
    BY <2>3, <2>4, RoomIsNext
<1>4. CASE Save(r)
  <2>1. /\ pc[r] = "save" /\ Live(r) /\ Goto(r, "idle") /\ UNCHANGED <<period, alone, faults>>
        /\ \A p \in Period : rows'[p] = IF p = period[r] THEN rows[p] + 1 ELSE rows[p]
    BY <1>0, <1>4 DEF Save, Live
  <2>2. AloneIsAlone'
    BY <2>1, AloneStatement DEF Past
  <2>3. ASSUME NEW p \in Period PROVE Room(p)'
    <3>1. PastDelete(p)' \subseteq PastDelete(p)
      BY <2>1, RoomElsewhere DEF Past
    <3>2. CASE p = period[r]
      <4>1. r \in PastDelete(p)
        BY <2>1, <3>2, PastIs DEF Past
      <4>2. r \notin PastDelete(p)'
        BY <1>0, <2>1, RoomNext DEF Goto, Past
      <4> QED
        BY <2>1, <3>1, <3>2, <4>1, <4>2, RoomSaved, RoomIs
    <3>3. CASE p # period[r]
      BY <1>0, <2>1, <3>1, <3>3, RoomKept, RoomIs
    <3> QED
      BY <3>2, <3>3
  <2> QED
    BY <2>2, <2>3, RoomIsNext
<1> QED
  BY <1>1, <1>2, <1>3, <1>4 DEF Generate

LEMMA FailsKeeps ==
  ASSUME IInv, TypeOK', NEW r \in Run, Fails(r)
  PROVE  AloneIsAlone' /\ EachRunAddsOne'
<1> USE DEF IInv
<1>0. /\ period[r] \in Period /\ faults \in Nat /\ faults' = faults + 1
      /\ rows' = rows /\ period' = period /\ Live(r)
  BY BoundAssumption
     DEF TypeOK, Fails, ExistsFails, DeleteFails, ReadFails, SaveFails, Fault, Live
<1>1. CASE DeleteFails(r)
  <2>1. Goto(r, "read") /\ \A q \in Run : alone'[q] = IF q = r THEN FALSE ELSE alone[q]
    BY <1>1 DEF TypeOK, DeleteFails
  <2>2. AloneIsAlone'
    <3>1. \A q \in Run : alone'[q] => alone[q]
      BY <2>1
    <3>2. ~alone'[r]
      BY <2>1
    <3> QED
      BY <1>0, <2>1, <3>1, <3>2, AloneStatement
  <2>3. ASSUME NEW p \in Period PROVE Room(p)'
    <3>1. PastDelete(p)' \subseteq PastDelete(p) \cup {r}
      BY <1>0, <2>1, PastIs, RoomNext DEF Goto, TypeOK
    <3> QED
      BY <1>0, <3>1, RoomFault, RoomIs
  <2> QED
    BY <2>2, <2>3, RoomIsNext
<1>2. CASE ExistsFails(r) \/ ReadFails(r) \/ SaveFails(r)
  <2>1. Goto(r, "idle") /\ alone' = alone
    BY <1>2 DEF ExistsFails, ReadFails, SaveFails
  <2>2. AloneIsAlone'
    BY <1>0, <2>1, AloneStatement DEF Past
  <2>3. ASSUME NEW p \in Period PROVE Room(p)'
    BY <1>0, <2>1, RoomElsewhere, RoomKept, RoomIs DEF Past
  <2> QED
    BY <2>2, <2>3, RoomIsNext
<1> QED
  BY <1>1, <1>2 DEF Fails

\* What leaves runs and rows as they are.
LEMMA AroundKeeps ==
  ASSUME IInv, TypeOK', UNCHANGED <<rows, run, faults>>
  PROVE  AloneIsAlone' /\ EachRunAddsOne'
<1> USE DEF IInv, run
<1>1. AloneIsAlone'
  BY AloneInPairs, AloneInPairsNext DEF Live
<1>2. ASSUME NEW p \in Period PROVE Room(p)'
  <2>1. PastDelete(p)' = PastDelete(p)
    BY PastIs, RoomNext
  <2>2. Room(p)
    BY RoomIs
  <2> QED
    BY <2>1, <2>2 DEF Room
<1> QED
  BY <1>1, <1>2, RoomIsNext

LEMMA TickKeeps ==
  ASSUME IInv, TypeOK', SchedulerTick
  PROVE  AloneIsAlone' /\ EachRunAddsOne'
<1> USE DEF IInv
<1>1. \A x \in Run : pc'[x] = IF x = Scheduler THEN "checked" ELSE pc[x]
  BY RunsAreFinite DEF TypeOK, SchedulerTick, Goto
<1>2. UNCHANGED <<rows, period, alone>> /\ pc[Scheduler] = "idle"
  BY DEF SchedulerTick
<1>3. AloneIsAlone'
  <2>1. \A x \in Run : Live(x)' = Live(x) /\ (pc'[x] \in Past => pc[x] \in Past)
    BY <1>1, <1>2 DEF Live, Past
  <2> QED
    BY <1>2, <2>1, AloneInPairs, AloneInPairsNext
<1>4. faults' >= faults
  BY BoundAssumption DEF SchedulerTick, Fault, TypeOK
<1>5. ASSUME NEW p \in Period PROVE Room(p)'
  <2>1. PastDelete(p)' \subseteq PastDelete(p)
    BY <1>1, <1>2, PastIs, RoomNext DEF Past
  <2> QED
    BY <1>2, <1>4, <2>1, RoomKept, RoomIs
<1> QED
  BY <1>3, <1>5, RoomIsNext

LEMMA RestartKeeps ==
  ASSUME IInv, TypeOK', Restart
  PROVE  AloneIsAlone' /\ EachRunAddsOne'
<1> USE DEF IInv
<1>1. \A x \in Run : pc'[x] = "idle"
  BY DEF Restart
<1>2. AloneIsAlone'
  BY <1>1, AloneInPairsNext DEF Live
<1>3. ASSUME NEW p \in Period PROVE Room(p)'
  <2>1. PastDelete(p)' \subseteq PastDelete(p)
    BY <1>1, RoomNext DEF Past
  <2>2. rows' = rows /\ faults' >= faults
    BY BoundAssumption DEF Restart, Fault, TypeOK
  <2> QED
    BY <2>1, <2>2, RoomKept, RoomIs
<1> QED
  BY <1>2, <1>3, RoomIsNext

LEMMA NextIInv == IInv /\ [Next]_vars => IInv'
<1> SUFFICES ASSUME IInv, [Next]_vars PROVE IInv'
  OBVIOUS
<1>0. TypeOK'
  BY TypeStep DEF IInv
<1>1. ASSUME NEW r \in Run, Request(r) PROVE AloneIsAlone' /\ EachRunAddsOne'
  <2>1. Begin(r) /\ ~Live(r)
    BY <1>1 DEF Request, Live
  <2> QED
    BY <1>0, <2>1, AloneBegin, BeginKeepsRoom DEF IInv
<1>2. ASSUME NEW r \in Run, Generate(r) PROVE AloneIsAlone' /\ EachRunAddsOne'
  BY <1>0, <1>2, GenerateKeeps
<1>3. ASSUME NEW r \in Run, Fails(r) PROVE AloneIsAlone' /\ EachRunAddsOne'
  BY <1>0, <1>3, FailsKeeps
<1>4. CASE SchedulerTick
  BY <1>0, <1>4, TickKeeps DEF IInv
<1>5. CASE SchedulerBegins
  <2>1. Begin(Scheduler) /\ ~Live(Scheduler)
    BY <1>5 DEF SchedulerBegins, Live
  <2> QED
    BY <1>0, <2>1, RunsAreFinite, AloneBegin, BeginKeepsRoom DEF IInv
<1>6. CASE (\E p \in Period : Book(p)) \/ NextPeriod \/ UNCHANGED vars
  <2>1. UNCHANGED <<rows, run, faults>>
    BY <1>6 DEF Book, NextPeriod, vars, run
  <2> QED
    BY <1>0, <2>1, AroundKeeps DEF IInv
<1>7. CASE Restart
  BY <1>0, <1>7, RestartKeeps DEF IInv
<1> QED
  BY <1>0, <1>1, <1>2, <1>3, <1>4, <1>5, <1>6, <1>7 DEF Next, IInv

\* Types, runs alone on their period and the room for rows hold in every state.
THEOREM Invariance == Spec => []IInv
<1> QED
  BY InitIInv, NextIInv, PTL DEF Spec

\* Requests and scheduler may overlap as they like: a period of tryAutoGenerateReport
\* never has more rows than runs at a time and failed calls.
THEOREM RowsAreBounded == Spec => []DuplicatesAreBounded
<1>1. IInv => DuplicatesAreBounded
  <2> SUFFICES ASSUME IInv, NEW p \in Period PROVE rows[p] <= Cardinality(Run) + faults
    BY DEF DuplicatesAreBounded
  <2>1. rows[p] \in Nat /\ faults \in Nat /\ Room(p)
    BY BoundAssumption, RoomIs DEF IInv, TypeOK
  <2> QED
    BY <2>1, PastIsFinite DEF Room
<1> QED
  BY <1>1, Invariance, PTL

\* A run that met no other run of its period and whose deletion did not fail leaves
\* exactly one report.
THEOREM OneReportWhenUndisturbed == Spec => UndisturbedRunLeavesOneReport
<1>1. IInv => \A r \in Run : Save(r) /\ alone[r] => rows'[period[r]] = 1
  <2> SUFFICES ASSUME IInv, NEW r \in Run, Save(r), alone[r] PROVE rows'[period[r]] = 1
    OBVIOUS
  <2>1. rows[period[r]] = 0
    <3>1. Live(r) /\ pc[r] \in Past
      BY DEF Save, Live, Past
    <3> QED
      BY <3>1, AloneInPairs DEF IInv
  <2>2. period[r] \in Period /\ rows \in [Period -> Nat]
    BY DEF IInv, TypeOK
  <2> QED
    BY <2>1, <2>2 DEF Save
<1> QED
  BY <1>1, Invariance, PTL DEF UndisturbedRunLeavesOneReport
=============================================================================
