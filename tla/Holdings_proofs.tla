---------------------------- MODULE Holdings_proofs ----------------------------
(***************************************************************************)
(* The composition of a holding's ETF, for any number of holdings, tables, *)
(* requests, faults and places.                                            *)
(*                                                                         *)
(* What is known of a holding depends on the tasks on it: one that nothing *)
(* has met is alone, its form is that of the row, and it has filled the    *)
(* tables up to the next one.  Each task's steps are followed from the     *)
(* deletion to the last table; a holding of whose tasks nothing is known   *)
(* is disturbed.                                                           *)
(***************************************************************************)
EXTENDS Holdings, FiniteSetTheorems, TLAPS

Stages == {"modify", "wait", "delete", "ask", "insert"}
TaskType == [at : Stages, id : Ids, form : Forms, wasETF : BOOLEAN,
             next : 1 .. Len(Parts), deleted : BOOLEAN, clean : BOOLEAN]

HoldingsTypes ==
  /\ holdings \in [Ids -> Forms \union {None}]
  /\ components \in [Ids -> [1 .. Len(Parts) -> [Funds -> Nat]]]
  /\ tasks \in [Tasks -> TaskType \union {Idle}]
  /\ generated \in 0 .. MaxHoldings
  /\ requests \in 0 .. MaxRequests /\ faults \in 0 .. MaxFaults
  /\ disturbed \in SUBSET Ids
  /\ entered \in [Ids -> [isin : Funds \union {NoISIN}, alone : BOOLEAN]]

\* Requests begin in their order, and only a refresh waits for a place.
RequestsAreNew == \A r \in Requests : (r[2] > requests => tasks[r] = Idle) /\ tasks[r].at # "wait"

\* Each place of externalFetchSem is a refresh's that has got it and has not ended.
Fetching == {t \in Refreshes : tasks[t] # Idle /\ tasks[t].at # "wait"}
PlacesAreTaken == fetches = Cardinality(Fetching) /\ fetches <= MaxFetches

\* The tables up to "next" have the rows of the instrument, and nothing else.
FilledUpTo(id, next, isin) ==
  \A p \in 1 .. Len(Parts), f \in Funds :
      components[id][p][f] = IF p < next /\ f = isin THEN 1 ELSE 0

\* The order of the stages of a task.
InOrder(task) ==
  /\ task.at # "insert" => task.next = 1
  /\ task.at \in {"ask", "insert"} => task.form.etf
  /\ task.at = "insert" => task.form.isin \in Funds
  /\ task.at \in {"modify", "wait", "delete"} => ~task.deleted

\* What a task that is alone with its holding relies on.
Relies(task, id) ==
  /\ task.at = "modify" /\ Exists(id) =>
         task.wasETF = holdings[id].etf /\ (id \notin disturbed => Matches(id))
  /\ task.at # "modify" /\ Exists(id) =>
         holdings[id].etf = task.form.etf /\ holdings[id].isin = task.form.isin
  /\ task.at \in {"ask", "insert"} /\ (task.deleted \/ id \notin disturbed) =>
         FilledUpTo(id, task.next, task.form.isin)

TasksOn(id) ==
  \A t \in On(id) :
      /\ InOrder(tasks[t])
      /\ IF tasks[t].clean THEN On(id) = {t} /\ Relies(tasks[t], id) ELSE id \in disturbed
      /\ tasks[t].at # "modify" /\ entered[id].alone /\ Exists(id) =>
             tasks[t].form.isin = entered[id].isin

HoldingIInv(id) ==
  /\ TasksOn(id)
  /\ Exists(id) /\ id \notin disturbed /\ On(id) = {} => Matches(id)
  /\ Exists(id) /\ entered[id].alone => holdings[id].isin = entered[id].isin
  /\ id > generated => ~Exists(id) /\ components[id] = NoRows /\ On(id) = {}

HoldingsIInv ==
  /\ HoldingsTypes /\ RequestsAreNew /\ PlacesAreTaken
  /\ \A id \in Ids : HoldingIInv(id)

LEMMA Numbers ==
  /\ MaxHoldings \in Nat \ {0} /\ MaxRequests \in Nat /\ MaxFaults \in Nat /\ MaxFetches \in Nat \ {0}
  /\ Len(Parts) \in Nat \ {0} /\ 1 \in 1 .. Len(Parts)
  /\ Ids = 1 .. MaxHoldings /\ NoISIN \notin Funds
BY HoldingsAssumption DEF Ids

LEMMA KindsOfTasks ==
  /\ \A r \in Requests : r \in Tasks /\ r \notin Refreshes /\ r[2] \in 1 .. MaxRequests
  /\ \A t \in Refreshes : t \in Tasks /\ t \notin Requests /\ t[2] \in Ids
  /\ \A r, s \in Requests : r[2] = s[2] => r = s
BY DEF Requests, Refreshes, Tasks

LEMMA TaskFacts ==
  ASSUME NEW x \in TaskType
  PROVE  /\ x # Idle /\ x.at \in Stages /\ x.id \in Ids /\ x.form \in Forms /\ x.next \in 1 .. Len(Parts)
         /\ x.wasETF \in BOOLEAN /\ x.deleted \in BOOLEAN /\ x.clean \in BOOLEAN
         /\ x.form.fund \in Funds /\ x.form.isin \in Funds \union {NoISIN} /\ x.form.etf \in BOOLEAN
BY DEF TaskType, Idle, Stages, Forms

LEMMA TasksFacts ==
  ASSUME HoldingsTypes, NEW t \in Tasks
  PROVE  /\ tasks[t] # Idle => tasks[t] \in TaskType
         /\ tasks[t].at \in Stages => tasks[t] # Idle
BY DEF HoldingsTypes, Idle, Stages

LEMMA OnFacts ==
  ASSUME HoldingsTypes, NEW id \in Ids, NEW t \in On(id)
  PROVE  t \in Tasks /\ tasks[t] \in TaskType /\ tasks[t] # Idle /\ tasks[t].id = id
BY TasksFacts DEF On

LEMMA HoldingFacts ==
  ASSUME HoldingsTypes, NEW id \in Ids
  PROVE  /\ Exists(id) => holdings[id] \in Forms
         /\ Exists(id) => holdings[id].etf \in BOOLEAN /\ holdings[id].isin \in Funds \union {NoISIN}
BY DEF HoldingsTypes, Exists, Forms

LEMMA NoneIsNoForm == None \notin Forms
<1>1. DOMAIN None = {"is"}
  BY DEF None
<1>2. \A form \in Forms : "fund" \in DOMAIN form
  BY DEF Forms
<1> QED
  BY <1>1, <1>2

LEMMA FetchingIsFinite == IsFiniteSet(Fetching)
<1>1. IsFiniteSet(Ids)
  BY FS_Interval, Numbers
<1>2. IsFiniteSet(Refreshes)
  <2>1. IsFiniteSet({"refresh"})
    BY FS_Singleton
  <2> QED
    BY <1>1, <2>1, FS_Product DEF Refreshes
<1> QED
  BY <1>2, FS_Subset DEF Fetching

\* A holding to which nothing happens keeps what is known of it.
LEMMA HoldingIsKept ==
  ASSUME HoldingsTypes, NEW id \in Ids, HoldingIInv(id),
         components'[id] = components[id], entered'[id] = entered[id],
         Exists(id)' => holdings'[id] = holdings[id],
         On(id)' = On(id), \A t \in On(id) : tasks'[t] = tasks[t],
         id \in disturbed => id \in disturbed', generated' \in Nat, generated <= generated'
  PROVE  HoldingIInv(id)'
<1>1. Exists(id)' => Exists(id) /\ holdings'[id] = holdings[id]
  BY DEF Exists
<1>2. Exists(id)' => (Matches(id) => Matches(id)')
  BY <1>1 DEF Matches
<1>3. ASSUME NEW t \in On(id)
      PROVE  /\ InOrder(tasks[t])'
             /\ IF tasks'[t].clean THEN On(id)' = {t} /\ Relies(tasks[t], id)' ELSE id \in disturbed'
             /\ tasks'[t].at # "modify" /\ entered'[id].alone /\ Exists(id)' =>
                    tasks'[t].form.isin = entered'[id].isin
  <2>1. /\ InOrder(tasks[t])
        /\ IF tasks[t].clean THEN On(id) = {t} /\ Relies(tasks[t], id) ELSE id \in disturbed
        /\ tasks[t].at # "modify" /\ entered[id].alone /\ Exists(id) =>
               tasks[t].form.isin = entered[id].isin
    BY DEF HoldingIInv, TasksOn
  <2>2. InOrder(tasks[t])'
    BY <2>1 DEF InOrder
  <2>3. Relies(tasks[t], id) => Relies(tasks[t], id)'
    BY <1>1, <1>2 DEF Relies, FilledUpTo
  <2> QED
    BY <1>1, <2>1, <2>2, <2>3
<1>4. TasksOn(id)'
  BY <1>3 DEF TasksOn
<1>5. id > generated' => id > generated
  BY Numbers DEF HoldingsTypes
<1>6. NoRows' = NoRows
  BY DEF NoRows
<1> QED
  BY <1>1, <1>2, <1>4, <1>5, <1>6 DEF HoldingIInv

\* A step of a task with the holding that it is on.
LEMMA HoldingOfAStep ==
  ASSUME HoldingsTypes, NEW id \in Ids, HoldingIInv(id), NEW t \in Tasks, t \in On(id),
         \A s \in Tasks \ {t} : tasks'[s] = tasks[s], generated' = generated,
         tasks'[t] # Idle =>
             /\ tasks'[t].id = id /\ InOrder(tasks[t])'
             /\ IF tasks'[t].clean THEN tasks[t].clean /\ Relies(tasks[t], id)' ELSE id \in disturbed'
             /\ tasks'[t].at # "modify" /\ entered'[id].alone /\ Exists(id)' =>
                    tasks'[t].form.isin = entered'[id].isin,
         tasks'[t] = Idle /\ tasks[t].clean /\ Exists(id)' /\ id \notin disturbed' => Matches(id)',
         ~tasks[t].clean => id \in disturbed',
         Exists(id)' => Exists(id),
         entered'[id].alone => On(id) = {t} \/ entered'[id] = entered[id],
         Exists(id)' /\ entered'[id].alone => holdings'[id].isin = entered'[id].isin
  PROVE  HoldingIInv(id)'
<1>1. TasksOn(id)
  BY DEF HoldingIInv
<1>2. On(id)' = On(id) \/ On(id)' = On(id) \ {t}
  BY DEF On
<1>3. tasks[t].clean => On(id) = {t}
  BY <1>1 DEF TasksOn
<1>4. \A s \in On(id) \ {t} : ~tasks[s].clean /\ s \in Tasks
  BY <1>1 DEF TasksOn, On
<1>5. ASSUME NEW s \in On(id)'
      PROVE  /\ InOrder(tasks[s])'
             /\ IF tasks'[s].clean THEN On(id)' = {s} /\ Relies(tasks[s], id)' ELSE id \in disturbed'
             /\ tasks'[s].at # "modify" /\ entered'[id].alone /\ Exists(id)' =>
                    tasks'[s].form.isin = entered'[id].isin
  <2>1. CASE s = t
    <3>1. tasks'[t] # Idle
      BY <1>5, <2>1 DEF On
    <3>2. tasks'[t].clean => On(id)' = {t}
      BY <1>2, <1>3, <1>5, <2>1, <3>1
    <3> QED
      BY <2>1, <3>1, <3>2
  <2>2. CASE s # t
    <3>1. s \in On(id) \ {t} /\ tasks'[s] = tasks[s] /\ On(id) # {t}
      BY <1>2, <1>4, <1>5, <2>2
    <3>2. ~tasks[s].clean /\ ~tasks[t].clean /\ id \in disturbed'
      BY <1>3, <1>4, <3>1
    <3>3. /\ InOrder(tasks[s])
          /\ tasks[s].at # "modify" /\ entered[id].alone /\ Exists(id) =>
                 tasks[s].form.isin = entered[id].isin
      BY <1>1, <3>1 DEF TasksOn
    <3>4. InOrder(tasks[s])'
      BY <3>1, <3>3 DEF InOrder
    <3> QED
      BY <3>1, <3>2, <3>3, <3>4
  <2> QED
    BY <2>1, <2>2
<1>6. TasksOn(id)'
  BY <1>5 DEF TasksOn
<1>7. ~(id > generated)
  BY DEF HoldingIInv
<1>8. On(id)' = {} => tasks'[t] = Idle \/ tasks'[t].id # id
  BY DEF On
<1>9. Exists(id)' /\ id \notin disturbed' /\ On(id)' = {} => Matches(id)'
  BY <1>8
<1> QED
  BY <1>6, <1>7, <1>9 DEF HoldingIInv

\* The other holdings, when a task takes a step.
LEMMA OneTaskSteps ==
  ASSUME HoldingsIInv, HoldingsTypes', RequestsAreNew', PlacesAreTaken',
         NEW id \in Ids, NEW t \in Tasks, t \in On(id),
         \A s \in Tasks \ {t} : tasks'[s] = tasks[s],
         tasks'[t] = Idle \/ tasks'[t].id = id,
         \A other \in Ids \ {id} :
             /\ components'[other] = components[other] /\ entered'[other] = entered[other]
             /\ holdings'[other] = holdings[other] /\ (other \in disturbed => other \in disturbed'),
         generated' = generated, HoldingIInv(id)'
  PROVE  HoldingsIInv'
<1> USE DEF HoldingsIInv
<1>1. ASSUME NEW other \in Ids \ {id} PROVE HoldingIInv(other)'
  <2>1. On(other)' = On(other)
    BY DEF On
  <2>2. \A s \in On(other) : tasks'[s] = tasks[s]
    BY DEF On
  <2>3. generated' \in Nat /\ generated <= generated'
    BY Numbers DEF HoldingsTypes
  <2> QED
    BY <2>1, <2>2, <2>3, HoldingIsKept
<1> QED
  BY <1>1

LEMMA SameRequests ==
  ASSUME HoldingsIInv, UNCHANGED requests,
         NEW t \in Tasks, \A s \in Tasks \ {t} : tasks'[s] = tasks[s],
         tasks[t] # Idle, tasks'[t] = Idle \/ tasks'[t].at # "wait"
  PROVE  RequestsAreNew'
BY KindsOfTasks DEF RequestsAreNew, HoldingsIInv, Idle

\* A refresh that gets its place, ends, or goes on.
LEMMA PlacesOfAStep ==
  ASSUME HoldingsIInv, NEW t \in Tasks, \A s \in Tasks \ {t} : tasks'[s] = tasks[s], tasks[t] # Idle,
         \/ /\ tasks[t].at # "wait" /\ tasks'[t] # Idle /\ tasks'[t].at # "wait" /\ UNCHANGED fetches
         \/ /\ tasks[t].at = "wait" /\ tasks'[t] # Idle /\ tasks'[t].at # "wait" /\ t \in Refreshes
            /\ fetches < MaxFetches /\ fetches' = fetches + 1
         \/ /\ tasks[t].at # "wait" /\ tasks'[t] = Idle
            /\ fetches' = IF t \in Refreshes THEN fetches - 1 ELSE fetches
  PROVE  PlacesAreTaken' /\ fetches' \in Nat
<1>1. PlacesAreTaken /\ fetches \in Nat
  BY FetchingIsFinite, FS_CardinalityType DEF HoldingsIInv, PlacesAreTaken
<1>2. \A s \in Tasks \ {t} : s \in Fetching' <=> s \in Fetching
  BY DEF Fetching
<1>3. Fetching \subseteq Tasks /\ Fetching' \subseteq Tasks
  BY KindsOfTasks DEF Fetching
<1>4. CASE tasks[t].at # "wait" /\ tasks'[t] # Idle /\ tasks'[t].at # "wait" /\ UNCHANGED fetches
  <2>1. Fetching' = Fetching
    BY <1>2, <1>3, <1>4 DEF Fetching
  <2> QED
    BY <1>1, <1>4, <2>1 DEF PlacesAreTaken
<1>5. CASE /\ tasks[t].at = "wait" /\ tasks'[t] # Idle /\ tasks'[t].at # "wait" /\ t \in Refreshes
           /\ fetches < MaxFetches /\ fetches' = fetches + 1
  <2>1. Fetching' = Fetching \cup {t} /\ t \notin Fetching
    BY <1>2, <1>3, <1>5 DEF Fetching
  <2>2. Cardinality(Fetching') = Cardinality(Fetching) + 1
    BY <2>1, FetchingIsFinite, FS_AddElement
  <2> QED
    BY <1>1, <1>5, <2>2, Numbers DEF PlacesAreTaken
<1>6. CASE tasks[t].at # "wait" /\ tasks'[t] = Idle /\ fetches' = IF t \in Refreshes THEN fetches - 1 ELSE fetches
  <2>1. Fetching' = Fetching \ {t} /\ (t \in Fetching <=> t \in Refreshes)
    BY <1>2, <1>3, <1>6 DEF Fetching
  <2>2. Cardinality(Fetching') = IF t \in Fetching THEN Cardinality(Fetching) - 1 ELSE Cardinality(Fetching)
    BY <2>1, FetchingIsFinite, FS_RemoveElement
  <2>3. IsFiniteSet(Fetching')
    BY <2>1, FetchingIsFinite, FS_RemoveElement
  <2>4. Cardinality(Fetching') \in Nat
    BY <2>3, FS_CardinalityType
  <2> QED
    BY <1>1, <1>6, <2>1, <2>2, <2>4, Numbers DEF PlacesAreTaken
<1> QED
  BY <1>4, <1>5, <1>6

\* What Ends does, and when a holding is undisturbed after it.
LEMMA EndsFacts ==
  ASSUME HoldingsIInv, NEW id \in Ids, NEW t \in On(id), NEW ok \in BOOLEAN, Ends(t, ok), tasks[t].at # "wait"
  PROVE  /\ \A s \in Tasks \ {t} : tasks'[s] = tasks[s]
         /\ tasks'[t] = Idle
         /\ tasks' \in [Tasks -> TaskType \union {Idle}] /\ disturbed' \in SUBSET Ids
         /\ PlacesAreTaken'
         /\ \A other \in Ids \ {id} : other \in disturbed => other \in disturbed'
         /\ ~tasks[t].clean => id \in disturbed'
         /\ id \notin disturbed' => /\ ok
                                    /\ tasks[t].deleted \/ tasks[t].at = "delete" \/ id \notin disturbed
<1>1. tasks[t] # Idle /\ tasks[t].id = id /\ t \in Tasks
  BY OnFacts DEF HoldingsIInv
<1>2. /\ \A s \in Tasks \ {t} : tasks'[s] = tasks[s]
      /\ tasks'[t] = Idle
      /\ tasks' \in [Tasks -> TaskType \union {Idle}]
  BY <1>1 DEF Ends, HoldingsIInv, HoldingsTypes
<1>3. disturbed' \in SUBSET Ids /\ \A other \in Ids \ {id} : other \in disturbed => other \in disturbed'
  BY <1>1 DEF Ends, HoldingsIInv, HoldingsTypes
<1>4. ~tasks[t].clean => id \in disturbed
  BY DEF HoldingsIInv, HoldingIInv, TasksOn
<1>5. ~tasks[t].clean => id \in disturbed'
  BY <1>1, <1>4 DEF Ends
<1>6. id \notin disturbed' => ok /\ (tasks[t].deleted \/ tasks[t].at = "delete" \/ id \notin disturbed)
  BY <1>1 DEF Ends
<1>7. fetches' = IF t \in Refreshes THEN fetches - 1 ELSE fetches
  BY DEF Ends
<1>8. PlacesAreTaken'
  BY <1>1, <1>2, <1>7, PlacesOfAStep
<1> QED
  BY <1>2, <1>3, <1>5, <1>6, <1>8

\* A task that has not met another one, and its holding.
LEMMA TaskIsKnown ==
  ASSUME HoldingsIInv, NEW id \in Ids, NEW t \in On(id)
  PROVE  /\ HoldingsTypes /\ HoldingIInv(id) /\ t \in Tasks /\ tasks[t] \in TaskType /\ tasks[t] # Idle
         /\ tasks[t].id = id /\ InOrder(tasks[t])
         /\ tasks[t].clean => On(id) = {t} /\ Relies(tasks[t], id)
         /\ ~tasks[t].clean => id \in disturbed
         /\ tasks[t].at # "modify" /\ entered[id].alone /\ Exists(id) =>
                tasks[t].form.isin = entered[id].isin
         /\ Exists(id) /\ entered[id].alone => holdings[id].isin = entered[id].isin
BY OnFacts DEF HoldingsIInv, HoldingIInv, TasksOn

LEMMA WhereATaskIs ==
  ASSUME HoldingsIInv, NEW t \in Tasks, tasks[t].at \in Stages
  PROVE  \E id \in Ids : id = tasks[t].id /\ t \in On(id)
BY TasksFacts, TaskFacts DEF On, HoldingsIInv

LEMMA AcquireStep == ASSUME HoldingsIInv, NEW t \in Tasks, Acquire(t) PROVE HoldingsIInv'
<1>1. tasks[t].at = "wait" /\ fetches < MaxFetches /\ fetches' = fetches + 1 /\ t \in Refreshes
  BY DEF Acquire, HoldingsIInv, RequestsAreNew, Tasks
<1>2. PICK id \in Ids : id = tasks[t].id /\ t \in On(id)
  BY <1>1, WhereATaskIs DEF Stages
<1>3. UNCHANGED <<holdings, components, generated, requests, faults, disturbed, entered>>
  BY DEF Acquire
<1>4. /\ tasks' = [tasks EXCEPT ![t].at = "delete"] /\ tasks[t] \in TaskType /\ HoldingsTypes
      /\ HoldingIInv(id) /\ tasks[t].id = id /\ tasks[t] # Idle
  BY <1>2, TaskIsKnown DEF Acquire, Continues
<1>5. tasks'[t] = [tasks[t] EXCEPT !.at = "delete"] /\ \A s \in Tasks \ {t} : tasks'[s] = tasks[s]
  BY <1>4 DEF HoldingsTypes
<1>6. /\ tasks'[t] \in TaskType /\ tasks'[t].at = "delete" /\ tasks'[t].form = tasks[t].form
      /\ tasks'[t].clean = tasks[t].clean /\ tasks'[t].next = tasks[t].next /\ tasks'[t].id = id
      /\ tasks'[t].deleted = tasks[t].deleted /\ tasks'[t] # Idle
  BY <1>4, <1>5, TaskFacts DEF TaskType, Stages
<1>7. HoldingsTypes'
  <2>1. tasks' \in [Tasks -> TaskType \union {Idle}]
    BY <1>4, <1>6 DEF HoldingsTypes
  <2> QED
    BY <1>3, <1>4, <2>1 DEF HoldingsTypes
<1>8. InOrder(tasks[t])'
  BY <1>1, <1>2, <1>6, TaskIsKnown DEF InOrder
<1>9. Relies(tasks[t], id) => Relies(tasks[t], id)'
  BY <1>1, <1>3, <1>6 DEF Relies, Exists
<1>10. HoldingIInv(id)'
  BY <1>1, <1>2, <1>3, <1>4, <1>5, <1>6, <1>8, <1>9, TaskIsKnown, HoldingOfAStep DEF Exists
<1>11. PlacesAreTaken'
  BY <1>1, <1>4, <1>5, <1>6, PlacesOfAStep
<1>12. RequestsAreNew'
  BY <1>3, <1>4, <1>5, <1>6, SameRequests
<1> QED
  BY <1>2, <1>3, <1>5, <1>6, <1>7, <1>10, <1>11, <1>12, OneTaskSteps

\* The end of a task whose holding keeps its row.
LEMMA EndStep ==
  ASSUME HoldingsIInv, NEW id \in Ids, NEW t \in On(id), NEW ok \in BOOLEAN, Ends(t, ok),
         tasks[t].at # "wait", UNCHANGED <<generated, requests, entered, holdings>>,
         components' \in [Ids -> [1 .. Len(Parts) -> [Funds -> Nat]]], faults' \in 0 .. MaxFaults,
         \A other \in Ids \ {id} : components'[other] = components[other],
         tasks[t].clean /\ Exists(id) /\ id \notin disturbed' => Matches(id)'
  PROVE  HoldingsIInv'
<1>1. HoldingsTypes'
  BY EndsFacts DEF HoldingsIInv, HoldingsTypes
<1>2. HoldingIInv(id)'
  BY EndsFacts, TaskIsKnown, HoldingOfAStep DEF Exists
<1>3. RequestsAreNew'
  BY EndsFacts, TaskIsKnown, SameRequests
<1> QED
  BY <1>1, <1>2, <1>3, TaskIsKnown, EndsFacts, OneTaskSteps

LEMMA FaultType == ASSUME HoldingsIInv, Fault PROVE faults' \in 0 .. MaxFaults
BY Numbers DEF Fault, HoldingsIInv, HoldingsTypes

LEMMA DeleteStep == ASSUME HoldingsIInv, NEW t \in Tasks, Delete(t) PROVE HoldingsIInv'
<1>1. tasks[t].at = "delete" /\ UNCHANGED <<holdings, generated, requests, entered>>
  BY DEF Delete
<1>2. PICK id \in Ids : id = tasks[t].id /\ t \in On(id)
  BY <1>1, WhereATaskIs DEF Stages
<1> DEFINE task == tasks[t]
<1>3. /\ HoldingsTypes /\ HoldingIInv(id) /\ task \in TaskType /\ task # Idle /\ task.id = id
      /\ InOrder(task) /\ (task.clean => Relies(task, id)) /\ t \in Tasks
  BY <1>2, TaskIsKnown
<1>4. NoRows \in [1 .. Len(Parts) -> [Funds -> Nat]]
  BY DEF NoRows
<1>5. CASE Fault /\ Ends(t, FALSE) /\ UNCHANGED components
  BY <1>1, <1>2, <1>3, <1>5, FaultType, EndsFacts, EndStep DEF HoldingsTypes
<1>6. CASE components' = [components EXCEPT ![id] = NoRows] /\ UNCHANGED faults /\ Ends(t, TRUE) /\ ~task.form.etf
  <2>1. /\ components' \in [Ids -> [1 .. Len(Parts) -> [Funds -> Nat]]]
        /\ \A other \in Ids \ {id} : components'[other] = components[other]
        /\ components'[id] = NoRows
    BY <1>3, <1>4, <1>6 DEF HoldingsTypes
  <2>2. task.clean /\ Exists(id) => ~holdings[id].etf
    BY <1>1, <1>3, <1>6 DEF Relies
  <2>3. task.clean /\ Exists(id) => Matches(id)'
    BY <1>1, <2>1, <2>2 DEF Matches, NoRows
  <2> QED
    BY <1>1, <1>2, <1>3, <1>6, <2>1, <2>3, EndStep DEF HoldingsTypes
<1>7. CASE /\ components' = [components EXCEPT ![id] = NoRows] /\ UNCHANGED faults /\ task.form.etf
           /\ tasks' = [tasks EXCEPT ![t].at = "ask", ![t].deleted = TRUE] /\ UNCHANGED <<fetches, disturbed>>
  <2>1. /\ components' \in [Ids -> [1 .. Len(Parts) -> [Funds -> Nat]]]
        /\ \A other \in Ids \ {id} : components'[other] = components[other]
        /\ components'[id] = NoRows
    BY <1>3, <1>4, <1>7 DEF HoldingsTypes
  <2>2. /\ tasks'[t] = [task EXCEPT !.at = "ask", !.deleted = TRUE]
        /\ \A s \in Tasks \ {t} : tasks'[s] = tasks[s]
    BY <1>3, <1>7 DEF HoldingsTypes
  <2>3. /\ tasks'[t] \in TaskType /\ tasks'[t].at = "ask" /\ tasks'[t].form = task.form
        /\ tasks'[t].clean = task.clean /\ tasks'[t].next = task.next /\ tasks'[t].id = id
        /\ tasks'[t] # Idle
    BY <1>3, <2>2, TaskFacts DEF TaskType, Stages
  <2>4. HoldingsTypes'
    <3>1. tasks' \in [Tasks -> TaskType \union {Idle}]
      BY <1>3, <1>7, <2>3, <2>2 DEF HoldingsTypes
    <3> QED
      BY <1>1, <1>3, <1>7, <2>1, <3>1 DEF HoldingsTypes
  <2>5. InOrder(tasks[t])'
    BY <1>1, <1>3, <1>7, <2>3 DEF InOrder
  <2>6. task.next = 1
    BY <1>1, <1>3 DEF InOrder
  <2>7. FilledUpTo(id, task.next, task.form.isin)'
    BY <2>1, <2>3, <2>6 DEF FilledUpTo, NoRows
  <2>8. Relies(task, id) => Relies(tasks[t], id)'
    BY <1>1, <2>3, <2>7 DEF Relies, Exists
  <2>9. HoldingIInv(id)'
    <3>1. IF tasks'[t].clean THEN task.clean /\ Relies(tasks[t], id)' ELSE id \in disturbed'
      BY <1>2, <1>3, <1>7, <2>3, <2>8, TaskIsKnown
    <3>2. entered'[id].alone /\ Exists(id)' => tasks'[t].form.isin = entered'[id].isin
      BY <1>1, <1>2, <2>3, TaskIsKnown DEF Exists
    <3>3. Exists(id)' /\ entered'[id].alone => holdings'[id].isin = entered'[id].isin
      BY <1>1, <1>2, TaskIsKnown DEF Exists
    <3> QED
      BY <1>1, <1>2, <1>3, <1>7, <2>2, <2>3, <2>5, <3>1, <3>2, <3>3, TaskIsKnown, HoldingOfAStep DEF Exists
  <2>10. PlacesAreTaken'
    BY <1>1, <1>3, <1>7, <2>2, <2>3, PlacesOfAStep
  <2>11. RequestsAreNew'
    BY <1>1, <1>3, <2>2, <2>3, SameRequests
  <2> QED
    BY <1>1, <1>2, <1>3, <1>7, <2>1, <2>2, <2>3, <2>4, <2>9, <2>10, <2>11, OneTaskSteps
<1> QED
  BY <1>2, <1>5, <1>6, <1>7 DEF Delete

LEMMA NotAnsweredStep ==
  ASSUME HoldingsIInv, NEW t \in Tasks, tasks[t].at = "ask", NotAnswered(t),
         UNCHANGED <<components, generated, requests, entered>>
  PROVE  HoldingsIInv'
<1>1. PICK id \in Ids : id = tasks[t].id /\ t \in On(id)
  BY WhereATaskIs DEF Stages
<1> DEFINE task == tasks[t]
<1>2. /\ HoldingsTypes /\ HoldingIInv(id) /\ task \in TaskType /\ task # Idle /\ task.id = id
      /\ InOrder(task) /\ (task.clean => Relies(task, id)) /\ t \in Tasks
  BY <1>1, TaskIsKnown
<1>3. CASE task.form.isin # NoISIN
  <2>1. Ends(t, FALSE) /\ Fault /\ UNCHANGED holdings
    BY <1>3 DEF NotAnswered
  <2> QED
    BY <1>1, <1>2, <2>1, FaultType, EndsFacts, EndStep DEF HoldingsTypes
<1>4. CASE task.form.isin = NoISIN
  <2>1. Ends(t, TRUE) /\ UNCHANGED <<faults, holdings>>
    BY <1>4 DEF NotAnswered
  <2>2. ASSUME task.clean, Exists(id), id \notin disturbed' PROVE Matches(id)'
    <3>1. task.deleted \/ id \notin disturbed
      BY <1>1, <2>1, <2>2, EndsFacts
    <3>2. FilledUpTo(id, 1, NoISIN) /\ holdings[id].isin = NoISIN
      BY <1>2, <1>4, <2>2, <3>1 DEF Relies, InOrder
    <3> QED
      BY <2>1, <3>2, Numbers DEF FilledUpTo, Matches
  <2> QED
    BY <1>1, <1>2, <2>1, <2>2, EndStep DEF HoldingsTypes
<1> QED
  BY <1>3, <1>4

LEMMA AnsweredStep ==
  ASSUME HoldingsIInv, NEW t \in Tasks, tasks[t].at = "ask", Answered(t),
         UNCHANGED <<components, generated, requests, entered>>
  PROVE  HoldingsIInv'
<1>1. PICK id \in Ids : id = tasks[t].id /\ t \in On(id)
  BY WhereATaskIs DEF Stages
<1> DEFINE task == tasks[t]
<1>2. /\ HoldingsTypes /\ HoldingIInv(id) /\ task \in TaskType /\ task # Idle /\ task.id = id
      /\ InOrder(task) /\ (task.clean => Relies(task, id)) /\ t \in Tasks
  BY <1>1, TaskIsKnown
<1>3. /\ task.form.isin # NoISIN /\ tasks' = [tasks EXCEPT ![t].at = "insert"] /\ UNCHANGED <<fetches, disturbed>>
      /\ \/ UNCHANGED holdings
         \/ Exists(id) /\ holdings' = [holdings EXCEPT ![id].isin = task.form.isin]
  BY <1>1 DEF Answered, Continues
<1>4. /\ tasks'[t] = [task EXCEPT !.at = "insert"]
      /\ \A s \in Tasks \ {t} : tasks'[s] = tasks[s]
  BY <1>2, <1>3 DEF HoldingsTypes
<1>5. /\ tasks'[t] \in TaskType /\ tasks'[t].at = "insert" /\ tasks'[t].form = task.form
      /\ tasks'[t].clean = task.clean /\ tasks'[t].next = task.next /\ tasks'[t].id = id
      /\ tasks'[t].deleted = task.deleted /\ tasks'[t] # Idle
  BY <1>2, <1>4, TaskFacts DEF TaskType, Stages
<1>6. task.form.isin \in Funds
  BY <1>2, <1>3, TaskFacts
<1>7. /\ holdings' \in [Ids -> Forms \union {None}] /\ (Exists(id)' => Exists(id))
      /\ \A other \in Ids \ {id} : holdings'[other] = holdings[other]
      /\ Exists(id)' => holdings'[id].etf = holdings[id].etf
      /\ Exists(id)' => holdings'[id].isin \in {holdings[id].isin, task.form.isin}
  <2>1. CASE UNCHANGED holdings
    BY <1>2, <2>1 DEF HoldingsTypes, Exists
  <2>2. CASE Exists(id) /\ holdings' = [holdings EXCEPT ![id].isin = task.form.isin]
    <3>1. holdings[id] \in Forms
      BY <1>2, <2>2, HoldingFacts
    <3>2. /\ [holdings[id] EXCEPT !.isin = task.form.isin] \in Forms
          /\ [holdings[id] EXCEPT !.isin = task.form.isin].etf = holdings[id].etf
          /\ [holdings[id] EXCEPT !.isin = task.form.isin].isin = task.form.isin
      BY <1>6, <3>1 DEF Forms
    <3> QED
      BY <1>2, <2>2, <3>2 DEF HoldingsTypes
  <2> QED
    BY <1>3, <2>1, <2>2
<1>8. faults' \in 0 .. MaxFaults
  BY <1>2, FaultType DEF Answered, HoldingsTypes
<1>9. HoldingsTypes'
  <2>1. tasks' \in [Tasks -> TaskType \union {Idle}]
    BY <1>2, <1>3, <1>4, <1>5 DEF HoldingsTypes
  <2> QED
    BY <1>2, <1>3, <1>7, <1>8, <2>1 DEF HoldingsTypes
<1>10. InOrder(tasks[t])'
  BY <1>2, <1>5, <1>6 DEF InOrder
<1>11. Relies(task, id) => Relies(tasks[t], id)'
  BY <1>3, <1>5, <1>7 DEF Relies, FilledUpTo
<1>12. HoldingIInv(id)'
  <2>1. IF tasks'[t].clean THEN task.clean /\ Relies(tasks[t], id)' ELSE id \in disturbed'
    BY <1>1, <1>2, <1>3, <1>5, <1>11, TaskIsKnown
  <2>2. entered'[id].alone /\ Exists(id)' => tasks'[t].form.isin = entered'[id].isin
    BY <1>1, <1>5, <1>7, TaskIsKnown
  <2>3. Exists(id)' /\ entered'[id].alone => holdings'[id].isin = entered'[id].isin
    BY <1>1, <1>5, <1>7, <2>2, TaskIsKnown
  <2>4. ~task.clean => id \in disturbed'
    BY <1>1, <1>3, TaskIsKnown
  <2> QED
    BY <1>1, <1>2, <1>4, <1>5, <1>7, <1>10, <2>1, <2>2, <2>3, <2>4, HoldingOfAStep
<1>13. PlacesAreTaken'
  BY <1>2, <1>3, <1>4, <1>5, PlacesOfAStep
<1>14. RequestsAreNew'
  BY <1>2, <1>4, <1>5, SameRequests
<1> QED
  BY <1>1, <1>2, <1>3, <1>4, <1>5, <1>7, <1>9, <1>12, <1>13, <1>14, OneTaskSteps

\* One table more has the rows of the instrument.
OneMore(id, next, isin) == [components EXCEPT ![id][next][isin] = @ + 1]

LEMMA OneTableMore ==
  ASSUME HoldingsTypes, NEW id \in Ids, NEW next \in 1 .. Len(Parts), NEW isin \in Funds,
         components' = OneMore(id, next, isin)
  PROVE  /\ components' \in [Ids -> [1 .. Len(Parts) -> [Funds -> Nat]]]
         /\ \A other \in Ids \ {id} : components'[other] = components[other]
         /\ FilledUpTo(id, next, isin) =>
                \A p \in 1 .. Len(Parts), f \in Funds :
                    components'[id][p][f] = IF p < next + 1 /\ f = isin THEN 1 ELSE 0
<1>1. components \in [Ids -> [1 .. Len(Parts) -> [Funds -> Nat]]]
  BY DEF HoldingsTypes
<1>2. /\ components' \in [Ids -> [1 .. Len(Parts) -> [Funds -> Nat]]]
      /\ \A other \in Ids \ {id} : components'[other] = components[other]
  BY <1>1 DEF OneMore
<1>3. \A p \in 1 .. Len(Parts), f \in Funds :
          components'[id][p][f] = IF p = next /\ f = isin THEN components[id][p][f] + 1 ELSE components[id][p][f]
  BY <1>1 DEF OneMore
<1> QED
  BY <1>2, <1>3, Numbers DEF FilledUpTo

LEMMA InsertStep == ASSUME HoldingsIInv, NEW t \in Tasks, Insert(t) PROVE HoldingsIInv'
<1>1. tasks[t].at = "insert" /\ UNCHANGED <<holdings, generated, requests, entered>>
  BY DEF Insert
<1>2. PICK id \in Ids : id = tasks[t].id /\ t \in On(id)
  BY <1>1, WhereATaskIs DEF Stages
<1> DEFINE task == tasks[t]
           last == task.next = Len(Parts)
<1>3. /\ HoldingsTypes /\ HoldingIInv(id) /\ task \in TaskType /\ task # Idle /\ task.id = id
      /\ InOrder(task) /\ (task.clean => Relies(task, id)) /\ t \in Tasks
  BY <1>2, TaskIsKnown
<1>4. task.form.isin \in Funds /\ task.form.etf /\ task.next \in 1 .. Len(Parts)
  BY <1>1, <1>3, TaskFacts DEF InOrder
<1>5. CASE Fault /\ UNCHANGED components /\ last /\ Ends(t, FALSE)
  BY <1>1, <1>2, <1>3, <1>5, FaultType, EndsFacts, EndStep DEF HoldingsTypes
<1>6. CASE /\ components' = OneMore(id, task.next, task.form.isin)
           /\ last /\ Ends(t, TRUE) /\ UNCHANGED faults
  <2>1. /\ components' \in [Ids -> [1 .. Len(Parts) -> [Funds -> Nat]]]
        /\ \A other \in Ids \ {id} : components'[other] = components[other]
        /\ FilledUpTo(id, task.next, task.form.isin) =>
               \A p \in 1 .. Len(Parts), f \in Funds :
                   components'[id][p][f] = IF p < task.next + 1 /\ f = task.form.isin THEN 1 ELSE 0
    BY <1>3, <1>4, <1>6, OneTableMore
  <2>2. ASSUME task.clean, Exists(id), id \notin disturbed' PROVE Matches(id)'
    <3>1. task.deleted \/ id \notin disturbed
      BY <1>1, <1>2, <1>6, <2>2, EndsFacts
    <3>2. /\ FilledUpTo(id, task.next, task.form.isin)
          /\ holdings[id].isin = task.form.isin /\ holdings[id].etf
      BY <1>1, <1>3, <1>4, <2>2, <3>1 DEF Relies
    <3> QED
      BY <1>1, <1>6, <2>1, <3>2, Numbers DEF Matches
  <2> QED
    BY <1>1, <1>2, <1>3, <1>6, <2>1, <2>2, EndStep DEF HoldingsTypes
<1>7. CASE ~last /\ \/ /\ components' = OneMore(id, task.next, task.form.isin)
                       /\ tasks' = [tasks EXCEPT ![t].next = @ + 1] /\ UNCHANGED <<fetches, disturbed, faults>>
                    \/ /\ Fault /\ UNCHANGED <<components, fetches>> /\ disturbed' = disturbed \union {id}
                       /\ tasks' = [tasks EXCEPT ![t].next = @ + 1, ![t].clean = FALSE]
  <2>1. task.next + 1 \in 1 .. Len(Parts)
    BY <1>4, <1>7, Numbers
  <2>2. /\ \A s \in Tasks \ {t} : tasks'[s] = tasks[s]
        /\ \/ UNCHANGED disturbed /\ tasks'[t] = [task EXCEPT !.next = @ + 1]
           \/ id \in disturbed' /\ tasks'[t] = [task EXCEPT !.next = @ + 1, !.clean = FALSE]
    BY <1>3, <1>7 DEF HoldingsTypes
  <2>3. /\ tasks'[t] \in TaskType /\ tasks'[t].at = "insert" /\ tasks'[t].form = task.form
        /\ tasks'[t].next = task.next + 1 /\ tasks'[t].id = id
        /\ tasks'[t].deleted = task.deleted /\ tasks'[t] # Idle
    BY <1>1, <1>3, <2>1, <2>2, TaskFacts DEF TaskType
  <2>4. \/ UNCHANGED disturbed /\ tasks'[t].clean = task.clean
        \/ id \in disturbed' /\ ~tasks'[t].clean
    BY <1>3, <2>2 DEF TaskType
  <2>5. /\ components' \in [Ids -> [1 .. Len(Parts) -> [Funds -> Nat]]]
        /\ \A other \in Ids \ {id} : components'[other] = components[other]
    BY <1>3, <1>4, <1>7, OneTableMore DEF HoldingsTypes
  <2>6. HoldingsTypes'
    <3>1. tasks' \in [Tasks -> TaskType \union {Idle}]
      BY <1>3, <1>7, <2>2, <2>3 DEF HoldingsTypes
    <3>2. faults' \in 0 .. MaxFaults /\ disturbed' \in SUBSET Ids
      BY <1>3, <1>7, FaultType DEF HoldingsTypes
    <3> QED
      BY <1>1, <1>3, <2>5, <3>1, <3>2 DEF HoldingsTypes
  <2>7. InOrder(tasks[t])'
    BY <1>4, <2>3 DEF InOrder
  <2>8. tasks'[t].clean => task.clean /\ Relies(tasks[t], id)'
    <3> SUFFICES ASSUME tasks'[t].clean PROVE task.clean /\ Relies(tasks[t], id)'
      OBVIOUS
    <3>1. /\ components' = OneMore(id, task.next, task.form.isin)
          /\ UNCHANGED disturbed /\ task.clean
      <4>1. ~(tasks' = [tasks EXCEPT ![t].next = @ + 1, ![t].clean = FALSE])
        BY <1>3 DEF HoldingsTypes, TaskType
      <4>2. tasks' = [tasks EXCEPT ![t].next = @ + 1] => tasks'[t].clean = task.clean
        BY <1>3 DEF HoldingsTypes, TaskType
      <4> QED
        BY <1>7, <4>1, <4>2
    <3>2. Relies(task, id)
      BY <1>3, <3>1
    <3>3. FilledUpTo(id, task.next, task.form.isin) => FilledUpTo(id, tasks[t].next, tasks[t].form.isin)'
      BY <1>3, <1>4, <2>3, <3>1, OneTableMore DEF FilledUpTo
    <3>4. Relies(tasks[t], id)'
      BY <1>1, <2>3, <3>1, <3>2, <3>3 DEF Relies, Exists
    <3> QED
      BY <3>1, <3>4
  <2>9. HoldingIInv(id)'
    <3>1. entered'[id].alone /\ Exists(id)' => tasks'[t].form.isin = entered'[id].isin
      BY <1>1, <1>2, <2>3, TaskIsKnown DEF Exists
    <3>2. Exists(id)' /\ entered'[id].alone => holdings'[id].isin = entered'[id].isin
      BY <1>1, <1>2, TaskIsKnown DEF Exists
    <3>3. (~tasks'[t].clean => id \in disturbed') /\ (~task.clean => id \in disturbed')
      BY <1>2, <2>4, TaskIsKnown
    <3> QED
      BY <1>1, <1>2, <1>3, <2>2, <2>3, <2>7, <2>8, <3>1, <3>2, <3>3, HoldingOfAStep DEF Exists
  <2>10. PlacesAreTaken'
    BY <1>1, <1>3, <1>7, <2>2, <2>3, PlacesOfAStep
  <2>11. RequestsAreNew'
    BY <1>1, <1>3, <2>2, <2>3, SameRequests
  <2> QED
    BY <1>1, <1>2, <1>3, <1>7, <2>2, <2>3, <2>5, <2>6, <2>9, <2>10, <2>11, OneTaskSteps
<1> QED
  BY <1>2, <1>5, <1>6, <1>7 DEF Insert, OneMore

\* What is entered, as a record.
LEMMA EntersFacts ==
  ASSUME HoldingsTypes, NEW id \in Ids, NEW isin \in Funds \union {NoISIN}, NEW alone \in BOOLEAN,
         Enters(id, isin, alone)
  PROVE  /\ entered' \in [Ids -> [isin : Funds \union {NoISIN}, alone : BOOLEAN]]
         /\ \A other \in Ids \ {id} : entered'[other] = entered[other]
         /\ entered'[id].isin = isin /\ (entered'[id].alone => alone)
<1>1. entered' = [entered EXCEPT ![id] = [isin |-> isin, alone |-> alone]]
  BY DEF Enters
<1>2. [isin |-> isin, alone |-> alone] \in [isin : Funds \union {NoISIN}, alone : BOOLEAN]
  OBVIOUS
<1>3. /\ entered' \in [Ids -> [isin : Funds \union {NoISIN}, alone : BOOLEAN]]
      /\ \A other \in Ids \ {id} : entered'[other] = entered[other]
      /\ entered'[id] = [isin |-> isin, alone |-> alone]
  BY <1>1, <1>2 DEF HoldingsTypes
<1>4. entered'[id].alone = alone
  BY <1>3
<1>5. entered'[id].alone => alone
  BY <1>4, Zenon
<1> QED
  BY <1>3, <1>5

LEMMA WriteModifiedStep == ASSUME HoldingsIInv, NEW t \in Tasks, WriteModified(t) PROVE HoldingsIInv'
<1>1. tasks[t].at = "modify" /\ UNCHANGED <<components, generated, requests, faults>>
  BY DEF WriteModified
<1>2. PICK id \in Ids : id = tasks[t].id /\ t \in On(id)
  BY <1>1, WhereATaskIs DEF Stages
<1> DEFINE task == tasks[t]
           next == Then(task.wasETF, task.form.etf)
<1>3. /\ HoldingsTypes /\ HoldingIInv(id) /\ task \in TaskType /\ task # Idle /\ task.id = id
      /\ InOrder(task) /\ (task.clean => Relies(task, id)) /\ t \in Tasks
  BY <1>2, TaskIsKnown
<1>4. CASE ~Exists(id)
  <2>1. Ends(t, TRUE) /\ UNCHANGED <<holdings, entered>>
    BY <1>2, <1>4 DEF WriteModified
  <2> QED
    BY <1>1, <1>2, <1>3, <1>4, <2>1, EndStep DEF HoldingsTypes
<1>5. CASE Exists(id)
  <2>1. /\ holdings' = [holdings EXCEPT ![id] = task.form]
        /\ Enters(id, task.form.isin, On(id) = {t})
        /\ IF next = "end" THEN Ends(t, TRUE)
           ELSE tasks' = [tasks EXCEPT ![t].at = next] /\ UNCHANGED <<disturbed, fetches>>
    BY <1>2, <1>5 DEF WriteModified, Continues
  <2>2. /\ task.form \in Forms /\ task.form.isin \in Funds \union {NoISIN} /\ task.next = 1 /\ ~task.deleted
    BY <1>1, <1>3, TaskFacts DEF InOrder
  <2>3. /\ next \in {"end", "delete", "ask"} /\ (next = "end" => ~task.form.etf) /\ (next = "ask" => task.form.etf)
        /\ next # "delete" => ~task.wasETF
    BY <1>3, TaskFacts DEF Then
  <2>4. /\ holdings' \in [Ids -> Forms \union {None}] /\ holdings'[id] = task.form
        /\ \A other \in Ids \ {id} : holdings'[other] = holdings[other]
    BY <1>3, <2>1, <2>2 DEF HoldingsTypes
  <2>5. /\ entered' \in [Ids -> [isin : Funds \union {NoISIN}, alone : BOOLEAN]]
        /\ \A other \in Ids \ {id} : entered'[other] = entered[other]
        /\ entered'[id].isin = task.form.isin /\ (entered'[id].alone => On(id) = {t})
    <3>1. (On(id) = {t}) \in BOOLEAN
      OBVIOUS
    <3> QED
      BY <1>3, <2>1, <2>2, <3>1, EntersFacts
  <2>6. task.clean /\ id \notin disturbed /\ ~task.wasETF =>
            \A p \in 1 .. Len(Parts), f \in Funds : components[id][p][f] = 0
    BY <1>1, <1>3, <1>5 DEF Relies, Matches
  <2>7. CASE next = "end"
    <3>1. Ends(t, TRUE)
      BY <2>1, <2>7
    <3>2. HoldingsTypes'
      BY <1>1, <1>2, <1>3, <2>4, <2>5, <3>1, EndsFacts DEF HoldingsTypes
    <3>3. task.clean /\ id \notin disturbed' => Matches(id)'
      <4>1. id \notin disturbed' => id \notin disturbed
        BY <1>1, <1>2, <2>2, <3>1, EndsFacts
      <4> QED
        BY <1>1, <2>3, <2>4, <2>6, <2>7, <4>1 DEF Matches
    <3>4. /\ \A s \in Tasks \ {t} : tasks'[s] = tasks[s]
          /\ tasks'[t] = Idle /\ PlacesAreTaken'
          /\ \A other \in Ids \ {id} : other \in disturbed => other \in disturbed'
          /\ ~task.clean => id \in disturbed'
      BY <1>1, <1>2, <3>1, EndsFacts
    <3>5. HoldingIInv(id)'
      BY <1>1, <1>2, <1>3, <1>5, <2>4, <2>5, <3>3, <3>4, HoldingOfAStep
    <3>6. RequestsAreNew'
      BY <1>1, <1>3, <3>4, SameRequests
    <3> QED
      BY <1>1, <1>2, <1>3, <2>4, <2>5, <3>2, <3>4, <3>5, <3>6, OneTaskSteps
  <2>8. CASE next # "end"
    <3>1. tasks' = [tasks EXCEPT ![t].at = next] /\ UNCHANGED <<disturbed, fetches>>
      BY <2>1, <2>8
    <3>2. /\ tasks'[t] = [task EXCEPT !.at = next]
          /\ \A s \in Tasks \ {t} : tasks'[s] = tasks[s]
      BY <1>3, <3>1 DEF HoldingsTypes
    <3>3. next \in {"delete", "ask"}
      BY <2>3, <2>8
    <3> HIDE DEF next
    <3>4. /\ tasks'[t] \in TaskType /\ tasks'[t].at = next /\ tasks'[t].form = task.form
          /\ tasks'[t].clean = task.clean /\ tasks'[t].next = task.next /\ tasks'[t].id = id
          /\ tasks'[t].deleted = task.deleted /\ tasks'[t] # Idle
      BY <1>3, <3>2, <3>3, TaskFacts DEF TaskType, Stages
    <3>5. HoldingsTypes'
      <4>1. tasks' \in [Tasks -> TaskType \union {Idle}]
        BY <1>3, <3>1, <3>2, <3>4 DEF HoldingsTypes
      <4> QED
        BY <1>1, <1>3, <2>4, <2>5, <3>1, <4>1 DEF HoldingsTypes
    <3>6. InOrder(tasks[t])'
      <4>1. ~tasks'[t].deleted
        BY <2>2, <3>4
      <4> QED
        BY <2>2, <2>3, <3>3, <3>4, <4>1 DEF InOrder
    <3>7. Relies(task, id) /\ task.clean => Relies(tasks[t], id)'
      <4>1. tasks'[t].at = "ask" => ~task.wasETF
        BY <2>3, <3>4
      <4>2. ~tasks'[t].deleted
        BY <2>2, <3>4
      <4>3. task.clean /\ tasks'[t].at = "ask" /\ id \notin disturbed' => FilledUpTo(id, tasks[t].next, tasks[t].form.isin)'
        BY <1>1, <2>2, <2>6, <3>1, <3>4, <4>1 DEF FilledUpTo
      <4> QED
        BY <2>4, <3>3, <3>4, <4>2, <4>3 DEF Relies
    <3>8. HoldingIInv(id)'
      <4>1. IF tasks'[t].clean THEN task.clean /\ Relies(tasks[t], id)' ELSE id \in disturbed'
        BY <1>2, <1>3, <3>1, <3>4, <3>7, TaskIsKnown
      <4>2. ~task.clean => id \in disturbed'
        BY <1>2, <3>1, TaskIsKnown
      <4> QED
        BY <1>1, <1>2, <1>3, <1>5, <2>4, <2>5, <3>2, <3>4, <3>6, <4>1, <4>2, HoldingOfAStep
    <3>9. PlacesAreTaken'
      BY <1>1, <1>3, <3>1, <3>2, <3>3, <3>4, PlacesOfAStep
    <3>10. RequestsAreNew'
      BY <1>1, <1>3, <3>2, <3>3, <3>4, SameRequests
    <3> QED
      BY <1>1, <1>2, <1>3, <2>4, <2>5, <3>1, <3>2, <3>4, <3>5, <3>8, <3>9, <3>10, OneTaskSteps
  <2> QED
    BY <2>7, <2>8
<1> QED
  BY <1>4, <1>5

LEMMA SoiledFacts ==
  ASSUME HoldingsTypes, NEW id \in Ids
  PROVE  /\ Soiled(id, tasks) \in [Tasks -> TaskType \union {Idle}]
         /\ \A s \in Tasks \ On(id) : Soiled(id, tasks)[s] = tasks[s]
         /\ \A s \in On(id) :
                /\ Soiled(id, tasks)[s] \in TaskType /\ Soiled(id, tasks)[s] # Idle
                /\ Soiled(id, tasks)[s].id = id /\ Soiled(id, tasks)[s].at = tasks[s].at
                /\ Soiled(id, tasks)[s].form = tasks[s].form /\ Soiled(id, tasks)[s].next = tasks[s].next
                /\ Soiled(id, tasks)[s].deleted = tasks[s].deleted /\ ~Soiled(id, tasks)[s].clean
<1>1. ASSUME NEW s \in On(id)
      PROVE  /\ Soiled(id, tasks)[s] = [tasks[s] EXCEPT !.clean = FALSE]
             /\ s \in Tasks /\ tasks[s] \in TaskType /\ tasks[s].id = id
  BY <1>1, OnFacts DEF Soiled
<1>2. ASSUME NEW s \in On(id)
      PROVE  /\ Soiled(id, tasks)[s] \in TaskType /\ Soiled(id, tasks)[s] # Idle
             /\ Soiled(id, tasks)[s].id = id /\ Soiled(id, tasks)[s].at = tasks[s].at
             /\ Soiled(id, tasks)[s].form = tasks[s].form /\ Soiled(id, tasks)[s].next = tasks[s].next
             /\ Soiled(id, tasks)[s].deleted = tasks[s].deleted /\ ~Soiled(id, tasks)[s].clean
  <2> DEFINE x == tasks[s]
             y == [x EXCEPT !.clean = FALSE]
  <2>1. Soiled(id, tasks)[s] = y /\ x \in TaskType /\ x.id = id
    BY <1>1, <1>2
  <2>2. /\ y \in TaskType /\ y.id = x.id /\ y.at = x.at /\ y.form = x.form /\ y.next = x.next
        /\ y.deleted = x.deleted /\ ~y.clean
    BY <2>1 DEF TaskType
  <2> HIDE DEF y
  <2> QED
    BY <2>1, <2>2, TaskFacts
<1>3. \A s \in Tasks \ On(id) : Soiled(id, tasks)[s] = tasks[s]
  BY DEF Soiled
<1>4. \A s \in Tasks : Soiled(id, tasks)[s] \in TaskType \union {Idle}
  BY <1>2, <1>3, TasksFacts
<1> QED
  BY <1>2, <1>3, <1>4 DEF Soiled

\* The tasks on a holding when their marks are taken away.
SoiledOn(id) ==
  \A s \in On(id) :
      /\ tasks'[s] # Idle /\ tasks'[s].id = id /\ ~tasks'[s].clean
      /\ tasks'[s].at = tasks[s].at /\ tasks'[s].form = tasks[s].form
      /\ tasks'[s].next = tasks[s].next /\ tasks'[s].deleted = tasks[s].deleted

\* A task begins on a holding.
LEMMA HoldingOfABeginning ==
  ASSUME HoldingsTypes, NEW id \in Ids, HoldingIInv(id), NEW r \in Tasks, tasks[r] = Idle,
         tasks'[r] # Idle, tasks'[r].id = id, InOrder(tasks[r])',
         IF tasks'[r].clean THEN On(id) = {} /\ Relies(tasks[r], id)' ELSE id \in disturbed',
         SoiledOn(id), \A s \in Tasks \ (On(id) \union {r}) : tasks'[s] = Idle \/ tasks'[s].id # id,
         On(id) # {} => id \in disturbed' /\ entered'[id] = entered[id] /\ (Exists(id)' => Exists(id)),
         tasks'[r].at # "modify" /\ entered'[id].alone /\ Exists(id)' => tasks'[r].form.isin = entered'[id].isin,
         Exists(id)' /\ entered'[id].alone => holdings'[id].isin = entered'[id].isin,
         generated' \in Nat, id <= generated'
  PROVE  HoldingIInv(id)'
<1>1. r \notin On(id) /\ On(id)' = On(id) \union {r}
  BY DEF On, SoiledOn
<1>2. ASSUME NEW s \in On(id)'
      PROVE  /\ InOrder(tasks[s])'
             /\ IF tasks'[s].clean THEN On(id)' = {s} /\ Relies(tasks[s], id)' ELSE id \in disturbed'
             /\ tasks'[s].at # "modify" /\ entered'[id].alone /\ Exists(id)' =>
                    tasks'[s].form.isin = entered'[id].isin
  <2>1. CASE s = r
    <3>1. tasks'[r].clean => On(id)' = {r}
      BY <1>1
    <3> QED
      BY <2>1, <3>1
  <2>2. CASE s # r
    <3>1. s \in On(id)
      BY <1>1, <1>2, <2>2
    <3>2. /\ InOrder(tasks[s])
          /\ tasks[s].at # "modify" /\ entered[id].alone /\ Exists(id) =>
                 tasks[s].form.isin = entered[id].isin
      BY <3>1 DEF HoldingIInv, TasksOn
    <3>3. InOrder(tasks[s])'
      BY <3>1, <3>2 DEF SoiledOn, InOrder
    <3> QED
      BY <3>1, <3>2, <3>3 DEF SoiledOn
  <2> QED
    BY <2>1, <2>2
<1>3. TasksOn(id)'
  BY <1>2 DEF TasksOn
<1>4. On(id)' # {} /\ ~(id > generated')
  BY <1>1, Numbers
<1> QED
  BY <1>3, <1>4 DEF HoldingIInv

\* A new request takes no place, and those that have not begun are left.
LEMMA ARequestBegins ==
  ASSUME HoldingsIInv, NEW r \in Requests, NewRequest(r), UNCHANGED fetches,
         \A s \in Tasks \ {r} : (tasks[s] = Idle /\ tasks'[s] = Idle)
                                \/ (tasks[s] # Idle /\ tasks'[s] # Idle /\ tasks'[s].at = tasks[s].at),
         tasks'[r] = Idle \/ tasks'[r].at # "wait"
  PROVE  RequestsAreNew' /\ PlacesAreTaken' /\ requests' \in 0 .. MaxRequests /\ tasks[r] = Idle
<1>1. /\ requests' = requests + 1 /\ r[2] = requests + 1 /\ requests \in Nat /\ r \in Tasks /\ r \notin Refreshes
      /\ requests' \in 0 .. MaxRequests
  BY KindsOfTasks, Numbers DEF NewRequest, HoldingsIInv, HoldingsTypes
<1>2. \A s \in Requests : s \in Tasks /\ s[2] \in Nat
  BY KindsOfTasks, Numbers
<1>3. tasks[r] = Idle
  BY <1>1, <1>2 DEF HoldingsIInv, RequestsAreNew
<1>4. \A s \in Requests : s[2] > requests' => s # r /\ tasks[s] = Idle
  BY <1>1, <1>2 DEF HoldingsIInv, RequestsAreNew
<1>5. RequestsAreNew'
  BY <1>1, <1>2, <1>4 DEF HoldingsIInv, RequestsAreNew, Idle
<1>6. \A s \in Refreshes : s \in Tasks \ {r}
  BY <1>1, KindsOfTasks
<1>7. Fetching' = Fetching
  BY <1>6 DEF Fetching
<1> QED
  BY <1>1, <1>3, <1>5, <1>7 DEF PlacesAreTaken, HoldingsIInv

LEMMA NewTaskFacts ==
  ASSUME NEW at \in Stages, NEW id \in Ids, NEW form \in Forms
  PROVE  LET x == Task(at, id, form) IN
         /\ x \in TaskType /\ x.at = at /\ x.id = id /\ x.form = form /\ x.next = 1 /\ ~x.deleted /\ x.clean
<1> DEFINE x == Task(at, id, form)
<1>1. x = [at |-> at, id |-> id, form |-> form, wasETF |-> FALSE, next |-> 1, deleted |-> FALSE, clean |-> TRUE]
  BY DEF Task
<1>2. x \in TaskType /\ x.at = at /\ x.id = id /\ x.form = form /\ x.next = 1
  BY <1>1, Numbers DEF TaskType
<1>3. x.deleted = FALSE /\ x.clean = TRUE
  BY <1>1
<1>4. ~x.deleted /\ x.clean
  BY <1>3, Zenon
<1> QED
  BY <1>2, <1>4

\* A request begins as "x", on its holding alone or with its mark taken away.
LEMMA BeginsFacts ==
  ASSUME HoldingsIInv, NEW id \in Ids, NEW r \in Requests, tasks[r] = Idle, NEW x \in TaskType, x.id = id,
         tasks' = [Soiled(id, tasks) EXCEPT ![r] = x]
  PROVE  /\ tasks' \in [Tasks -> TaskType \union {Idle}] /\ tasks'[r] = x /\ x # Idle
         /\ SoiledOn(id) /\ r \notin On(id)
         /\ \A s \in Tasks \ (On(id) \union {r}) : tasks'[s] = tasks[s]
         /\ \A s \in Tasks \ (On(id) \union {r}) : tasks'[s] = Idle \/ tasks'[s].id # id
         /\ \A s \in Tasks \ {r} : (tasks[s] = Idle /\ tasks'[s] = Idle)
                                   \/ (tasks[s] # Idle /\ tasks'[s] # Idle /\ tasks'[s].at = tasks[s].at)
<1>1. HoldingsTypes /\ r \in Tasks /\ x # Idle
  BY KindsOfTasks, TaskFacts DEF HoldingsIInv
<1>2. r \notin On(id)
  BY DEF On
<1>3. /\ tasks' \in [Tasks -> TaskType \union {Idle}] /\ tasks'[r] = x
      /\ \A s \in Tasks \ {r} : tasks'[s] = Soiled(id, tasks)[s]
  BY <1>1, SoiledFacts
<1>4. \A s \in On(id) : s \in Tasks \ {r} /\ tasks[s] # Idle
  BY <1>2 DEF On
<1>5. SoiledOn(id)
  BY <1>1, <1>3, <1>4, SoiledFacts DEF SoiledOn
<1>6. \A s \in Tasks \ (On(id) \union {r}) : tasks'[s] = tasks[s]
  BY <1>1, <1>3, SoiledFacts
<1>7. \A s \in Tasks \ (On(id) \union {r}) : tasks'[s] = Idle \/ tasks'[s].id # id
  BY <1>6 DEF On
<1>8. \A s \in Tasks \ {r} : (tasks[s] = Idle /\ tasks'[s] = Idle)
                             \/ (tasks[s] # Idle /\ tasks'[s] # Idle /\ tasks'[s].at = tasks[s].at)
  BY <1>4, <1>5, <1>6 DEF SoiledOn
<1> QED
  BY <1>1, <1>2, <1>3, <1>5, <1>6, <1>7, <1>8

\* The mark of a task.
LEMMA MarkFacts ==
  ASSUME NEW x \in TaskType, NEW b \in BOOLEAN
  PROVE  LET y == [x EXCEPT !.clean = b] IN
         /\ y \in TaskType /\ y.at = x.at /\ y.id = x.id /\ y.form = x.form /\ y.next = x.next
         /\ y.deleted = x.deleted /\ y.wasETF = x.wasETF /\ (y.clean <=> b)
<1> DEFINE y == [x EXCEPT !.clean = b]
<1>1. /\ y \in TaskType /\ y.at = x.at /\ y.id = x.id /\ y.form = x.form /\ y.next = x.next
      /\ y.deleted = x.deleted /\ y.wasETF = x.wasETF
  BY DEF TaskType
<1>2. y.clean = b
  BY DEF TaskType
<1>3. y.clean <=> b
  BY <1>2, Zenon
<1> QED
  BY <1>1, <1>3

\* The holdings on which a request neither begins nor changes anything.
LEMMA OthersAreKept ==
  ASSUME HoldingsIInv, NEW id \in Ids, NEW new \in Ids,
         \A other \in Ids \ {id, new} :
             /\ components'[other] = components[other] /\ entered'[other] = entered[other]
             /\ holdings'[other] = holdings[other] /\ (other \in disturbed => other \in disturbed'),
         \A s \in Tasks :
             \/ tasks'[s] = tasks[s]
             \/ /\ tasks[s] = Idle \/ tasks[s].id \in {id, new}
                /\ tasks'[s] = Idle \/ tasks'[s].id \in {id, new},
         generated' \in Nat, generated <= generated', HoldingIInv(id)', HoldingIInv(new)'
  PROVE  \A other \in Ids : HoldingIInv(other)'
<1> SUFFICES ASSUME NEW other \in Ids \ {id, new} PROVE HoldingIInv(other)'
  OBVIOUS
<1>1. On(other)' = On(other)
  BY DEF On
<1>2. \A s \in On(other) : tasks'[s] = tasks[s]
  BY DEF On
<1> QED
  BY <1>1, <1>2, HoldingIsKept DEF HoldingsIInv

LEMMA AddHoldingStep == ASSUME HoldingsIInv, NEW r \in Requests, AddHolding(r) PROVE HoldingsIInv'
<1>1. PICK form \in Filled :
        LET id == generated + 1 IN
        /\ holdings' = [holdings EXCEPT ![id] = form]
        /\ Enters(id, form.isin, TRUE)
        /\ IF form.etf THEN Begins(r, Task("ask", id, form)) ELSE UNCHANGED <<tasks, disturbed>>
  BY DEF AddHolding
<1>2. /\ generated < MaxHoldings /\ generated' = generated + 1 /\ NewRequest(r)
      /\ UNCHANGED <<components, fetches, faults>>
  BY DEF AddHolding
<1>3. PICK id \in Ids : id = generated + 1
  BY <1>2, Numbers DEF HoldingsIInv, HoldingsTypes
<1>4. HoldingsTypes /\ HoldingIInv(id) /\ generated \in Nat /\ id > generated /\ generated' = id
  BY <1>2, <1>3, Numbers DEF HoldingsIInv, HoldingsTypes
<1>5. ~Exists(id) /\ components[id] = NoRows /\ On(id) = {}
  BY <1>4 DEF HoldingIInv
<1>6. form \in Forms /\ form # None /\ form.isin \in Funds \union {NoISIN} /\ form.etf \in BOOLEAN
  BY NoneIsNoForm DEF Filled, Forms
<1>7. /\ holdings' \in [Ids -> Forms \union {None}] /\ holdings'[id] = form
      /\ \A other \in Ids \ {id} : holdings'[other] = holdings[other]
  BY <1>1, <1>3, <1>4, <1>6 DEF HoldingsTypes
<1>8. /\ entered' \in [Ids -> [isin : Funds \union {NoISIN}, alone : BOOLEAN]]
      /\ \A other \in Ids \ {id} : entered'[other] = entered[other]
      /\ entered'[id].isin = form.isin
  <2>1. Enters(id, form.isin, TRUE)
    BY <1>1, <1>3
  <2> QED
    BY <1>4, <1>6, <2>1, EntersFacts
<1>9. generated' \in 0 .. MaxHoldings
  BY <1>3, <1>4, Numbers
<1>10. \A p \in 1 .. Len(Parts), f \in Funds : components'[id][p][f] = 0
  BY <1>2, <1>5 DEF NoRows
<1>11. CASE form.etf
  <2> DEFINE task == Task("ask", id, form)
             x == [task EXCEPT !.clean = On(id) = {}]
  <2>1. /\ task \in TaskType /\ task.at = "ask" /\ task.id = id /\ task.form = form /\ task.next = 1
        /\ ~task.deleted
    BY <1>6, NewTaskFacts DEF Stages
  <2>2. tasks' = [Soiled(id, tasks) EXCEPT ![r] = x] /\ disturbed' = disturbed
    BY <1>1, <1>3, <1>5, <1>11, <2>1 DEF Begins
  <2>3. (On(id) = {}) \in BOOLEAN
    OBVIOUS
  <2> HIDE DEF task
  <2>4. /\ x \in TaskType /\ x.at = "ask" /\ x.id = id /\ x.form = form /\ x.next = 1 /\ ~x.deleted /\ x.clean
    BY <1>5, <2>1, <2>3, MarkFacts
  <2> HIDE DEF x
  <2>5. /\ requests' = requests + 1 /\ r \in Tasks
    BY <1>2, KindsOfTasks DEF NewRequest
  <2>6. tasks[r] = Idle
    BY <1>2, KindsOfTasks, Numbers DEF NewRequest, HoldingsIInv, RequestsAreNew, HoldingsTypes
  <2>7. /\ tasks' \in [Tasks -> TaskType \union {Idle}] /\ tasks'[r] = x /\ x # Idle
        /\ SoiledOn(id) /\ r \notin On(id)
        /\ \A s \in Tasks \ (On(id) \union {r}) : tasks'[s] = tasks[s]
        /\ \A s \in Tasks \ (On(id) \union {r}) : tasks'[s] = Idle \/ tasks'[s].id # id
        /\ \A s \in Tasks \ {r} : (tasks[s] = Idle /\ tasks'[s] = Idle)
                                  \/ (tasks[s] # Idle /\ tasks'[s] # Idle /\ tasks'[s].at = tasks[s].at)
    BY <2>2, <2>4, <2>6, BeginsFacts
  <2>8. RequestsAreNew' /\ PlacesAreTaken' /\ requests' \in 0 .. MaxRequests
    BY <1>2, <2>4, <2>7, ARequestBegins
  <2>9. HoldingsTypes'
    BY <1>2, <1>4, <1>7, <1>8, <1>9, <2>2, <2>7, <2>8 DEF HoldingsTypes
  <2>10. InOrder(tasks[r])'
    BY <1>11, <2>4, <2>7 DEF InOrder
  <2>11. Relies(tasks[r], id)'
    BY <1>7, <1>10, <2>4, <2>7 DEF Relies, FilledUpTo
  <2>12. HoldingIInv(id)'
    BY <1>4, <1>5, <1>7, <1>8, <1>9, <2>4, <2>5, <2>6, <2>7, <2>10, <2>11, HoldingOfABeginning
  <2>13. \A s \in Tasks : tasks'[s] = tasks[s] \/ (tasks[s] = Idle /\ tasks'[s].id = id)
    BY <1>5, <2>4, <2>6, <2>7
  <2>14. \A other \in Ids : HoldingIInv(other)'
    BY <1>2, <1>4, <1>7, <1>8, <2>2, <2>12, <2>13, OthersAreKept
  <2> QED
    BY <2>8, <2>9, <2>14 DEF HoldingsIInv
<1>12. CASE ~form.etf
  <2>1. UNCHANGED <<tasks, disturbed>>
    BY <1>1, <1>12
  <2>2. \A s \in Tasks : (tasks[s] = Idle /\ tasks'[s] = Idle)
                         \/ (tasks[s] # Idle /\ tasks'[s] # Idle /\ tasks'[s].at = tasks[s].at)
    BY <2>1
  <2>3. tasks'[r] = Idle \/ tasks'[r].at # "wait"
    BY <2>1 DEF HoldingsIInv, RequestsAreNew
  <2>4. RequestsAreNew' /\ PlacesAreTaken' /\ requests' \in 0 .. MaxRequests
    BY <1>2, <2>2, <2>3, ARequestBegins
  <2>5. HoldingsTypes'
    BY <1>2, <1>4, <1>7, <1>8, <1>9, <2>1, <2>4 DEF HoldingsTypes
  <2>6. On(id)' = {}
    BY <1>5, <2>1 DEF On
  <2>7. Matches(id)'
    BY <1>7, <1>10, <1>12 DEF Matches
  <2>8. TasksOn(id)'
    BY <2>6 DEF TasksOn
  <2>9. HoldingIInv(id)'
    <3>1. ~(id > generated')
      BY <1>4, Numbers
    <3>2. Exists(id)' => holdings'[id].isin = entered'[id].isin
      BY <1>7, <1>8
    <3> QED
      BY <2>7, <2>8, <3>1, <3>2 DEF HoldingIInv
  <2>10. \A other \in Ids : HoldingIInv(other)'
    BY <1>2, <1>4, <1>7, <1>8, <2>1, <2>9, OthersAreKept
  <2> QED
    BY <2>4, <2>5, <2>10 DEF HoldingsIInv
<1> QED
  BY <1>11, <1>12

LEMMA RemoveHoldingStep == ASSUME HoldingsIInv, NEW id \in Ids, RemoveHolding(id) PROVE HoldingsIInv'
<1>1. /\ requests < MaxRequests /\ requests' = requests + 1
      /\ holdings' = [holdings EXCEPT ![id] = None]
      /\ UNCHANGED <<components, tasks, fetches, generated, faults, disturbed, entered>>
  BY DEF RemoveHolding
<1>2. HoldingsTypes'
  BY <1>1, Numbers DEF HoldingsIInv, HoldingsTypes
<1>3. RequestsAreNew' /\ PlacesAreTaken'
  <2>1. requests \in Nat /\ \A r \in Requests : r[2] \in Nat
    BY KindsOfTasks, Numbers DEF HoldingsIInv, HoldingsTypes
  <2> QED
    BY <1>1, <2>1 DEF HoldingsIInv, RequestsAreNew, PlacesAreTaken, Fetching
<1>4. ASSUME NEW other \in Ids PROVE HoldingIInv(other)'
  <2>1. Exists(other)' => holdings'[other] = holdings[other]
    BY <1>1 DEF HoldingsIInv, HoldingsTypes, Exists
  <2>2. On(other)' = On(other) /\ \A s \in On(other) : tasks'[s] = tasks[s]
    BY <1>1 DEF On
  <2>3. generated' \in Nat /\ generated <= generated'
    BY <1>1, Numbers DEF HoldingsIInv, HoldingsTypes
  <2> QED
    BY <1>1, <2>1, <2>2, <2>3, HoldingIsKept DEF HoldingsIInv
<1> QED
  BY <1>2, <1>3, <1>4 DEF HoldingsIInv

LEMMA MergeHoldingStep == ASSUME HoldingsIInv, NEW r \in Requests, MergeHolding(r) PROVE HoldingsIInv'
<1>1. PICK form \in Filled, id \in Ids :
        LET changed == holdings[id].isin # form.isin
            soiled == IF changed THEN Soiled(id, tasks) ELSE tasks
        IN
        /\ Exists(id) /\ holdings[id].fund = form.fund
        /\ holdings' = [holdings EXCEPT ![id].isin = form.isin]
        /\ Enters(id, form.isin, On(id) = {})
        /\ tasks' = IF form.etf THEN [soiled EXCEPT ![r] = Task("ask", generated + 1, form)] ELSE soiled
        /\ disturbed' = IF changed THEN disturbed \union {id} ELSE disturbed
  BY DEF MergeHolding
<1>2. /\ generated < MaxHoldings /\ generated' = generated + 1 /\ NewRequest(r)
      /\ UNCHANGED <<components, fetches, faults>>
  BY DEF MergeHolding
<1>3. PICK new \in Ids : new = generated + 1
  BY <1>2, Numbers DEF HoldingsIInv, HoldingsTypes
<1>4. /\ HoldingsTypes /\ HoldingIInv(id) /\ HoldingIInv(new) /\ generated \in Nat /\ new > generated
      /\ generated' = new /\ generated' \in 0 .. MaxHoldings /\ generated <= generated'
  BY <1>2, <1>3, Numbers DEF HoldingsIInv, HoldingsTypes
<1>5. ~Exists(new) /\ components[new] = NoRows /\ On(new) = {} /\ id # new
  BY <1>1, <1>4 DEF HoldingIInv
<1>6. form \in Forms /\ form.isin \in Funds \union {NoISIN} /\ form.etf \in BOOLEAN
  BY DEF Filled, Forms
<1>7. /\ r \in Tasks /\ r \notin Refreshes /\ tasks[r] = Idle /\ r \notin On(id)
  BY <1>2, KindsOfTasks, Numbers DEF NewRequest, HoldingsIInv, RequestsAreNew, HoldingsTypes, On
<1>8. /\ holdings' \in [Ids -> Forms \union {None}] /\ holdings'[id].isin = form.isin
      /\ \A other \in Ids \ {id} : holdings'[other] = holdings[other]
      /\ holdings'[id].etf = holdings[id].etf
  <2>1. holdings[id] \in Forms
    BY <1>1, <1>4, HoldingFacts
  <2> DEFINE y == [holdings[id] EXCEPT !.isin = form.isin]
  <2>2. y \in Forms /\ y.isin = form.isin /\ y.etf = holdings[id].etf
    BY <1>6, <2>1 DEF Forms
  <2>3. holdings' = [holdings EXCEPT ![id] = y]
    BY <1>1, <1>4 DEF HoldingsTypes
  <2> HIDE DEF y
  <2> QED
    BY <1>4, <2>2, <2>3 DEF HoldingsTypes
<1>9. /\ entered' \in [Ids -> [isin : Funds \union {NoISIN}, alone : BOOLEAN]]
      /\ \A other \in Ids \ {id} : entered'[other] = entered[other]
      /\ entered'[id].isin = form.isin /\ (entered'[id].alone => On(id) = {})
  <2>1. Enters(id, form.isin, On(id) = {}) /\ (On(id) = {}) \in BOOLEAN
    BY <1>1
  <2> QED
    BY <1>4, <1>6, <2>1, EntersFacts
<1> DEFINE soiled == IF holdings[id].isin # form.isin THEN Soiled(id, tasks) ELSE tasks
           x == IF form.etf THEN Task("ask", new, form) ELSE Idle
<1>10. /\ x \in TaskType \union {Idle} /\ x.at # "wait"
       /\ x # Idle => /\ x \in TaskType /\ x.id = new /\ x.at = "ask" /\ x.form = form /\ form.etf
                      /\ x.next = 1 /\ ~x.deleted /\ x.clean
  <2>1. CASE form.etf
    BY <1>6, <2>1, NewTaskFacts, TaskFacts DEF Stages
  <2>2. CASE ~form.etf
    BY <2>2 DEF Idle
  <2> QED
    BY <2>1, <2>2
<1>11. soiled \in [Tasks -> TaskType \union {Idle}]
  BY <1>4, SoiledFacts DEF HoldingsTypes
<1>12. soiled[r] = Idle
  BY <1>4, <1>7, SoiledFacts
<1>13. tasks' = [soiled EXCEPT ![r] = x]
  <2>1. tasks' = IF form.etf THEN [soiled EXCEPT ![r] = Task("ask", generated + 1, form)] ELSE soiled
    BY <1>1
  <2>2. [soiled EXCEPT ![r] = Idle] = soiled
    BY <1>7, <1>11, <1>12
  <2> QED
    BY <1>3, <2>1, <2>2
<1> HIDE DEF x
<1>14. /\ tasks' \in [Tasks -> TaskType \union {Idle}] /\ tasks'[r] = x
       /\ \A s \in Tasks \ {r} : tasks'[s] = soiled[s]
  BY <1>7, <1>10, <1>11, <1>13
<1> DEFINE Outcome ==
       /\ TasksOn(id)' /\ (id \notin disturbed' /\ On(id)' = {} => Matches(id)')
       /\ disturbed' \in SUBSET Ids /\ disturbed \subseteq disturbed'
       /\ \A s \in Tasks \ {r} : (tasks[s] = Idle /\ tasks'[s] = Idle)
                                 \/ (tasks[s] # Idle /\ tasks'[s] # Idle /\ tasks'[s].at = tasks[s].at)
       /\ \A s \in On(id) : s \in Tasks \ {r} /\ tasks'[s].id = id
       /\ \A s \in Tasks \ (On(id) \union {r}) : tasks'[s] = tasks[s]
<1>15. ASSUME holdings[id].isin # form.isin PROVE Outcome
  <2>1. soiled = Soiled(id, tasks) /\ id \in disturbed' /\ disturbed' = disturbed \union {id}
    BY <1>1, <1>15
  <2>2. \A s \in On(id) : s \in Tasks \ {r} /\ tasks[s] # Idle
    BY <1>7 DEF On
  <2>3. SoiledOn(id)
    BY <1>4, <1>14, <2>1, <2>2, SoiledFacts DEF SoiledOn
  <2>4. \A s \in Tasks \ (On(id) \union {r}) : tasks'[s] = tasks[s]
    BY <1>4, <1>14, <2>1, SoiledFacts
  <2>5. \A s \in Tasks \ {r} : (tasks[s] = Idle /\ tasks'[s] = Idle)
                               \/ (tasks[s] # Idle /\ tasks'[s] # Idle /\ tasks'[s].at = tasks[s].at)
    BY <2>2, <2>3, <2>4 DEF SoiledOn
  <2>6. On(id)' = On(id)
    BY <1>5, <1>7, <1>10, <1>14, <2>3, <2>4 DEF On, SoiledOn
  <2>7. TasksOn(id)'
    <3> SUFFICES ASSUME NEW s \in On(id)
                 PROVE  InOrder(tasks[s])' /\ ~tasks'[s].clean /\ id \in disturbed' /\ ~entered'[id].alone
      BY <2>6 DEF TasksOn
    <3>1. InOrder(tasks[s])
      BY <1>4 DEF HoldingIInv, TasksOn
    <3>2. InOrder(tasks[s])'
      BY <2>3, <3>1 DEF SoiledOn, InOrder
    <3> QED
      BY <1>9, <2>1, <2>3, <3>2 DEF SoiledOn
  <2>8. id \in disturbed' /\ disturbed' \in SUBSET Ids /\ disturbed \subseteq disturbed'
    BY <1>4, <2>1 DEF HoldingsTypes
  <2> QED
    BY <2>2, <2>3, <2>4, <2>5, <2>7, <2>8 DEF SoiledOn
<1>16. ASSUME holdings[id].isin = form.isin PROVE Outcome
  <2>1. soiled = tasks /\ disturbed' = disturbed
    BY <1>1, <1>16
  <2>2. \A s \in Tasks \ {r} : tasks'[s] = tasks[s]
    BY <1>14, <2>1
  <2>3. \A s \in On(id) : s \in Tasks \ {r} /\ tasks[s] # Idle /\ tasks[s].id = id
    BY <1>7 DEF On
  <2>4. On(id)' = On(id)
    BY <1>5, <1>7, <1>10, <1>14, <2>2 DEF On
  <2>5. Matches(id) => Matches(id)'
    BY <1>2, <1>8, <1>16 DEF Matches
  <2>6. TasksOn(id)'
    <3> SUFFICES ASSUME NEW s \in On(id)
                 PROVE  /\ InOrder(tasks[s])' /\ ~entered'[id].alone
                        /\ IF tasks'[s].clean THEN On(id)' = {s} /\ Relies(tasks[s], id)' ELSE id \in disturbed'
      BY <2>4 DEF TasksOn
    <3>1. InOrder(tasks[s]) /\ IF tasks[s].clean THEN On(id) = {s} /\ Relies(tasks[s], id) ELSE id \in disturbed
      BY <1>4 DEF HoldingIInv, TasksOn
    <3>2. tasks'[s] = tasks[s]
      BY <2>2, <2>3
    <3>3. InOrder(tasks[s])'
      BY <3>1, <3>2 DEF InOrder
    <3>4. Relies(tasks[s], id) => Relies(tasks[s], id)'
      BY <1>1, <1>2, <1>8, <1>16, <2>1, <2>5, <3>2 DEF Relies, FilledUpTo
    <3> QED
      BY <1>9, <2>1, <2>4, <3>1, <3>2, <3>3, <3>4
  <2>7. id \notin disturbed' /\ On(id)' = {} => Matches(id)'
    BY <1>1, <1>4, <2>1, <2>4, <2>5 DEF HoldingIInv
  <2> QED
    BY <1>4, <2>1, <2>2, <2>3, <2>6, <2>7 DEF HoldingsTypes
<1>17. Outcome
  BY <1>15, <1>16
<1>18. RequestsAreNew' /\ PlacesAreTaken' /\ requests' \in 0 .. MaxRequests
  BY <1>2, <1>10, <1>14, <1>17, ARequestBegins
<1>19. HoldingsTypes'
  BY <1>2, <1>4, <1>8, <1>9, <1>14, <1>17, <1>18 DEF HoldingsTypes
<1>20. HoldingIInv(id)'
  <2>1. ~(id > generated) /\ id \in Nat
    BY <1>1, <1>4, Numbers DEF HoldingIInv
  <2>2. ~(id > generated')
    BY <1>2, <1>4, <2>1
  <2> QED
    BY <1>8, <1>9, <1>17, <2>2 DEF HoldingIInv
<1>21. HoldingIInv(new)'
  <2>1. ~Exists(new)' /\ ~(new > generated')
    BY <1>4, <1>5, <1>8, Numbers DEF Exists
  <2>2. \A s \in On(new)' : s = r /\ x # Idle
    BY <1>5, <1>7, <1>10, <1>14, <1>17 DEF On
  <2>3. x # Idle => /\ On(new)' = {r} /\ InOrder(tasks[r])' /\ tasks'[r].clean
                    /\ Relies(tasks[r], new)'
    <3> SUFFICES ASSUME x # Idle
                 PROVE  On(new)' = {r} /\ InOrder(tasks[r])' /\ tasks'[r].clean /\ Relies(tasks[r], new)'
      OBVIOUS
    <3>1. r \in On(new)'
      BY <1>7, <1>10, <1>14 DEF On
    <3>2. On(new)' = {r}
      BY <2>2, <3>1
    <3>3. InOrder(tasks[r])' /\ tasks'[r].clean
      BY <1>10, <1>14 DEF InOrder
    <3>4. FilledUpTo(new, tasks[r].next, tasks[r].form.isin)'
      BY <1>2, <1>5, <1>10, <1>14 DEF FilledUpTo, NoRows
    <3>5. Relies(tasks[r], new)'
      BY <1>10, <1>14, <2>1, <3>4 DEF Relies
    <3> QED
      BY <3>2, <3>3, <3>5
  <2>4. TasksOn(new)'
    BY <2>1, <2>2, <2>3 DEF TasksOn
  <2> QED
    BY <2>1, <2>4 DEF HoldingIInv
<1>22. \A s \in Tasks : \/ tasks'[s] = tasks[s]
                        \/ /\ tasks[s] = Idle \/ tasks[s].id \in {id, new}
                           /\ tasks'[s] = Idle \/ tasks'[s].id \in {id, new}
  BY <1>7, <1>10, <1>14, <1>17 DEF On
<1>23. \A other \in Ids : HoldingIInv(other)'
  BY <1>2, <1>4, <1>8, <1>9, <1>17, <1>20, <1>21, <1>22, OthersAreKept
<1> QED
  BY <1>18, <1>19, <1>23 DEF HoldingsIInv

LEMMA ReadForModifyStep == ASSUME HoldingsIInv, NEW r \in Requests, ReadForModify(r) PROVE HoldingsIInv'
<1>1. /\ NewRequest(r) /\ UNCHANGED <<holdings, components, fetches, generated, entered>>
  BY DEF ReadForModify
<1>2. PICK form \in Filled, id \in 1 .. generated :
        \/ /\ Exists(id)
           /\ Begins(r, [Task("modify", id, form) EXCEPT !.wasETF = holdings[id].etf])
           /\ UNCHANGED faults
        \/ /\ Fault
           /\ tasks' = [Soiled(id, tasks) EXCEPT ![r] = [Task("modify", id, form) EXCEPT !.clean = FALSE]]
           /\ disturbed' = disturbed \union {id}
  BY DEF ReadForModify
<1>3. /\ id \in Ids /\ HoldingsTypes /\ HoldingIInv(id) /\ generated \in Nat /\ id <= generated
  BY Numbers DEF HoldingsIInv, HoldingsTypes
<1>4. /\ r \in Tasks /\ tasks[r] = Idle
  BY <1>1, KindsOfTasks, Numbers DEF NewRequest, HoldingsIInv, RequestsAreNew, HoldingsTypes
<1> DEFINE task == Task("modify", id, form)
           read == [task EXCEPT !.wasETF = holdings[id].etf]
           alone == [read EXCEPT !.clean = On(id) = {}]
           failed == [task EXCEPT !.clean = FALSE]
<1>5. /\ task \in TaskType /\ task.at = "modify" /\ task.id = id /\ task.form = form /\ task.next = 1
      /\ ~task.deleted
  BY <1>3, NewTaskFacts DEF Filled, Stages
<1>6. PICK x \in TaskType : /\ tasks' = [Soiled(id, tasks) EXCEPT ![r] = x]
                            /\ x.at = "modify" /\ x.id = id /\ x.next = 1 /\ ~x.deleted
                            /\ IF x.clean THEN On(id) = {} /\ Exists(id) /\ x.wasETF = holdings[id].etf ELSE id \in disturbed'
                            /\ On(id) # {} => id \in disturbed'
                            /\ disturbed' \in SUBSET Ids /\ disturbed \subseteq disturbed'
                            /\ disturbed' \subseteq disturbed \union (IF x.clean THEN {} ELSE {id})
                            /\ faults' \in 0 .. MaxFaults
  <2>1. CASE /\ Exists(id) /\ Begins(r, read) /\ UNCHANGED faults
    <3>1. holdings[id].etf \in BOOLEAN
      BY <1>3, <2>1, HoldingFacts
    <3> HIDE DEF task
    <3>2. /\ read \in TaskType /\ read.at = "modify" /\ read.id = id /\ read.form = form /\ read.next = 1
          /\ read.deleted = task.deleted /\ read.wasETF = holdings[id].etf
      BY <1>5, <3>1 DEF TaskType
    <3>3. ~read.deleted
      BY <1>5, <3>2
    <3>4. /\ tasks' = [Soiled(id, tasks) EXCEPT ![r] = alone]
          /\ disturbed' = IF On(id) = {} THEN disturbed ELSE disturbed \union {id}
      BY <2>1, <3>2 DEF Begins
    <3>5. (On(id) = {}) \in BOOLEAN
      OBVIOUS
    <3> HIDE DEF read
    <3>6. /\ alone \in TaskType /\ alone.at = "modify" /\ alone.id = id /\ alone.next = 1 /\ ~alone.deleted
          /\ alone.wasETF = holdings[id].etf /\ (alone.clean <=> On(id) = {})
      BY <3>2, <3>3, <3>5, MarkFacts
    <3> HIDE DEF alone
    <3> QED
      BY <1>3, <2>1, <3>4, <3>6 DEF HoldingsTypes
  <2>2. CASE /\ Fault /\ tasks' = [Soiled(id, tasks) EXCEPT ![r] = failed]
             /\ disturbed' = disturbed \union {id}
    <3> HIDE DEF task
    <3>1. FALSE \in BOOLEAN
      OBVIOUS
    <3>2. /\ failed \in TaskType /\ failed.at = "modify" /\ failed.id = id /\ failed.next = 1 /\ ~failed.deleted
          /\ ~failed.clean
      BY <1>5, <3>1, MarkFacts
    <3> HIDE DEF failed
    <3> QED
      BY <1>3, <2>2, <3>2, FaultType DEF HoldingsTypes
  <2> QED
    BY <1>2, <2>1, <2>2
<1>7. /\ tasks' \in [Tasks -> TaskType \union {Idle}] /\ tasks'[r] = x /\ x # Idle
      /\ SoiledOn(id) /\ r \notin On(id)
      /\ \A s \in Tasks \ (On(id) \union {r}) : tasks'[s] = tasks[s]
      /\ \A s \in Tasks \ (On(id) \union {r}) : tasks'[s] = Idle \/ tasks'[s].id # id
      /\ \A s \in Tasks \ {r} : (tasks[s] = Idle /\ tasks'[s] = Idle)
                                \/ (tasks[s] # Idle /\ tasks'[s] # Idle /\ tasks'[s].at = tasks[s].at)
  BY <1>3, <1>4, <1>6, BeginsFacts
<1>8. RequestsAreNew' /\ PlacesAreTaken' /\ requests' \in 0 .. MaxRequests
  BY <1>1, <1>6, <1>7, ARequestBegins
<1>9. HoldingsTypes'
  BY <1>1, <1>3, <1>6, <1>7, <1>8 DEF HoldingsTypes
<1>10. InOrder(tasks[r])'
  BY <1>6, <1>7 DEF InOrder
<1>11. x.clean => Relies(tasks[r], id)'
  <2> SUFFICES ASSUME x.clean PROVE Relies(tasks[r], id)'
    OBVIOUS
  <2>1. On(id) = {} /\ Exists(id) /\ x.wasETF = holdings[id].etf
    BY <1>6
  <2>2. id \notin disturbed' => Matches(id)
    BY <1>3, <1>6, <2>1 DEF HoldingIInv
  <2>3. id \notin disturbed' => Matches(id)'
    BY <1>1, <2>2 DEF Matches
  <2> QED
    BY <1>1, <1>6, <1>7, <2>1, <2>3 DEF Relies
<1>12. HoldingIInv(id)'
  <2>1. Exists(id)' = Exists(id) /\ (Exists(id) /\ entered[id].alone => holdings[id].isin = entered[id].isin)
    BY <1>1, <1>3 DEF Exists, HoldingIInv
  <2>2. IF tasks'[r].clean THEN On(id) = {} /\ Relies(tasks[r], id)' ELSE id \in disturbed'
    BY <1>6, <1>7, <1>11
  <2> QED
    BY <1>1, <1>3, <1>4, <1>6, <1>7, <1>10, <2>1, <2>2, HoldingOfABeginning
<1>13. \A s \in Tasks : \/ tasks'[s] = tasks[s]
                        \/ /\ tasks[s] = Idle \/ tasks[s].id \in {id}
                           /\ tasks'[s] = Idle \/ tasks'[s].id \in {id}
  BY <1>4, <1>6, <1>7 DEF On, SoiledOn
<1>14. \A other \in Ids : HoldingIInv(other)'
  BY <1>1, <1>3, <1>6, <1>12, <1>13, OthersAreKept
<1> QED
  BY <1>8, <1>9, <1>14 DEF HoldingsIInv

LEMMA AskStep == ASSUME HoldingsIInv, NEW t \in Tasks, Ask(t) PROVE HoldingsIInv'
<1>1. /\ tasks[t].at = "ask" /\ UNCHANGED <<components, generated, requests, entered>>
      /\ Answered(t) \/ NotAnswered(t)
  BY DEF Ask
<1> QED
  BY <1>1, AnsweredStep, NotAnsweredStep

LEMMA RefreshStep == ASSUME HoldingsIInv, Refresh PROVE HoldingsIInv'
<1>1. /\ \A t \in Refreshes : tasks[t] = Idle
      /\ disturbed' = disturbed \union {id \in Listed : On(id) # {}}
      /\ UNCHANGED <<holdings, components, fetches, generated, requests, faults, entered>>
  BY DEF Refresh
<1> DEFINE begun(id) == [Task("wait", id, holdings[id]) EXCEPT !.clean = On(id) = {}]
<1>2. tasks' = [t \in Tasks |->
           IF t \in Refreshes /\ t[2] \in Listed THEN begun(t[2])
           ELSE IF \E id \in Listed : t \in On(id) THEN [tasks[t] EXCEPT !.clean = FALSE]
           ELSE tasks[t]]
  BY DEF Refresh
<1>3. HoldingsTypes /\ generated \in Nat
  BY Numbers DEF HoldingsIInv, HoldingsTypes
<1>4. Listed \subseteq Ids
  BY DEF Listed
<1>5. ASSUME NEW id \in Listed
      PROVE  /\ begun(id) \in TaskType /\ begun(id).at = "wait" /\ begun(id).id = id
             /\ begun(id).form = holdings[id] /\ begun(id).next = 1 /\ ~begun(id).deleted
             /\ (begun(id).clean <=> On(id) = {}) /\ begun(id) # Idle
  <2> DEFINE task == Task("wait", id, holdings[id])
  <2>1. holdings[id] \in Forms /\ id \in Ids
    BY <1>3, <1>4, HoldingFacts DEF Listed
  <2>2. /\ task \in TaskType /\ task.at = "wait" /\ task.id = id /\ task.form = holdings[id]
        /\ task.next = 1 /\ ~task.deleted
    BY <2>1, NewTaskFacts DEF Stages
  <2>3. (On(id) = {}) \in BOOLEAN
    OBVIOUS
  <2> HIDE DEF task
  <2>4. /\ [task EXCEPT !.clean = On(id) = {}] \in TaskType
        /\ [task EXCEPT !.clean = On(id) = {}].at = "wait" /\ [task EXCEPT !.clean = On(id) = {}].id = id
        /\ [task EXCEPT !.clean = On(id) = {}].form = holdings[id]
        /\ [task EXCEPT !.clean = On(id) = {}].next = 1 /\ ~[task EXCEPT !.clean = On(id) = {}].deleted
        /\ ([task EXCEPT !.clean = On(id) = {}].clean <=> On(id) = {})
    BY <2>2, <2>3, MarkFacts
  <2>5. begun(id) = [task EXCEPT !.clean = On(id) = {}]
    BY DEF task
  <2> QED
    BY <2>4, <2>5, TaskFacts
<1> HIDE DEF begun
<1>6. \A t \in Refreshes : /\ t \in Tasks /\ t[2] \in Ids
                           /\ t[2] \in Listed => tasks'[t] = begun(t[2])
                           /\ t[2] \notin Listed => tasks'[t] = Idle
  <2> SUFFICES ASSUME NEW t \in Refreshes
               PROVE  /\ t \in Tasks /\ t[2] \in Ids
                      /\ t[2] \in Listed => tasks'[t] = begun(t[2])
                      /\ t[2] \notin Listed => tasks'[t] = Idle
    OBVIOUS
  <2>1. t \in Tasks /\ t[2] \in Ids /\ tasks[t] = Idle
    BY <1>1, KindsOfTasks
  <2>2. \A id \in Listed : t \notin On(id)
    BY <2>1 DEF On
  <2> QED
    BY <1>2, <2>1, <2>2
<1>7. \A t \in Tasks \ Refreshes : tasks[t] = Idle => tasks'[t] = Idle
  <2> SUFFICES ASSUME NEW t \in Tasks \ Refreshes, tasks[t] = Idle PROVE tasks'[t] = Idle
    OBVIOUS
  <2>1. \A id \in Listed : t \notin On(id)
    BY DEF On
  <2> QED
    BY <1>2, <2>1
<1>8. ASSUME NEW id \in Listed, NEW t \in On(id)
      PROVE  /\ t \in Tasks \ Refreshes
             /\ tasks'[t] \in TaskType /\ tasks'[t] # Idle /\ tasks'[t].id = id /\ ~tasks'[t].clean
             /\ tasks'[t].at = tasks[t].at /\ tasks'[t].form = tasks[t].form
             /\ tasks'[t].next = tasks[t].next /\ tasks'[t].deleted = tasks[t].deleted
  <2>1. t \in Tasks \ Refreshes /\ tasks[t] \in TaskType /\ tasks[t].id = id
    BY <1>1, <1>3, <1>4, OnFacts
  <2>2. tasks'[t] = [tasks[t] EXCEPT !.clean = FALSE]
    BY <1>2, <1>8, <2>1
  <2>3. FALSE \in BOOLEAN
    OBVIOUS
  <2>4. /\ [tasks[t] EXCEPT !.clean = FALSE] \in TaskType /\ [tasks[t] EXCEPT !.clean = FALSE].id = id
        /\ [tasks[t] EXCEPT !.clean = FALSE].at = tasks[t].at
        /\ [tasks[t] EXCEPT !.clean = FALSE].form = tasks[t].form
        /\ [tasks[t] EXCEPT !.clean = FALSE].next = tasks[t].next
        /\ [tasks[t] EXCEPT !.clean = FALSE].deleted = tasks[t].deleted
        /\ ~[tasks[t] EXCEPT !.clean = FALSE].clean
    BY <2>1, <2>3, MarkFacts
  <2> QED
    BY <2>1, <2>2, <2>4, TaskFacts
<1>9. ASSUME NEW id \in Ids \ Listed, NEW t \in On(id)
      PROVE  t \in Tasks \ Refreshes /\ tasks'[t] = tasks[t] /\ tasks[t].id = id /\ tasks[t] # Idle
  <2>1. t \in Tasks \ Refreshes /\ tasks[t].id = id /\ tasks[t] # Idle
    BY <1>1, <1>3, OnFacts
  <2>2. \A other \in Listed : t \notin On(other)
    BY <2>1 DEF On
  <2> QED
    BY <1>2, <2>1, <2>2
<1>10. \A t \in Tasks \ Refreshes : tasks[t] = Idle \/ \E id \in Ids : t \in On(id)
  BY <1>3, TasksFacts, TaskFacts DEF On
<1>11. \A t \in Tasks : tasks'[t] \in TaskType \union {Idle}
  <2> SUFFICES ASSUME NEW t \in Tasks PROVE tasks'[t] \in TaskType \union {Idle}
    OBVIOUS
  <2>1. CASE t \in Refreshes
    BY <1>5, <1>6, <2>1
  <2>2. CASE t \notin Refreshes /\ tasks[t] = Idle
    BY <1>7, <2>2
  <2>3. CASE t \notin Refreshes /\ tasks[t] # Idle
    <3>1. PICK id \in Ids : t \in On(id)
      BY <1>10, <2>3
    <3> QED
      BY <1>3, <1>8, <1>9, <3>1, OnFacts
  <2> QED
    BY <2>1, <2>2, <2>3
<1>12. HoldingsTypes'
  <2>1. tasks' \in [Tasks -> TaskType \union {Idle}]
    BY <1>2, <1>11
  <2>2. disturbed' \in SUBSET Ids
    BY <1>1, <1>3, <1>4 DEF HoldingsTypes
  <2> QED
    BY <1>1, <1>3, <2>1, <2>2 DEF HoldingsTypes
<1>13. RequestsAreNew'
  <2> SUFFICES ASSUME NEW r \in Requests PROVE (r[2] > requests => tasks'[r] = Idle) /\ tasks'[r].at # "wait"
    BY <1>1 DEF RequestsAreNew
  <2>1. /\ r \in Tasks \ Refreshes /\ (r[2] > requests => tasks[r] = Idle) /\ tasks[r].at # "wait"
    BY KindsOfTasks DEF HoldingsIInv, RequestsAreNew
  <2>2. CASE tasks[r] = Idle
    BY <1>7, <2>1, <2>2
  <2>3. CASE tasks[r] # Idle
    <3>1. PICK id \in Ids : r \in On(id)
      BY <1>10, <2>1, <2>3
    <3> QED
      BY <1>8, <1>9, <2>1, <2>3, <3>1
  <2> QED
    BY <2>2, <2>3
<1>14. PlacesAreTaken'
  <2>1. Fetching = {}
    BY <1>1 DEF Fetching
  <2>2. Fetching' = {}
    BY <1>5, <1>6, KindsOfTasks DEF Fetching, Idle
  <2> QED
    BY <1>1, <2>1, <2>2 DEF HoldingsIInv, PlacesAreTaken
<1>15. ASSUME NEW id \in Listed PROVE HoldingIInv(id)'
  <2>1. /\ id \in Ids /\ Exists(id) /\ HoldingIInv(id)
    BY <1>4 DEF Listed, HoldingsIInv
  <2>2. PICK r \in Refreshes : r[2] = id /\ \A s \in Refreshes : s[2] = id => s = r
    <3>1. <<"refresh", id>> \in Refreshes /\ <<"refresh", id>>[2] = id
      BY <2>1 DEF Refreshes
    <3>2. \A s \in Refreshes : s = <<"refresh", s[2]>>
      BY DEF Refreshes
    <3> QED
      BY <3>1, <3>2
  <2>3. r \in Tasks /\ tasks[r] = Idle /\ tasks'[r] = begun(id)
    BY <1>1, <1>6, <2>2
  <2>4. InOrder(tasks[r])'
    BY <1>5, <2>3 DEF InOrder
  <2>5. Relies(tasks[r], id)'
    BY <1>1, <1>5, <2>3 DEF Relies
  <2>6. On(id) # {} => id \in disturbed'
    BY <1>1
  <2>7. IF tasks'[r].clean THEN On(id) = {} /\ Relies(tasks[r], id)' ELSE id \in disturbed'
    BY <1>5, <2>3, <2>5, <2>6
  <2>8. SoiledOn(id)
    BY <1>8 DEF SoiledOn
  <2>9. \A s \in Tasks \ (On(id) \union {r}) : tasks'[s] = Idle \/ tasks'[s].id # id
    <3> SUFFICES ASSUME NEW s \in Tasks \ (On(id) \union {r}) PROVE tasks'[s] = Idle \/ tasks'[s].id # id
      OBVIOUS
    <3>1. CASE s \in Refreshes
      BY <1>5, <1>6, <2>2, <3>1
    <3>2. CASE s \notin Refreshes /\ tasks[s] = Idle
      BY <1>7, <3>2
    <3>3. CASE s \notin Refreshes /\ tasks[s] # Idle
      <4>1. PICK other \in Ids : s \in On(other)
        BY <1>10, <3>3
      <4> QED
        BY <1>8, <1>9, <4>1
    <3> QED
      BY <3>1, <3>2, <3>3
  <2>10. Exists(id) /\ entered[id].alone => holdings[id].isin = entered[id].isin
    BY <2>1 DEF HoldingIInv
  <2>11. id <= generated'
    BY <1>1, <1>3, <2>1, Numbers DEF HoldingIInv
  <2> QED
    BY <1>1, <1>3, <1>5, <2>1, <2>3, <2>4, <2>6, <2>7, <2>8, <2>9, <2>10, <2>11, HoldingOfABeginning DEF Exists
<1>16. ASSUME NEW id \in Ids \ Listed PROVE HoldingIInv(id)'
  <2>1. HoldingIInv(id)
    BY DEF HoldingsIInv
  <2>2. \A t \in Tasks : t \in On(id)' => t \in On(id)
    <3> SUFFICES ASSUME NEW t \in Tasks, tasks'[t] # Idle, tasks'[t].id = id PROVE t \in On(id)
      BY DEF On
    <3>1. t \notin Refreshes /\ tasks[t] # Idle
      BY <1>5, <1>6, <1>7
    <3>2. PICK other \in Ids : t \in On(other)
      BY <1>10, <3>1
    <3> QED
      BY <1>8, <1>9, <3>2
  <2>3. On(id)' = On(id)
    BY <1>9, <2>2 DEF On
  <2> QED
    BY <1>1, <1>3, <1>9, <2>1, <2>3, HoldingIsKept DEF Exists
<1> QED
  BY <1>12, <1>13, <1>14, <1>15, <1>16 DEF HoldingsIInv

LEMMA RestartStep == ASSUME HoldingsIInv, RestartServer PROVE HoldingsIInv'
<1>1. /\ Fault /\ tasks' = [t \in Tasks |-> Idle] /\ fetches' = 0
      /\ disturbed' = disturbed \union {id \in Ids : On(id) # {}}
      /\ UNCHANGED <<holdings, components, generated, requests, entered>>
  BY DEF RestartServer
<1>2. HoldingsTypes'
  BY <1>1, FaultType DEF HoldingsIInv, HoldingsTypes
<1>3. RequestsAreNew'
  BY <1>1, KindsOfTasks DEF RequestsAreNew, Idle
<1>4. PlacesAreTaken'
  <2>1. Fetching' = {}
    BY <1>1, KindsOfTasks DEF Fetching
  <2> QED
    BY <1>1, <2>1, FS_EmptySet, Numbers DEF PlacesAreTaken
<1>5. ASSUME NEW id \in Ids PROVE HoldingIInv(id)'
  <2>1. On(id)' = {}
    BY <1>1 DEF On
  <2>2. TasksOn(id)'
    BY <2>1 DEF TasksOn
  <2>3. Exists(id)' => Exists(id) /\ (Matches(id) => Matches(id)')
    BY <1>1 DEF Exists, Matches
  <2>4. id \notin disturbed' => id \notin disturbed /\ On(id) = {}
    BY <1>1
  <2>5. NoRows' = NoRows
    BY DEF NoRows
  <2> QED
    BY <1>1, <2>1, <2>2, <2>3, <2>4, <2>5 DEF HoldingsIInv, HoldingIInv, Exists
<1> QED
  BY <1>2, <1>3, <1>4, <1>5 DEF HoldingsIInv

LEMMA InitHoldingsIInv == HoldingsInit => HoldingsIInv
<1> SUFFICES ASSUME HoldingsInit PROVE HoldingsIInv
  OBVIOUS
<1>1. /\ generated = 1 /\ tasks = [t \in Tasks |-> Idle] /\ fetches = 0
      /\ requests = 0 /\ faults = 0 /\ disturbed = {}
  BY DEF HoldingsInit
<1>2. PICK form \in Filled :
         /\ holdings = [id \in Ids |-> IF id = 1 THEN form ELSE None]
         /\ components = [id \in Ids |-> [p \in 1 .. Len(Parts) |-> [f \in Funds |->
                IF id = 1 /\ form.etf /\ form.isin = f THEN 1 ELSE 0]]]
         /\ entered = [id \in Ids |-> [isin |-> IF id = 1 THEN form.isin ELSE NoISIN, alone |-> TRUE]]
  BY DEF HoldingsInit
<1>3. form \in Forms /\ form # None /\ form.isin \in Funds \union {NoISIN}
  BY NoneIsNoForm DEF Filled, Forms
<1>4. HoldingsTypes
  <2>1. holdings \in [Ids -> Forms \union {None}]
    BY <1>2, <1>3
  <2>2. components \in [Ids -> [1 .. Len(Parts) -> [Funds -> Nat]]]
    BY <1>2
  <2>3. entered \in [Ids -> [isin : Funds \union {NoISIN}, alone : BOOLEAN]]
    BY <1>2, <1>3
  <2> QED
    BY <1>1, <2>1, <2>2, <2>3, Numbers DEF HoldingsTypes
<1>5. RequestsAreNew
  BY <1>1, KindsOfTasks DEF RequestsAreNew, Idle
<1>6. PlacesAreTaken
  <2>1. Fetching = {}
    BY <1>1, KindsOfTasks DEF Fetching
  <2> QED
    BY <1>1, <2>1, FS_EmptySet, Numbers DEF PlacesAreTaken
<1>7. ASSUME NEW id \in Ids PROVE HoldingIInv(id)
  <2>1. On(id) = {} /\ id \in Nat
    BY <1>1, Numbers DEF On
  <2>2. Exists(id) => id = 1 /\ holdings[id] = form
    BY <1>2 DEF Exists
  <2>3. Exists(id) => Matches(id) /\ entered[id].isin = holdings[id].isin
    BY <1>2, <2>2 DEF Matches
  <2>4. id # 1 => ~Exists(id) /\ components[id] = NoRows
    BY <1>2 DEF Exists, NoRows
  <2> QED
    BY <1>1, <2>1, <2>3, <2>4 DEF HoldingIInv, TasksOn
<1> QED
  BY <1>4, <1>5, <1>6, <1>7 DEF HoldingsIInv

LEMMA NextHoldingsIInv == HoldingsIInv /\ [HoldingsNext]_holdingVars => HoldingsIInv'
<1> SUFFICES ASSUME HoldingsIInv, [HoldingsNext]_holdingVars PROVE HoldingsIInv'
  OBVIOUS
<1>1. ASSUME NEW r \in Requests, AddHolding(r) \/ MergeHolding(r) \/ ReadForModify(r) PROVE HoldingsIInv'
  BY <1>1, AddHoldingStep, MergeHoldingStep, ReadForModifyStep
<1>2. ASSUME NEW id \in Ids, RemoveHolding(id) PROVE HoldingsIInv'
  BY <1>2, RemoveHoldingStep
<1>3. ASSUME NEW t \in Tasks, Proceeds(t) PROVE HoldingsIInv'
  BY <1>3, WriteModifiedStep, AcquireStep, DeleteStep, AskStep, InsertStep DEF Proceeds
<1>4. CASE Refresh
  BY <1>4, RefreshStep
<1>5. CASE RestartServer
  BY <1>5, RestartStep
<1>6. CASE UNCHANGED holdingVars
  <2>1. HoldingsTypes' /\ RequestsAreNew' /\ PlacesAreTaken'
    BY <1>6 DEF holdingVars, HoldingsIInv, HoldingsTypes, RequestsAreNew, PlacesAreTaken, Fetching
  <2>2. ASSUME NEW id \in Ids PROVE HoldingIInv(id)'
    <3>1. generated \in Nat /\ HoldingIInv(id) /\ HoldingsTypes
      BY Numbers DEF HoldingsIInv, HoldingsTypes
    <3> QED
      BY <1>6, <3>1, HoldingIsKept DEF holdingVars, On, Exists
  <2> QED
    BY <2>1, <2>2 DEF HoldingsIInv
<1> QED
  BY <1>1, <1>2, <1>3, <1>4, <1>5, <1>6 DEF HoldingsNext

\* The invariant: a task of a holding that has met no other is alone with it and knows its
\* row and how far its tables are filled; of a holding with any other task it is known only
\* that it is disturbed.
THEOREM HoldingsInvariant == HoldingsSpec => []HoldingsIInv
<1> QED
  BY InitHoldingsIInv, NextHoldingsIInv, PTL DEF HoldingsSpec

\* When nothing is going on with a holding that nothing has disturbed since its last clean
\* refresh, its tables have the components of its ETF once and nothing else.
THEOREM ComponentsMatch == HoldingsSpec => []ComponentsMatchUnlessDisturbed
<1>1. HoldingsIInv => ComponentsMatchUnlessDisturbed
  BY DEF HoldingsIInv, HoldingIInv, ComponentsMatchUnlessDisturbed
<1> QED
  BY <1>1, HoldingsInvariant, PTL

\* What a user entered while nothing was going on with the holding is not replaced by the
\* answer to an older question.
THEOREM EnteredStays == HoldingsSpec => []EnteredISINStays
<1>1. HoldingsIInv => EnteredISINStays
  BY DEF HoldingsIInv, HoldingIInv, EnteredISINStays
<1> QED
  BY <1>1, HoldingsInvariant, PTL

\* Every variable keeps its type; of the places of externalFetchSem none is given twice,
\* lost, or given back by a goroutine that has none.
THEOREM HoldingsTyped == HoldingsSpec => []HoldingsTypeOK
<1>1. HoldingsIInv => HoldingsTypeOK
  <2> SUFFICES ASSUME HoldingsIInv PROVE HoldingsTypeOK
    OBVIOUS
  <2>1. fetches \in 0 .. MaxFetches
    BY FetchingIsFinite, FS_CardinalityType, Numbers DEF HoldingsIInv, PlacesAreTaken
  <2> QED
    BY <2>1 DEF HoldingsIInv, HoldingsTypes, HoldingsTypeOK
<1> QED
  BY <1>1, HoldingsInvariant, PTL
===============================================================================
