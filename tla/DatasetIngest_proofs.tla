-------------------------- MODULE DatasetIngest_proofs --------------------------
(***************************************************************************)
(* The resuming of the ingest, for every set of producers, every number of *)
(* items, threads, faults and starts.  The invariant has a part for each   *)
(* thread: what it has passed is accounted for, its offsets are what the   *)
(* file said at its start, or nothing if it could not read it, and the     *)
(* file is never ahead of a thread that could.  The threads share the file *)
(* and the server, but each has keys of its own, so that a step of one     *)
(* leaves the part of every other one as it is; only a write that is cut   *)
(* short reaches them, and it takes everything back.                       *)
(***************************************************************************)
EXTENDS DatasetIngest, FiniteSetTheorems, TLAPS

InLoop == {"loop", "embed", "post", "save"}
Active == InLoop \union {"open"}

SaveDue(p, i) == i % Period(p.save) = 0
RagDue(p, i) == i % Period(p.rag) = 0

\* The item is with the server or was lost for a reason, and embedded if it is to be.
Accounted(p, j, i) ==
  LET item == <<p.datasets[j].key, i>>
  IN  item \in Found /\ (RagDue(p, i) => item \in indexed \union skipped)

\* The thread is at an item of its dataset beyond its offset.
CountOK(p) ==
  /\ pc[p] \in InLoop => count[p] <= Data(p).items
  /\ pc[p] \in {"embed", "post", "save"} => offsets[p][ds[p]] < count[p]

\* What it has done with the item so far.
ItemOK(p) ==
  /\ pc[p] = "embed" => RagDue(p, count[p])
  /\ pc[p] = "post" /\ RagDue(p, count[p]) => Sample(p) \in indexed \union skipped
  /\ pc[p] = "save" => Accounted(p, ds[p], count[p])

PassedOK(p) == pc[p] \in InLoop => \A i \in 1..Passed(p) : Accounted(p, ds[p], i)

\* Its offsets are what the file said at its start, and still says unless it is torn;
\* they are never more than that.
OffsetsOK(p) ==
  pc[p] \in Active => \A j \in DOMAIN p.datasets :
    /\ offsets[p][j] <= p.datasets[j].items
    /\ \A i \in 1..offsets[p][j] : Accounted(p, j, i)
    /\ ~torn => offsets[p][j] <= progress[p.datasets[j].key]
    /\ p \notin misread /\ (j > ds[p] \/ (j = ds[p] /\ pc[p] = "open"))
         => progress[p.datasets[j].key] <= offsets[p][j]

\* The file is not ahead of the thread, if the thread could read it.
FileIsBehind(p) ==
  pc[p] \in InLoop /\ p \notin misread => progress[Key(p)] <= offsets[p][ds[p]] \/ progress[Key(p)] <= Passed(p)

SavesOK(p) ==
  pc[p] \in InLoop /\ ~torn =>
    \A i \in (progress[Key(p)] + 1)..Passed(p) :
      SaveDue(p, i) => (p.guarded /\ <<Key(p), i>> \in skipped) \/ <<Key(p), i>> \in missed

ThreadOK(p) ==
  CountOK(p) /\ ItemOK(p) /\ PassedOK(p) /\ OffsetsOK(p) /\ FileIsBehind(p) /\ SavesOK(p)

FileOK ==
  /\ torn => \A k \in Keys : progress[k] = 0
  /\ \A p \in jobs : \A j \in DOMAIN p.datasets :
       /\ progress[p.datasets[j].key] <= p.datasets[j].items
       /\ \A i \in 1..progress[p.datasets[j].key] : Accounted(p, j, i)

\* The samples in the server's memory, but for those whose request was refused.
HeldOK ==
  /\ IsFiniteSet(held)
  /\ Cardinality(held \ skipped) <= index
  /\ Cardinality(held \ skipped) <= SamplesPerFile - 1

\* Those that it lost by its stops.
DroppedOK ==
  /\ IsFiniteSet(dropped)
  /\ Cardinality(dropped \ skipped) <= (SamplesPerFile - 1) * stops
  /\ stops <= faults

IngestInv == TypeOK /\ (\A p \in jobs : ThreadOK(p)) /\ FileOK /\ HeldOK /\ DroppedOK

-----------------------------------------------------------------------------
(* The constants and the types. *)

LEMMA Numbers ==
  /\ MaxWorkers \in Nat /\ Unit \in Nat \ {0} /\ SamplesPerFile \in Nat \ {0}
  /\ MaxRuns \in Nat \ {0} /\ MaxFaults \in Nat
BY NumbersAssumption

LEMMA Producers ==
  ASSUME TypeOK, NEW p \in jobs
  PROVE  /\ DOMAIN p.datasets = 1..Len(p.datasets) /\ Len(p.datasets) \in Nat \ {0}
         /\ p.guarded \in BOOLEAN /\ p.outer \in BOOLEAN
         /\ ds[p] \in DOMAIN p.datasets /\ ds[p] \in Nat
         /\ Data(p).short => p.guarded
<1>1. p \in UNION Submitted
  BY DEF TypeOK
<1> QED
  BY <1>1, ProducersAssumption DEF TypeOK, Data

LEMMA Datasets ==
  ASSUME TypeOK, NEW p \in jobs, NEW j \in DOMAIN p.datasets
  PROVE  /\ j \in Nat /\ p.datasets[j].items \in Nat /\ p.datasets[j].key \in Keys
         /\ offsets[p][j] \in Nat /\ progress[p.datasets[j].key] \in Nat
<1>1. p \in UNION Submitted
  BY DEF TypeOK
<1>2. p.datasets[j].key \in Keys
  BY DEF Keys, KeysOf
<1>3. j \in Nat
  BY Producers
<1> QED
  BY <1>1, <1>2, <1>3, ProducersAssumption DEF TypeOK

LEMMA AtHand ==
  ASSUME TypeOK, NEW p \in jobs
  PROVE  /\ ds[p] \in DOMAIN p.datasets
         /\ Data(p) = p.datasets[ds[p]] /\ Key(p) = p.datasets[ds[p]].key
         /\ Data(p).items \in Nat /\ Key(p) \in Keys /\ count[p] \in Nat
         /\ offsets[p][ds[p]] \in Nat /\ progress[Key(p)] \in Nat
<1>1. ds[p] \in DOMAIN p.datasets
  BY Producers
<1> QED
  BY <1>1, Datasets DEF Data, Key, TypeOK

LEMMA KeysDiffer ==
  ASSUME TypeOK, NEW p \in jobs, NEW q \in jobs, NEW i \in DOMAIN p.datasets,
         NEW j \in DOMAIN q.datasets, p.datasets[i].key = q.datasets[j].key
  PROVE  p = q /\ i = j
BY KeysAssumption DEF TypeOK

LEMMA FaultType ==
  ASSUME TypeOK, Fault \/ NoFault
  PROVE  faults' \in 0..MaxFaults /\ faults <= faults' /\ faults \in Nat
BY Numbers DEF TypeOK, Fault, NoFault

LEMMA SampleType ==
  ASSUME TypeOK, NEW p \in jobs, NEW n \in Nat \ {0}
  PROVE  <<Key(p), n>> \in Samples
BY AtHand DEF Samples

LEMMA GotoType ==
  ASSUME TypeOK, NEW p \in jobs, NEW where \in Places, Goto(p, where)
  PROVE  /\ pc' \in [jobs -> Places] /\ pc'[p] = where
         /\ \A q \in jobs : q # p => pc'[q] = pc[q]
BY DEF TypeOK, Goto

LEMMA PassedType ==
  ASSUME TypeOK, NEW p \in jobs, CountOK(p)
  PROVE  /\ Passed(p) = IF pc[p] \in {"embed", "post", "save"} THEN count[p] - 1 ELSE count[p]
         /\ Passed(p) \in Nat
         /\ pc[p] \in {"embed", "post", "save"} => count[p] \in Nat \ {0}
BY AtHand DEF Passed, CountOK

LEMMA DueIsConstant ==
  ASSUME NEW p, NEW i
  PROVE  (RagDue(p, i)' <=> RagDue(p, i)) /\ (SaveDue(p, i)' <=> SaveDue(p, i))
BY DEF RagDue, SaveDue, Period

-----------------------------------------------------------------------------
(* What a step leaves to the threads that do not take it. *)

Keeps == Found \subseteq Found' /\ indexed \subseteq indexed' /\ skipped \subseteq skipped'
         /\ missed \subseteq missed'

LEMMA StaysAccounted ==
  ASSUME Keeps, NEW p, NEW j, NEW i, Accounted(p, j, i)
  PROVE  Accounted(p, j, i)'
BY DueIsConstant DEF Accounted, Keeps

LEMMA OtherThread ==
  ASSUME TypeOK, NEW q \in jobs, ThreadOK(q), Keeps,
         pc'[q] = pc[q], ds'[q] = ds[q], count'[q] = count[q], offsets'[q] = offsets[q],
         q \in misread' <=> q \in misread,
         \/ /\ torn' = torn
            /\ \A j \in DOMAIN q.datasets : progress'[q.datasets[j].key] = progress[q.datasets[j].key]
         \/ torn' /\ \A k \in Keys : progress'[k] = 0
  PROVE  ThreadOK(q)'
<1>a. Data(q)' = Data(q) /\ Key(q)' = Key(q) /\ Sample(q)' = Sample(q) /\ Passed(q)' = Passed(q)
  BY DEF Data, Key, Sample, Passed
<1>b. ds[q] \in DOMAIN q.datasets /\ Key(q) \in Keys /\ Key(q) = q.datasets[ds[q]].key
      /\ offsets[q][ds[q]] \in Nat /\ count[q] \in Nat
  BY AtHand
<1>c. \A j \in DOMAIN q.datasets : q.datasets[j].key \in Keys /\ offsets[q][j] \in Nat
  BY Datasets
<1>1. CountOK(q)'
  BY <1>a DEF ThreadOK, CountOK
<1>2. ItemOK(q)'
  BY <1>a, StaysAccounted, DueIsConstant DEF ThreadOK, ItemOK, Keeps
<1>3. PassedOK(q)'
  BY <1>a, StaysAccounted DEF ThreadOK, PassedOK
<1>4. OffsetsOK(q)'
  BY <1>c, StaysAccounted DEF ThreadOK, OffsetsOK
<1>5. FileIsBehind(q)'
  BY <1>a, <1>b DEF ThreadOK, FileIsBehind
<1>6. SavesOK(q)'
  <2>1. CASE torn'
    BY <2>1 DEF SavesOK
  <2>2. CASE ~torn' /\ torn' = torn /\ progress'[Key(q)] = progress[Key(q)]
    BY <1>a, <2>2, DueIsConstant DEF ThreadOK, SavesOK, Keeps
  <2> QED
    BY <1>b, <2>1, <2>2
<1> QED
  BY <1>1, <1>2, <1>3, <1>4, <1>5, <1>6 DEF ThreadOK

\* A thread that is not in its loop is not asked for anything.
LEMMA IdleThread ==
  ASSUME NEW q, pc'[q] \notin Active
  PROVE  ThreadOK(q)'
BY DEF ThreadOK, CountOK, ItemOK, PassedOK, OffsetsOK, FileIsBehind, SavesOK, Active, InLoop

Writes(p) == progress' = [progress EXCEPT ![Key(p)] = count[p]]

\* What a step of a thread may do to the file.
FileChange(p) ==
  \/ UNCHANGED <<progress, torn>>
  \/ torn' = TRUE /\ progress' = [k \in Keys |-> 0]
  \/ /\ ~torn /\ torn' = torn /\ Writes(p)
     /\ pc[p] \in {"save", "loop"}

LEMMA FileChangeType ==
  ASSUME TypeOK, NEW p \in jobs, FileChange(p)
  PROVE  progress' \in [Keys -> Nat] /\ torn' \in BOOLEAN
<1>a. Key(p) \in Keys /\ count[p] \in Nat /\ progress \in [Keys -> Nat] /\ torn \in BOOLEAN
  BY AtHand DEF TypeOK
<1>1. CASE UNCHANGED <<progress, torn>>
  BY <1>1, <1>a DEF fileVars
<1>2. CASE torn' = TRUE /\ progress' = [k \in Keys |-> 0]
  BY <1>2
<1>3. CASE torn' = torn /\ Writes(p)
  BY <1>3, <1>a DEF Writes
<1> QED
  BY <1>1, <1>2, <1>3 DEF FileChange

\* What a write leaves in the file for a dataset of a thread.
LEMMA Written ==
  ASSUME TypeOK, NEW p \in jobs, NEW q \in jobs, NEW j \in DOMAIN q.datasets,
         Writes(p)
  PROVE  progress'[q.datasets[j].key] =
           IF q = p /\ j = ds[p] THEN count[p] ELSE progress[q.datasets[j].key]
<1>1. q.datasets[j].key \in Keys /\ Key(p) = p.datasets[ds[p]].key /\ ds[p] \in DOMAIN p.datasets
      /\ DOMAIN progress = Keys
  BY Datasets, AtHand DEF TypeOK
<1>2. CASE q.datasets[j].key = Key(p)
  <2>1. q = p /\ j = ds[p]
    BY <1>1, <1>2, KeysDiffer
  <2> QED
    BY <1>1, <1>2, <2>1 DEF Writes
<1>3. CASE q.datasets[j].key # Key(p)
  BY <1>1, <1>3 DEF Writes
<1> QED
  BY <1>2, <1>3

LEMMA FileStaysOK ==
  ASSUME TypeOK, FileOK, NEW p \in jobs, ThreadOK(p), jobs' = jobs, Keeps, FileChange(p)
  PROVE  FileOK'
<1>a. Keys' = Keys
  BY DEF Keys, KeysOf
<1>1. CASE UNCHANGED <<progress, torn>>
  BY <1>1, <1>a, StaysAccounted DEF FileOK, fileVars
<1>2. CASE torn' = TRUE /\ progress' = [k \in Keys |-> 0]
  <2>1. \A q \in jobs : \A j \in DOMAIN q.datasets :
          progress'[q.datasets[j].key] = 0 /\ q.datasets[j].items \in Nat
    BY <1>2, Datasets
  <2> QED
    BY <1>2, <1>a, <2>1 DEF FileOK
<1>3. CASE /\ ~torn /\ torn' = torn /\ Writes(p)
           /\ pc[p] \in {"save", "loop"}
  <2>1. count[p] <= Data(p).items /\ CountOK(p) /\ Data(p) = p.datasets[ds[p]]
    BY <1>3, AtHand DEF ThreadOK, CountOK, InLoop
  <2>2. \A i \in 1..count[p] : Accounted(p, ds[p], i)
    <3>1. \A i \in 1..Passed(p) : Accounted(p, ds[p], i)
      BY <1>3 DEF ThreadOK, PassedOK, InLoop
    <3>2. pc[p] = "save" => Accounted(p, ds[p], count[p])
      BY DEF ThreadOK, ItemOK
    <3>3. count[p] \in Nat /\ \A i \in 1..count[p] : i \in 1..Passed(p) \/ (pc[p] = "save" /\ i = count[p])
      BY <1>3, <2>1, PassedType, AtHand
    <3> QED
      BY <3>1, <3>2, <3>3
  <2>3. ASSUME NEW q \in jobs, NEW j \in DOMAIN q.datasets
        PROVE  /\ progress'[q.datasets[j].key] <= q.datasets[j].items
               /\ \A i \in 1..progress'[q.datasets[j].key] : Accounted(q, j, i)
    <3>1. CASE q = p /\ j = ds[p]
      <4>1. progress'[q.datasets[j].key] = count[p]
        BY <1>3, <3>1, Written
      <4> QED
        BY <2>1, <2>2, <3>1, <4>1
    <3>2. CASE ~(q = p /\ j = ds[p])
      <4>1. progress'[q.datasets[j].key] = progress[q.datasets[j].key]
        BY <1>3, <3>2, Written
      <4> QED
        BY <4>1 DEF FileOK
    <3> QED
      BY <3>1, <3>2
  <2>4. \A q \in jobs : \A j \in DOMAIN q.datasets :
          \A i \in 1..progress'[q.datasets[j].key] : Accounted(q, j, i)'
    BY <2>3, StaysAccounted
  <2> QED
    BY <1>3, <2>3, <2>4 DEF FileOK
<1> QED
  BY <1>1, <1>2, <1>3 DEF FileChange

\* A step of one thread: the rest follows from what becomes of that thread.
Frame(p) ==
  /\ jobs' = jobs /\ Keeps /\ FileChange(p)
  /\ \A q \in jobs \ {p} :
       /\ pc'[q] = pc[q] /\ ds'[q] = ds[q] /\ count'[q] = count[q] /\ offsets'[q] = offsets[q]
       /\ q \in misread' <=> q \in misread

LEMMA FrameSuffices ==
  ASSUME IngestInv, NEW p \in jobs, Frame(p), ThreadOK(p)'
  PROVE  (\A q \in jobs : ThreadOK(q))' /\ FileOK'
<1>a. TypeOK /\ FileOK /\ ThreadOK(p) /\ jobs' = jobs /\ Keeps /\ FileChange(p)
  BY DEF IngestInv, Frame
<1>1. FileOK'
  BY <1>a, FileStaysOK
<1>2. ASSUME NEW q \in jobs, q # p PROVE ThreadOK(q)'
  <2>1. ThreadOK(q) /\ pc'[q] = pc[q] /\ ds'[q] = ds[q] /\ count'[q] = count[q]
        /\ offsets'[q] = offsets[q] /\ (q \in misread' <=> q \in misread)
    BY <1>2 DEF IngestInv, Frame
  <2>2. \/ /\ torn' = torn
           /\ \A j \in DOMAIN q.datasets :
                progress'[q.datasets[j].key] = progress[q.datasets[j].key]
        \/ torn' /\ \A k \in Keys : progress'[k] = 0
    <3>1. CASE UNCHANGED <<progress, torn>>
      BY <3>1 DEF fileVars
    <3>2. CASE torn' = TRUE /\ progress' = [k \in Keys |-> 0]
      BY <3>2
    <3>3. CASE ~torn /\ torn' = torn /\ Writes(p)
      BY <1>a, <1>2, <3>3, Written
    <3> QED
      BY <1>a, <3>1, <3>2, <3>3 DEF FileChange
  <2> QED
    BY <1>a, <2>1, <2>2, OtherThread
<1> QED
  BY <1>1, <1>2, <1>a

-----------------------------------------------------------------------------
(* The thread that takes the step. *)

\* The offsets outlive every step but the start of the thread.
LEMMA OffsetsStayOK ==
  ASSUME TypeOK, NEW p \in jobs, ThreadOK(p), pc[p] \in Active, Keeps, FileChange(p),
         offsets'[p] = offsets[p],
         UNCHANGED fileVars \/ offsets[p][ds[p]] <= count[p],
         ds'[p] \in Nat, ds[p] <= ds'[p], pc'[p] = "open" => ds[p] < ds'[p],
         p \in misread' <=> p \in misread
  PROVE  OffsetsOK(p)'
<1> SUFFICES ASSUME NEW j \in DOMAIN p.datasets
    PROVE  /\ offsets[p][j] <= p.datasets[j].items
           /\ \A i \in 1..offsets[p][j] : Accounted(p, j, i)'
           /\ ~torn' => offsets[p][j] <= progress'[p.datasets[j].key]
           /\ p \notin misread /\ (j > ds'[p] \/ (j = ds'[p] /\ pc'[p] = "open"))
                => progress'[p.datasets[j].key] <= offsets[p][j]
  BY DEF OffsetsOK
<1>a. j \in Nat /\ offsets[p][j] \in Nat /\ progress[p.datasets[j].key] \in Nat
      /\ p.datasets[j].key \in Keys /\ ds[p] \in Nat /\ count[p] \in Nat
  BY Datasets, AtHand, Producers
<1>b. /\ offsets[p][j] <= p.datasets[j].items
      /\ \A i \in 1..offsets[p][j] : Accounted(p, j, i)
      /\ ~torn => offsets[p][j] <= progress[p.datasets[j].key]
      /\ p \notin misread /\ j > ds[p] => progress[p.datasets[j].key] <= offsets[p][j]
  BY DEF ThreadOK, OffsetsOK
<1>1. \A i \in 1..offsets[p][j] : Accounted(p, j, i)'
  BY <1>b, StaysAccounted
<1>2. j > ds'[p] \/ (j = ds'[p] /\ pc'[p] = "open") => j > ds[p]
  BY <1>a
<1>3. CASE UNCHANGED <<progress, torn>>
  BY <1>3, <1>b, <1>1, <1>2 DEF fileVars
<1>4. CASE torn' = TRUE /\ progress' = [k \in Keys |-> 0]
  BY <1>4, <1>a, <1>b, <1>1
<1>5. CASE ~torn /\ torn' = torn /\ Writes(p) /\ offsets[p][ds[p]] <= count[p]
  <2>1. progress'[p.datasets[j].key] = IF j = ds[p] THEN count[p] ELSE progress[p.datasets[j].key]
    BY <1>5, Written
  <2> QED
    BY <1>5, <1>a, <1>b, <1>1, <1>2, <2>1
<1> QED
  BY <1>3, <1>4, <1>5 DEF FileChange, fileVars

\* Nothing is written: the thread and the file are what they were.
LEMMA SameFile ==
  ASSUME UNCHANGED fileVars, NEW p
  PROVE  FileChange(p) /\ progress' = progress /\ torn' = torn
BY DEF FileChange, fileVars

LEMMA Begins ==
  ASSUME IngestInv, NEW p \in jobs, Begin(p)
  PROVE  ThreadOK(p)'
<1>a. TypeOK /\ FileOK /\ Keeps /\ progress' = progress /\ torn' = torn
  BY SameFile DEF IngestInv, Begin, Keeps, Found, fileVars, serverVars, sampleVars
<1>b. pc'[p] = "open"
  BY <1>a, GotoType DEF Begin, Places
<1>1. OffsetsOK(p)'
  <2> SUFFICES ASSUME NEW j \in DOMAIN p.datasets
      PROVE  /\ offsets'[p][j] <= p.datasets[j].items
             /\ \A i \in 1..offsets'[p][j] : Accounted(p, j, i)'
             /\ ~torn => offsets'[p][j] <= progress[p.datasets[j].key]
             /\ p \notin misread' => progress[p.datasets[j].key] <= offsets'[p][j]
    BY <1>a DEF OffsetsOK
  <2>1. \/ offsets'[p][j] = load_progress(p.datasets[j].key)
        \/ offsets'[p][j] = 0 /\ p \in misread'
    BY <1>a DEF Begin, TypeOK
  <2>2. /\ p.datasets[j].key \in Keys /\ progress[p.datasets[j].key] \in Nat
        /\ p.datasets[j].items \in Nat
    BY <1>a, Datasets
  <2>3. \/ offsets'[p][j] = progress[p.datasets[j].key]
        \/ offsets'[p][j] = 0 /\ p \in misread'
    BY <1>a, <2>1, <2>2 DEF load_progress, FileOK
  <2>4. /\ progress[p.datasets[j].key] <= p.datasets[j].items
        /\ \A i \in 1..progress[p.datasets[j].key] : Accounted(p, j, i)
    BY <1>a DEF FileOK
  <2>5. \A i \in 1..progress[p.datasets[j].key] : Accounted(p, j, i)'
    BY <1>a, <2>4, StaysAccounted
  <2> QED
    BY <2>2, <2>3, <2>4, <2>5
<1> QED
  BY <1>b, <1>1 DEF ThreadOK, CountOK, ItemOK, PassedOK, FileIsBehind, SavesOK, InLoop

LEMMA Opens ==
  ASSUME IngestInv, NEW p \in jobs, Open(p)
  PROVE  ThreadOK(p)'
<1>a. TypeOK /\ ThreadOK(p) /\ Keeps /\ FileChange(p) /\ progress' = progress /\ torn' = torn
      /\ ds' = ds /\ offsets' = offsets /\ misread' = misread /\ pc[p] = "open"
  BY SameFile DEF IngestInv, Open, Keeps, Found, fileVars, serverVars, sampleVars
<1>b. pc'[p] = "loop" /\ count'[p] = 0
  BY <1>a, GotoType DEF Open, Places, TypeOK
<1>c. /\ Data(p)' = Data(p) /\ Key(p)' = Key(p) /\ Key(p) = p.datasets[ds[p]].key
      /\ ds[p] \in DOMAIN p.datasets /\ Data(p).items \in Nat /\ progress[Key(p)] \in Nat
      /\ Passed(p)' = 0 /\ ds[p] \in Nat /\ offsets[p][ds[p]] \in Nat
  BY <1>a, <1>b, AtHand, Producers DEF Data, Key, Passed
<1>1. CountOK(p)'
  BY <1>b, <1>c DEF CountOK
<1>2. OffsetsOK(p)'
  <2> SUFFICES ASSUME NEW j \in DOMAIN p.datasets
      PROVE  /\ offsets[p][j] <= p.datasets[j].items
             /\ \A i \in 1..offsets[p][j] : Accounted(p, j, i)'
             /\ ~torn => offsets[p][j] <= progress[p.datasets[j].key]
             /\ p \notin misread /\ j > ds[p] => progress[p.datasets[j].key] <= offsets[p][j]
    BY <1>a, <1>b DEF OffsetsOK
  <2> QED
    BY <1>a, StaysAccounted DEF ThreadOK, OffsetsOK, Active
<1>3. FileIsBehind(p)'
  BY <1>a, <1>c DEF ThreadOK, OffsetsOK, FileIsBehind, Active
<1>4. SavesOK(p)'
  <2>1. (progress[Key(p)] + 1)..0 = {} /\ progress'[Key(p)'] = progress[Key(p)]
    BY <1>a, <1>c
  <2> QED
    BY <1>c, <2>1 DEF SavesOK
<1>5. PassedOK(p)'
  BY <1>c DEF PassedOK
<1> QED
  BY <1>b, <1>1, <1>2, <1>3, <1>4, <1>5 DEF ThreadOK, ItemOK

\* A dataset is over, and the next one is to be opened, if there is one.
LEMMA NextDatasetBegins ==
  ASSUME TypeOK, NEW p \in jobs, ThreadOK(p), pc[p] \in {"open", "loop"},
         Keeps, FileChange(p), UNCHANGED fileVars \/ offsets[p][ds[p]] <= count[p], NextDataset(p)
  PROVE  ThreadOK(p)'
<1>a. ds[p] \in Nat /\ Len(p.datasets) \in Nat /\ DOMAIN ds = jobs
      /\ offsets'[p] = offsets[p] /\ misread' = misread
  BY Producers DEF TypeOK, NextDataset
<1>1. CASE ds[p] < Len(p.datasets) /\ Goto(p, "open") /\ ds' = [ds EXCEPT ![p] = @ + 1]
  <2>1. pc'[p] = "open" /\ ds'[p] = ds[p] + 1
    BY <1>1, <1>a, GotoType DEF Places
  <2>2. OffsetsOK(p)'
    BY <1>a, <2>1, OffsetsStayOK DEF Active, InLoop
  <2> QED
    BY <2>1, <2>2 DEF ThreadOK, CountOK, ItemOK, PassedOK, FileIsBehind, SavesOK, InLoop
<1>2. CASE Goto(p, "done")
  <2>1. pc'[p] = "done"
    BY <1>2, GotoType DEF Places, Over
  <2> QED
    BY <2>1, IdleThread DEF Active, InLoop
<1> QED
  BY <1>1, <1>2 DEF NextDataset

\* A turn of the loop that leaves the item to the calls that follow.
LEMMA TakesToCalls ==
  ASSUME TypeOK, NEW p \in jobs, ThreadOK(p), Keeps, UNCHANGED fileVars,
         ds'[p] = ds[p], offsets'[p] = offsets[p], misread' = misread,
         pc[p] = "loop", count[p] < Data(p).items, count'[p] = count[p] + 1,
         offsets[p][ds[p]] < count[p] + 1,
         pc'[p] = IF RagDue(p, count[p] + 1) THEN "embed" ELSE "post"
  PROVE  ThreadOK(p)'
<1>a. /\ Data(p)' = Data(p) /\ Key(p)' = Key(p) /\ progress' = progress /\ torn' = torn
      /\ Data(p).items \in Nat /\ progress[Key(p)] \in Nat /\ count[p] \in Nat /\ ds[p] \in Nat
      /\ Passed(p) = count[p] /\ Passed(p)' = Passed(p) /\ offsets[p][ds[p]] \in Nat
  BY AtHand, Producers DEF Data, Key, Passed, fileVars
<1>1. CountOK(p)'
  BY <1>a DEF CountOK
<1>2. ItemOK(p)'
  BY DueIsConstant DEF ItemOK
<1>3. PassedOK(p)'
  BY <1>a, StaysAccounted DEF ThreadOK, PassedOK, InLoop
<1>4. OffsetsOK(p)'
  BY <1>a, SameFile, OffsetsStayOK DEF Active, InLoop, FileChange
<1>5. FileIsBehind(p)'
  BY <1>a DEF ThreadOK, FileIsBehind, InLoop
<1>6. SavesOK(p)'
  BY <1>a, DueIsConstant DEF ThreadOK, SavesOK, InLoop, Keeps
<1> QED
  BY <1>1, <1>2, <1>3, <1>4, <1>5, <1>6 DEF ThreadOK

\* An item that the thread is through with: its save comes next, is not due, or is
\* passed over with the item; or its save was due in an earlier run.
LEMMA ItemIsPassed ==
  ASSUME TypeOK, NEW p \in jobs, ThreadOK(p), Keeps, UNCHANGED fileVars,
         ds'[p] = ds[p], offsets'[p] = offsets[p], misread' = misread,
         pc[p] \in {"loop", "embed", "post"},
         NEW n \in Nat \ {0}, n = Passed(p) + 1, n <= Data(p).items,
         count'[p] = n, Accounted(p, ds[p], n)',
         \/ pc'[p] = "save" /\ offsets[p][ds[p]] < n
         \/ /\ pc'[p] = "loop"
            /\ \/ ~SaveDue(p, n) \/ (p.guarded /\ <<Key(p), n>> \in skipped')
               \/ n <= offsets[p][ds[p]]
  PROVE  ThreadOK(p)'
<1>a. /\ Data(p)' = Data(p) /\ Key(p)' = Key(p) /\ progress' = progress /\ torn' = torn
      /\ progress[Key(p)] \in Nat /\ Passed(p) \in Nat /\ ds[p] \in DOMAIN p.datasets
      /\ Passed(p)' = IF pc'[p] = "save" THEN Passed(p) ELSE n
      /\ offsets[p][ds[p]] \in Nat /\ Key(p) = p.datasets[ds[p]].key /\ ds[p] \in Nat
  BY AtHand, Producers, PassedType DEF Data, Key, Passed, fileVars, ThreadOK
<1>b. PICK d \in DOMAIN p.datasets : d = ds[p]
  BY <1>a
<1>c. Accounted(p, d, n)'
  BY <1>b
<1>d. Active = {"open", "loop", "embed", "post", "save"} /\ pc[p] \in Active /\ pc[p] \in InLoop
  BY DEF Active, InLoop
<1>1. CountOK(p)'
  BY <1>a DEF CountOK
<1>2. ItemOK(p)'
  BY <1>b, <1>c DEF ItemOK
<1>3. PassedOK(p)'
  <2>1. \A i \in 1..Passed(p) : Accounted(p, d, i)'
    BY <1>b, <1>d, StaysAccounted DEF ThreadOK, PassedOK
  <2>2. \A i \in 1..Passed(p)' : i \in 1..Passed(p) \/ i = n
    BY <1>a
  <2>3. \A i \in 1..Passed(p)' : Accounted(p, d, i)'
    BY <1>c, <2>1, <2>2
  <2> QED
    BY <1>b, <2>3 DEF PassedOK
<1>4. OffsetsOK(p)'
  <2>1. FileChange(p) /\ ~(pc'[p] = "open")
    BY SameFile
  <2> QED
    BY <1>a, <1>d, <2>1, OffsetsStayOK
<1>5. FileIsBehind(p)'
  BY <1>a, <1>d DEF ThreadOK, FileIsBehind
<1>6. SavesOK(p)'
  <2> SUFFICES ASSUME ~torn, NEW i \in (progress[Key(p)] + 1)..Passed(p)', SaveDue(p, i)
      PROVE  (p.guarded /\ <<Key(p), i>> \in skipped') \/ <<Key(p), i>> \in missed'
    BY <1>a, DueIsConstant DEF SavesOK
  <2>1. CASE i \in (progress[Key(p)] + 1)..Passed(p)
    BY <1>d, <2>1 DEF ThreadOK, SavesOK, Keeps
  <2>2. CASE i = n /\ pc'[p] = "loop"
    <3>1. offsets[p][ds[p]] <= progress[Key(p)]
      BY <1>a, <1>d DEF ThreadOK, OffsetsOK
    <3> QED
      BY <1>a, <2>2, <3>1
  <2> QED
    BY <1>a, <2>1, <2>2
<1> QED
  BY <1>1, <1>2, <1>3, <1>4, <1>5, <1>6 DEF ThreadOK

-----------------------------------------------------------------------------
(* The actions of a thread. *)

ThreadFrame(p) == TypeOK' /\ Frame(p) /\ ThreadOK(p)'

\* What a step of a thread that does not ask the server leaves of the types.
LEMMA StepType ==
  ASSUME TypeOK, NEW p \in jobs, jobs' = jobs, FileChange(p), Fault \/ NoFault,
         pc' \in [jobs -> Places], ds' \in [jobs -> Nat],
         \A q \in jobs : ds'[q] \in DOMAIN q.datasets,
         count' \in [jobs -> Nat], offsets' = offsets, misread' = misread,
         UNCHANGED serverVars, missed' \subseteq Keys \X Nat,
         skipped' \subseteq Samples, indexed' \subseteq Samples, runs' = runs
  PROVE  TypeOK'
<1>1. Samples' = Samples /\ Keys' = Keys
  BY DEF Samples, Keys, KeysOf
<1>2. progress' \in [Keys -> Nat] /\ torn' \in BOOLEAN
  BY FileChangeType
<1> QED
  BY <1>1, <1>2, FaultType DEF TypeOK, serverVars, sampleVars

\* A write of the file misses its own save at worst.
LEMMA MissedType ==
  ASSUME TypeOK, NEW p \in jobs, update_progress(Key(p), count[p])
  PROVE  missed \subseteq missed' /\ missed' \subseteq Keys \X Nat
<1>1. <<Key(p), count[p]>> \in Keys \X Nat
  BY AtHand
<1> QED
  BY <1>1 DEF update_progress, Cut, fileVars, TypeOK

LEMMA BeginStep ==
  ASSUME IngestInv, NEW p \in jobs, Begin(p)
  PROVE  ThreadFrame(p)
<1>a. TypeOK /\ \A j \in DOMAIN p.datasets : load_progress(p.datasets[j].key) \in Nat
  BY Datasets DEF IngestInv, load_progress
<1>1. TypeOK'
  <2>1. pc' \in [jobs -> Places]
    BY <1>a, GotoType DEF Begin, Places
  <2>2. DOMAIN offsets' = jobs /\ \A q \in jobs : offsets'[q] \in [DOMAIN q.datasets -> Nat]
    BY <1>a DEF Begin, TypeOK
  <2>3. Samples' = Samples /\ Keys' = Keys
    BY DEF Begin, Samples, Keys, KeysOf
  <2>4. faults' \in 0..MaxFaults /\ misread' \subseteq jobs
    BY <1>a, FaultType DEF Begin, TypeOK
  <2> QED
    BY <1>a, <2>1, <2>2, <2>3, <2>4 DEF Begin, TypeOK, fileVars, serverVars, sampleVars
<1>2. Frame(p)
  BY <1>a, SameFile DEF Begin, Goto, TypeOK, Frame, Keeps, Found, fileVars, serverVars, sampleVars
<1> QED
  BY <1>1, <1>2, Begins DEF ThreadFrame

LEMMA OpenStep ==
  ASSUME IngestInv, NEW p \in jobs, Open(p)
  PROVE  ThreadFrame(p)
<1>a. TypeOK
  BY DEF IngestInv
<1>b. pc' \in [jobs -> Places] /\ count' \in [jobs -> Nat]
  BY <1>a, GotoType DEF Open, Places, TypeOK
<1>1. TypeOK'
  BY <1>a, <1>b, SameFile, StepType DEF Open, TypeOK, NoFault, fileVars
<1>2. Frame(p)
  BY <1>a, SameFile DEF Open, Goto, TypeOK, Frame, Keeps, Found, fileVars, serverVars, sampleVars
<1> QED
  BY <1>1, <1>2, Opens DEF ThreadFrame

\* The step to the next dataset, whatever it did to the file before.
LEMMA NextDatasetStep ==
  ASSUME IngestInv, NEW p \in jobs, pc[p] \in {"open", "loop"}, FileChange(p),
         Fault \/ NoFault, UNCHANGED fileVars \/ offsets[p][ds[p]] <= count[p], NextDataset(p),
         missed \subseteq missed', missed' \subseteq Keys \X Nat
  PROVE  ThreadFrame(p)
<1>a. TypeOK /\ ThreadOK(p)
  BY DEF IngestInv
<1>b. /\ pc' \in [jobs -> Places] /\ ds' \in [jobs -> Nat]
      /\ \A q \in jobs : ds'[q] \in DOMAIN q.datasets
  <2>1. /\ DOMAIN p.datasets = 1..Len(p.datasets) /\ ds[p] \in 1..Len(p.datasets)
        /\ Len(p.datasets) \in Nat
    BY <1>a, Producers
  <2>2. CASE ds[p] < Len(p.datasets) /\ Goto(p, "open") /\ ds' = [ds EXCEPT ![p] = @ + 1]
    <3>1. pc' \in [jobs -> Places]
      BY <1>a, <2>2, GotoType DEF Places
    <3>2. ds[p] + 1 \in DOMAIN p.datasets /\ ds[p] + 1 \in Nat
      BY <2>1, <2>2
    <3>3. ds' \in [jobs -> Nat] /\ \A q \in jobs : ds'[q] \in DOMAIN q.datasets
      BY <1>a, <2>2, <3>2 DEF TypeOK
    <3> QED
      BY <3>1, <3>3
  <2>3. CASE Goto(p, "done") /\ UNCHANGED ds
    BY <1>a, <2>3, GotoType DEF TypeOK, Places, Over
  <2> QED
    BY <2>2, <2>3 DEF NextDataset
<1>c. Keeps
  BY DEF NextDataset, Keeps, Found, serverVars, sampleVars
<1>1. TypeOK'
  BY <1>a, <1>b, StepType DEF NextDataset, TypeOK
<1>2. Frame(p)
  BY <1>a, <1>c DEF NextDataset, Goto, TypeOK, Frame
<1> QED
  BY <1>a, <1>c, <1>1, <1>2, NextDatasetBegins DEF ThreadFrame

LEMMA StreamRaisesStep ==
  ASSUME IngestInv, NEW p \in jobs, StreamRaises(p)
  PROVE  ThreadFrame(p)
<1>a. TypeOK /\ FileChange(p) /\ UNCHANGED fileVars /\ missed' = missed /\ missed \subseteq Keys \X Nat
  BY SameFile DEF IngestInv, StreamRaises, fileVars, TypeOK
<1>1. CASE NextDataset(p)
  BY <1>1, <1>a, NextDatasetStep DEF StreamRaises
<1>2. CASE /\ Goto(p, "failed")
           /\ UNCHANGED <<jobs, ds, count, offsets, misread, serverVars, skipped, indexed, runs>>
  <2>1. pc' \in [jobs -> Places] /\ pc'[p] = "failed"
    BY <1>a, <1>2, GotoType DEF Places, Over
  <2>2. TypeOK'
    BY <1>a, <1>2, <2>1, StepType DEF StreamRaises, TypeOK, fileVars
  <2>3. Frame(p)
    BY <1>a, <1>2 DEF Goto, TypeOK, Frame, Keeps, Found, fileVars, serverVars, sampleVars
  <2>4. ThreadOK(p)'
    BY <2>1, IdleThread DEF Active, InLoop
  <2> QED
    BY <2>2, <2>3, <2>4 DEF ThreadFrame
<1> QED
  BY <1>1, <1>2 DEF StreamRaises

LEMMA TakeItemStep ==
  ASSUME IngestInv, NEW p \in jobs, TakeItem(p)
  PROVE  ThreadFrame(p)
<1>a. TypeOK /\ ThreadOK(p) /\ FileChange(p) /\ pc[p] = "loop" /\ count[p] < Data(p).items
  BY SameFile DEF IngestInv, TakeItem
<1>n. PICK n \in Nat \ {0} : n = count[p] + 1 /\ count'[p] = n
  <2>1. count[p] \in Nat /\ count'[p] = count[p] + 1
    BY <1>a, AtHand DEF TakeItem, TypeOK
  <2> QED
    BY <2>1
<1>b. /\ count' \in [jobs -> Nat] /\ n <= Data(p).items
      /\ offsets[p][ds[p]] \in Nat /\ p.guarded \in BOOLEAN /\ (Data(p).short => p.guarded)
  <2>1. count[p] + 1 \in Nat /\ Data(p).items \in Nat /\ n <= Data(p).items
    BY <1>a, <1>n, AtHand
  <2>2. count' \in [jobs -> Nat]
    BY <1>a, <2>1 DEF TakeItem, TypeOK
  <2> QED
    BY <1>a, <2>1, <2>2, AtHand, Producers
<1>f. n = Passed(p) + 1 /\ <<Key(p), n>> \in Samples
  BY <1>a, <1>n, PassedType, SampleType DEF ThreadOK
<1>c. PICK d \in DOMAIN p.datasets : d = ds[p] /\ Key(p) = p.datasets[d].key
  BY <1>a, AtHand
<1>d. UNCHANGED <<jobs, ds, offsets, misread, fileVars, serverVars, indexed, runs>>
  BY DEF TakeItem
<1>e. /\ Skips(p, n) \/ ~Skips(p, n)
      /\ Skips(p, n) <=> n <= offsets[p][ds[p]]
  BY DEF Skips
<1>1. CASE Skips(p, n) /\ NoFault /\ UNCHANGED <<pc, skipped>>
  <2>1. Keeps
    BY <1>1, <1>d DEF Keeps, Found, fileVars, serverVars, sampleVars
  <2>2. Accounted(p, d, n)'
    <3>1. n \in 1..offsets[p][d]
      BY <1>1, <1>b, <1>c, <1>e
    <3>2. Accounted(p, d, n)
      BY <1>a, <3>1 DEF ThreadOK, OffsetsOK, Active, InLoop
    <3> QED
      BY <2>1, <3>2, StaysAccounted
  <2>3. Accounted(p, ds[p], n)'
    BY <1>c, <1>d, <2>2
  <2>4. ThreadOK(p)'
    BY <1>1, <1>a, <1>n, <1>b, <1>f, <1>d, <1>e, <2>1, <2>3, ItemIsPassed
  <2>5. TypeOK'
    BY <1>1, <1>a, <1>b, <1>d, StepType DEF TypeOK, fileVars
  <2> QED
    BY <1>1, <1>a, <1>d, <2>1, <2>4, <2>5 DEF ThreadFrame, Frame, TakeItem, TypeOK
<1>2. CASE /\ ~Skips(p, n) /\ NoFault
           /\ Goto(p, IF n % Period(p.rag) = 0 THEN "embed" ELSE "post")
           /\ UNCHANGED skipped
  <2>1. Keeps
    BY <1>2, <1>d DEF Keeps, Found, fileVars, serverVars, sampleVars
  <2>2. /\ pc' \in [jobs -> Places] /\ pc'[p] = IF RagDue(p, n) THEN "embed" ELSE "post"
        /\ \A q \in jobs : q # p => pc'[q] = pc[q]
    BY <1>2, <1>a, GotoType DEF Places, RagDue
  <2>3. ThreadOK(p)'
    BY <1>2, <1>a, <1>n, <1>b, <1>d, <1>e, <2>1, <2>2, TakesToCalls
  <2>4. TypeOK'
    BY <1>2, <1>a, <1>b, <1>d, <2>2, StepType DEF TypeOK, fileVars
  <2> QED
    BY <1>2, <1>a, <1>d, <2>1, <2>2, <2>3, <2>4 DEF ThreadFrame, Frame, TakeItem, TypeOK
<1>3. CASE /\ Fault \/ NoFault
           /\ p.guarded /\ UNCHANGED pc
           /\ skipped' = skipped \union {<<Key(p), n>>}
  <2>1. Keeps
    BY <1>3, <1>d DEF Keeps, Found, fileVars, serverVars, sampleVars
  <2>2. Accounted(p, d, n)'
    BY <1>3, <1>c DEF Accounted, Found
  <2>3. Accounted(p, ds[p], n)'
    BY <1>c, <1>d, <2>2
  <2>4. ThreadOK(p)'
    BY <1>3, <1>a, <1>n, <1>b, <1>f, <1>d, <2>1, <2>3, ItemIsPassed
  <2>5. TypeOK'
    BY <1>3, <1>a, <1>b, <1>f, <1>d, StepType DEF TypeOK, fileVars
  <2> QED
    BY <1>3, <1>a, <1>d, <2>1, <2>4, <2>5 DEF ThreadFrame, Frame, TakeItem, TypeOK
<1>4. CASE /\ Fault /\ Goto(p, "failed")
           /\ skipped' = skipped \union {<<Key(p), n>>}
  <2>1. Keeps
    BY <1>4, <1>d DEF Keeps, Found, fileVars, serverVars, sampleVars
  <2>2. /\ pc' \in [jobs -> Places] /\ pc'[p] = "failed"
        /\ \A q \in jobs : q # p => pc'[q] = pc[q]
    BY <1>4, <1>a, GotoType DEF Places, Over
  <2>3. ThreadOK(p)'
    BY <2>2, IdleThread DEF Active, InLoop
  <2>4. TypeOK'
    BY <1>4, <1>a, <1>b, <1>f, <1>d, <2>2, StepType DEF TypeOK, fileVars
  <2> QED
    BY <1>4, <1>a, <1>d, <2>1, <2>2, <2>3, <2>4 DEF ThreadFrame, Frame, TakeItem, TypeOK
<1> QED
  BY <1>1, <1>2, <1>3, <1>4, <1>n, <1>b DEF TakeItem

\* The two calls of an item.
LEMMA ItemRaisesThere ==
  ASSUME TypeOK, NEW p \in jobs, ItemRaises(p)
  PROVE  /\ skipped' = skipped \union {Sample(p)}
         /\ pc' \in [jobs -> Places] /\ \A q \in jobs : q # p => pc'[q] = pc[q]
         /\ pc'[p] = IF p.guarded \/ ~SaveDue(p, count[p]) THEN "loop" ELSE "save"
<1>1. CASE p.guarded /\ Goto(p, "loop")
  BY <1>1, GotoType DEF ItemRaises, Places
<1>2. CASE ~p.guarded /\ Goto(p, IF SaveDue(p, count[p]) THEN "save" ELSE "loop")
  BY <1>2, GotoType DEF ItemRaises, Places
<1> QED
  BY <1>1, <1>2 DEF ItemRaises, AfterItem, Due, SaveDue

LEMMA AfterItemThere ==
  ASSUME TypeOK, NEW p \in jobs, AfterItem(p)
  PROVE  /\ pc' \in [jobs -> Places] /\ \A q \in jobs : q # p => pc'[q] = pc[q]
         /\ pc'[p] = IF SaveDue(p, count[p]) THEN "save" ELSE "loop"
<1>1. Goto(p, IF SaveDue(p, count[p]) THEN "save" ELSE "loop")
  BY DEF AfterItem, Due, SaveDue
<1> QED
  BY <1>1, GotoType DEF Places

LEMMA EmbedStep ==
  ASSUME IngestInv, NEW p \in jobs, Embed(p)
  PROVE  ThreadFrame(p)
<1>a. TypeOK /\ ThreadOK(p) /\ FileChange(p) /\ pc[p] = "embed"
  BY SameFile DEF IngestInv, Embed
<1>b. /\ count[p] \in Nat \ {0} /\ count[p] <= Data(p).items /\ count[p] = Passed(p) + 1
      /\ offsets[p][ds[p]] < count[p] /\ RagDue(p, count[p])
      /\ Sample(p) = <<Key(p), count[p]>> /\ Key(p) = p.datasets[ds[p]].key
      /\ Sample(p) \in Samples /\ ds[p] \in DOMAIN p.datasets
  BY <1>a, AtHand, PassedType, SampleType DEF ThreadOK, CountOK, ItemOK, InLoop, Sample
<1>c. UNCHANGED <<jobs, ds, count, offsets, misread, fileVars, serverVars, runs>>
  BY DEF Embed
<1>1. CASE /\ indexed' = indexed \union {Sample(p)} /\ NoFault
           /\ Goto(p, "post") /\ UNCHANGED skipped
  <2>1. Keeps
    BY <1>1, <1>c DEF Keeps, Found, fileVars, serverVars, sampleVars
  <2>2. /\ pc' \in [jobs -> Places] /\ pc'[p] = "post"
        /\ \A q \in jobs : q # p => pc'[q] = pc[q]
    BY <1>1, <1>a, GotoType DEF Places
  <2>3. TypeOK'
    BY <1>1, <1>a, <1>b, <1>c, <2>2, StepType DEF TypeOK, fileVars
  <2>4. Frame(p)
    BY <1>a, <1>c, <2>1, <2>2 DEF Frame
  <2>5. /\ Data(p)' = Data(p) /\ Key(p)' = Key(p) /\ Sample(p)' = Sample(p) /\ Passed(p)' = Passed(p)
        /\ progress' = progress /\ torn' = torn
    BY <1>a, <1>c, <2>2 DEF Data, Key, Sample, Passed, fileVars
  <2>6. CountOK(p)' /\ ItemOK(p)'
    BY <1>1, <1>a, <1>b, <1>c, <2>2, <2>5 DEF CountOK, ItemOK
  <2>7. PassedOK(p)'
    BY <1>a, <1>c, <2>1, <2>2, <2>5, StaysAccounted DEF ThreadOK, PassedOK, InLoop
  <2>8. OffsetsOK(p)'
    BY <1>a, <1>b, <1>c, <2>1, <2>2, OffsetsStayOK, Producers DEF Active, InLoop
  <2>9. FileIsBehind(p)' /\ SavesOK(p)'
    BY <1>a, <1>c, <2>1, <2>5, DueIsConstant DEF ThreadOK, FileIsBehind, SavesOK, InLoop, Keeps
  <2> QED
    BY <2>3, <2>4, <2>6, <2>7, <2>8, <2>9 DEF ThreadFrame, ThreadOK
<1>2. CASE ItemRaises(p) /\ Fault /\ UNCHANGED indexed
  <2>1. /\ skipped' = skipped \union {Sample(p)}
        /\ pc' \in [jobs -> Places] /\ \A q \in jobs : q # p => pc'[q] = pc[q]
        /\ pc'[p] = IF p.guarded \/ ~SaveDue(p, count[p]) THEN "loop" ELSE "save"
    BY <1>2, <1>a, ItemRaisesThere
  <2>2. Keeps
    BY <1>2, <1>c, <2>1 DEF Keeps, Found, fileVars, serverVars, sampleVars
  <2>3. TypeOK'
    BY <1>2, <1>a, <1>b, <1>c, <2>1, StepType DEF TypeOK, fileVars
  <2>4. Frame(p)
    BY <1>a, <1>c, <2>1, <2>2 DEF Frame
  <2>5. Accounted(p, ds[p], count[p])'
    BY <1>b, <1>c, <2>1 DEF Accounted, Found
  <2>6. ThreadOK(p)'
    BY <1>a, <1>b, <1>c, <2>1, <2>2, <2>5, ItemIsPassed
  <2> QED
    BY <2>3, <2>4, <2>6 DEF ThreadFrame
<1> QED
  BY <1>1, <1>2 DEF Embed

\* What the server does with a sample.
LEMMA StoredThere ==
  ASSUME TypeOK, NEW sample \in Samples, Stored(sample)
  PROVE  /\ index' \in 0..SamplesPerFile /\ held' \subseteq Samples /\ filed' \subseteq Samples
         /\ filed \union held \union {sample} \subseteq filed' \union held'
BY Numbers DEF TypeOK, Stored

LEMMA NotWrittenThere ==
  ASSUME TypeOK, NEW sample \in Samples, NotWritten(sample)
  PROVE  /\ index' \in 0..SamplesPerFile /\ held' \subseteq Samples /\ filed' \subseteq Samples
         /\ filed \union held \union {sample} \subseteq filed' \union held'
BY Numbers DEF TypeOK, NotWritten

LEMMA PostStep ==
  ASSUME IngestInv, NEW p \in jobs, Post(p)
  PROVE  ThreadFrame(p)
<1>a. TypeOK /\ ThreadOK(p) /\ FileChange(p) /\ pc[p] = "post"
  BY SameFile DEF IngestInv, Post
<1>b. /\ count[p] \in Nat \ {0} /\ count[p] <= Data(p).items /\ count[p] = Passed(p) + 1
      /\ offsets[p][ds[p]] < count[p]
      /\ RagDue(p, count[p]) => Sample(p) \in indexed \union skipped
      /\ Sample(p) = <<Key(p), count[p]>> /\ Key(p) = p.datasets[ds[p]].key
      /\ Sample(p) \in Samples /\ ds[p] \in DOMAIN p.datasets
  BY <1>a, AtHand, PassedType, SampleType DEF ThreadOK, CountOK, ItemOK, InLoop, Sample
<1>c. UNCHANGED <<jobs, ds, count, offsets, misread, fileVars, up, dropped, stops, indexed, runs>>
  BY DEF Post
<1>1. /\ index' \in 0..SamplesPerFile /\ held' \subseteq Samples /\ filed' \subseteq Samples
      /\ filed \union held \subseteq filed' \union held'
      /\ Sample(p) \in filed' \union held' \/ Sample(p) \in skipped'
  BY <1>a, <1>b, ItemRaisesThere, StoredThere, NotWrittenThere DEF Post, sampleVars, TypeOK
<1>2. /\ skipped' \in {skipped, skipped \union {Sample(p)}} /\ (Fault \/ NoFault)
      /\ pc' \in [jobs -> Places] /\ \A q \in jobs : q # p => pc'[q] = pc[q]
      /\ \/ pc'[p] = "save"
         \/ pc'[p] = "loop" /\ ~SaveDue(p, count[p])
         \/ pc'[p] = "loop" /\ p.guarded /\ Sample(p) \in skipped'
  BY <1>a, ItemRaisesThere, AfterItemThere DEF Post
<1>3. Keeps
  BY <1>c, <1>1, <1>2 DEF Keeps, Found, fileVars
<1>4. TypeOK'
  <2>1. Samples' = Samples /\ Keys' = Keys
    BY <1>c DEF Samples, Keys, KeysOf
  <2> QED
    BY <1>a, <1>b, <1>c, <1>1, <1>2, <2>1, FaultType DEF TypeOK, fileVars
<1>5. Frame(p)
  BY <1>a, <1>c, <1>2, <1>3 DEF Frame
<1>6. Accounted(p, ds[p], count[p])'
  BY <1>b, <1>c, <1>1, <1>2, DueIsConstant DEF Accounted, Found
<1>7. ThreadOK(p)'
  BY <1>a, <1>b, <1>c, <1>2, <1>3, <1>6, ItemIsPassed
<1> QED
  BY <1>4, <1>5, <1>7 DEF ThreadFrame

\* The write of the file, as a change of one key.
LEMMA UpdateThere ==
  ASSUME TypeOK, NEW p \in jobs, update_progress(Key(p), count[p]), pc[p] \in {"save", "loop"}
  PROVE  FileChange(p) /\ (Fault \/ NoFault)
BY DEF update_progress, Cut, FileChange, Writes, fileVars

LEMMA SaveStep ==
  ASSUME IngestInv, NEW p \in jobs, Save(p)
  PROVE  ThreadFrame(p)
<1>a. TypeOK /\ ThreadOK(p) /\ pc[p] = "save" /\ FileChange(p) /\ (Fault \/ NoFault)
  BY UpdateThere DEF IngestInv, Save
<1>b. /\ count[p] \in Nat \ {0} /\ count[p] <= Data(p).items /\ count[p] = Passed(p) + 1
      /\ offsets[p][ds[p]] < count[p] /\ offsets[p][ds[p]] \in Nat /\ Passed(p) \in Nat
      /\ Key(p) = p.datasets[ds[p]].key /\ ds[p] \in Nat /\ Key(p) \in Keys
      /\ progress[Key(p)] \in Nat
  BY <1>a, AtHand, Producers, PassedType DEF ThreadOK, CountOK, InLoop
<1>c. UNCHANGED <<jobs, ds, count, offsets, misread, serverVars, skipped, indexed, runs>>
  BY DEF Save
<1>d. /\ pc' \in [jobs -> Places] /\ pc'[p] = "loop"
      /\ \A q \in jobs : q # p => pc'[q] = pc[q]
  BY <1>a, GotoType DEF Save, Places
<1>e. PICK d \in DOMAIN p.datasets : d = ds[p]
  BY <1>a, AtHand
<1>m. missed \subseteq missed' /\ missed' \subseteq Keys \X Nat
  BY <1>a, MissedType DEF Save
<1>1. Keeps
  BY <1>c, <1>m DEF Keeps, Found, serverVars, sampleVars
<1>2. TypeOK'
  BY <1>a, <1>c, <1>d, <1>m, StepType DEF TypeOK
<1>3. Frame(p)
  BY <1>a, <1>c, <1>d, <1>1 DEF Frame
<1>4. /\ Data(p)' = Data(p) /\ Key(p)' = Key(p) /\ Passed(p)' = count[p] /\ count'[p] = count[p]
      /\ ds'[p] = ds[p] /\ offsets'[p] = offsets[p] /\ Sample(p)' = Sample(p)
      /\ misread' = misread
  BY <1>c, <1>d DEF Data, Key, Passed, Sample
<1>5. CountOK(p)' /\ ItemOK(p)'
  BY <1>b, <1>d, <1>4 DEF CountOK, ItemOK
<1>6. PassedOK(p)'
  <2>1. \A i \in 1..Passed(p) : Accounted(p, d, i)
    BY <1>a, <1>e DEF ThreadOK, PassedOK, InLoop
  <2>2. Accounted(p, d, count[p])
    BY <1>a, <1>e DEF ThreadOK, ItemOK
  <2>3. \A i \in 1..count[p] : i \in 1..Passed(p) \/ i = count[p]
    BY <1>b
  <2>4. \A i \in 1..count[p] : Accounted(p, d, i)'
    BY <1>1, <2>1, <2>2, <2>3, StaysAccounted
  <2> QED
    BY <1>e, <1>4, <2>4 DEF PassedOK
<1>7. OffsetsOK(p)'
  BY <1>a, <1>b, <1>d, <1>1, <1>4, OffsetsStayOK DEF Active, InLoop
<1>8. FileIsBehind(p)' /\ SavesOK(p)'
  <2>1. CASE torn /\ UNCHANGED fileVars
    BY <1>a, <1>b, <1>4, <2>1 DEF ThreadOK, FileIsBehind, SavesOK, InLoop, fileVars
  <2>2. CASE progress' = [progress EXCEPT ![Key(p)] = count[p]]
    <3>1. progress'[Key(p)] = count[p] /\ (count[p] + 1)..count[p] = {}
      BY <1>a, <1>b, <2>2 DEF TypeOK
    <3> QED
      BY <1>b, <1>4, <3>1 DEF FileIsBehind, SavesOK
  <2>3. CASE torn' = TRUE /\ progress' = [k \in Keys |-> 0]
    BY <1>b, <1>4, <2>3 DEF FileIsBehind, SavesOK
  <2>4. CASE UNCHANGED <<progress, torn>> /\ missed' = missed \union {<<Key(p), count[p]>>}
    <3>1. FileIsBehind(p)'
      BY <1>a, <1>b, <1>4, <2>4 DEF ThreadOK, FileIsBehind, InLoop
    <3>2. \A i \in (progress[Key(p)] + 1)..count[p] :
            i \in (progress[Key(p)] + 1)..Passed(p) \/ i = count[p]
      BY <1>b
    <3>3. SavesOK(p)'
      BY <1>a, <1>c, <1>4, <2>4, <3>2, DueIsConstant DEF ThreadOK, SavesOK, InLoop
    <3> QED
      BY <3>1, <3>3
  <2> QED
    BY <2>1, <2>2, <2>3, <2>4 DEF Save, update_progress, Cut
<1> QED
  BY <1>2, <1>3, <1>5, <1>6, <1>7, <1>8 DEF ThreadFrame, ThreadOK

LEMMA FinishStep ==
  ASSUME IngestInv, NEW p \in jobs, Finish(p)
  PROVE  ThreadFrame(p)
<1>a. TypeOK /\ ThreadOK(p) /\ pc[p] = "loop" /\ FileChange(p) /\ (Fault \/ NoFault)
  BY UpdateThere DEF IngestInv, Finish
<1>m. missed \subseteq missed' /\ missed' \subseteq Keys \X Nat
  BY <1>a, MissedType DEF Finish
<1>1. offsets[p][ds[p]] <= count[p]
  BY <1>a, AtHand DEF Finish, ThreadOK, OffsetsOK, Active, InLoop
<1> QED
  BY <1>a, <1>m, <1>1, NextDatasetStep DEF Finish

-----------------------------------------------------------------------------
(* The steps that are not a thread's. *)

LEMMA FileSame ==
  ASSUME FileOK, jobs' = jobs, UNCHANGED fileVars, Keeps
  PROVE  FileOK'
<1>a. Keys' = Keys
  BY DEF Keys, KeysOf
<1> QED
  BY <1>a, StaysAccounted DEF FileOK, fileVars

LEMMA CrashStep ==
  ASSUME IngestInv, Crash
  PROVE  TypeOK' /\ (\A p \in jobs : ThreadOK(p))' /\ FileOK'
<1>a. TypeOK /\ FileOK /\ Keeps /\ jobs' = jobs
  BY DEF IngestInv, Crash, Cut, Keeps, Found, fileVars, serverVars, sampleVars
<1>1. PICK p \in jobs : TRUE
  BY DEF Crash, Running
<1>2. FileChange(p)
  BY DEF Crash, Cut, FileChange, fileVars
<1>3. pc' \in [jobs -> Places] /\ \A q \in jobs : pc'[q] \in Over
  BY <1>a DEF Crash, TypeOK, Places, Over
<1>4. TypeOK'
  BY <1>a, <1>2, <1>3, StepType DEF Crash, Cut, TypeOK, fileVars
<1>5. \A q \in jobs : ThreadOK(q)'
  BY <1>3, IdleThread DEF Active, InLoop, Over
<1>6. FileOK'
  BY <1>a, <1>2, FileStaysOK DEF IngestInv
<1> QED
  BY <1>a, <1>4, <1>5, <1>6

LEMMA RestartStep ==
  ASSUME IngestInv, Restart
  PROVE  TypeOK' /\ (\A p \in jobs : ThreadOK(p))' /\ FileOK'
<1>a. TypeOK /\ FileOK /\ Keeps /\ jobs' = jobs
  BY DEF IngestInv, Restart, Keeps, Found, fileVars, serverVars, sampleVars
<1>1. pc' \in [jobs -> Places] /\ \A q \in jobs : pc'[q] = "queued"
  BY DEF Restart, Places
<1>2. TypeOK'
  <2>1. ds' \in [jobs -> Nat] /\ \A q \in jobs : ds'[q] \in DOMAIN q.datasets
    <3>1. \A q \in jobs : 1 \in DOMAIN q.datasets
      BY <1>a, Producers
    <3> QED
      BY <3>1 DEF Restart
  <2>2. count' \in [jobs -> Nat] /\ runs' \in 1..MaxRuns
    BY <1>a, Numbers DEF Restart, TypeOK
  <2>3. Samples' = Samples /\ Keys' = Keys
    BY <1>a DEF Samples, Keys, KeysOf
  <2> QED
    BY <1>a, <1>1, <2>1, <2>2, <2>3 DEF Restart, TypeOK, fileVars, serverVars, sampleVars
<1>3. \A q \in jobs : ThreadOK(q)'
  BY <1>1, IdleThread DEF Active, InLoop
<1>4. FileOK'
  BY <1>a, FileSame DEF Restart
<1> QED
  BY <1>a, <1>2, <1>3, <1>4

LEMMA ServerStep ==
  ASSUME IngestInv, ServerStops \/ ServerStarts
  PROVE  TypeOK' /\ (\A p \in jobs : ThreadOK(p))' /\ FileOK'
<1>a. /\ TypeOK /\ FileOK /\ jobs' = jobs /\ UNCHANGED <<threadVars, fileVars>>
      /\ UNCHANGED <<skipped, indexed, filed, runs>>
  BY DEF IngestInv, ServerStops, ServerStarts, sampleVars
<1>b. filed \union held \union dropped \subseteq filed' \union held' \union dropped'
  BY DEF ServerStops, ServerStarts, sampleVars
<1>1. Keeps
  BY <1>a, <1>b DEF Keeps, Found, fileVars
<1>2. TypeOK'
  <2>1. Samples' = Samples /\ Keys' = Keys
    BY <1>a DEF Samples, Keys, KeysOf
  <2>2. /\ faults' \in 0..MaxFaults /\ stops' \in 0..MaxFaults /\ up' \in BOOLEAN
        /\ index' \in 0..SamplesPerFile /\ held' \subseteq Samples /\ dropped' \subseteq Samples
    <3>1. CASE ServerStops
      <4>1. stops \in Nat /\ faults \in Nat /\ MaxFaults \in Nat /\ stops <= faults
        BY <1>a, Numbers DEF IngestInv, DroppedOK, TypeOK
      <4>2. faults < MaxFaults /\ faults' = faults + 1 /\ stops' = stops + 1
        BY <3>1 DEF ServerStops, Fault
      <4>3. faults' \in 0..MaxFaults /\ stops' \in 0..MaxFaults
        BY <4>1, <4>2
      <4>4. index' = 0 /\ held' = {} /\ dropped' = dropped \union held /\ up' = FALSE
        BY <3>1 DEF ServerStops
      <4>5. held \subseteq Samples /\ dropped \subseteq Samples /\ 0 \in 0..SamplesPerFile
        BY <1>a, Numbers DEF TypeOK
      <4> QED
        BY <4>3, <4>4, <4>5
    <3>2. CASE ServerStarts
      BY <1>a, <3>2 DEF ServerStarts, sampleVars, TypeOK
    <3> QED
      BY <3>1, <3>2
  <2> QED
    BY <1>a, <2>1, <2>2 DEF TypeOK, threadVars, fileVars
<1>3. ASSUME NEW q \in jobs PROVE ThreadOK(q)'
  BY <1>a, <1>1, OtherThread DEF IngestInv, threadVars, fileVars
<1>4. FileOK'
  BY <1>a, <1>1, FileSame
<1> QED
  BY <1>a, <1>2, <1>3, <1>4

-----------------------------------------------------------------------------
(* What the server can lose. *)

LEMMA FewerAreLost ==
  ASSUME NEW S, IsFiniteSet(S), NEW T, T \subseteq S
  PROVE  IsFiniteSet(T) /\ Cardinality(T) \in Nat /\ Cardinality(S) \in Nat
         /\ Cardinality(T) <= Cardinality(S)
BY FS_Subset, FS_CardinalityType

LEMMA UnionBound ==
  ASSUME NEW S, IsFiniteSet(S), NEW T, IsFiniteSet(T)
  PROVE  /\ IsFiniteSet(S \union T) /\ Cardinality(S \union T) \in Nat
         /\ Cardinality(S) \in Nat /\ Cardinality(T) \in Nat
         /\ Cardinality(S \union T) <= Cardinality(S) + Cardinality(T)
<1>1. IsFiniteSet(S \cap T)
  BY FS_Subset
<1>2. /\ IsFiniteSet(S \union T)
      /\ Cardinality(S \union T) = Cardinality(S) + Cardinality(T) - Cardinality(S \cap T)
  BY FS_Union
<1>3. /\ Cardinality(S) \in Nat /\ Cardinality(T) \in Nat /\ Cardinality(S \cap T) \in Nat
      /\ Cardinality(S \union T) \in Nat
  BY <1>1, <1>2, FS_CardinalityType
<1> QED
  BY <1>2, <1>3

LEMMA LossTypes ==
  ASSUME TypeOK, HeldOK, DroppedOK
  PROVE  /\ IsFiniteSet(held \ skipped) /\ Cardinality(held \ skipped) \in Nat
         /\ IsFiniteSet(dropped \ skipped) /\ Cardinality(dropped \ skipped) \in Nat
         /\ index \in Nat /\ stops \in Nat /\ SamplesPerFile - 1 \in Nat
<1>1. SamplesPerFile \in Nat \ {0}
  BY Numbers
<1> QED
  BY <1>1, FewerAreLost DEF HeldOK, DroppedOK, TypeOK

LEMMA HeldStays ==
  ASSUME TypeOK, HeldOK, DroppedOK, UNCHANGED <<index, held>>, skipped \subseteq skipped'
  PROVE  HeldOK'
<1>1. Cardinality(held \ skipped') \in Nat
      /\ Cardinality(held \ skipped') <= Cardinality(held \ skipped)
  BY LossTypes, FewerAreLost
<1> QED
  BY <1>1, LossTypes DEF HeldOK

LEMMA DroppedStays ==
  ASSUME TypeOK, HeldOK, DroppedOK, Fault \/ NoFault,
         UNCHANGED <<dropped, stops>>, skipped \subseteq skipped'
  PROVE  DroppedOK'
<1>1. Cardinality(dropped \ skipped') \in Nat
      /\ Cardinality(dropped \ skipped') <= Cardinality(dropped \ skipped)
  BY LossTypes, FewerAreLost
<1>2. (SamplesPerFile - 1) * stops \in Nat
  BY LossTypes
<1>3. stops <= faults'
  BY LossTypes, FaultType DEF DroppedOK
<1> QED
  BY <1>1, <1>2, <1>3, LossTypes DEF DroppedOK

LEMMA StoredHeld ==
  ASSUME TypeOK, HeldOK, DroppedOK, NEW sample, Stored(sample), skipped \subseteq skipped'
  PROVE  HeldOK'
<1>a. SamplesPerFile \in Nat \ {0} /\ index \in Nat
  BY Numbers, LossTypes
<1>1. CASE /\ index + 1 < SamplesPerFile /\ index' = index + 1
           /\ held' = held \union {sample}
  <2>1. IsFiniteSet(held')
    BY <1>1, FS_AddElement DEF HeldOK
  <2>2. held' \ skipped' \subseteq (held \ skipped) \union {sample}
    BY <1>1
  <2>3. IsFiniteSet((held \ skipped) \union {sample})
        /\ Cardinality((held \ skipped) \union {sample}) <= Cardinality(held \ skipped) + 1
    <3>1. IsFiniteSet(held \ skipped)
      BY LossTypes
    <3>2. IsFiniteSet({sample}) /\ Cardinality({sample}) = 1
      BY FS_Singleton
    <3> QED
      BY <3>1, <3>2, UnionBound
  <2>4. Cardinality(held' \ skipped') \in Nat
        /\ Cardinality(held' \ skipped') <= Cardinality((held \ skipped) \union {sample})
        /\ Cardinality((held \ skipped) \union {sample}) \in Nat
    BY <2>2, <2>3, FewerAreLost
  <2>5. Cardinality(held' \ skipped') <= index + 1
    BY <1>a, <2>3, <2>4, LossTypes DEF HeldOK
  <2> QED
    BY <1>1, <1>a, <2>1, <2>4, <2>5 DEF HeldOK
<1>2. CASE index' = 0 /\ held' = {}
  <2>1. held' \ skipped' = {}
    BY <1>2
  <2> QED
    BY <1>2, <1>a, <2>1, FS_EmptySet DEF HeldOK
<1> QED
  BY <1>1, <1>2 DEF Stored

LEMMA NotWrittenHeld ==
  ASSUME TypeOK, HeldOK, DroppedOK, NEW sample, NotWritten(sample),
         skipped' = skipped \union {sample}
  PROVE  HeldOK'
<1>a. SamplesPerFile \in Nat \ {0} /\ index' = SamplesPerFile
      /\ held' = held \union {sample}
  BY Numbers DEF NotWritten
<1>1. IsFiniteSet(held')
  BY <1>a, FS_AddElement DEF HeldOK
<1>2. held' \ skipped' \subseteq held \ skipped
  BY <1>a
<1>3. Cardinality(held' \ skipped') \in Nat
      /\ Cardinality(held' \ skipped') <= Cardinality(held \ skipped)
  BY <1>2, LossTypes, FewerAreLost
<1> QED
  BY <1>a, <1>1, <1>3, LossTypes DEF HeldOK

\* A stop of the server loses what it held.
LEMMA ServerStopsLosses ==
  ASSUME IngestInv, ServerStops
  PROVE  HeldOK' /\ DroppedOK'
<1>a. TypeOK /\ HeldOK /\ DroppedOK /\ SamplesPerFile \in Nat \ {0} /\ faults \in Nat
  BY Numbers DEF IngestInv, TypeOK
<1>b. skipped' = skipped /\ dropped' = dropped \union held /\ held' = {} /\ index' = 0
      /\ stops' = stops + 1 /\ faults' = faults + 1
  BY DEF ServerStops, Fault
<1>1. HeldOK'
  <2>1. held' \ skipped' = {}
    BY <1>b
  <2> QED
    BY <1>a, <1>b, <2>1, FS_EmptySet DEF HeldOK
<1>2. IsFiniteSet(dropped')
  BY <1>a, <1>b, FS_Union DEF HeldOK, DroppedOK
<1>3. dropped' \ skipped' = (dropped \ skipped) \union (held \ skipped)
  BY <1>b
<1>4. Cardinality(dropped' \ skipped')
        <= Cardinality(dropped \ skipped) + Cardinality(held \ skipped)
      /\ Cardinality(dropped' \ skipped') \in Nat
  BY <1>a, <1>3, LossTypes, UnionBound
<1>5. (SamplesPerFile - 1) * (stops + 1) = (SamplesPerFile - 1) * stops + (SamplesPerFile - 1)
      /\ (SamplesPerFile - 1) * stops \in Nat
  BY <1>a, LossTypes
<1>6. Cardinality(dropped' \ skipped') <= (SamplesPerFile - 1) * stops'
  BY <1>a, <1>b, <1>4, <1>5, LossTypes DEF HeldOK, DroppedOK
<1>7. stops' <= faults'
  BY <1>a, <1>b, LossTypes DEF DroppedOK
<1> QED
  BY <1>1, <1>2, <1>6, <1>7 DEF DroppedOK

-----------------------------------------------------------------------------
(* The invariant. *)

LEMMA InitIngest == Init => IngestInv
<1> SUFFICES ASSUME Init PROVE IngestInv
  OBVIOUS
<1>1. TypeOK
  <2>1. \A p \in jobs : 1 \in DOMAIN p.datasets
    BY ProducersAssumption DEF Init
  <2>2. /\ MaxRuns \in Nat \ {0} /\ MaxFaults \in Nat /\ SamplesPerFile \in Nat \ {0}
    BY Numbers
  <2>3. jobs \in Submitted /\ pc \in [jobs -> Places] /\ count \in [jobs -> Nat]
    BY DEF Init, Places
  <2>4. ds \in [jobs -> Nat] /\ \A p \in jobs : ds[p] \in DOMAIN p.datasets
    BY <2>1 DEF Init
  <2>5. DOMAIN offsets = jobs /\ \A p \in jobs : offsets[p] \in [DOMAIN p.datasets -> Nat]
    BY DEF Init
  <2>6. progress \in [Keys -> Nat] /\ torn \in BOOLEAN /\ up \in BOOLEAN
    BY DEF Init
  <2>7. /\ index \in 0..SamplesPerFile /\ held \subseteq Samples /\ filed \subseteq Samples
        /\ dropped \subseteq Samples /\ skipped \subseteq Samples /\ indexed \subseteq Samples
        /\ runs \in 1..MaxRuns /\ stops \in 0..MaxFaults /\ faults \in 0..MaxFaults
    BY <2>2 DEF Init
  <2>8. misread \subseteq jobs /\ missed \subseteq Keys \X Nat
    BY DEF Init
  <2> QED
    BY <2>3, <2>4, <2>5, <2>6, <2>7, <2>8 DEF TypeOK
<1>2. \A p \in jobs : ThreadOK(p)
  BY DEF Init, ThreadOK, CountOK, ItemOK, PassedOK, OffsetsOK, FileIsBehind, SavesOK, Active, InLoop
<1>3. FileOK
  <2>1. \A p \in jobs : \A j \in DOMAIN p.datasets :
          progress[p.datasets[j].key] = 0 /\ p.datasets[j].items \in Nat
    BY <1>1, Datasets DEF Init
  <2> QED
    BY <2>1 DEF Init, FileOK
<1>4. HeldOK /\ DroppedOK
  <2>1. held \ skipped = {} /\ dropped \ skipped = {} /\ SamplesPerFile \in Nat \ {0}
    BY Numbers DEF Init
  <2> QED
    BY <2>1, FS_EmptySet DEF Init, HeldOK, DroppedOK
<1> QED
  BY <1>1, <1>2, <1>3, <1>4 DEF IngestInv

\* A step of a thread keeps the bounds on what the server can lose.
LEMMA ThreadLosses ==
  ASSUME IngestInv, NEW p \in jobs, Step(p), Keeps
  PROVE  HeldOK' /\ DroppedOK'
<1>a. TypeOK /\ HeldOK /\ DroppedOK /\ skipped \subseteq skipped'
  BY DEF IngestInv, Keeps
<1>1. UNCHANGED <<dropped, stops>> /\ (Fault \/ NoFault)
  BY DEF Step, Begin, Open, StreamRaises, NextDataset, TakeItem, Embed, Post, Save, Finish,
         update_progress, serverVars, NoFault
<1>2. \/ UNCHANGED sampleVars
      \/ Stored(Sample(p))
      \/ NotWritten(Sample(p)) /\ skipped' = skipped \union {Sample(p)}
  BY DEF Step, Begin, Open, StreamRaises, NextDataset, TakeItem, Embed, Post, Save, Finish,
         serverVars
<1>3. HeldOK'
  BY <1>a, <1>2, HeldStays, StoredHeld, NotWrittenHeld DEF sampleVars
<1> QED
  BY <1>a, <1>1, <1>3, DroppedStays

LEMMA ThreadStep ==
  ASSUME IngestInv, NEW p \in jobs, Step(p)
  PROVE  IngestInv' /\ Frame(p)
<1>1. ThreadFrame(p)
  BY BeginStep, OpenStep, StreamRaisesStep, TakeItemStep, EmbedStep, PostStep, SaveStep,
     FinishStep DEF Step
<1>2. (\A q \in jobs : ThreadOK(q))' /\ FileOK'
  BY <1>1, FrameSuffices DEF ThreadFrame
<1>3. HeldOK' /\ DroppedOK'
  BY <1>1, ThreadLosses DEF ThreadFrame, Frame
<1> QED
  BY <1>1, <1>2, <1>3 DEF ThreadFrame, IngestInv

\* No other step touches what the server holds, but for its own stop.
LEMMA OtherLosses ==
  ASSUME IngestInv, Crash \/ Restart \/ ServerStarts
  PROVE  HeldOK' /\ DroppedOK'
<1>a. TypeOK /\ HeldOK /\ DroppedOK
  BY DEF IngestInv
<1>1. UNCHANGED <<index, held, dropped, stops, skipped>> /\ (Fault \/ NoFault)
  BY DEF Crash, Restart, ServerStarts, serverVars, sampleVars, NoFault
<1> QED
  BY <1>a, <1>1, HeldStays, DroppedStays

LEMMA NextIngest == IngestInv /\ [Next]_vars => IngestInv'
<1> SUFFICES ASSUME IngestInv, [Next]_vars PROVE IngestInv'
  OBVIOUS
<1>1. CASE Threads
  BY <1>1, ThreadStep DEF Threads
<1>2. CASE Crash
  BY <1>2, CrashStep, OtherLosses DEF IngestInv
<1>3. CASE Restart
  BY <1>3, RestartStep, OtherLosses DEF IngestInv
<1>4. CASE ServerStops
  BY <1>4, ServerStep, ServerStopsLosses DEF IngestInv
<1>5. CASE ServerStarts
  BY <1>5, ServerStep, OtherLosses DEF IngestInv
<1>6. CASE UNCHANGED vars
  <2>1. Keeps /\ UNCHANGED threadVars /\ UNCHANGED fileVars /\ jobs' = jobs
    BY <1>6 DEF vars, Keeps, Found, fileVars, serverVars, sampleVars
  <2>2. TypeOK'
    <3>1. Samples' = Samples /\ Keys' = Keys
      BY <2>1 DEF Samples, Keys, KeysOf
    <3> QED
      BY <1>6, <3>1
         DEF vars, threadVars, fileVars, serverVars, sampleVars, IngestInv, TypeOK
  <2>3. (\A p \in jobs : ThreadOK(p))'
    BY <2>1, OtherThread DEF IngestInv, threadVars, fileVars
  <2>4. FileOK'
    BY <2>1, FileSame DEF IngestInv
  <2>5. HeldOK' /\ DroppedOK'
    BY <1>6, HeldStays, DroppedStays DEF IngestInv, vars, serverVars, sampleVars, NoFault
  <2> QED
    BY <2>2, <2>3, <2>4, <2>5 DEF IngestInv
<1> QED
  BY <1>1, <1>2, <1>3, <1>4, <1>5, <1>6 DEF Next

\* What every reachable state satisfies: the types, what each thread has done and knows,
\* what the progress file may say, and what the server can still lose.
THEOREM IngestInvariant == Spec => []IngestInv
BY InitIngest, NextIngest, PTL DEF Spec

-----------------------------------------------------------------------------
(* The properties. *)

\* Every item that the file counts as passed is with the server, was lost in a stop, or
\* was passed over, and is indexed if its number is one to embed.
THEOREM PassedAccounted == Spec => []PassedItemsAreAccountedFor
<1>1. IngestInv => PassedItemsAreAccountedFor
  BY DEF IngestInv, FileOK, Accounted, RagDue, PassedItemsAreAccountedFor
<1> QED
  BY <1>1, IngestInvariant, PTL

\* No thread that could read the file embeds or sends what it counts as passed.
THEOREM PassedNotSent == Spec => []NothingPassedIsSentAgain
<1>1. IngestInv => NothingPassedIsSentAgain
  <2> SUFFICES ASSUME IngestInv, NEW p \in jobs, pc[p] \in {"embed", "post"},
                      p \notin misread
      PROVE  count[p] > progress[Key(p)]
    BY DEF NothingPassedIsSentAgain
  <2>1. TypeOK /\ ThreadOK(p)
    BY DEF IngestInv
  <2>2. /\ count[p] \in Nat /\ progress[Key(p)] \in Nat /\ offsets[p][ds[p]] \in Nat
        /\ Passed(p) = count[p] - 1
    BY <2>1, AtHand DEF Passed
  <2>3. /\ offsets[p][ds[p]] < count[p]
        /\ progress[Key(p)] <= offsets[p][ds[p]] \/ progress[Key(p)] <= Passed(p)
    BY <2>1 DEF ThreadOK, CountOK, FileIsBehind, InLoop
  <2> QED
    BY <2>2, <2>3
<1> QED
  BY <1>1, IngestInvariant, PTL

\* A due save that is missing from a readable file failed, or belongs to an item that was
\* passed over.
THEOREM DueSaves == Spec => []ADueSaveIsMissingForAReason
<1>1. IngestInv => ADueSaveIsMissingForAReason
  BY DEF IngestInv, ThreadOK, SavesOK, SaveDue, InLoop, ADueSaveIsMissingForAReason
<1> QED
  BY <1>1, IngestInvariant, PTL

\* What was answered and is in no file is in the server's memory or was lost in a stop:
\* fewer than one file of samples for each life of the server.
THEOREM LossBounded == Spec => []SilentLossIsBounded
<1>1. IngestInv => SilentLossIsBounded
  <2> SUFFICES ASSUME IngestInv PROVE SilentLossIsBounded
    OBVIOUS
  <2> DEFINE All == UNION {{key} \X (1..progress[key]) : key \in Keys}
             Lost == All \ (filed \union skipped)
  <2>a. TypeOK /\ FileOK /\ HeldOK /\ DroppedOK
    BY DEF IngestInv
  <2>1. Lost \subseteq (held \ skipped) \union (dropped \ skipped)
    <3> SUFFICES ASSUME NEW x \in Lost PROVE x \in (held \ skipped) \union (dropped \ skipped)
      OBVIOUS
    <3>1. PICK key \in Keys : x \in {key} \X (1..progress[key])
      OBVIOUS
    <3>2. PICK i \in 1..progress[key] : x = <<key, i>>
      BY <3>1
    <3>3. PICK p \in jobs : key \in KeysOf(p)
      BY DEF Keys
    <3>4. PICK j \in DOMAIN p.datasets : key = p.datasets[j].key
      BY <3>3 DEF KeysOf
    <3>5. Accounted(p, j, i)
      BY <2>a, <3>4 DEF FileOK
    <3>6. x \in Found
      BY <3>2, <3>4, <3>5 DEF Accounted
    <3>7. x \notin filed /\ x \notin skipped
      <4> HIDE DEF All
      <4> QED
        OBVIOUS
    <3> QED
      BY <3>6, <3>7 DEF Found
  <2>2. Cardinality(Lost) \in Nat
        /\ Cardinality(Lost) <= Cardinality(held \ skipped) + Cardinality(dropped \ skipped)
    <3> HIDE DEF Lost
    <3>1. /\ IsFiniteSet((held \ skipped) \union (dropped \ skipped))
          /\ Cardinality((held \ skipped) \union (dropped \ skipped)) \in Nat
          /\ Cardinality((held \ skipped) \union (dropped \ skipped))
               <= Cardinality(held \ skipped) + Cardinality(dropped \ skipped)
      BY <2>a, LossTypes, UnionBound
    <3>2. Cardinality(Lost) \in Nat
          /\ Cardinality(Lost) <= Cardinality((held \ skipped) \union (dropped \ skipped))
      BY <2>1, <3>1, FewerAreLost
    <3> QED
      BY <2>a, <3>1, <3>2, LossTypes
  <2>3. (SamplesPerFile - 1) * (stops + 1) = (SamplesPerFile - 1) * stops + (SamplesPerFile - 1)
        /\ (SamplesPerFile - 1) * stops \in Nat
    BY <2>a, LossTypes
  <2>4. Cardinality(Lost) <= (SamplesPerFile - 1) * (stops + 1)
    <3> HIDE DEF Lost
    <3> QED
      BY <2>a, <2>2, <2>3, LossTypes DEF HeldOK, DroppedOK
  <2> QED
    BY <2>4 DEF SilentLossIsBounded
<1> QED
  BY <1>1, IngestInvariant, PTL

\* The file never goes back for a key, unless a write is cut short, or the thread of the
\* key saves its own place and could not read the file at its start.
THEOREM CutsAndMisreadsForget == Spec => OnlyCutsAndMisreadsForget
<1> DEFINE Goes(k) == \/ torn' /\ ~torn
                      \/ \E p \in misread : k = Key(p) /\ progress'[k] = count[p]
<1>1. IngestInv /\ [Next]_vars => [\A k \in Keys : progress'[k] < progress[k] => Goes(k)]_vars
  <2> SUFFICES ASSUME IngestInv, [Next]_vars, NEW k \in Keys, progress'[k] < progress[k]
      PROVE  Goes(k)
    OBVIOUS
  <2>a. TypeOK /\ progress[k] \in Nat /\ ~(progress[k] < progress[k])
    BY DEF IngestInv, TypeOK
  <2>1. CASE Threads
    <3>1. PICK p \in jobs : Step(p)
      BY <2>1 DEF Threads
    <3>2. ThreadOK(p) /\ FileOK
      BY DEF IngestInv
    <3>3. CASE UNCHANGED <<progress, torn>>
      BY <2>a, <3>3 DEF fileVars
    <3>4. CASE Cut
      BY <3>4 DEF Cut
    <3>5. CASE Writes(p) /\ (pc[p] = "save" \/ (pc[p] = "loop" /\ count[p] = Data(p).items))
      <4>1. p \notin misread => progress[Key(p)] <= count[p]
        BY <2>a, <3>2, <3>5, AtHand, PassedType
           DEF ThreadOK, CountOK, OffsetsOK, FileIsBehind, Active, InLoop
      <4>2. progress'[k] = IF k = Key(p) THEN count[p] ELSE progress[k]
        BY <2>a, <3>5, AtHand DEF Writes, TypeOK
      <4>3. CASE k = Key(p) /\ p \in misread
        BY <4>2, <4>3
      <4>4. CASE k = Key(p) /\ p \notin misread
        BY <2>a, <4>1, <4>2, <4>4, AtHand
      <4>5. CASE k # Key(p)
        BY <2>a, <4>2, <4>5
      <4> QED
        BY <4>3, <4>4, <4>5
    <3> QED
      BY <3>1, <3>3, <3>4, <3>5 DEF Step, Begin, Open, StreamRaises, TakeItem, Embed, Post, Save,
         Finish, update_progress, Writes, fileVars
  <2>2. CASE Crash
    BY <2>a, <2>2 DEF Crash, Cut, fileVars
  <2>3. CASE ~Threads /\ ~Crash
    BY <2>a, <2>3 DEF Next, Restart, ServerStops, ServerStarts, vars, fileVars
  <2> QED
    BY <2>1, <2>2, <2>3
<1> QED
  BY <1>1, IngestInvariant, PTL DEF Spec, OnlyCutsAndMisreadsForget
=============================================================================
