---------------------------- MODULE DatasetIngest ----------------------------
(***************************************************************************)
(* extractText/saveDataToRag.py with the sample server it posts to.        *)
(*                                                                         *)
(* The main block gives every producer a thread of one pool.  A thread     *)
(* goes through the items of its datasets, embeds every rag-th of them     *)
(* into the index, posts each to the sample server and now and then saves  *)
(* how far it is in one JSON file that all threads rewrite under a lock.   *)
(* The next run of the program skips what the file says was passed.  The   *)
(* server (extractText/dataGeneratio/main.go) answers as soon as a sample  *)
(* is in memory and writes a file when it has SamplesPerFile of them.      *)
(***************************************************************************)
EXTENDS Integers, FiniteSets, Sequences

CONSTANTS
    Submitted,       \* the sets of producers that are looked at together: records of
                     \* DatasetProducers, with the number of items of each dataset
    MaxWorkers,      \* threads of the pool
    Unit,            \* items of a dataset that one item of the model stands for
    SamplesPerFile,  \* samples that the server collects for a file
    MaxRuns,         \* bound: how often the program is started
    MaxFaults        \* bound: errors, crashes and stops together

\* A producer is a non-empty list of datasets.
ASSUME ProducersAssumption ==
    \A p \in UNION Submitted :
        /\ DOMAIN p.datasets = 1..Len(p.datasets) /\ Len(p.datasets) \in Nat \ {0}
        /\ \A i \in DOMAIN p.datasets : p.datasets[i].items \in Nat
        /\ p.rag \in Nat /\ p.save \in Nat
        /\ p.guarded \in BOOLEAN /\ p.outer \in BOOLEAN
        /\ \A i \in DOMAIN p.datasets : p.datasets[i].short => p.guarded

\* No two of them, and no two datasets of one, have the same key in the file.
ASSUME KeysAssumption ==
    \A J \in Submitted : \A p, q \in J : \A i \in DOMAIN p.datasets, j \in DOMAIN q.datasets :
        p.datasets[i].key = q.datasets[j].key => p = q /\ i = j

ASSUME NumbersAssumption ==
    /\ MaxWorkers \in Nat /\ Unit \in Nat \ {0}
    /\ SamplesPerFile \in Nat \ {0} /\ MaxRuns \in Nat \ {0} /\ MaxFaults \in Nat

VARIABLES
    jobs,      \* the producers that the main block submits
    pc,        \* where the thread of each producer is
    ds,        \* the number of the dataset it is at
    count,     \* the items it has taken of that dataset
    offsets,   \* what it read of the progress file at its start
    misread,   \* the threads that could not read it, though it is JSON
    progress,  \* the progress file: for each key how many items are passed
    torn,      \* the progress file is not JSON
    missed,    \* the saves that failed and left the file as it was
    up,        \* the sample server runs
    index,     \* its currentIndex: samples of currentFile
    held,      \* the samples of currentFile
    filed,     \* samples in the server's files
    dropped,   \* samples that were in memory when the server stopped
    skipped,   \* samples that raised, were refused or were too short
    indexed,   \* samples in the retrieval index
    runs,      \* starts of the program
    stops,     \* stops of the server
    faults

threadVars == <<pc, ds, count, offsets, misread>>
fileVars == <<progress, torn, missed>>
sampleVars == <<index, held, filed>>
serverVars == <<up, sampleVars, dropped, stops>>
vars == <<jobs, threadVars, fileVars, serverVars, skipped, indexed, runs, faults>>

KeysOf(p) == {p.datasets[i].key : i \in DOMAIN p.datasets}
Keys == UNION {KeysOf(p) : p \in jobs}
Samples == Keys \X (Nat \ {0})

\* The thread is over: it returned, it raised, or the program was killed.
Over == {"done", "failed", "stopped"}
Running == {p \in jobs : pc[p] \notin Over \union {"queued"}}

\* The periods in units of the model.
Period(n) == IF n < Unit THEN 1 ELSE n \div Unit

Data(p) == p.datasets[ds[p]]
Key(p) == Data(p).key
Sample(p) == <<Key(p), count[p]>>

Fault == faults < MaxFaults /\ faults' = faults + 1
NoFault == UNCHANGED faults

(***************************************************************************)
(* The sample server.                                                      *)
(***************************************************************************)
\* A bug for Stored: the samples in memory are reset before the file is written.
Stored_ResetsFirst(s) ==
    /\ up /\ index < SamplesPerFile
    /\ IF index + 1 < SamplesPerFile
       THEN index' = index + 1 /\ held' = held \union {s} /\ UNCHANGED filed
       ELSE index' = 0 /\ held' = {} /\ filed' = filed \union {s}

\* saveData: the sample is kept; the one that fills the file has it written.
Stored(s) ==
    /\ up /\ index < SamplesPerFile
    /\ IF index + 1 < SamplesPerFile
       THEN index' = index + 1 /\ held' = held \union {s} /\ UNCHANGED filed
       ELSE index' = 0 /\ held' = {} /\ filed' = filed \union held \union {s}

\* The file cannot be written: the index stays where it is, one past the end.
NotWritten(s) ==
    /\ up /\ index + 1 = SamplesPerFile
    /\ index' = SamplesPerFile /\ held' = held \union {s}
    /\ UNCHANGED filed

\* From then on every request panics at the index, and is answered with an error.
Panics == up /\ index = SamplesPerFile

ServerStops ==
    /\ up /\ Fault
    /\ up' = FALSE
    /\ dropped' = dropped \union held
    /\ index' = 0 /\ held' = {}
    /\ stops' = stops + 1
    /\ UNCHANGED <<jobs, threadVars, fileVars, filed, skipped, indexed, runs>>

ServerStarts ==
    /\ ~up
    /\ up' = TRUE
    /\ UNCHANGED <<jobs, threadVars, fileVars, sampleVars, dropped, stops, skipped, indexed, runs, faults>>

(***************************************************************************)
(* The progress file.                                                      *)
(***************************************************************************)
\* load_progress: a file that is not JSON counts as empty.
load_progress(key) == IF torn THEN 0 ELSE progress[key]

\* The write that starts by truncating the file is cut short.
Cut ==
    /\ ~torn /\ torn' = TRUE
    /\ progress' = [k \in Keys |-> 0]
    /\ UNCHANGED missed

\* A bug for update_progress: the file is written without reading what it holds.
update_progress_Overwrites(key, value) ==
    \/ /\ torn /\ NoFault
       /\ UNCHANGED fileVars
    \/ /\ ~torn /\ NoFault
       /\ progress' = [k \in Keys |-> IF k = key THEN value ELSE 0]
       /\ UNCHANGED <<torn, missed>>
    \/ Cut /\ Fault

\* update_progress: reads the whole file and writes it again; reading a torn
\* file raises, and nothing is written any more.  An error before the truncation
\* is printed and leaves the file as it is.
update_progress(key, value) ==
    \/ /\ torn /\ NoFault
       /\ UNCHANGED fileVars
    \/ /\ ~torn /\ NoFault
       /\ progress' = [progress EXCEPT ![key] = value]
       /\ UNCHANGED <<torn, missed>>
    \/ /\ ~torn /\ Fault
       /\ missed' = missed \union {<<key, value>>}
       /\ UNCHANGED <<progress, torn>>
    \/ Cut /\ Fault

(***************************************************************************)
(* A thread.                                                               *)
(***************************************************************************)
Goto(p, where) == pc' = [pc EXCEPT ![p] = where]

\* After an item: the periodic save when its number is due.
Due(p) == count[p] % Period(p.save) = 0
AfterItem(p) == Goto(p, IF Due(p) THEN "save" ELSE "loop")

\* A bug for ItemRaises: the item that raised is passed over with its save by all.
ItemRaises_NoSave(p) ==
    /\ skipped' = skipped \union {Sample(p)}
    /\ Goto(p, "loop")

\* A bug for ItemRaises: the item is tried again until it succeeds.
ItemRaises_Retries(p) ==
    /\ skipped' = skipped \union {Sample(p)}
    /\ UNCHANGED pc

\* The item raised in its try.  It is not taken again; the save comes after the
\* try in process_am_deepseek_split, everywhere else it is passed over as well.
ItemRaises(p) ==
    /\ skipped' = skipped \union {Sample(p)}
    /\ IF p.guarded THEN Goto(p, "loop") ELSE AfterItem(p)

\* The pool has a thread for the producer, which reads its offsets.  Any exception
\* of load_progress counts as an empty file, also when there is nothing wrong with it.
Begin(p) ==
    /\ pc[p] = "queued"
    /\ Cardinality(Running) < MaxWorkers
    /\ Goto(p, "open")
    /\ \/ /\ NoFault
          /\ offsets' = [offsets EXCEPT ![p] = [i \in DOMAIN p.datasets |-> load_progress(p.datasets[i].key)]]
          /\ misread' = misread \ {p}
       \/ /\ ~torn /\ Fault
          /\ offsets' = [offsets EXCEPT ![p] = [i \in DOMAIN p.datasets |-> 0]]
          /\ misread' = misread \union {p}
    /\ UNCHANGED <<jobs, ds, count, fileVars, serverVars, skipped, indexed, runs>>

\* load_dataset.
Open(p) ==
    /\ pc[p] = "open"
    /\ Goto(p, "loop")
    /\ count' = [count EXCEPT ![p] = 0]
    /\ UNCHANGED <<jobs, ds, offsets, misread, fileVars, serverVars, skipped, indexed, runs, faults>>

NextDataset(p) ==
    /\ IF ds[p] < Len(p.datasets)
       THEN Goto(p, "open") /\ ds' = [ds EXCEPT ![p] = @ + 1]
       ELSE Goto(p, "done") /\ UNCHANGED ds
    /\ UNCHANGED <<jobs, count, offsets, misread, serverVars, skipped, indexed, runs>>

\* Opening the stream or reading it raises outside the try of an item.
StreamRaises(p) ==
    /\ pc[p] \in {"open", "loop"} /\ Fault
    /\ UNCHANGED fileVars
    /\ IF p.outer
       THEN NextDataset(p)
       ELSE /\ Goto(p, "failed")
            /\ UNCHANGED <<jobs, ds, count, offsets, misread, serverVars, skipped, indexed, runs>>

\* A bug for Skips: the offset itself is taken again.
Skips_OneShort(p, number) == number < offsets[p][ds[p]]

\* The items up to the offset were passed in an earlier run.
Skips(p, number) == number <= offsets[p][ds[p]]

\* One turn of the loop up to the first call: what was passed is skipped.
TakeItem(p) ==
    /\ pc[p] = "loop" /\ count[p] < Data(p).items
    /\ count' = [count EXCEPT ![p] = @ + 1]
    /\ \/ /\ Skips(p, count'[p]) /\ NoFault
          /\ UNCHANGED <<pc, skipped>>
       \/ /\ ~Skips(p, count'[p]) /\ NoFault
          /\ Goto(p, IF count'[p] % Period(p.rag) = 0 THEN "embed" ELSE "post")
          /\ UNCHANGED skipped
       \/ /\ ~Skips(p, count'[p]) /\ NoFault
          /\ Data(p).short
          /\ skipped' = skipped \union {<<Key(p), count'[p]>>}
          /\ UNCHANGED pc
       \/ /\ ~Skips(p, count'[p]) /\ Fault
          /\ Data(p).reads # {}
          /\ skipped' = skipped \union {<<Key(p), count'[p]>>}
          /\ IF p.guarded THEN UNCHANGED pc ELSE Goto(p, "failed")
    /\ UNCHANGED <<jobs, ds, offsets, misread, fileVars, serverVars, indexed, runs>>

\* embed_text_to_rag: the chunks of the text are added under new ids.
Embed(p) ==
    /\ pc[p] = "embed"
    /\ \/ /\ indexed' = indexed \union {Sample(p)} /\ NoFault
          /\ Goto(p, "post")
          /\ UNCHANGED skipped
       \/ /\ ItemRaises(p) /\ Fault
          /\ UNCHANGED indexed
    /\ UNCHANGED <<jobs, ds, count, offsets, misread, fileVars, serverVars, runs>>

\* The request: stored; stored, but answered after the timeout; refused, which is
\* printed and passed like a success; or not answered, which raises.
Post(p) ==
    /\ pc[p] = "post"
    /\ \/ /\ Stored(Sample(p)) /\ NoFault
          /\ AfterItem(p)
          /\ UNCHANGED skipped
       \/ /\ Stored(Sample(p)) /\ Fault
          /\ ItemRaises(p)
       \/ /\ NotWritten(Sample(p)) /\ Fault
          /\ skipped' = skipped \union {Sample(p)}
          /\ AfterItem(p)
       \/ /\ Panics /\ NoFault
          /\ skipped' = skipped \union {Sample(p)}
          /\ AfterItem(p)
          /\ UNCHANGED sampleVars
       \/ /\ ~up /\ NoFault
          /\ ItemRaises(p)
          /\ UNCHANGED sampleVars
    /\ UNCHANGED <<jobs, ds, count, offsets, misread, fileVars, up, dropped, stops, indexed, runs>>

\* A bug for Save: the number of the next item is saved.
Save_OneAhead(p) ==
    /\ pc[p] = "save"
    /\ update_progress(Key(p), count[p] + 1)
    /\ Goto(p, "loop")
    /\ UNCHANGED <<jobs, ds, count, offsets, misread, serverVars, skipped, indexed, runs>>

\* The periodic save.
Save(p) ==
    /\ pc[p] = "save"
    /\ update_progress(Key(p), count[p])
    /\ Goto(p, "loop")
    /\ UNCHANGED <<jobs, ds, count, offsets, misread, serverVars, skipped, indexed, runs>>

\* The stream has ended: the last save, and the next dataset of the list.
Finish(p) ==
    /\ pc[p] = "loop" /\ count[p] = Data(p).items
    /\ update_progress(Key(p), count[p])
    /\ NextDataset(p)

Step(p) ==
    \/ Begin(p) \/ Open(p) \/ StreamRaises(p) \/ TakeItem(p)
    \/ Embed(p) \/ Post(p) \/ Save(p) \/ Finish(p)

(***************************************************************************)
(* The program.                                                            *)
(***************************************************************************)
\* The program is killed, at worst in the middle of a write of the progress file.
Crash ==
    /\ Running # {} /\ Fault
    /\ \/ UNCHANGED fileVars
       \/ (\E p \in Running : pc[p] = "save" \/ (pc[p] = "loop" /\ count[p] = Data(p).items)) /\ Cut
    /\ pc' = [p \in jobs |-> IF pc[p] \in Over THEN pc[p] ELSE "stopped"]
    /\ UNCHANGED <<jobs, ds, count, offsets, misread, serverVars, skipped, indexed, runs>>

\* It is started again, for all producers.
Restart ==
    /\ \A p \in jobs : pc[p] \in Over
    /\ runs < MaxRuns /\ runs' = runs + 1
    /\ pc' = [p \in jobs |-> "queued"]
    /\ ds' = [p \in jobs |-> 1]
    /\ count' = [p \in jobs |-> 0]
    /\ UNCHANGED <<jobs, offsets, misread, fileVars, serverVars, skipped, indexed, faults>>

Init ==
    /\ jobs \in Submitted
    /\ pc = [p \in jobs |-> "queued"]
    /\ ds = [p \in jobs |-> 1]
    /\ count = [p \in jobs |-> 0]
    /\ offsets = [p \in jobs |-> [i \in DOMAIN p.datasets |-> 0]]
    /\ misread = {} /\ missed = {}
    /\ progress = [k \in Keys |-> 0] /\ torn = FALSE
    /\ up = TRUE /\ index = 0 /\ held = {}
    /\ filed = {} /\ dropped = {} /\ skipped = {} /\ indexed = {}
    /\ runs = 1 /\ stops = 0 /\ faults = 0

Threads == \E p \in jobs : Step(p)
Next == Threads \/ Crash \/ Restart \/ ServerStops \/ ServerStarts

\* The threads are scheduled and every request has a timeout; nothing makes the
\* operator start the program or the server again.
Spec == Init /\ [][Next]_vars /\ WF_vars(Threads)

(***************************************************************************)
(* Properties.                                                             *)
(***************************************************************************)
Places == {"queued", "open", "loop", "embed", "post", "save"} \union Over

TypeOK ==
    /\ jobs \in Submitted
    /\ pc \in [jobs -> Places]
    /\ ds \in [jobs -> Nat] /\ \A p \in jobs : ds[p] \in DOMAIN p.datasets
    /\ count \in [jobs -> Nat]
    /\ DOMAIN offsets = jobs /\ \A p \in jobs : offsets[p] \in [DOMAIN p.datasets -> Nat]
    /\ misread \subseteq jobs /\ missed \subseteq Keys \X Nat
    /\ progress \in [Keys -> Nat] /\ torn \in BOOLEAN
    /\ up \in BOOLEAN /\ index \in 0..SamplesPerFile
    /\ held \subseteq Samples /\ filed \subseteq Samples /\ dropped \subseteq Samples
    /\ skipped \subseteq Samples /\ indexed \subseteq Samples
    /\ runs \in 1..MaxRuns /\ stops \in 0..MaxFaults /\ faults \in 0..MaxFaults

\* The items of its dataset that a thread is through with.
Passed(p) == IF pc[p] \in {"embed", "post", "save"} THEN count[p] - 1 ELSE count[p]

Found == filed \union held \union dropped \union skipped

\* An item that the progress file counts as passed, and that no run takes again, is
\* with the server, was lost in a stop of the server, or was passed over with a
\* message; and it is in the index when its number is one to embed.  (The resuming
\* of the process functions, through crashes and restarts of both programs.)
PassedItemsAreAccountedFor ==
    \A p \in jobs : \A j \in DOMAIN p.datasets :
        LET key == p.datasets[j].key IN
        \A i \in 1..progress[key] :
            /\ <<key, i>> \in Found
            /\ i % Period(p.rag) = 0 => <<key, i>> \in indexed \union skipped

\* Nothing that the progress file counts as passed is embedded or sent again, by
\* whatever run, but for a thread that could not read the file at its start.  (The
\* skipping of the first items by the offset of the start, while other threads
\* rewrite the same file.)
NothingPassedIsSentAgain ==
    \A p \in jobs : pc[p] \in {"embed", "post"} /\ p \notin misread => count[p] > progress[Key(p)]

\* No write of the file takes back what another thread or an earlier run has saved,
\* but for a write that is cut short, which does so for all keys at once, and a save
\* under its own key of a thread that could not read the file at its start.
\* (update_progress rewrites the whole file for one key.)
OnlyCutsAndMisreadsForget ==
    [][\A k \in Keys : progress'[k] < progress[k] =>
        \/ torn' /\ ~torn
        \/ \E p \in misread : k = Key(p) /\ progress'[k] = count[p]]_vars

\* How far a crash sets a thread back: a due save is missing from a readable file only
\* if it failed itself or if its item was passed over, and in
\* process_am_deepseek_split not even then.  (The save inside or after the try of the
\* item.)
ADueSaveIsMissingForAReason ==
    \A p \in jobs : pc[p] \in {"loop", "embed", "post", "save"} /\ ~torn =>
        \A i \in (progress[Key(p)] + 1)..Passed(p) :
            i % Period(p.save) = 0 =>
                (p.guarded /\ <<Key(p), i>> \in skipped) \/ <<Key(p), i>> \in missed

\* Samples that were answered with success, that no run sends again and that are in
\* no file: fewer than one file of them for each life of the server.  (saveData
\* answers before the file is written.)
SilentLossIsBounded ==
    Cardinality((UNION {{key} \X (1..progress[key]) : key \in Keys}) \ (filed \union skipped))
        <= (SamplesPerFile - 1) * (stops + 1)

\* A run of the program comes to its end, also when the server is down or refuses
\* everything.  (No error of an item is retried, no request waits for ever.)
EveryRunEnds == Running # {} ~> \A p \in jobs : pc[p] \in Over
=============================================================================
