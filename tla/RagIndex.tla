------------------------------ MODULE RagIndex ------------------------------
(***************************************************************************)
(* The index of texts that answers are retrieved from (src/main.go):       *)
(* reindexRag compares a signature of its source tables with that of the   *)
(* last run, reads the tables, embeds the chunks that are not there and    *)
(* deletes those that are in no source.  It is started by a ticker, by     *)
(* triggers and by requests, one run at a time (ragReindexMu), while the   *)
(* sources go on changing.                                                 *)
(*                                                                         *)
(* Of the eight tables, the two kinds that the properties tell apart: news *)
(* are added with the time they were published and count for Retention;    *)
(* summaries, one for a day, are replaced when they are made again and     *)
(* count for ever.  A text stands for one of its chunks; texts may share   *)
(* one.                                                                    *)
(***************************************************************************)
EXTENDS Integers, FiniteSets, FiniteSetsExt

CONSTANTS
    Chunks,      \* texts
    Retention,   \* days that news count
    LastDay,     \* bound: the clock
    MaxChanges,  \* bound: changes of the sources
    MaxSlips     \* bound: failing calls, short answers and restarts

ASSUME RagAssumption ==
    Retention \in Nat \ {0} /\ LastDay \in Nat /\ MaxChanges \in Nat /\ MaxSlips \in Nat

Days == 0 .. LastDay

VARIABLES
    today,
    news,           \* set of texts with the day they were published
    summaries,      \* the text of each day, or Missing
    chunkRows,      \* rag_chunks: date of each chunk, Undated, or Missing
    lastSignature,  \* lastRagSourceSig
    reindex,        \* the run that holds ragReindexMu
    changes, slips,
    blind           \* the signature cannot show that the index is wrong

ragVars == <<today, news, summaries, chunkRows, lastSignature, reindex, changes, slips, blind>>

Missing == -1
Undated == LastDay + 1
NoSignature == <<>>
NoRun == [at |-> "none", signature |-> NoSignature, items |-> {}, todo |-> {}, stale |-> {}, blind |-> FALSE]

InWindow(day) == day >= today - Retention
RecentNews == {n \in news : InWindow(n.date)}
SummaryDays == {d \in Days : summaries[d] # Missing}
Latest(days) == IF days = {} THEN Missing ELSE Max(days)

\* ragSourceSignature: of each table the number of rows and the latest date.
ragSourceSignature ==
    <<Cardinality(RecentNews), Latest({n.date : n \in RecentNews}), Cardinality(SummaryDays), Latest(SummaryDays)>>

\* buildRagItems, of the tables that could be read.
buildRagItems(tables) ==
    (IF "news" \in tables THEN RecentNews ELSE {})
    \union (IF "summaries" \in tables THEN {[chunk |-> summaries[d], date |-> Undated] : d \in SummaryDays} ELSE {})

AllItems == buildRagItems({"news", "summaries"})
Indexed == {c \in Chunks : chunkRows[c] # Missing}

Slip == slips < MaxSlips /\ slips' = slips + 1

\* What a change of the items means to the signatures that are stored, or will be by the
\* run: it may leave the signature at, or bring it back to, one of them.
Changes ==
    LET same(signature) == AllItems' # AllItems /\ ragSourceSignature' = signature IN
    /\ blind' = (blind \/ same(lastSignature))
    /\ reindex' = [reindex EXCEPT !.blind = @ \/ same(reindex.signature)]

\* Articles come with the time they were published, and never go.
AddNews ==
    /\ changes < MaxChanges /\ changes' = changes + 1
    /\ \E n \in [chunk : Chunks, date : {d \in Days : d <= today /\ InWindow(d)}] \ news : news' = news \union {n}
    /\ UNCHANGED <<today, summaries, chunkRows, lastSignature, slips>>
    /\ Changes

\* The upserts of today's summary.
UpsertSummary ==
    /\ changes < MaxChanges /\ changes' = changes + 1
    /\ \E c \in Chunks \ {summaries[today]} : summaries' = [summaries EXCEPT ![today] = c]
    /\ UNCHANGED <<today, news, chunkRows, lastSignature, slips>>
    /\ Changes

NextDay ==
    /\ today < LastDay /\ today' = today + 1
    /\ UNCHANGED <<news, summaries, chunkRows, lastSignature, changes, slips>>
    /\ Changes

\* The ticker, a trigger or a request starts a run, which ends at once if the signature is
\* that of the last one.
BeginReindex ==
    /\ reindex = NoRun
    /\ ragSourceSignature # lastSignature
    /\ reindex' = [NoRun EXCEPT !.at = "items", !.signature = ragSourceSignature]
    /\ UNCHANGED <<today, news, summaries, chunkRows, lastSignature, changes, slips, blind>>

\* buildRagItems in one read section; a table that cannot be read is passed over.
BuildItems ==
    /\ reindex.at = "items"
    /\ \E tables \in SUBSET {"news", "summaries"} :
           /\ IF tables = {"news", "summaries"} THEN UNCHANGED slips ELSE Slip
           /\ reindex' = [reindex EXCEPT !.at = "hashes", !.items = buildRagItems(tables),
                                         !.blind = buildRagItems(tables) # AllItems]
    /\ UNCHANGED <<today, news, summaries, chunkRows, lastSignature, changes, blind>>

\* getRagChunkHashes, and what is to be embedded and deleted by them.
ReadHashes ==
    /\ reindex.at = "hashes"
    /\ reindex' = [reindex EXCEPT
           !.at = "prune",
           !.todo = {i \in reindex.items : i.chunk \notin Indexed},
           !.stale = Indexed \ {i.chunk : i \in reindex.items}]
    /\ UNCHANGED <<today, news, summaries, chunkRows, lastSignature, changes, slips, blind>>

Aged == {c \in Chunks : chunkRows[c] \in Days /\ ~InWindow(chunkRows[c])}

\* pruneOldRagChunks; a chunk that another text has too goes with its row.
Prune ==
    /\ reindex.at = "prune"
    /\ chunkRows' = [c \in Chunks |-> IF c \in Aged THEN Missing ELSE chunkRows[c]]
    /\ reindex' = [reindex EXCEPT !.at = "embed",
                                  !.blind = @ \/ Aged \intersect {i.chunk : i \in reindex.items} # {}]
    /\ UNCHANGED <<today, news, summaries, lastSignature, changes, slips, blind>>

\* One batch: embedTexts and upsertRagChunk.  An answer with too few embeddings leaves
\* the rest of the batch out without an error.
Embed ==
    /\ reindex.at = "embed"
    /\ \E i \in reindex.todo :
           /\ i.date = Undated => \A j \in reindex.todo : j.date = Undated
           /\ \/ /\ chunkRows' = [chunkRows EXCEPT ![i.chunk] = i.date]
                 /\ reindex' = [reindex EXCEPT !.todo = @ \ {i}]
                 /\ UNCHANGED slips
              \/ /\ Slip /\ UNCHANGED chunkRows
                 /\ reindex' = [reindex EXCEPT !.todo = @ \ {i}, !.blind = TRUE]
    /\ UNCHANGED <<today, news, summaries, lastSignature, changes, blind>>

\* deleteRagChunkHashes.
DeleteStale ==
    /\ reindex.at = "embed" /\ reindex.todo = {}
    /\ chunkRows' = [c \in Chunks |-> IF c \in reindex.stale THEN Missing ELSE chunkRows[c]]
    /\ reindex' = [reindex EXCEPT !.at = "done"]
    /\ UNCHANGED <<today, news, summaries, lastSignature, changes, slips, blind>>


MarkDone ==
    /\ reindex.at = "done"
    /\ lastSignature' = reindex.signature
    /\ reindex' = NoRun /\ blind' = reindex.blind
    /\ UNCHANGED <<today, news, summaries, chunkRows, changes, slips>>

\* An error of the database or of the embeddings ends the run where it is.
GivesUp ==
    /\ reindex.at \in {"items", "hashes", "prune", "embed"} /\ Slip
    /\ reindex' = NoRun
    /\ UNCHANGED <<today, news, summaries, chunkRows, lastSignature, changes, blind>>

\* The server is started again: the signature is forgotten, and so is the run.
RestartIndexer ==
    /\ Slip /\ reindex' = NoRun /\ lastSignature' = NoSignature
    /\ UNCHANGED <<today, news, summaries, chunkRows, changes, blind>>

RagInit ==
    /\ today = 0 /\ news = {} /\ summaries = [d \in Days |-> Missing]
    /\ chunkRows = [c \in Chunks |-> Missing]
    /\ lastSignature = NoSignature /\ reindex = NoRun
    /\ changes = 0 /\ slips = 0 /\ blind = FALSE

Reindex == BeginReindex \/ BuildItems \/ ReadHashes \/ Prune \/ Embed \/ DeleteStale \/ MarkDone

RagNext == AddNews \/ UpsertSummary \/ NextDay \/ Reindex \/ GivesUp \/ RestartIndexer

\* The ticker starts a run every half hour, and each call in it has a timeout.
RagFairness == WF_ragVars(Reindex)

(***************************************************************************)
(* Properties.                                                             *)
(***************************************************************************)

=============================================================================
