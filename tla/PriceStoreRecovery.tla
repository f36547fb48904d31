------------------------- MODULE PriceStoreRecovery -------------------------
(***************************************************************************)
(* How priceDB.go and main.go start, stop and restart the DuckDB price     *)
(* store: the write-ahead log left by an abrupt end is tried out in a      *)
(* child process and moved aside when the child dies; an empty table is    *)
(* filled from the legacy SQLite table; bars are upserted in chunks, one   *)
(* transaction each, and compacted; a signal checkpoints and closes the    *)
(* store.  The rows stand for the bars they were made from, themselves or  *)
(* in the bar of their hour or day: what folding does to a bar is the      *)
(* matter of PriceBars.                                                    *)
(*                                                                         *)
(* DuckDB itself is external: a commit is in the log when it returns, a    *)
(* checkpoint moves the log into the database file, and may happen at any  *)
(* commit; a log left by a crash may or may not be replayable.             *)
(***************************************************************************)
EXTENDS FiniteSets, Integers

CONSTANTS
  Legacy,       \* bars of the old SQLite table
  Fresh,        \* bars fetched later
  Probe,        \* the row ('WAL_PROBE', 1) the probe commits and deletes
  ChunkRows,    \* priceUpsertChunkRows
  MaxFaults     \* bound on crashes and failing calls

ASSUME BarAssumption == Probe \notin Legacy \cup Fresh /\ Legacy \cap Fresh = {}
ASSUME BoundAssumption == ChunkRows \in Nat \ {0} /\ MaxFaults \in Nat

VARIABLES
  pc,        \* where the server is in its life
  base,      \* the database file: is there a table, and its rows
  log,       \* what base and prices.duckdb.wal hold together
  hasWal,    \* is there a log on disk
  walGood,   \* ... that can be replayed
  copied,    \* legacy bars the migration has flushed or passed over
  skipped,   \* those passed over by the last migration, as their row could not be read
  batch,     \* bars of the upsert in progress still to be committed
  asked,     \* all bars of the upsert in progress
  acked,     \* bars of the upserts that returned without an error
  events,    \* what has gone wrong so far
  faults     \* how many crashes, failed calls and signals during the start

disk == <<base, log, hasWal, walGood>>
upsert == <<batch, asked, acked>>
migration == <<copied, skipped>>
vars == <<pc, disk, migration, upsert, events, faults>>

Bar == Legacy \cup Fresh
Row == Bar \cup {Probe}

Event == {"quarantine", "cut migration", "cut probe", "unread legacy"}
Probing == {"probe", "probe inserted", "probe deleted"}
Starting == Probing \cup {"quarantine", "open", "migrate"}
Open == {"serving", "checkpointed"}

-----------------------------------------------------------------------------
Init ==
  /\ pc = "down"
  /\ base = [table |-> FALSE, rows |-> {}]
  /\ log = [table |-> FALSE, rows |-> {}]
  /\ hasWal = FALSE /\ walGood = TRUE
  /\ copied = {} /\ skipped = {} /\ batch = {} /\ asked = {} /\ acked = {}
  /\ events = {}
  /\ faults = 0

\* One committed transaction.  DuckDB checkpoints on its own once the log is long.
Commit(content) ==
  /\ log' = content
  /\ \/ hasWal' = TRUE /\ UNCHANGED base
     \/ hasWal' = FALSE /\ base' = content
  /\ UNCHANGED walGood

\* CHECKPOINT: the log goes into the file and is removed.
Checkpoint ==
  /\ base' = log
  /\ hasWal' = FALSE
  /\ UNCHANGED <<log, walGood>>

Fault == faults < MaxFaults /\ faults' = faults + 1

-----------------------------------------------------------------------------
(* Start: the probe, the quarantine, the schema and the migration.         *)

\* priceWALReplaySafe looks for a log.
Start ==
  /\ pc = "down"
  /\ pc' = IF hasWal THEN "probe" ELSE "open"
  /\ UNCHANGED <<disk, migration, upsert, events, faults>>

\* Fault: the child is taken for healthy whatever its exit status.
IgnoreProbe == "open"

AfterFailedProbe == "quarantine"

\* The child replays the log, reads the table and commits the probe row.  It
\* dies on a bad log, and exits with 3 when there is no table.
ProbeInsert ==
  /\ pc = "probe"
  /\ IF walGood /\ log.table
     THEN /\ Commit([log EXCEPT !.rows = @ \cup {Probe}])
          /\ pc' = "probe inserted"
     ELSE /\ pc' = AfterFailedProbe
          /\ UNCHANGED disk
  /\ UNCHANGED <<migration, upsert, events, faults>>

\* Fault: the cleanup matches no row.
Uncleaned(rows) == rows

Cleaned(rows) == rows \ {Probe}

ProbeDelete ==
  /\ pc = "probe inserted"
  /\ Commit([log EXCEPT !.rows = Cleaned(@)])
  /\ pc' = "probe deleted"
  /\ UNCHANGED <<migration, upsert, events, faults>>

\* A failed DELETE is logged only.
ProbeDeleteFails ==
  /\ pc = "probe inserted"
  /\ Fault
  /\ pc' = "probe deleted"
  /\ events' = events \cup {"cut probe"}
  /\ UNCHANGED <<disk, migration, upsert>>

ProbeCheckpoint ==
  /\ pc = "probe deleted"
  /\ Checkpoint
  /\ pc' = "open"
  /\ UNCHANGED <<migration, upsert, events, faults>>

CutProbe == IF pc \in {"probe inserted", "probe deleted"} THEN {"cut probe"} ELSE {}

\* The child exits with an error, or faults, at any of its statements.
ProbeDies ==
  /\ pc \in Probing
  /\ Fault
  /\ pc' = AfterFailedProbe
  /\ events' = events \cup CutProbe
  /\ UNCHANGED <<disk, migration, upsert>>

\* Fault: the log is deleted together with the file it belongs to.
LosesFile == [table |-> FALSE, rows |-> {}]

\* quarantinePriceWAL renames the log; there may be none left to rename.
FileAfterQuarantine == base

Quarantine ==
  /\ pc = "quarantine"
  /\ base' = FileAfterQuarantine
  /\ log' = base'
  /\ hasWal' = FALSE
  /\ walGood' = TRUE
  /\ events' = IF hasWal THEN events \cup {"quarantine"} ELSE events
  /\ pc' = "open"
  /\ UNCHANGED <<migration, upsert, faults>>

\* A failed rename is logged only.
QuarantineFails ==
  /\ pc = "quarantine"
  /\ Fault
  /\ pc' = "open"
  /\ UNCHANGED <<disk, migration, upsert, events>>

\* Fault: any table that is there counts as filled.
NeverMigrate(rows) == FALSE

MustMigrate(rows) == rows = {} /\ Legacy # {}

\* initPriceStore opens the file, which replays the log, and creates the table.
OpenTable ==
  /\ pc = "open"
  /\ ~hasWal \/ walGood
  /\ IF log.table THEN UNCHANGED disk ELSE Commit([log EXCEPT !.table = TRUE])
  /\ UNCHANGED upsert

OpenStore ==
  /\ OpenTable
  /\ IF MustMigrate(log.rows)
     THEN pc' = "migrate" /\ copied' = {} /\ skipped' = {}
     ELSE pc' = "serving" /\ UNCHANGED migration
  /\ UNCHANGED <<events, faults>>

\* The old table's rows cannot be counted: that is logged, and the store is served.
LegacyUncounted ==
  /\ OpenTable
  /\ MustMigrate(log.rows)
  /\ Fault
  /\ pc' = "serving"
  /\ events' = events \cup {"unread legacy"}
  /\ UNCHANGED migration

\* The fault of a bad log takes the server down.
OpenDies ==
  /\ pc = "open"
  /\ hasWal /\ ~walGood
  /\ pc' = "down"
  /\ UNCHANGED <<disk, migration, upsert, events, faults>>

\* The appender commits what it has buffered, and the rest when it is closed.
MigrateFlush(S) ==
  /\ pc = "migrate"
  /\ Commit([log EXCEPT !.rows = @ \cup S])
  /\ copied' = copied \cup S
  /\ pc' = IF copied' = Legacy THEN "serving" ELSE "migrate"
  /\ UNCHANGED <<skipped, upsert, events, faults>>

\* A row that cannot be scanned is passed over.
MigrateSkips(bar) ==
  /\ pc = "migrate"
  /\ Fault
  /\ copied' = copied \cup {bar}
  /\ skipped' = skipped \cup {bar}
  /\ pc' = IF copied' = Legacy THEN "serving" ELSE "migrate"
  /\ UNCHANGED <<disk, upsert, events>>

\* An error of the cursor ends the loop like its last row.
MigrateStops ==
  /\ pc = "migrate"
  /\ Fault
  /\ pc' = "serving"
  /\ events' = events \cup {"unread legacy"}
  /\ UNCHANGED <<disk, migration, upsert>>

-----------------------------------------------------------------------------
(* Upserts, and the ways to stop.                                          *)

UpsertBegin(S) ==
  /\ pc \in Open
  /\ asked = {}                       \* PriceStore.mu
  /\ asked' = S
  /\ batch' = S
  /\ UNCHANGED <<pc, disk, migration, acked, events, faults>>

ChunkSize == IF Cardinality(batch) < ChunkRows THEN Cardinality(batch) ELSE ChunkRows

UpsertChunk(S) ==
  /\ pc \in Open
  /\ asked # {}
  /\ Cardinality(S) = ChunkSize
  /\ Commit([log EXCEPT !.rows = @ \cup S])
  /\ batch' = batch \ S
  /\ IF S = batch
     THEN asked' = {} /\ acked' = acked \cup asked
     ELSE UNCHANGED <<asked, acked>>
  /\ UNCHANGED <<pc, migration, events, faults>>

\* Fault: an error of a chunk is not returned.
AckedAnyway == acked \cup asked

AckedOnError == acked

\* A failing statement rolls its chunk back and ends the upsert with an error.
UpsertFails ==
  /\ pc \in Open
  /\ asked # {}
  /\ Fault
  /\ batch' = {} /\ asked' = {}
  /\ acked' = AckedOnError
  /\ UNCHANGED <<pc, disk, migration, events>>

\* compactTicker replaces bars by those of their buckets in one transaction, which is
\* rolled back if a statement of it fails.
Compact ==
  /\ pc \in Open
  /\ asked = {}                       \* PriceStore.mu
  /\ log.rows # {}
  /\ Commit(log)
  /\ UNCHANGED <<pc, migration, upsert, events, faults>>

\* The whole process and its child end without a word.
Killed ==
  /\ pc' = "down"
  /\ batch' = {} /\ asked' = {}
  /\ events' = events \cup (IF pc = "migrate" THEN {"cut migration"} ELSE {})
                      \cup CutProbe
  /\ UNCHANGED <<base, log, hasWal, migration, acked>>

Crash ==
  /\ pc # "down"
  /\ Fault
  /\ Killed
  /\ walGood' \in {walGood, walGood /\ ~hasWal}

\* An error of the migration closes the appender, which commits, and is fatal.
MigrateFails ==
  /\ pc = "migrate"
  /\ Fault
  /\ Killed
  /\ UNCHANGED walGood

\* SIGTERM before main has reached signal.Notify has its default effect.  What
\* main does between initPriceStore and signal.Notify counts as starting.
SignalWhileStarting ==
  /\ pc \in Starting
  /\ Fault
  /\ Killed
  /\ UNCHANGED walGood

\* The handler runs CHECKPOINT, and goes on when it fails.
Signal ==
  /\ pc = "serving"
  /\ Checkpoint
  /\ pc' = "checkpointed"
  /\ UNCHANGED <<migration, upsert, events, faults>>

SignalCheckpointFails ==
  /\ pc = "serving"
  /\ Fault
  /\ pc' = "checkpointed"
  /\ UNCHANGED <<disk, migration, upsert, events>>

\* Close and os.Exit; DuckDB may checkpoint once more when it is closed.
Exit ==
  /\ pc = "checkpointed"
  /\ Checkpoint \/ UNCHANGED disk
  /\ pc' = "down"
  /\ batch' = {} /\ asked' = {}
  /\ UNCHANGED <<migration, acked, events, faults>>

StartUp ==
  \/ Start \/ ProbeInsert \/ ProbeDelete \/ ProbeCheckpoint \/ Quarantine
  \/ OpenStore \/ OpenDies
  \/ \E S \in SUBSET (Legacy \ copied) \ {{}} : MigrateFlush(S)

Next ==
  \/ StartUp
  \/ ProbeDeleteFails \/ ProbeDies \/ QuarantineFails
  \/ LegacyUncounted \/ MigrateStops
  \/ \E bar \in Legacy \ copied : MigrateSkips(bar)
  \/ \E S \in SUBSET Bar \ {{}} : UpsertBegin(S)
  \/ \E S \in SUBSET batch \ {{}} : UpsertChunk(S)
  \/ UpsertFails \/ Compact
  \/ Crash \/ MigrateFails \/ SignalWhileStarting
  \/ Signal \/ SignalCheckpointFails \/ Exit

Spec == Init /\ [][Next]_vars

\* The server is started again whenever it is down, and its startup, which
\* waits for nothing but the disk and the child, goes on.
FairSpec == Spec /\ WF_vars(StartUp)

-----------------------------------------------------------------------------
(* Properties.                                                             *)

ContentType == [table : BOOLEAN, rows : SUBSET Row]

\* The type of every variable.
TypeOK ==
  /\ pc \in Starting \cup Open \cup {"down"}
  /\ base \in ContentType /\ log \in ContentType
  /\ hasWal \in BOOLEAN /\ walGood \in BOOLEAN
  /\ copied \subseteq Legacy /\ skipped \subseteq copied
  /\ batch \subseteq asked /\ asked \subseteq Bar /\ acked \subseteq Bar
  /\ events \subseteq Event
  /\ faults \in 0..MaxFaults

\* The store keeps the promises of BarStore, the probe's row aside.
Store == INSTANCE BarStore WITH permanent <- base.rows \ {Probe},
                                committed <- log.rows \ {Probe}

ImplementsBarStore == Store!Spec

\* What the inductive invariant adds: the file is never ahead of the log, is all
\* there is without one, and the chunks an upsert has done are in the store.
FileBehindLog == base.rows \cap Bar \subseteq log.rows
NoLogNoMore == ~hasWal => log = base
ChunksCommitted == asked \ batch \subseteq log.rows \/ "quarantine" \in events

\* The bars of an upsert that returned without an error are in the store, themselves or
\* in the bar of their hour or day, across crashes and restarts, unless a log was moved
\* aside.
AckedLostOnlyByQuarantine == acked \subseteq log.rows \/ "quarantine" \in events

IInv == TypeOK /\ FileBehindLog /\ NoLogNoMore /\ ChunksCommitted /\ AckedLostOnlyByQuarantine

\* The probe's row is seen by the running server only if the probe was cut off
\* between its commit and its checkpoint, or its cleanup failed.
ProbeRowOnlyIfCut == pc \in Open /\ Probe \in log.rows => "cut probe" \in events

\* A server that runs has every legacy bar, but for the rows that could not be read
\* themselves, unless a log was moved aside, the probe or the migration was cut off, or
\* the old table could not be counted or read to its end.  (migrateFromSQLite, which is
\* entered again at every start and takes any row for the sign that it has been here.)
LegacyMissingOnlyIfCut ==
  pc \in Open => Legacy \ skipped \subseteq log.rows \/ events # {}

\* A store that is down, with whatever log, serves again: a bad log costs one
\* restart at most and is not met twice.
ServesAgain == pc = "down" ~> pc = "serving"

\* CONFIG.md:98, "every bar is copied over", if the old table can be read.
EveryLegacyBarIsCopied ==
  pc \in Open /\ "unread legacy" \notin events => Legacy \ skipped \subseteq log.rows
=============================================================================
