--------------------- MODULE PriceStoreRecovery_proofs ---------------------
(***************************************************************************)
(* Proofs about PriceStoreRecovery for every set of bars, chunk size and   *)
(* number of faults.  The file is never ahead of the log (FileBehindLog):  *)
(* this is what makes the fall back to the file a FallBack of BarStore.    *)
(***************************************************************************)
EXTENDS PriceStoreRecovery, TLAPS

USE BarAssumption, BoundAssumption

LEMMA InitIInv == Init => IInv
<1> SUFFICES ASSUME Init PROVE IInv
  OBVIOUS
<1>2. [table |-> FALSE, rows |-> {}] \in ContentType
  BY DEF ContentType
<1>3. hasWal \in BOOLEAN /\ walGood \in BOOLEAN
  BY Zenon DEF Init
<1>4. faults \in 0..MaxFaults /\ pc \in Starting \cup Open \cup {"down"}
  BY DEF Init
<1>1. TypeOK
  BY <1>2, <1>3, <1>4 DEF Init, TypeOK
<1> QED
  BY <1>1 DEF Init, IInv, FileBehindLog, NoLogNoMore, ChunksCommitted, AckedLostOnlyByQuarantine

\* What a commit of some rows does to the disk.
LEMMA CommitEffect ==
  ASSUME base \in ContentType, log \in ContentType, hasWal \in BOOLEAN, walGood \in BOOLEAN,
         NEW c \in ContentType, Commit(c)
  PROVE  /\ log' = c /\ base' \in {base, c}
         /\ base' \in ContentType /\ log' \in ContentType
         /\ hasWal' \in BOOLEAN /\ walGood' \in BOOLEAN
BY DEF Commit

LEMMA AddRows ==
  ASSUME log \in ContentType, NEW S \in SUBSET Row
  PROVE  /\ [log EXCEPT !.rows = @ \cup S] \in ContentType
         /\ [log EXCEPT !.rows = @ \cup S].rows = log.rows \cup S
         /\ [log EXCEPT !.rows = Cleaned(@)] \in ContentType
         /\ [log EXCEPT !.rows = Cleaned(@)].rows = log.rows \ {Probe}
         /\ [log EXCEPT !.table = TRUE] \in ContentType
         /\ [log EXCEPT !.table = TRUE].rows = log.rows
BY DEF ContentType, Cleaned

(***************************************************************************)
(* Every step does one of three things to the disk.  Both the invariant    *)
(* and the refinement follow from this.                                    *)
(***************************************************************************)
DiskType == /\ base \in ContentType /\ log \in ContentType
            /\ hasWal \in BOOLEAN /\ walGood \in BOOLEAN
Adds(S) == /\ log'.rows \cap Bar = (log.rows \cap Bar) \cup S
           /\ base' = base \/ base' = log'
           /\ ~hasWal' => log' = base'
Falls == /\ log' = base /\ base' = base
         /\ "quarantine" \in events' \/ log' = log

LEMMA CommitAdds ==
  ASSUME TypeOK, NEW c \in ContentType, Commit(c),
         NEW S \in SUBSET Bar, c.rows \cap Bar = (log.rows \cap Bar) \cup S
  PROVE  Adds(S) /\ DiskType'
BY DEF Commit, Adds, DiskType, TypeOK

LEMMA DiskSteps ==
  ASSUME IInv, Next
  PROVE  /\ DiskType'
         /\ events \subseteq events' /\ events' \subseteq Event
         /\ Falls \/ \E S \in SUBSET Bar : Adds(S)
<1> DEFINE Goal == /\ DiskType'
                   /\ events \subseteq events' /\ events' \subseteq Event
                   /\ Falls \/ \E S \in SUBSET Bar : Adds(S)
<1>a. /\ TypeOK /\ base \in ContentType /\ log \in ContentType
      /\ events \subseteq Event /\ CutProbe \subseteq Event
      /\ ~hasWal => log = base
  BY DEF IInv, TypeOK, NoLogNoMore, CutProbe, Event
<1>b. ASSUME UNCHANGED <<base, log, hasWal>>, walGood' \in BOOLEAN,
             events \subseteq events' /\ events' \subseteq Event
      PROVE  Goal
  <2>1. Adds({}) /\ DiskType'
    BY <1>a, <1>b DEF Adds, DiskType, TypeOK
  <2> QED
    BY <1>b, <2>1
<1>c. ASSUME Checkpoint, events' = events PROVE Goal
  <2>1. Adds({}) /\ DiskType'
    BY <1>a, <1>c DEF Checkpoint, Adds, DiskType, TypeOK
  <2> QED
    BY <1>a, <1>c, <2>1
<1>1. ASSUME Start \/ ProbeDeleteFails \/ ProbeDies \/ QuarantineFails \/ OpenDies
             \/ SignalCheckpointFails \/ MigrateStops \/ \E bar \in Legacy \ copied : MigrateSkips(bar)
      PROVE  Goal
  <2>1. UNCHANGED <<base, log, hasWal, walGood>>
    BY <1>1 DEF Start, ProbeDeleteFails, ProbeDies, QuarantineFails, OpenDies,
                SignalCheckpointFails, MigrateStops, MigrateSkips, disk
  <2>2. events \subseteq events' /\ events' \subseteq Event
    BY <1>1, <1>a DEF Start, ProbeDeleteFails, ProbeDies, QuarantineFails, OpenDies,
                      SignalCheckpointFails, MigrateStops, MigrateSkips, Event
  <2> QED
    BY <1>b, <2>1, <2>2, <1>a DEF TypeOK
<1>2. ASSUME ProbeInsert PROVE Goal
  <2>1. CASE UNCHANGED disk
    BY <1>2, <1>a, <1>b, <2>1 DEF ProbeInsert, disk, TypeOK
  <2>2. CASE Commit([log EXCEPT !.rows = @ \cup {Probe}])
    <3>1. [log EXCEPT !.rows = @ \cup {Probe}] \in ContentType
      BY <1>a, AddRows DEF Row
    <3>2. [log EXCEPT !.rows = @ \cup {Probe}].rows \cap Bar = (log.rows \cap Bar) \cup {}
      BY <1>a, AddRows DEF Row, Bar
    <3>3. Adds({}) /\ DiskType'
      BY <1>a, <2>2, <3>1, <3>2, CommitAdds
    <3> QED
      BY <1>2, <1>a, <3>3 DEF ProbeInsert
  <2> QED
    BY <1>2, <2>1, <2>2 DEF ProbeInsert
<1>3. ASSUME ProbeDelete PROVE Goal
  <2>1. [log EXCEPT !.rows = Cleaned(@)] \in ContentType
    BY <1>a, AddRows
  <2>2. [log EXCEPT !.rows = Cleaned(@)].rows \cap Bar = (log.rows \cap Bar) \cup {}
    BY <1>a, AddRows DEF Bar
  <2>3. Adds({}) /\ DiskType'
    BY <1>a, <1>3, <2>1, <2>2, CommitAdds DEF ProbeDelete
  <2> QED
    BY <1>3, <1>a, <2>3 DEF ProbeDelete
<1>4. ASSUME ProbeCheckpoint \/ Signal PROVE Goal
  BY <1>4, <1>c DEF ProbeCheckpoint, Signal
<1>5. ASSUME Quarantine PROVE Goal
  <2>1. Falls /\ DiskType'
    BY <1>5, <1>a DEF Quarantine, FileAfterQuarantine, Falls, DiskType
  <2>2. events \subseteq events' /\ events' \subseteq Event
    BY <1>5, <1>a DEF Quarantine, Event
  <2> QED
    BY <2>1, <2>2
<1>6. ASSUME OpenStore \/ LegacyUncounted PROVE Goal
  <2> USE DEF OpenTable
  <2>0. events \subseteq events' /\ events' \subseteq Event
    BY <1>6, <1>a DEF OpenStore, LegacyUncounted, Event
  <2>1. CASE UNCHANGED disk
    BY <1>a, <1>b, <2>0, <2>1 DEF disk, TypeOK
  <2>2. CASE Commit([log EXCEPT !.table = TRUE])
    <3>1. [log EXCEPT !.table = TRUE] \in ContentType
      BY <1>a, AddRows
    <3>2. [log EXCEPT !.table = TRUE].rows \cap Bar = (log.rows \cap Bar) \cup {}
      BY <1>a, AddRows
    <3>3. Adds({}) /\ DiskType'
      BY <1>a, <2>2, <3>1, <3>2, CommitAdds
    <3> QED
      BY <2>0, <3>3
  <2> QED
    BY <1>6, <2>1, <2>2 DEF OpenStore, LegacyUncounted
<1>7. ASSUME NEW S \in SUBSET Bar, Commit([log EXCEPT !.rows = @ \cup S]), events' = events
      PROVE Goal
  <2>1. [log EXCEPT !.rows = @ \cup S] \in ContentType
    BY <1>a, AddRows DEF Row
  <2>2. [log EXCEPT !.rows = @ \cup S].rows \cap Bar = (log.rows \cap Bar) \cup S
    BY <1>a, AddRows DEF Row
  <2>3. Adds(S) /\ DiskType'
    BY <1>a, <1>7, <2>1, <2>2, CommitAdds
  <2> QED
    BY <1>7, <1>a, <2>3
<1>8. ASSUME \/ \E S \in SUBSET (Legacy \ copied) \ {{}} : MigrateFlush(S)
             \/ \E S \in SUBSET batch \ {{}} : UpsertChunk(S)
      PROVE  Goal
  BY <1>8, <1>7, <1>a DEF MigrateFlush, UpsertChunk, TypeOK, Bar
<1>9. ASSUME (\E S \in SUBSET Bar \ {{}} : UpsertBegin(S)) \/ UpsertFails PROVE Goal
  BY <1>9, <1>a, <1>b DEF UpsertBegin, UpsertFails, disk, TypeOK
<1>10. ASSUME Crash \/ MigrateFails \/ SignalWhileStarting PROVE Goal
  <2>1. UNCHANGED <<base, log, hasWal>> /\ walGood' \in BOOLEAN
    BY <1>10, <1>a DEF Crash, MigrateFails, SignalWhileStarting, Killed, TypeOK
  <2>2. events \subseteq events' /\ events' \subseteq Event
    BY <1>10, <1>a DEF Crash, MigrateFails, SignalWhileStarting, Killed, Event
  <2> QED
    BY <1>b, <2>1, <2>2
<1>11. ASSUME Exit PROVE Goal
  <2>1. CASE Checkpoint
    BY <1>11, <1>c, <2>1 DEF Exit
  <2>2. CASE UNCHANGED disk
    BY <1>11, <1>a, <1>b, <2>2 DEF Exit, disk, TypeOK
  <2> QED
    BY <1>11, <2>1, <2>2 DEF Exit
<1>13. ASSUME Compact PROVE Goal
  <2>1. Adds({}) /\ DiskType'
    BY <1>a, <1>13, CommitAdds DEF Compact
  <2> QED
    BY <1>13, <1>a, <2>1 DEF Compact
<1>12. Goal
  BY <1>1, <1>2, <1>3, <1>4, <1>5, <1>6, <1>8, <1>9, <1>10, <1>11, <1>13 DEF Next, StartUp
<1> QED
  BY <1>12

(***************************************************************************)
(* The type of the server's own variables.                                 *)
(***************************************************************************)
PcType == pc \in Starting \cup Open \cup {"down"}
ServerType == /\ copied \subseteq Legacy /\ skipped \subseteq copied
              /\ batch \subseteq asked /\ asked \subseteq Bar /\ acked \subseteq Bar
              /\ faults \in 0..MaxFaults

LEMMA PcStep == TypeOK /\ Next => PcType'
BY DEF TypeOK, PcType, Next, StartUp, Start, ProbeInsert, ProbeDelete, ProbeCheckpoint,
       Quarantine, OpenTable, OpenStore, LegacyUncounted, MigrateSkips, MigrateStops, Compact, OpenDies, MigrateFlush, ProbeDeleteFails, ProbeDies,
       QuarantineFails, UpsertBegin, UpsertChunk, UpsertFails, Crash, MigrateFails,
       SignalWhileStarting, Killed, Signal, SignalCheckpointFails, Exit, AfterFailedProbe,
       Starting, Probing, Open

LEMMA ServerStep == TypeOK /\ Next => ServerType'
<1> SUFFICES ASSUME TypeOK, Next PROVE ServerType'
  OBVIOUS
<1>a. ServerType
  BY DEF TypeOK, ServerType
<1>f. Fault => faults' \in 0..MaxFaults
  BY <1>a DEF Fault, ServerType
<1>1. CASE Start \/ ProbeInsert \/ ProbeDelete \/ ProbeCheckpoint \/ Quarantine \/ OpenStore
           \/ OpenDies \/ Signal
  BY <1>1, <1>a DEF ServerType, upsert, migration, OpenTable, Start, ProbeInsert, ProbeDelete, ProbeCheckpoint,
     Quarantine, OpenStore, OpenDies, Signal
<1>6. CASE ProbeDeleteFails \/ ProbeDies \/ QuarantineFails \/ SignalCheckpointFails
           \/ LegacyUncounted \/ MigrateStops
  BY <1>6, <1>a, <1>f DEF ServerType, upsert, migration, OpenTable, ProbeDeleteFails, ProbeDies,
     QuarantineFails, SignalCheckpointFails, LegacyUncounted, MigrateStops
<1>2. CASE \E S \in SUBSET (Legacy \ copied) \ {{}} : MigrateFlush(S)
  BY <1>2, <1>a DEF ServerType, MigrateFlush, upsert
<1>3. CASE \E S \in SUBSET Bar \ {{}} : UpsertBegin(S)
  BY <1>3, <1>a DEF ServerType, UpsertBegin, migration
<1>4. CASE \E S \in SUBSET batch \ {{}} : UpsertChunk(S)
  BY <1>4, <1>a DEF ServerType, UpsertChunk, migration
<1>5. CASE UpsertFails
  BY <1>5, <1>a, <1>f DEF ServerType, UpsertFails, AckedOnError, migration
<1>7. CASE Crash \/ MigrateFails \/ SignalWhileStarting
  <2>1. Killed /\ Fault
    BY <1>7 DEF Crash, MigrateFails, SignalWhileStarting
  <2> QED
    BY <2>1, <1>a, <1>f DEF ServerType, Killed, migration
<1>8. CASE Exit
  BY <1>8, <1>a DEF ServerType, Exit, migration
<1>9. CASE \E bar \in Legacy \ copied : MigrateSkips(bar)
  BY <1>9, <1>a, <1>f DEF ServerType, MigrateSkips, upsert
<1>10. CASE Compact
  BY <1>10, <1>a DEF ServerType, Compact, upsert, migration
<1> QED
  BY <1>1, <1>2, <1>3, <1>4, <1>5, <1>6, <1>7, <1>8, <1>9, <1>10 DEF Next, StartUp

(***************************************************************************)
(* What upserts have been promised.                                        *)
(***************************************************************************)
LEMMA AckStep ==
  ASSUME IInv, Next
  PROVE  ChunksCommitted' /\ AckedLostOnlyByQuarantine'
<1> DEFINE Lost == "quarantine" \in events
<1>a. /\ events \subseteq events'
      /\ Falls \/ \E S \in SUBSET Bar : Adds(S)
      /\ batch \subseteq asked /\ asked \subseteq Bar /\ acked \subseteq Bar
      /\ asked \ batch \subseteq log.rows \/ Lost
      /\ acked \subseteq log.rows \/ Lost
  BY DiskSteps DEF IInv, TypeOK, ChunksCommitted, AckedLostOnlyByQuarantine
<1>1. log.rows \cap Bar \subseteq log'.rows \/ Lost'
  BY <1>a DEF Falls, Adds
<1>2. CASE asked' \ batch' \subseteq asked \ batch /\ acked' = acked
  <2>1. CASE Lost'
    BY <2>1 DEF ChunksCommitted, AckedLostOnlyByQuarantine
  <2>2. CASE ~Lost' /\ ~Lost
    BY <1>1, <1>2, <1>a, <2>2 DEF ChunksCommitted, AckedLostOnlyByQuarantine
  <2>3. ~Lost' => ~Lost
    BY <1>a
  <2> QED
    BY <2>1, <2>2, <2>3
<1>3. ASSUME NEW S \in SUBSET batch, UpsertChunk(S)
      PROVE  ChunksCommitted' /\ AckedLostOnlyByQuarantine'
  <2>1. log'.rows = log.rows \cup S
    BY <1>3, <1>a, AddRows DEF UpsertChunk, Commit, IInv, TypeOK, Bar, Row
  <2>2. events' = events /\ batch' = batch \ S
    BY <1>3 DEF UpsertChunk
  <2>3. \/ asked' = asked /\ acked' = acked
        \/ S = batch /\ asked' = {} /\ acked' = acked \cup asked
    BY <1>3 DEF UpsertChunk
  <2>4. CASE Lost
    BY <2>2, <2>4 DEF ChunksCommitted, AckedLostOnlyByQuarantine
  <2>5. CASE ~Lost
    BY <1>a, <2>1, <2>2, <2>3, <2>5 DEF ChunksCommitted, AckedLostOnlyByQuarantine
  <2> QED
    BY <2>4, <2>5
<1>4. CASE ~ \E S \in SUBSET batch \ {{}} : UpsertChunk(S)
  <2>1. asked' \ batch' \subseteq asked \ batch /\ acked' = acked
    BY <1>4 DEF Next, StartUp, Start, ProbeInsert, ProbeDelete, ProbeCheckpoint,
       Quarantine, OpenTable, OpenStore, LegacyUncounted, MigrateSkips, MigrateStops, Compact, OpenDies, MigrateFlush, ProbeDeleteFails, ProbeDies,
       QuarantineFails, UpsertBegin, UpsertFails, AckedOnError, Crash, MigrateFails,
       SignalWhileStarting, Killed, Signal, SignalCheckpointFails, Exit, upsert
  <2> QED
    BY <1>2, <2>1
<1> QED
  BY <1>3, <1>4

LEMMA NextIInv == IInv /\ [Next]_vars => IInv'
<1>1. ASSUME IInv, Next PROVE IInv'
  <2>1. TypeOK'
    BY <1>1, DiskSteps, PcStep, ServerStep DEF IInv, TypeOK, DiskType, PcType, ServerType
  <2>2. FileBehindLog' /\ NoLogNoMore'
    BY <1>1, DiskSteps DEF IInv, FileBehindLog, NoLogNoMore, Falls, Adds
  <2> QED
    BY <1>1, <2>1, <2>2, AckStep DEF IInv
<1>2. ASSUME IInv, UNCHANGED vars PROVE IInv'
  BY <1>2 DEF vars, disk, upsert, migration, IInv, TypeOK, FileBehindLog, NoLogNoMore, ChunksCommitted,
     AckedLostOnlyByQuarantine
<1> QED
  BY <1>1, <1>2

(***************************************************************************)
(* Theorems.                                                               *)
(***************************************************************************)

\* IInv, and with it the type of every variable, holds in every reachable state.
THEOREM Invariance == Spec => []IInv
<1> QED
  BY InitIInv, NextIInv, PTL DEF Spec

\* Bars of an upsert that returned without an error are only lost with a log
\* that is moved aside, however often the server crashes and restarts.
THEOREM AcksAreKept == Spec => []AckedLostOnlyByQuarantine
<1>1. IInv => AckedLostOnlyByQuarantine
  BY DEF IInv
<1> QED
  BY <1>1, Invariance, PTL

\* Every start, stop, crash, probe, quarantine and upsert is a step of BarStore
\* or changes no bar: the store never does worse than falling back to its last
\* checkpoint.
THEOREM Refinement == Spec => ImplementsBarStore
<1>1. Init => Store!Init
  BY DEF Init, Store!Init
<1>2. IInv /\ [Next]_vars => [Store!Next]_(Store!vars)
  <2>1. ASSUME IInv, Next PROVE [Store!Next]_(Store!vars)
    <3> DEFINE p == base.rows \ {Probe}
               c == log.rows \ {Probe}
    <3>1. /\ base \in ContentType /\ log \in ContentType
          /\ base' \in ContentType /\ log' \in ContentType
          /\ Falls \/ \E S \in SUBSET Bar : Adds(S)
      BY <2>1, DiskSteps DEF IInv, TypeOK, DiskType
    <3>2. /\ p = base.rows \cap Bar /\ c = log.rows \cap Bar
          /\ p' = base'.rows \cap Bar /\ c' = log'.rows \cap Bar
      BY <3>1 DEF ContentType, Row, Bar
    <3>3. CASE Falls
      BY <3>3 DEF Falls, Store!Next, Store!FallBack
    <3>4. ASSUME NEW S \in SUBSET Bar, Adds(S) PROVE Store!Next
      <4>1. c' = c \cup S /\ (p' = p \/ p' = c')
        BY <3>2, <3>4 DEF Adds
      <4>2. Store!Commit(S) \/ Store!CommitAndCheckpoint(S)
        BY <4>1 DEF Store!Commit, Store!CommitAndCheckpoint
      <4> QED
        BY <4>2 DEF Store!Next
    <3> QED
      BY <3>1, <3>3, <3>4
  <2>2. ASSUME UNCHANGED vars PROVE [Store!Next]_(Store!vars)
    BY <2>2 DEF vars, disk, Store!vars
  <2> QED
    BY <2>1, <2>2
<1> QED
  BY <1>1, <1>2, Invariance, PTL DEF Spec, Store!Spec, ImplementsBarStore

(***************************************************************************)
(* The row of the probe, and the bars of the old table.                    *)
(***************************************************************************)

\* Unless the probe was cut off, its row is in the log only before the cleanup and in
\* the file only before the checkpoint.
ProbeRowOnlyInside ==
  "cut probe" \notin events =>
    /\ Probe \in log.rows => pc = "probe inserted"
    /\ Probe \in base.rows => pc \in {"probe inserted", "probe deleted"}

\* While nothing was cut short, a table has no bars before the migration and all that
\* could be read of the old table's after it.
AllOrNothingMigrated ==
  events = {} =>
    /\ pc = "migrate" => copied \ skipped \subseteq log.rows
    /\ pc # "migrate" => log.rows \cap Bar = {} \/ Legacy \ skipped \subseteq log.rows
    /\ pc \in Open => Legacy \ skipped \subseteq log.rows

LEMMA ProbeRowStep ==
  ASSUME IInv, ProbeRowOnlyInside, Next
  PROVE  ProbeRowOnlyInside'
<1> SUFFICES ASSUME "cut probe" \notin events'
             PROVE  /\ Probe \in log'.rows => pc' = "probe inserted"
                    /\ Probe \in base'.rows => pc' \in {"probe inserted", "probe deleted"}
  BY DEF ProbeRowOnlyInside
<1> DEFINE Goal == /\ Probe \in log'.rows => pc' = "probe inserted"
                   /\ Probe \in base'.rows => pc' \in {"probe inserted", "probe deleted"}
<1>a. /\ base \in ContentType /\ log \in ContentType /\ hasWal \in BOOLEAN /\ walGood \in BOOLEAN
      /\ Probe \in log.rows => pc = "probe inserted"
      /\ Probe \in base.rows => pc \in {"probe inserted", "probe deleted"}
      /\ batch \subseteq Bar /\ Probe \notin Bar
  BY DiskSteps DEF IInv, TypeOK, ProbeRowOnlyInside, Bar
<1>b. ASSUME NEW c \in ContentType, Commit(c), Probe \notin c.rows, pc \notin {"probe inserted", "probe deleted"}
      PROVE  Goal
  BY <1>a, <1>b DEF Commit
<1>1. CASE Start \/ ProbeDeleteFails \/ ProbeDies \/ QuarantineFails \/ OpenDies
           \/ SignalCheckpointFails \/ (\E S \in SUBSET Bar \ {{}} : UpsertBegin(S)) \/ UpsertFails
           \/ MigrateStops \/ \E bar \in Legacy \ copied : MigrateSkips(bar)
  <2>1. base' = base /\ log' = log
    BY <1>1 DEF Start, ProbeDeleteFails, ProbeDies, QuarantineFails, OpenDies, SignalCheckpointFails,
       UpsertBegin, UpsertFails, MigrateStops, MigrateSkips, disk
  <2>2. pc' = pc \/ pc \notin {"probe inserted", "probe deleted"}
    BY <1>1 DEF Start, ProbeDeleteFails, ProbeDies, QuarantineFails, OpenDies, SignalCheckpointFails,
       UpsertBegin, UpsertFails, MigrateStops, MigrateSkips, CutProbe, Open
  <2> QED
    BY <2>1, <2>2, <1>a
<1>2. CASE ProbeInsert
  BY <1>2, <1>a DEF ProbeInsert, disk, AfterFailedProbe
<1>3. CASE ProbeDelete
  <2>1. pc' = "probe deleted" /\ log'.rows = log.rows \ {Probe}
    BY <1>3, <1>a, AddRows DEF ProbeDelete, Commit
  <2> QED
    BY <2>1
<1>4. CASE ProbeCheckpoint \/ Signal \/ Exit
  BY <1>4, <1>a DEF ProbeCheckpoint, Signal, Exit, Checkpoint, disk
<1>5. CASE Quarantine
  BY <1>5, <1>a DEF Quarantine, FileAfterQuarantine
<1>6. CASE OpenStore \/ LegacyUncounted
  <2>1. OpenTable
    BY <1>6 DEF OpenStore, LegacyUncounted
  <2> QED
    BY <2>1, <1>a, <1>b, AddRows DEF OpenTable, disk
<1>7. ASSUME NEW S \in SUBSET Bar, Commit([log EXCEPT !.rows = @ \cup S]),
             pc \notin {"probe inserted", "probe deleted"}
      PROVE  Goal
  <2>1. [log EXCEPT !.rows = @ \cup S] \in ContentType
        /\ [log EXCEPT !.rows = @ \cup S].rows = log.rows \cup S
    BY <1>a, AddRows DEF Row
  <2> QED
    BY <1>7, <1>a, <1>b, <2>1
<1>8. CASE \/ \E S \in SUBSET (Legacy \ copied) \ {{}} : MigrateFlush(S)
           \/ \E S \in SUBSET batch \ {{}} : UpsertChunk(S)
  BY <1>8, <1>7, <1>a DEF MigrateFlush, UpsertChunk, Bar, Open
<1>9. CASE Crash \/ MigrateFails \/ SignalWhileStarting
  <2>1. Killed
    BY <1>9 DEF Crash, MigrateFails, SignalWhileStarting
  <2> QED
    BY <2>1, <1>a DEF Killed, CutProbe
<1>10. CASE Compact
  BY <1>10, <1>a, <1>b DEF Compact, Open
<1> QED
  BY <1>1, <1>2, <1>3, <1>4, <1>5, <1>6, <1>8, <1>9, <1>10 DEF Next, StartUp

LEMMA MigrationStep ==
  ASSUME IInv, ProbeRowOnlyInside, AllOrNothingMigrated, Next
  PROVE  AllOrNothingMigrated'
<1> SUFFICES ASSUME events' = {}
             PROVE  /\ pc' = "migrate" => copied' \ skipped' \subseteq log'.rows
                    /\ pc' # "migrate" => log'.rows \cap Bar = {} \/ Legacy \ skipped' \subseteq log'.rows
                    /\ pc' \in Open => Legacy \ skipped' \subseteq log'.rows
  BY DEF AllOrNothingMigrated
<1> DEFINE Goal == /\ pc' = "migrate" => copied' \ skipped' \subseteq log'.rows
                   /\ pc' # "migrate" => log'.rows \cap Bar = {} \/ Legacy \ skipped' \subseteq log'.rows
                   /\ pc' \in Open => Legacy \ skipped' \subseteq log'.rows
<1>a. /\ events = {}
      /\ base \in ContentType /\ log \in ContentType /\ hasWal \in BOOLEAN /\ walGood \in BOOLEAN
      /\ pc = "migrate" => copied \ skipped \subseteq log.rows
      /\ pc # "migrate" => log.rows \cap Bar = {} \/ Legacy \ skipped \subseteq log.rows
      /\ pc \in Open => Legacy \ skipped \subseteq log.rows
      /\ batch \subseteq Bar /\ Legacy \subseteq Bar /\ Probe \notin Bar /\ copied \subseteq Legacy
      /\ skipped \subseteq copied
      /\ Probe \in log.rows => pc = "probe inserted"
      /\ ~hasWal => log = base
  BY DiskSteps DEF IInv, TypeOK, NoLogNoMore, ProbeRowOnlyInside, AllOrNothingMigrated, Bar
<1>b. ASSUME log'.rows \cap Bar = log.rows \cap Bar, pc # "migrate", UNCHANGED migration,
             pc' \notin Open \cup {"migrate"} \/ (pc \in Open /\ pc' \in Open)
      PROVE  Goal
  BY <1>a, <1>b DEF Open, migration
<1>1. CASE Start \/ ProbeDeleteFails \/ ProbeDies \/ QuarantineFails \/ OpenDies
  BY <1>1, <1>b DEF Start, ProbeDeleteFails, ProbeDies, QuarantineFails, OpenDies, disk, Open, Probing,
     AfterFailedProbe
<1>2. CASE ProbeInsert
  <2>1. log'.rows \cap Bar = log.rows \cap Bar
    <3>1. [log EXCEPT !.rows = @ \cup {Probe}].rows = log.rows \cup {Probe}
      BY <1>a DEF ContentType
    <3>2. log' = log \/ log' = [log EXCEPT !.rows = @ \cup {Probe}]
      BY <1>2 DEF ProbeInsert, Commit, disk
    <3>3. log'.rows = log.rows \/ log'.rows = log.rows \cup {Probe}
      BY <3>1, <3>2, Zenon
    <3>4. Probe \notin Bar
      BY <1>a
    <3> QED
      BY <3>3, <3>4
  <2> QED
    BY <1>2, <1>b, <2>1 DEF ProbeInsert, Open, AfterFailedProbe
<1>3. CASE ProbeDelete
  <2>1. log'.rows \cap Bar = log.rows \cap Bar
    BY <1>3, <1>a, AddRows DEF ProbeDelete, Commit
  <2> QED
    BY <1>3, <1>b, <2>1 DEF ProbeDelete, Open
<1>4. CASE ProbeCheckpoint \/ Signal \/ SignalCheckpointFails \/ Exit
  BY <1>4, <1>b DEF ProbeCheckpoint, Signal, SignalCheckpointFails, Exit, Checkpoint, disk, Open
<1>5. CASE Quarantine
  <2>1. log' = log
    BY <1>5, <1>a DEF Quarantine, FileAfterQuarantine
  <2> QED
    BY <1>5, <1>b, <2>1 DEF Quarantine, Open
<1>6. CASE OpenStore
  <2>1. log'.rows = log.rows
    BY <1>6, <1>a, AddRows DEF OpenStore, OpenTable, Commit, disk
  <2>2. pc = "open" /\ Probe \notin log.rows
    BY <1>6, <1>a DEF OpenStore, OpenTable
  <2>3. CASE MustMigrate(log.rows)
    BY <1>6, <1>a, <2>1, <2>2, <2>3 DEF OpenStore, MustMigrate, Open
  <2>4. CASE ~MustMigrate(log.rows)
    <3>1. Legacy \ skipped \subseteq log.rows
      BY <2>2, <2>4, <1>a DEF MustMigrate, ContentType, Row
    <3> QED
      BY <1>6, <2>1, <2>4, <3>1 DEF OpenStore, migration
  <2> QED
    BY <2>3, <2>4
<1>7. ASSUME NEW S \in SUBSET (Legacy \ copied) \ {{}}, MigrateFlush(S) PROVE Goal
  <2>1. log'.rows = log.rows \cup S
    BY <1>7, <1>a, AddRows DEF MigrateFlush, Commit, Row, Bar
  <2> QED
    BY <1>7, <1>a, <2>1 DEF MigrateFlush, Open
<1>8. ASSUME NEW S \in SUBSET batch \ {{}}, UpsertChunk(S) PROVE Goal
  <2>1. log'.rows = log.rows \cup S
    BY <1>8, <1>a, AddRows DEF UpsertChunk, Commit, Row
  <2> QED
    BY <1>8, <1>a, <2>1 DEF UpsertChunk, Open, migration
<1>9. CASE (\E S \in SUBSET Bar \ {{}} : UpsertBegin(S)) \/ UpsertFails
  BY <1>9, <1>a, <1>b DEF UpsertBegin, UpsertFails, disk, Open
<1>10. CASE Crash \/ MigrateFails \/ SignalWhileStarting
  <2>1. Killed
    BY <1>10 DEF Crash, MigrateFails, SignalWhileStarting
  <2> QED
    BY <2>1, <1>b DEF Killed, Open
<1>11. ASSUME NEW bar \in Legacy \ copied, MigrateSkips(bar) PROVE Goal
  BY <1>11, <1>a DEF MigrateSkips, disk, Open
<1>12. CASE Compact
  BY <1>12, <1>a, <1>b DEF Compact, Commit, Open
<1>13. CASE LegacyUncounted \/ MigrateStops
  BY <1>13 DEF LegacyUncounted, MigrateStops
<1> QED
  BY <1>1, <1>2, <1>3, <1>4, <1>5, <1>6, <1>7, <1>8, <1>9, <1>10, <1>11, <1>12, <1>13
  DEF Next, StartUp

LEMMA MigrationInvariance == Spec => [](ProbeRowOnlyInside /\ AllOrNothingMigrated)
<1> DEFINE J == IInv /\ ProbeRowOnlyInside /\ AllOrNothingMigrated
<1>1. Init => J
  BY InitIInv DEF Init, ProbeRowOnlyInside, AllOrNothingMigrated, Open
<1>2. J /\ [Next]_vars => J'
  <2>1. ASSUME J, UNCHANGED vars PROVE J'
    BY <2>1, NextIInv DEF ProbeRowOnlyInside, AllOrNothingMigrated, vars, disk, migration
  <2> QED
    BY <2>1, NextIInv, ProbeRowStep, MigrationStep
<1>3. J => ProbeRowOnlyInside /\ AllOrNothingMigrated
  OBVIOUS
<1> HIDE DEF J
<1> QED
  BY <1>1, <1>2, <1>3, PTL DEF Spec

\* The row of the probe is seen by a running server only if the probe was cut off.
THEOREM ProbeLeavesNoTrace == Spec => []ProbeRowOnlyIfCut
<1>1. ProbeRowOnlyInside => ProbeRowOnlyIfCut
  BY DEF ProbeRowOnlyInside, ProbeRowOnlyIfCut, Open
<1> QED
  BY <1>1, MigrationInvariance, PTL

\* A running server has every readable bar of the old table unless something was cut short
\* or the old table was not read to its end, however many flushes the migration takes.
THEOREM MigrationIsComplete == Spec => []LegacyMissingOnlyIfCut
<1>1. AllOrNothingMigrated => LegacyMissingOnlyIfCut
  BY DEF AllOrNothingMigrated, LegacyMissingOnlyIfCut
<1> QED
  BY <1>1, MigrationInvariance, PTL
=============================================================================
