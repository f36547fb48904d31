---------------------------- MODULE CodeGeneration ----------------------------
(***************************************************************************)
(* extractText/codeGen.py: for every row of two tables and every language  *)
(* a model writes an entry.  The program takes batches of rows from the    *)
(* two tables in turn.  It notes the last entry in a checkpoint file after *)
(* every entry, and writes all entries to its data file after every        *)
(* SAVE_INTERVAL of them; a later start goes on from the two files.        *)
(***************************************************************************)
EXTENDS Integers, Sequences, FiniteSets

CONSTANTS
    train_len, leetcode_len,  \* rows of the two tables
    Languages,                \* len(LANGUAGES)
    SAVE_INTERVAL, BATCH_SIZE,
    MaxStarts,                \* bound: how often the program is started
    MaxErrors                 \* bound: errors and crashes together

ASSUME CodeAssumption ==
    /\ train_len \in Nat /\ leetcode_len \in Nat
    /\ Languages \in Nat \ {0} /\ SAVE_INTERVAL \in Nat \ {0} /\ BATCH_SIZE \in Nat \ {0}
    /\ MaxStarts \in Nat \ {0} /\ MaxErrors \in Nat

VARIABLES
    where,          \* where the program is
    position,       \* train_position and leetcode_position
    current,        \* current_dataset
    start,          \* start_index and start_language_index
    turn,           \* the table of the batch
    index, lang,    \* the row and the language
    data,           \* the entries in memory, each with its number of copies
    unsaved,        \* entries_since_last_save
    saved,          \* the data file: absent, torn, or the entries
    checkpoint,     \* the checkpoint file: absent, torn, or the place of the last entry
    starts, errors,
    lost,           \* entries whose row raised, or that were in no file at a crash,
                    \* or in a data file that a start could not read
    made,           \* entries made since the last start that read no checkpoint
    repeated        \* how many of them this start made again

placeVars == <<position, current, start, turn, index, lang>>
memoryVars == <<data, unsaved>>
noteVars == <<lost, made, repeated>>
codeVars == <<where, placeVars, memoryVars, saved, checkpoint, starts, errors, noteVars>>

Tables == {"train", "leetcode"}
Other(table) == IF table = "train" THEN "leetcode" ELSE "train"
Rows(table) == IF table = "train" THEN train_len ELSE leetcode_len
Entries == UNION {{table} \X (0 .. Rows(table) - 1) \X (0 .. Languages - 1) : table \in Tables}

Absent == [kind |-> "absent"]
Torn == [kind |-> "torn"]
Held(file) == IF file.kind = "json" THEN file.entries ELSE [e \in Entries |-> 0]
Kept(file) == {e \in Entries : Held(file)[e] > 0}

Error == errors < MaxErrors /\ errors' = errors + 1
NoError == UNCHANGED errors
Entry == <<turn, index, lang>>

\* The end of the batch that is at hand.
BatchEnd == IF position[turn] + BATCH_SIZE < Rows(turn) THEN position[turn] + BATCH_SIZE ELSE Rows(turn)

\* load_existing_data: a torn file counts as no entries, and so does a good one
\* whose reading raises, whatever it is that it raises.
load_existing_data(raises) ==
    \/ /\ ~raises
       /\ data' = Held(saved)
       /\ UNCHANGED lost
    \/ /\ raises /\ saved.kind = "json"
       /\ data' = Held(Absent)
       /\ lost' = lost \union Kept(saved)

FromTheBegin ==
    /\ current' = "train" /\ start' = [row |-> 0, lang |-> 0]
    /\ position' = [table \in Tables |-> 0]
    /\ made' = {}

\* The checkpoint's row goes on with the next language, or the next row begins.
FromTheCheckpoint ==
    LET c == checkpoint
        finished == c.lang + 1 >= Languages
    IN  /\ current' = c.table
        /\ start' = IF finished THEN [row |-> c.row + 1, lang |-> 0]
                                ELSE [row |-> c.row, lang |-> c.lang + 1]
        /\ position' = IF finished THEN [c.position EXCEPT ![c.table] = c.row + 1] ELSE c.position
        /\ UNCHANGED made

\* load_checkpoint: likewise, what cannot be read counts as no checkpoint.
load_checkpoint(raises) ==
    \/ ~raises /\ checkpoint.kind = "json" /\ FromTheCheckpoint
    \/ ~raises /\ checkpoint.kind # "json" /\ FromTheBegin
    \/ raises /\ checkpoint.kind = "json" /\ FromTheBegin

\* The begin of the program: the two files are read, and what keeps one from being
\* read may keep the other.
Load ==
    /\ where = "start"
    /\ \E dataRaises, checkpointRaises \in BOOLEAN :
        /\ IF dataRaises \/ checkpointRaises THEN Error ELSE NoError
        /\ load_existing_data(dataRaises) /\ load_checkpoint(checkpointRaises)
    /\ unsaved' = 0 /\ repeated' = 0
    /\ turn' = "train" /\ where' = "batch"
    /\ UNCHANGED <<index, lang, saved, checkpoint, starts>>

\* A batch of the table whose turn it is; the loop ends when both are through.
NextBatch ==
    /\ where = "batch"
    /\ \/ /\ position[turn] < Rows(turn)
          /\ index' = position[turn] /\ where' = "row"
          /\ UNCHANGED turn
       \/ /\ position[turn] >= Rows(turn) /\ position[Other(turn)] < Rows(Other(turn))
          /\ turn' = Other(turn)
          /\ UNCHANGED <<index, where>>
       \/ /\ \A table \in Tables : position[table] >= Rows(table)
          /\ where' = "final"
          /\ UNCHANGED <<index, turn>>
    /\ UNCHANGED <<position, current, start, lang, memoryVars, saved, checkpoint, starts, errors, noteVars>>

\* A row: it begins at the language of the checkpoint if it is the row of the checkpoint.
BeginRow ==
    /\ where = "row" /\ index < BatchEnd
    /\ lang' = IF current = turn /\ index = start.row THEN start.lang ELSE 0
    /\ where' = "entry"
    /\ UNCHANGED <<position, current, start, turn, index, memoryVars, saved, checkpoint, starts, errors, noteVars>>

\* After the last row of the batch the other table is next.
EndBatch ==
    /\ where = "row" /\ index = BatchEnd
    /\ position' = [position EXCEPT ![turn] = BatchEnd]
    /\ current' = Other(turn)
    /\ start' = [start EXCEPT !.row = position[Other(turn)]]
    /\ turn' = Other(turn)
    /\ where' = "batch"
    /\ UNCHANGED <<index, lang, memoryVars, saved, checkpoint, starts, errors, noteVars>>

\* The row raises: its other languages are not made.  The language that the next
\* row may begin with is not reset.
RowRaises ==
    /\ where' = "row" /\ index' = index + 1
    /\ lost' = lost \union {e \in Entries : e[1] = turn /\ e[2] = index /\ e[3] >= lang}
    /\ UNCHANGED <<position, current, start, turn, lang>>

\* process_train_row or process_leetcode_row: the model answers, or something raises.
Generate ==
    /\ where = "entry"
    /\ \/ /\ NoError
          /\ data' = [data EXCEPT ![Entry] = @ + 1]
          /\ unsaved' = unsaved + 1
          /\ repeated' = IF Entry \in made THEN repeated + 1 ELSE repeated
          /\ made' = made \union {Entry}
          /\ where' = "checkpoint"
          /\ UNCHANGED <<placeVars, lost>>
       \/ /\ Error /\ RowRaises
          /\ UNCHANGED <<memoryVars, made, repeated>>
    /\ UNCHANGED <<saved, checkpoint, starts>>

\* A bug for Advance: a row that succeeds leaves the language to begin with as it is.
Advance_KeepsStart ==
    /\ UNCHANGED start
    /\ IF lang + 1 < Languages
       THEN lang' = lang + 1 /\ where' = "entry" /\ UNCHANGED index
       ELSE index' = index + 1 /\ where' = "row" /\ UNCHANGED lang

\* The next language of the row, or the next row.
Advance ==
    IF lang + 1 < Languages
    THEN /\ lang' = lang + 1 /\ where' = "entry"
         /\ UNCHANGED <<index, start>>
    ELSE /\ index' = index + 1 /\ where' = "row"
         /\ start' = [start EXCEPT !.lang = 0]
         /\ UNCHANGED lang

\* A bug for Place: the positions of the tables are not noted.
Place_WithoutPositions ==
    [kind |-> "json", table |-> turn, row |-> index, lang |-> lang, position |-> [t \in Tables |-> 0]]

\* What save_checkpoint writes of the place of an entry.
Place == [kind |-> "json", table |-> turn, row |-> index, lang |-> lang, position |-> position]

\* save_checkpoint; the write may fail half way, and the row raises.
save_checkpoint ==
    /\ where = "checkpoint"
    /\ \/ /\ NoError
          /\ checkpoint' = Place
          /\ IF unsaved >= SAVE_INTERVAL
             THEN where' = "save" /\ UNCHANGED placeVars
             ELSE Advance /\ UNCHANGED <<position, current, turn>>
          /\ UNCHANGED lost
       \/ /\ Error /\ RowRaises
          /\ checkpoint' = Torn
    /\ UNCHANGED <<memoryVars, saved, starts, made, repeated>>

\* save_data writes all entries over the file, or fails half way, and the row raises.
save_data ==
    /\ where = "save"
    /\ \/ /\ NoError
          /\ saved' = [kind |-> "json", entries |-> data]
          /\ unsaved' = 0
          /\ Advance
          /\ UNCHANGED <<position, current, turn, data, lost>>
       \/ /\ Error /\ RowRaises
          /\ saved' = Torn
          /\ UNCHANGED memoryVars
    /\ UNCHANGED <<checkpoint, starts, made, repeated>>

\* The last save_data; here an error ends the program.
SaveAll ==
    /\ where = "final"
    /\ \/ /\ NoError
          /\ saved' = [kind |-> "json", entries |-> data]
          /\ where' = "remove"
          /\ UNCHANGED lost
       \/ /\ Error
          /\ saved' = Torn /\ where' = "killed"
          /\ lost' = lost \union {e \in Entries : data[e] > 0}
    /\ UNCHANGED <<placeVars, memoryVars, checkpoint, starts, made, repeated>>

RemoveCheckpoint ==
    /\ where = "remove"
    /\ checkpoint' = Absent
    /\ where' = "done"
    /\ UNCHANGED <<placeVars, memoryVars, saved, starts, errors, noteVars>>

\* The program is killed, at worst in the middle of a write.
Crash ==
    /\ where \notin {"done", "killed"} /\ Error
    /\ \/ UNCHANGED <<saved, checkpoint>>
       \/ where = "checkpoint" /\ checkpoint' = Torn /\ UNCHANGED saved
       \/ where \in {"save", "final"} /\ saved' = Torn /\ UNCHANGED checkpoint
    /\ where' = "killed"
    /\ lost' = lost \union {e \in Entries : data[e] > Held(saved')[e]}
    /\ UNCHANGED <<placeVars, memoryVars, starts, made, repeated>>

StartAgain ==
    /\ where \in {"done", "killed"}
    /\ starts < MaxStarts /\ starts' = starts + 1
    /\ where' = "start"
    /\ UNCHANGED <<placeVars, memoryVars, saved, checkpoint, errors, noteVars>>

CodeInit ==
    /\ where = "start"
    /\ position = [table \in Tables |-> 0] /\ current = "train"
    /\ start = [row |-> 0, lang |-> 0]
    /\ turn = "train" /\ index = 0 /\ lang = 0
    /\ data = [e \in Entries |-> 0] /\ unsaved = 0
    /\ saved = Absent /\ checkpoint = Absent
    /\ starts = 1 /\ errors = 0
    /\ lost = {} /\ made = {} /\ repeated = 0

CodeNext ==
    \/ Load \/ NextBatch \/ BeginRow \/ EndBatch \/ Generate
    \/ save_checkpoint \/ save_data \/ SaveAll \/ RemoveCheckpoint
    \/ Crash \/ StartAgain

CodeSpec == CodeInit /\ [][CodeNext]_codeVars

(***************************************************************************)
(* Properties.                                                             *)
(***************************************************************************)
Places == [kind : {"json"}, table : Tables, row : Nat, lang : 0 .. Languages - 1, position : [Tables -> Nat]]

CodeTypeOK ==
    /\ where \in {"start", "batch", "row", "entry", "checkpoint", "save", "final", "remove", "done", "killed"}
    /\ position \in [Tables -> Nat] /\ current \in Tables /\ turn \in Tables
    /\ start \in [row : Nat, lang : 0 .. Languages - 1]
    /\ index \in Nat /\ lang \in 0 .. Languages - 1
    /\ data \in [Entries -> Nat] /\ unsaved \in Nat
    /\ saved \in {Absent, Torn} \union [kind : {"json"}, entries : [Entries -> Nat]]
    /\ checkpoint \in {Absent, Torn} \union Places
    /\ starts \in 1..MaxStarts /\ errors \in 0..MaxErrors
    /\ lost \subseteq Entries /\ made \subseteq Entries /\ repeated \in Nat

\* A start that reads a checkpoint makes again at most the entries of a batch of each
\* table, and one for each earlier start, which was killed before that entry was noted.
\* (The checkpoint has the positions of the two tables at the begin of their batches, and
\* the row and language of the last entry only; a start begins with the table "train",
\* so that it can be killed with the batch of the other table still to be repeated.)
AResumeRepeatsAtMostABatchOfEachTable == repeated <= 2 * BATCH_SIZE * Languages + starts - 1

\* When all is done, an entry is in the file, or its row raised, or it was in no file
\* at a crash, or a start could not read the file that it was in (which then writes over
\* it); the rows of the others, which a start that resumed inside a row left out, are
\* fewer than the errors.  (start_language_index is reset by a row that succeeds and
\* not by one that raises.)
FewRowsAreSkippedInSilence ==
    where = "done" =>
        LET silent == Entries \ (Kept(saved) \union lost) IN
        silent # {} => Cardinality({<<e[1], e[2]>> : e \in silent}) < errors
=============================================================================
