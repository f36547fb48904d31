---------------------------- MODULE MCTextPrograms ----------------------------
(***************************************************************************)
(* Three programs of extractText that an operator runs for themselves and  *)
(* that keep their work in files: the generation of code, the building of  *)
(* a corpus, and the training.  They share no file.                        *)
(***************************************************************************)
EXTENDS CodeGeneration, CorpusFile, CorpusSections, TrainingCheckpoint

VARIABLE program   \* the one that is looked at

\* Every section alone, those of the database and others of different kinds in a row,
\* and none.
MCLoadable ==
    {SubSeq(AllSections, s, s) : s \in DOMAIN AllSections}
    \union {SubSeq(AllSections, s, s + 1) : s \in {5, 8, 10, 19}} \union {<<>>}

Programs == {"code", "corpus", "training"}
vars == <<program, codeVars, corpusVars, trainVars>>

Init == program \in Programs /\ CodeInit /\ CorpusInit /\ TrainInit

Next ==
    /\ UNCHANGED program
    /\ \/ program = "code" /\ CodeNext /\ UNCHANGED <<corpusVars, trainVars>>
       \/ program = "corpus" /\ CorpusNext /\ UNCHANGED <<codeVars, trainVars>>
       \/ program = "training" /\ TrainNext /\ UNCHANGED <<codeVars, corpusVars>>

Spec == Init /\ [][Next]_vars
=============================================================================
