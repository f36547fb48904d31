------------------------------ MODULE CorpusFile ------------------------------
(***************************************************************************)
(* extractText/tokenizeDataSets.py: the sections collect the texts of      *)
(* their datasets in memory, and at the end the program merges them into   *)
(* the corpus, one JSON file: it writes the old and the new texts to a     *)
(* temporary file that replaces the corpus, or writes the corpus itself    *)
(* when there is none.                                                     *)
(***************************************************************************)
EXTENDS Integers, Sequences, FiniteSets

CONSTANTS
    Loadable,    \* the lists of sections, records of CorpusSections, whose datasets load
    Items,       \* items of each dataset
    Unit,        \* items that one item of the model stands for
    MaxBuilds,   \* bound: how often the program is started
    MaxFailures  \* bound: errors and crashes together

\* A section whose items have several texts has no limit.
ASSUME SectionsAssumption ==
    \A list \in Loadable :
        /\ Len(list) \in Nat /\ DOMAIN list = 1 .. Len(list)
        /\ \A s \in DOMAIN list :
               /\ list[s].limit \in Nat /\ list[s].texts \in {1, 2} /\ list[s].passes \in BOOLEAN
               /\ list[s].texts > 1 => list[s].limit = 0

ASSUME CorpusAssumption ==
    /\ Items \in Nat /\ Unit \in Nat \ {0} /\ MaxBuilds \in Nat \ {0} /\ MaxFailures \in Nat

VARIABLES
    sections,      \* the sections that find their dataset, in the order of the program
    at,            \* where the program is
    section,       \* the number of the section
    seen, taken,   \* the items that it has seen, and whose text it has collected
    all_new_data,  \* the texts collected: section, item, and which of its texts
    corpus,        \* output_file: absent, broken, or the texts
    temp,          \* temp_file exists
    builds, failures

sectionVars == <<section, seen, taken, all_new_data>>
corpusVars == <<sections, at, sectionVars, corpus, temp, builds, failures>>

NoCorpus == [kind |-> "absent"]
Broken == [kind |-> "broken"]
Json(texts) == [kind |-> "json", texts |-> texts]

Failure == failures < MaxFailures /\ failures' = failures + 1
NoFailure == UNCHANGED failures

\* A limit in units of the model.
Scaled(limit) == IF limit < Unit THEN 1 ELSE limit \div Unit

\* The break at the top of the loop.
LimitReached(s, items, texts) ==
    /\ s.limit > 0
    /\ (IF s.counts = "seen" THEN items ELSE texts) >= Scaled(s.limit)

Here == sections[section]
More == at = "section" /\ section <= Len(sections) /\ seen < Items /\ ~LimitReached(Here, seen, taken)
Texts(first, last) == [t \in 1 .. (last - first + 1) |-> <<section, seen + 1, first + t - 1>>]

\* One turn of a section's loop: the texts of the item are collected; it is passed
\* over; or it raises, and what was collected of it before stays.
TakeItem ==
    /\ More
    /\ seen' = seen + 1
    /\ \/ /\ NoFailure
          /\ all_new_data' = all_new_data \o Texts(1, Here.texts)
          /\ taken' = taken + 1
       \/ /\ NoFailure /\ Here.passes
          /\ UNCHANGED <<all_new_data, taken>>
       \/ /\ Failure /\ Here.reads # {}
          /\ \E collected \in 0 .. Here.texts - 1 :
                 all_new_data' = all_new_data \o Texts(1, collected)
          /\ UNCHANGED taken
    /\ UNCHANGED <<sections, at, section, corpus, temp, builds>>

NextSection ==
    /\ section' = section + 1
    /\ seen' = 0 /\ taken' = 0
    /\ UNCHANGED <<sections, at, all_new_data, corpus, temp, builds>>

\* The dataset is at its end, or the limit is reached.
EndSection ==
    /\ at = "section" /\ section <= Len(sections) /\ ~More
    /\ NextSection /\ NoFailure

\* The stream raises: the section ends, and what it has collected stays.
SectionRaises ==
    /\ More
    /\ NextSection /\ Failure

\* The merge opens both files and reads the corpus; one that is not JSON raises, and
\* the temporary file is removed.
BeginMerge ==
    /\ at = "section" /\ section > Len(sections)
    /\ at' = CASE corpus.kind = "absent" -> "create"
               [] corpus.kind = "json" -> "merge"
               [] corpus.kind = "broken" -> "over"
    /\ temp' = (corpus.kind = "json" \/ (temp /\ corpus.kind = "absent"))
    /\ UNCHANGED <<sections, sectionVars, corpus, builds, failures>>

\* What the temporary file holds: after every old text there is a comma, after the
\* last one too when no text follows.
Merged ==
    IF all_new_data = <<>> /\ corpus.texts # <<>> THEN Broken ELSE Json(corpus.texts \o all_new_data)

\* A bug for Merge: the merge is written over the corpus itself.
Merge_InPlace ==
    /\ at = "merge"
    /\ at' = "over" /\ temp' = FALSE
    /\ \/ corpus' = Merged /\ NoFailure
       \/ corpus' = Broken /\ Failure
    /\ UNCHANGED <<sections, sectionVars, builds>>

\* os.replace; or an error of the merge, which leaves the corpus as it was.
Merge ==
    /\ at = "merge"
    /\ at' = "over" /\ temp' = FALSE
    /\ \/ corpus' = Merged /\ NoFailure
       \/ UNCHANGED corpus /\ Failure
    /\ UNCHANGED <<sections, sectionVars, builds>>

\* The first corpus is written in place; an error leaves what is written so far.
Create ==
    /\ at = "create"
    /\ at' = "over"
    /\ \/ corpus' = Json(all_new_data) /\ NoFailure
       \/ corpus' = Broken /\ Failure
    /\ UNCHANGED <<sections, sectionVars, temp, builds>>

\* The program is killed; the file that it was writing stays as it is.
Kill ==
    /\ at # "over" /\ Failure
    /\ at' = "over"
    /\ corpus' = IF at = "create" THEN Broken ELSE corpus
    /\ UNCHANGED <<sections, sectionVars, temp, builds>>

BuildAgain ==
    /\ at = "over"
    /\ builds < MaxBuilds /\ builds' = builds + 1
    /\ at' = "section" /\ section' = 1
    /\ sections' \in Loadable
    /\ seen' = 0 /\ taken' = 0 /\ all_new_data' = <<>>
    /\ UNCHANGED <<corpus, temp, failures>>

CorpusInit ==
    /\ sections \in Loadable
    /\ at = "section" /\ section = 1
    /\ seen = 0 /\ taken = 0 /\ all_new_data = <<>>
    /\ corpus = NoCorpus /\ temp = FALSE
    /\ builds = 1 /\ failures = 0

CorpusNext ==
    \/ TakeItem \/ EndSection \/ SectionRaises
    \/ BeginMerge \/ Merge \/ Create
    \/ Kill \/ BuildAgain

CorpusSpec == CorpusInit /\ [][CorpusNext]_corpusVars

(***************************************************************************)
(* Properties.                                                             *)
(***************************************************************************)
CollectedText == (Nat \ {0}) \X (Nat \ {0}) \X {1, 2}

CorpusTypeOK ==
    /\ sections \in Loadable
    /\ at \in {"section", "create", "merge", "over"}
    /\ section \in 1 .. Len(sections) + 1
    /\ seen \in 0..Items /\ taken \in 0..seen
    /\ all_new_data \in Seq(CollectedText)
    /\ corpus \in {NoCorpus, Broken} \union [kind : {"json"}, texts : Seq(CollectedText)]
    /\ temp \in BOOLEAN
    /\ builds \in 1..MaxBuilds /\ failures \in 0..MaxFailures

\* The items of a section of which a text is collected.
ItemsOf(s) == {all_new_data[t][2] : t \in {t \in DOMAIN all_new_data : all_new_data[t][1] = s}}

\* A corpus that can be read is only ever extended, by all that one run of the program
\* has collected, each section within its limit; it stops being JSON only by a run that
\* has collected nothing, whatever fails on the way.  (The merge into a temporary file
\* and its replacement, against killed programs and full disks.)
AMergeAppendsAllOrNothing ==
    [][corpus.kind = "json" /\ corpus' # corpus =>
        \/ /\ corpus'.kind = "json" /\ corpus'.texts = corpus.texts \o all_new_data
           /\ \A s \in DOMAIN sections :
                  sections[s].limit > 0 => Cardinality(ItemsOf(s)) <= Scaled(sections[s].limit)
        \/ corpus' = Broken /\ all_new_data = <<>> /\ corpus.texts # <<>>]_corpusVars
=============================================================================
