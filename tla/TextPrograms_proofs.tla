------------------------- MODULE TextPrograms_proofs -------------------------
(***************************************************************************)
(* Three programs of extractText that share nothing.                       *)
(*                                                                         *)
(* CorpusFile: what a merge may do to the corpus, for every list of        *)
(* sections, every number of items and every failure.  The invariant says  *)
(* that the corpus is read before it is replaced and created only when     *)
(* there is none, and that no section collects more items than it has      *)
(* counted.                                                                *)
(*                                                                         *)
(* TrainingCheckpoint: what a checkpoint says of its model, and by what it *)
(* is replaced, for every number of epochs, steps, runs and errors.  The   *)
(* invariant follows a run from the file that it loaded to the one it      *)
(* writes: the counters in memory agree with the updates of the weights,   *)
(* the weights are never behind those of the file, and after the first     *)
(* save of a run the loss to beat is the one of the file.                  *)
(*                                                                         *)
(* CodeGeneration: what a start repeats and what it leaves out, for all    *)
(* tables, batches, languages, starts and errors.  A row is passed in      *)
(* silence only if the one that began in its middle before it raised, or   *)
(* the program was killed; and what was made lies in the batches at the    *)
(* positions of the checkpoint, but for an entry of each earlier start.    *)
(***************************************************************************)
EXTENDS CodeGeneration, CorpusFile, TrainingCheckpoint, FiniteSetTheorems, FunctionTheorems, TLAPS

\* The branch of the merge is that of the corpus.
BranchIsRight ==
  /\ at = "merge" => corpus.kind = "json"
  /\ at = "create" => corpus.kind = "absent"

\* A section that has a limit has collected the texts of at most so many items.
WithinLimit(s) ==
  /\ IsFiniteSet(ItemsOf(s))
  /\ Cardinality(ItemsOf(s)) <= Scaled(sections[s].limit)
  /\ s = section => /\ Cardinality(ItemsOf(s)) <= taken
                    /\ (IF sections[s].counts = "seen" THEN seen ELSE taken) <= Scaled(sections[s].limit)
  /\ s > section => ItemsOf(s) = {}

LimitsHold == \A s \in DOMAIN sections : sections[s].limit > 0 => WithinLimit(s)

CorpusIInv == CorpusTypeOK /\ BranchIsRight /\ LimitsHold

LEMMA Lists ==
  ASSUME CorpusTypeOK
  PROVE  /\ Len(sections) \in Nat /\ DOMAIN sections = 1 .. Len(sections)
         /\ \A s \in DOMAIN sections :
              /\ sections[s].limit \in Nat /\ sections[s].texts \in {1, 2}
              /\ sections[s].texts > 1 => sections[s].limit = 0
BY SectionsAssumption DEF CorpusTypeOK

LEMMA Bounds ==
  Items \in Nat /\ Unit \in Nat \ {0} /\ MaxBuilds \in Nat \ {0} /\ MaxFailures \in Nat
BY CorpusAssumption

LEMMA ScaledType == ASSUME NEW n \in Nat PROVE Scaled(n) \in Nat
BY Bounds DEF Scaled

LEMMA SomeLimit ==
  ASSUME CorpusTypeOK, NEW s \in DOMAIN sections
  PROVE  s \in Nat /\ Scaled(sections[s].limit) \in Nat
<1>1. s \in 1 .. Len(sections) /\ Len(sections) \in Nat /\ sections[s].limit \in Nat
  BY Lists
<1>2. s \in Nat
  BY <1>1
<1>3. Scaled(sections[s].limit) \in Nat
  BY <1>1, ScaledType
<1> QED
  BY <1>2, <1>3

LEMMA FailureType ==
  ASSUME CorpusTypeOK, Failure \/ NoFailure
  PROVE  failures' \in 0..MaxFailures
BY Bounds DEF CorpusTypeOK, Failure, NoFailure

\* Nothing is collected, so that every limit holds.
LEMMA Nothing ==
  ASSUME NEW s, all_new_data = <<>>
  PROVE  ItemsOf(s) = {} /\ IsFiniteSet(ItemsOf(s)) /\ Cardinality(ItemsOf(s)) = 0
<1>1. ItemsOf(s) = {}
  BY DEF ItemsOf
<1> QED
  BY <1>1, FS_EmptySet

LEMMA InitCorpusIInv == CorpusInit => CorpusIInv
<1> SUFFICES ASSUME CorpusInit PROVE CorpusIInv
  OBVIOUS
<1>1. sections \in Loadable /\ Len(sections) \in Nat
  BY SectionsAssumption DEF CorpusInit
<1>a. /\ 1 \in 1 .. Len(sections) + 1 /\ 0 \in 0..Items /\ 0 \in 0..0
      /\ 1 \in 1..MaxBuilds /\ 0 \in 0..MaxFailures /\ <<>> \in Seq(CollectedText)
  BY <1>1, Bounds
<1>2. CorpusTypeOK
  BY <1>1, <1>a DEF CorpusInit, CorpusTypeOK
<1>b. \A s : ItemsOf(s) = {} /\ IsFiniteSet(ItemsOf(s)) /\ Cardinality(ItemsOf(s)) = 0
  BY Nothing DEF CorpusInit
<1>c. \A s \in DOMAIN sections : Scaled(sections[s].limit) \in Nat
  BY <1>2, SomeLimit
<1>3. LimitsHold
  BY <1>b, <1>c DEF CorpusInit, LimitsHold, WithinLimit
<1> QED
  BY <1>2, <1>3 DEF CorpusInit, CorpusIInv, BranchIsRight

\* The texts of an item are appended: they are all of the section and the item at hand.
LEMMA Appending ==
  ASSUME CorpusTypeOK, NEW k \in 0..2, all_new_data' = all_new_data \o Texts(1, k)
  PROVE  /\ all_new_data' \in Seq(CollectedText)
         /\ \A t \in DOMAIN all_new_data' :
              \/ t \in DOMAIN all_new_data /\ all_new_data'[t] = all_new_data[t]
              \/ k > 0 /\ all_new_data'[t][1] = section /\ all_new_data'[t][2] = seen + 1
<1>1. /\ all_new_data \in Seq(CollectedText) /\ section \in Nat \ {0} /\ seen \in Nat
  BY Bounds, Lists DEF CorpusTypeOK
<1>2. Texts(1, k) = [t \in 1..k |-> <<section, seen + 1, 1 + t - 1>>]
  BY DEF Texts
<1>3. \A t \in 1..k : <<section, seen + 1, 1 + t - 1>> \in CollectedText
  BY <1>1 DEF CollectedText
<1>4. Texts(1, k) \in Seq(CollectedText) /\ Len(Texts(1, k)) = k
  BY <1>2, <1>3
<1>5. all_new_data' \in Seq(CollectedText)
  BY <1>1, <1>4
<1>6. ASSUME NEW t \in DOMAIN all_new_data', t \notin DOMAIN all_new_data
      PROVE  /\ k > 0 /\ all_new_data'[t] = Texts(1, k)[t - Len(all_new_data)]
             /\ t - Len(all_new_data) \in 1..k
  BY <1>1, <1>4, <1>6
<1>7. \A t \in DOMAIN all_new_data : all_new_data'[t] = all_new_data[t]
  BY <1>1, <1>4
<1>8. \A j \in 1..k : Texts(1, k)[j][1] = section /\ Texts(1, k)[j][2] = seen + 1
  BY <1>2
<1> QED
  BY <1>5, <1>6, <1>7, <1>8

LEMMA ItemsGrow ==
  ASSUME CorpusTypeOK, NEW k \in 0..2, all_new_data' = all_new_data \o Texts(1, k), NEW s
  PROVE  ItemsOf(s)' \subseteq ItemsOf(s) \cup (IF s = section /\ k > 0 THEN {seen + 1} ELSE {})
<1>1. \A t \in DOMAIN all_new_data' :
        \/ t \in DOMAIN all_new_data /\ all_new_data'[t] = all_new_data[t]
        \/ k > 0 /\ all_new_data'[t][1] = section /\ all_new_data'[t][2] = seen + 1
  BY Appending
<1> QED
  BY <1>1 DEF ItemsOf

LEMMA AtMostOneMore ==
  ASSUME NEW S, NEW T, NEW x, IsFiniteSet(S), T \subseteq S \cup {x}
  PROVE  IsFiniteSet(T) /\ Cardinality(T) \in Nat /\ Cardinality(S) \in Nat
         /\ Cardinality(T) <= Cardinality(S) + 1
<1>1. IsFiniteSet(S \cup {x}) /\ Cardinality(S \cup {x}) \in Nat /\ Cardinality(S) \in Nat
  BY FS_AddElement, FS_CardinalityType
<1>2. Cardinality(S \cup {x}) <= Cardinality(S) + 1
  BY <1>1, FS_AddElement
<1>3. IsFiniteSet(T) /\ Cardinality(T) <= Cardinality(S \cup {x})
  BY <1>1, FS_Subset
<1> QED
  BY <1>1, <1>2, <1>3, FS_CardinalityType

LEMMA NoMore ==
  ASSUME NEW S, NEW T, IsFiniteSet(S), T \subseteq S
  PROVE  IsFiniteSet(T) /\ Cardinality(T) \in Nat /\ Cardinality(S) \in Nat
         /\ Cardinality(T) <= Cardinality(S)
BY FS_Subset, FS_CardinalityType

LEMMA TakeItemStep == ASSUME CorpusIInv, TakeItem PROVE CorpusIInv'
<1>a. CorpusTypeOK
  BY DEF CorpusIInv
<1>b. /\ at = "section" /\ section \in DOMAIN sections /\ seen < Items
      /\ ~LimitReached(sections[section], seen, taken)
      /\ seen' = seen + 1 /\ UNCHANGED <<sections, at, section, corpus, temp, builds>>
  BY <1>a, Lists DEF TakeItem, More, Here, CorpusTypeOK
<1>c. /\ section \in Nat /\ seen \in 0..Items /\ taken \in 0..seen /\ seen \in Nat /\ taken \in Nat
  BY <1>a, Lists, Bounds DEF CorpusTypeOK
<1>d. /\ failures' \in 0..MaxFailures
  BY <1>a, FailureType DEF TakeItem
<1>e. PICK k \in 0..2 :
        /\ all_new_data' = all_new_data \o Texts(1, k)
        /\ taken' \in {taken, taken + 1}
        /\ sections[section].texts = 1 => taken' = taken + k
  <2>1. sections[section].texts \in {1, 2}
    BY <1>a, <1>b, Lists
  <2> DEFINE P(k) == /\ all_new_data' = all_new_data \o Texts(1, k)
                     /\ taken' \in {taken, taken + 1}
                     /\ sections[section].texts = 1 => taken' = taken + k
  <2> SUFFICES \E k \in 0..2 : P(k)
    OBVIOUS
  <2>2. CASE all_new_data' = all_new_data \o Texts(1, Here.texts) /\ taken' = taken + 1
    <3>1. sections[section].texts \in 0..2 /\ P(sections[section].texts)
      BY <2>1, <2>2 DEF Here
    <3> QED
      BY <3>1
  <2>3. CASE UNCHANGED <<all_new_data, taken>>
    <3>1. Texts(1, 0) = <<>>
      BY DEF Texts
    <3>2. all_new_data \o <<>> = all_new_data
      BY <1>a DEF CorpusTypeOK
    <3>a. all_new_data' = all_new_data \o Texts(1, 0)
      BY <2>3, <3>1, <3>2, Zenon
    <3>b. taken' = taken /\ taken' = taken + 0
      BY <2>3, <1>c
    <3>3. P(0)
      BY <3>a, <3>b
    <3> QED
      BY <3>3
  <2>4. CASE taken' = taken /\ \E c \in 0 .. Here.texts - 1 : all_new_data' = all_new_data \o Texts(1, c)
    <3>1. PICK c \in 0 .. Here.texts - 1 : all_new_data' = all_new_data \o Texts(1, c)
      BY <2>4
    <3>2. c \in 0..2 /\ (sections[section].texts = 1 => c = 0)
      BY <2>1, <3>1 DEF Here
    <3>3. P(c)
      BY <2>4, <3>1, <3>2, <1>c
    <3> QED
      BY <3>2, <3>3
  <2> QED
    BY <2>2, <2>3, <2>4 DEF TakeItem
<1>1. CorpusTypeOK'
  <2>1. all_new_data' \in Seq(CollectedText)
    BY <1>a, <1>e, Appending
  <2>2. seen' \in 0..Items /\ taken' \in 0..seen'
    BY <1>b, <1>c, <1>e, Bounds
  <2> QED
    BY <1>a, <1>b, <1>d, <2>1, <2>2 DEF CorpusTypeOK
<1>2. LimitsHold'
  <2> SUFFICES ASSUME NEW s \in DOMAIN sections, sections[s].limit > 0 PROVE WithinLimit(s)'
    BY <1>b DEF LimitsHold
  <2>1. WithinLimit(s) /\ IsFiniteSet(ItemsOf(s))
    BY DEF CorpusIInv, LimitsHold, WithinLimit
  <2>2. /\ sections[s].texts = 1 /\ Scaled(sections[s].limit) \in Nat /\ s \in Nat
    BY <1>a, Lists, SomeLimit
  <2>3. ItemsOf(s)' \subseteq ItemsOf(s) \cup (IF s = section /\ k > 0 THEN {seen + 1} ELSE {})
    BY <1>a, <1>e, ItemsGrow
  <2>4. CASE s # section \/ k = 0
    <3>1. ItemsOf(s)' \subseteq ItemsOf(s)
      BY <2>3, <2>4
    <3>2. /\ IsFiniteSet(ItemsOf(s)') /\ Cardinality(ItemsOf(s)') <= Cardinality(ItemsOf(s))
          /\ Cardinality(ItemsOf(s)') \in Nat /\ Cardinality(ItemsOf(s)) \in Nat
      BY <2>1, <3>1, NoMore
    <3>3. s = section => taken' = taken /\ seen' = seen + 1
      BY <1>b, <1>c, <1>e, <2>2, <2>4
    <3>4. s = section => (IF sections[s].counts = "seen" THEN seen' ELSE taken') <= Scaled(sections[s].limit)
      BY <1>b, <1>c, <2>1, <2>2, <3>3 DEF WithinLimit, LimitReached
    <3> QED
      BY <1>b, <1>c, <2>1, <2>2, <3>1, <3>2, <3>3, <3>4 DEF WithinLimit
  <2>5. CASE s = section /\ k > 0
    <3>1. ItemsOf(s)' \subseteq ItemsOf(s) \cup {seen + 1}
      BY <2>3, <2>5
    <3>2. /\ IsFiniteSet(ItemsOf(s)') /\ Cardinality(ItemsOf(s)') <= Cardinality(ItemsOf(s)) + 1
          /\ Cardinality(ItemsOf(s)') \in Nat /\ Cardinality(ItemsOf(s)) \in Nat
      BY <2>1, <3>1, AtMostOneMore
    <3>3. taken' = taken + 1 /\ seen' = seen + 1
      BY <1>b, <1>c, <1>e, <2>2, <2>5
    <3>4. (IF sections[s].counts = "seen" THEN seen ELSE taken) < Scaled(sections[s].limit)
      BY <1>b, <1>c, <2>2, <2>5 DEF LimitReached
    <3>5. /\ (IF sections[s].counts = "seen" THEN seen' ELSE taken') <= Scaled(sections[s].limit)
          /\ taken' <= Scaled(sections[s].limit)
      BY <1>c, <2>2, <3>3, <3>4
    <3>6. Cardinality(ItemsOf(s)') <= taken'
      BY <1>c, <2>1, <2>5, <3>2, <3>3 DEF WithinLimit
    <3> QED
      BY <1>b, <1>c, <2>2, <2>5, <3>2, <3>3, <3>5, <3>6 DEF WithinLimit
  <2> QED
    BY <2>4, <2>5
<1>3. BranchIsRight'
  BY <1>b DEF BranchIsRight
<1> QED
  BY <1>1, <1>2, <1>3 DEF CorpusIInv

LEMMA NextSectionStep ==
  ASSUME CorpusIInv, at = "section", section <= Len(sections), NextSection,
         failures' \in 0..MaxFailures
  PROVE  CorpusIInv'
<1>a. CorpusTypeOK
  BY DEF CorpusIInv
<1>b. section \in Nat \ {0} /\ Len(sections) \in Nat /\ section + 1 \in 1 .. Len(sections) + 1
  BY <1>a, Lists DEF CorpusTypeOK
<1>1. CorpusTypeOK'
  BY <1>a, <1>b, Bounds DEF NextSection, CorpusTypeOK
<1>2. LimitsHold'
  <2> SUFFICES ASSUME NEW s \in DOMAIN sections, sections[s].limit > 0 PROVE WithinLimit(s)'
    BY DEF LimitsHold, NextSection
  <2>1. WithinLimit(s) /\ ItemsOf(s)' = ItemsOf(s)
    BY DEF CorpusIInv, LimitsHold, NextSection, ItemsOf
  <2>2. s \in Nat /\ Scaled(sections[s].limit) \in Nat /\ sections' = sections
        /\ section' = section + 1 /\ seen' = 0 /\ taken' = 0
    BY <1>a, SomeLimit DEF NextSection
  <2>3. s > section => Cardinality(ItemsOf(s)) = 0
    BY <2>1, FS_EmptySet DEF WithinLimit
  <2> QED
    BY <1>b, <2>1, <2>2, <2>3 DEF WithinLimit
<1> QED
  BY <1>1, <1>2 DEF CorpusIInv, NextSection, BranchIsRight

\* A step that leaves the sections and what they have collected alone.
LEMMA OtherStep ==
  ASSUME CorpusIInv, UNCHANGED <<sections, sectionVars>>, CorpusTypeOK', BranchIsRight'
  PROVE  CorpusIInv'
<1>1. \A s : ItemsOf(s)' = ItemsOf(s)
  BY DEF ItemsOf, sectionVars
<1>2. LimitsHold'
  BY <1>1 DEF CorpusIInv, LimitsHold, WithinLimit, sectionVars
<1> QED
  BY <1>2 DEF CorpusIInv

LEMMA CorpusValues ==
  ASSUME CorpusTypeOK
  PROVE  /\ corpus.kind \in {"absent", "broken", "json"}
         /\ corpus.kind = "json" => corpus.texts \in Seq(CollectedText) /\ corpus = Json(corpus.texts)
         /\ corpus.kind = "absent" => corpus = NoCorpus
         /\ Broken.kind = "broken"
BY DEF CorpusTypeOK, NoCorpus, Broken, Json

LEMMA BeginMergeStep == ASSUME CorpusIInv, BeginMerge PROVE CorpusIInv'
<1>1. at' = CASE corpus.kind = "absent" -> "create"
              [] corpus.kind = "json" -> "merge"
              [] corpus.kind = "broken" -> "over"
  BY DEF BeginMerge
<1>2. corpus' = corpus /\ corpus.kind \in {"absent", "broken", "json"}
  BY CorpusValues DEF BeginMerge, CorpusIInv
<1>3. at' \in {"section", "create", "merge", "over"} /\ BranchIsRight'
  BY <1>1, <1>2 DEF BranchIsRight
<1>4. temp' \in BOOLEAN
  BY DEF BeginMerge
<1>5. CorpusTypeOK'
  BY <1>3, <1>4 DEF BeginMerge, CorpusIInv, CorpusTypeOK, sectionVars
<1> QED
  BY <1>3, <1>5, OtherStep DEF BeginMerge

LEMMA MergedType ==
  ASSUME CorpusTypeOK, corpus.kind = "json"
  PROVE  Merged \in {NoCorpus, Broken} \union [kind : {"json"}, texts : Seq(CollectedText)]
<1>1. corpus.texts \o all_new_data \in Seq(CollectedText)
  BY CorpusValues DEF CorpusTypeOK
<1> QED
  BY <1>1 DEF Merged, Json

LEMMA MergeStep == ASSUME CorpusIInv, Merge PROVE CorpusIInv'
<1>1. corpus.kind = "json" /\ CorpusTypeOK
  BY DEF Merge, CorpusIInv, BranchIsRight
<1>2. corpus' \in {NoCorpus, Broken} \union [kind : {"json"}, texts : Seq(CollectedText)]
  BY <1>1, MergedType DEF Merge, CorpusTypeOK
<1>3. failures' \in 0..MaxFailures
  BY <1>1, FailureType DEF Merge
<1>4. CorpusTypeOK' /\ BranchIsRight'
  BY <1>1, <1>2, <1>3 DEF Merge, CorpusTypeOK, BranchIsRight, sectionVars
<1> QED
  BY <1>4, OtherStep DEF Merge

LEMMA CreateStep == ASSUME CorpusIInv, Create PROVE CorpusIInv'
<1>1. CorpusTypeOK
  BY DEF CorpusIInv
<1>2. corpus' \in {NoCorpus, Broken} \union [kind : {"json"}, texts : Seq(CollectedText)]
  BY <1>1 DEF Create, CorpusTypeOK, Json
<1>3. failures' \in 0..MaxFailures
  BY <1>1, FailureType DEF Create
<1>4. CorpusTypeOK' /\ BranchIsRight'
  BY <1>1, <1>2, <1>3 DEF Create, CorpusTypeOK, BranchIsRight, sectionVars
<1> QED
  BY <1>4, OtherStep DEF Create

LEMMA KillStep == ASSUME CorpusIInv, Kill PROVE CorpusIInv'
<1>1. CorpusTypeOK
  BY DEF CorpusIInv
<1>2. failures' \in 0..MaxFailures
  BY <1>1, FailureType DEF Kill
<1>3. CorpusTypeOK' /\ BranchIsRight'
  BY <1>1, <1>2 DEF Kill, CorpusTypeOK, BranchIsRight, sectionVars
<1> QED
  BY <1>3, OtherStep DEF Kill

LEMMA BuildAgainStep == ASSUME CorpusIInv, BuildAgain PROVE CorpusIInv'
<1>a. CorpusTypeOK
  BY DEF CorpusIInv
<1>b. sections' \in Loadable /\ Len(sections') \in Nat
  BY SectionsAssumption DEF BuildAgain
<1>1. CorpusTypeOK'
  BY <1>a, <1>b, Bounds DEF BuildAgain, CorpusTypeOK
<1>2. ASSUME NEW s \in DOMAIN sections' PROVE Scaled(sections'[s].limit) \in Nat
  <2>1. sections'[s].limit \in Nat
    BY <1>2, <1>b, SectionsAssumption
  <2> QED
    BY <2>1, ScaledType
<1>3. \A s : ItemsOf(s)' = {} /\ IsFiniteSet({}) /\ Cardinality({}) = 0
  BY FS_EmptySet DEF BuildAgain, ItemsOf
<1>4. LimitsHold'
  <2> SUFFICES ASSUME NEW s \in DOMAIN sections', sections'[s].limit > 0 PROVE WithinLimit(s)'
    BY DEF LimitsHold
  <2>1. Scaled(sections'[s].limit) \in Nat /\ taken' = 0 /\ seen' = 0
    BY <1>2 DEF BuildAgain
  <2>2. Scaled(sections[s].limit)' = Scaled(sections'[s].limit)
    BY DEF Scaled
  <2> QED
    BY <1>3, <2>1, <2>2 DEF WithinLimit
<1> QED
  BY <1>1, <1>4 DEF CorpusIInv, BuildAgain, BranchIsRight

LEMMA NextCorpusIInv == CorpusIInv /\ [CorpusNext]_corpusVars => CorpusIInv'
<1> SUFFICES ASSUME CorpusIInv, [CorpusNext]_corpusVars PROVE CorpusIInv'
  OBVIOUS
<1>a. CorpusTypeOK
  BY DEF CorpusIInv
<1>1. CASE EndSection
  BY <1>1, <1>a, FailureType, NextSectionStep DEF EndSection
<1>2. CASE SectionRaises
  BY <1>2, <1>a, FailureType, NextSectionStep DEF SectionRaises, More
<1>3. CASE UNCHANGED corpusVars
  <2>1. CorpusTypeOK' /\ BranchIsRight'
    BY <1>3 DEF corpusVars, sectionVars, CorpusIInv, CorpusTypeOK, BranchIsRight
  <2> QED
    BY <1>3, <2>1, OtherStep DEF corpusVars
<1> QED
  BY <1>1, <1>2, <1>3, TakeItemStep, BeginMergeStep, MergeStep, CreateStep, KillStep,
     BuildAgainStep DEF CorpusNext

\* The sections and the corpus have their types, the merge is entered only with a corpus
\* that was read, and every section stays within its limit.
THEOREM CorpusInvariant == CorpusSpec => []CorpusIInv
BY InitCorpusIInv, NextCorpusIInv, PTL DEF CorpusSpec

LEMMA ReplacingStep ==
  ASSUME CorpusIInv, [CorpusNext]_corpusVars, corpus.kind = "json", corpus' # corpus
  PROVE  \/ /\ corpus'.kind = "json" /\ corpus'.texts = corpus.texts \o all_new_data
            /\ \A s \in DOMAIN sections :
                   sections[s].limit > 0 => Cardinality(ItemsOf(s)) <= Scaled(sections[s].limit)
         \/ corpus' = Broken /\ all_new_data = <<>> /\ corpus.texts # <<>>
<1>1. Merge /\ corpus' = Merged
  BY DEF CorpusNext, TakeItem, EndSection, SectionRaises, NextSection, BeginMerge, Merge, Create,
     Kill, BuildAgain, corpusVars, CorpusIInv, BranchIsRight
<1>2. \A s \in DOMAIN sections :
        sections[s].limit > 0 => Cardinality(ItemsOf(s)) <= Scaled(sections[s].limit)
  BY DEF CorpusIInv, LimitsHold, WithinLimit
<1> QED
  BY <1>1, <1>2 DEF Merged, Json

\* The merge appends all that was collected, within the limits, or leaves the corpus as it
\* was; it breaks it only when there is nothing to append.
THEOREM MergesAppend == CorpusSpec => AMergeAppendsAllOrNothing
<1>1. CorpusIInv /\ [CorpusNext]_corpusVars =>
        [corpus.kind = "json" /\ corpus' # corpus =>
          \/ /\ corpus'.kind = "json" /\ corpus'.texts = corpus.texts \o all_new_data
             /\ \A s \in DOMAIN sections :
                    sections[s].limit > 0 => Cardinality(ItemsOf(s)) <= Scaled(sections[s].limit)
          \/ corpus' = Broken /\ all_new_data = <<>> /\ corpus.texts # <<>>]_corpusVars
  BY ReplacingStep
<1> QED
  BY <1>1, CorpusInvariant, PTL DEF CorpusSpec, AMergeAppendsAllOrNothing

-----------------------------------------------------------------------------

Trains == {"epoch", "batch", "end", "save"}
InEpoch == {"batch", "end", "save"}

\* The totals and the schedule in memory are those of the weights in memory.
MemoryCounts ==
  /\ total_samples_trained = updates
  /\ doing = "optimizer" => IF epoch > 0 THEN file.kind = "model" /\ updates = file.updates
                                         ELSE updates = 0
  /\ doing \in Trains => IF fresh THEN schedule <= updates ELSE schedule = updates

\* Unless the run could not load the file, its weights have at least the training of the
\* file's, and more as soon as a batch has counted in the loss of the epoch.
NotBehindTheFile ==
  ~scratch /\ file.kind = "model" =>
    /\ doing \in Trains \union {"optimizer"} => file.updates <= updates
    /\ doing \in InEpoch => file.updates < updates \/ epoch_loss = 0

\* After its first save the run has the loss of the file to beat.
BestIsInTheFile ==
  saves =>
    /\ doing # "optimizer"
    /\ doing \in {"epoch", "batch", "end"} =>
         file.kind = "model" /\ best_loss = file.best_loss
    /\ doing = "save" => file.kind = "model" /\ best_loss < file.best_loss

InBounds ==
  /\ doing \in InEpoch => epoch < EPOCHS
  /\ doing = "save" => best_loss = epoch_loss

TrainIInv ==
  /\ TrainTypeOK /\ ACheckpointCountsItsTraining
  /\ MemoryCounts /\ NotBehindTheFile /\ BestIsInTheFile /\ InBounds

LEMMA Numbers ==
  EPOCHS \in Nat /\ steps_per_epoch \in Nat \ {0} /\ Losses \subseteq Nat \ {0}
  /\ MaxTrainings \in Nat \ {0} /\ MaxUpsets \in Nat
BY TrainingAssumption DEF TrainingAssumption

LEMMA InitTrainIInv == TrainInit => TrainIInv
<1> SUFFICES ASSUME TrainInit PROVE TrainIInv
  OBVIOUS
<1>1. 0 \in 0..EPOCHS /\ 0 \in 0..steps_per_epoch /\ 1 \in 1..MaxTrainings /\ 0 \in 0..MaxUpsets
  BY Numbers
<1>2. TrainTypeOK
  BY <1>1 DEF TrainInit, TrainTypeOK
<1>3. file.kind # "model"
  BY DEF TrainInit, NoFile
<1> QED
  BY <1>2, <1>3 DEF TrainInit, TrainIInv, ACheckpointCountsItsTraining, MemoryCounts,
     NotBehindTheFile, BestIsInTheFile, InBounds, Trains, InEpoch

\* What is in the file is a model of the type, or there is none.
LEMMA TheFile ==
  ASSUME TrainTypeOK
  PROVE  /\ file.kind = "model" =>
              /\ file \in Models /\ file.epoch \in Nat /\ file.epoch + 1 <= EPOCHS
              /\ file.updates \in Nat /\ file.schedule \in Nat /\ file.total_samples \in Nat
              /\ file.best_loss \in Nat /\ file.fresh \in BOOLEAN
         /\ NoFile.kind # "model" /\ CutFile.kind # "model"
BY Numbers DEF TrainTypeOK, Models, NoFile, CutFile

LEMMA UpsetType ==
  ASSUME TrainTypeOK, Upset \/ NoUpset
  PROVE  upsets' \in 0..MaxUpsets
BY Numbers DEF TrainTypeOK, Upset, NoUpset

LEMMA LoadModelStep == ASSUME TrainIInv, LoadModel PROVE TrainIInv'
<1> USE DEF TrainIInv
<1>1. upsets' \in 0..MaxUpsets
  BY UpsetType DEF LoadModel
<1>a. /\ epoch' \in 0..EPOCHS /\ updates' \in Nat /\ total_samples_trained' \in Nat
      /\ best_loss' = NoLoss /\ doing' = "optimizer" /\ saves' = FALSE
      /\ UNCHANGED <<step, epoch_loss, schedule, fresh, file, serving, trainings>>
  BY TheFile, Numbers DEF LoadModel
<1>b. scratch' \in BOOLEAN
  BY DEF LoadModel
<1>2. TrainTypeOK'
  BY <1>1, <1>a, <1>b DEF TrainTypeOK
<1>3. ACheckpointCountsItsTraining'
  BY DEF LoadModel, ACheckpointCountsItsTraining
<1>4. MemoryCounts'
  BY TheFile DEF LoadModel, MemoryCounts, ACheckpointCountsItsTraining, Trains
<1>5. ~scratch' /\ file.kind = "model" => updates' = file.updates
  BY DEF LoadModel
<1>6. NotBehindTheFile'
  BY <1>a, <1>5, TheFile DEF NotBehindTheFile, Trains, InEpoch
<1>7. BestIsInTheFile' /\ InBounds'
  BY <1>a DEF BestIsInTheFile, InBounds, InEpoch
<1> QED
  BY <1>2, <1>3, <1>4, <1>6, <1>7

LEMMA LoadOptimizerStep == ASSUME TrainIInv, LoadOptimizer PROVE TrainIInv'
<1> USE DEF TrainIInv
<1>1. upsets' \in 0..MaxUpsets
  BY UpsetType DEF LoadOptimizer
<1>2. epoch > 0 => file.kind = "model" /\ updates = file.updates
  BY DEF LoadOptimizer, MemoryCounts
<1>a. schedule' \in Nat /\ doing' = "epoch"
  BY <1>2, TheFile DEF LoadOptimizer
<1>b. fresh' \in BOOLEAN
  BY <1>2, TheFile DEF LoadOptimizer
<1>3. TrainTypeOK'
  BY <1>1, <1>a, <1>b DEF LoadOptimizer, TrainTypeOK, runVars
<1>4. ACheckpointCountsItsTraining'
  BY DEF LoadOptimizer, ACheckpointCountsItsTraining
<1>5. MemoryCounts'
  BY <1>2, TheFile DEF LoadOptimizer, MemoryCounts, ACheckpointCountsItsTraining, Trains, runVars, TrainTypeOK
<1>6. NotBehindTheFile' /\ BestIsInTheFile' /\ InBounds'
  BY DEF LoadOptimizer, NotBehindTheFile, BestIsInTheFile, InBounds, Trains, InEpoch, runVars
<1> QED
  BY <1>3, <1>4, <1>5, <1>6

LEMMA BeginEpochStep == ASSUME TrainIInv, BeginEpoch PROVE TrainIInv'
<1> USE DEF TrainIInv
<1>1. TrainTypeOK'
  BY Numbers DEF BeginEpoch, TrainTypeOK, modelVars
<1>2. ACheckpointCountsItsTraining'
  BY DEF BeginEpoch, ACheckpointCountsItsTraining
<1>3. MemoryCounts'
  BY DEF BeginEpoch, MemoryCounts, Trains, modelVars
<1>4. NotBehindTheFile' /\ BestIsInTheFile'
  BY DEF BeginEpoch, NotBehindTheFile, BestIsInTheFile, Trains, InEpoch, modelVars
<1>5. InBounds'
  BY DEF BeginEpoch, InBounds, InEpoch
<1> QED
  BY <1>1, <1>2, <1>3, <1>4, <1>5

LEMMA BatchStep == ASSUME TrainIInv, Batch PROVE TrainIInv'
<1> USE DEF TrainIInv
<1>1. \/ /\ updates' = updates + 1 /\ schedule' = schedule + 1
         /\ total_samples_trained' = total_samples_trained + 1
         /\ doing' = "batch" /\ step' \in 0..steps_per_epoch
         /\ epoch_loss' \in Nat
      \/ /\ UNCHANGED <<updates, schedule, total_samples_trained, epoch_loss>>
         /\ doing' \in {"batch", "end"} /\ step' \in 0..steps_per_epoch
  BY Numbers DEF Batch, TrainTypeOK
<1>2. doing = "batch" /\ UNCHANGED <<epoch, best_loss, fresh, file, serving, scratch, saves, trainings, upsets>>
  BY DEF Batch
<1>3. TrainTypeOK'
  BY <1>1, <1>2 DEF TrainTypeOK
<1>4. ACheckpointCountsItsTraining'
  BY <1>2 DEF ACheckpointCountsItsTraining
<1>5. MemoryCounts'
  BY <1>1, <1>2 DEF MemoryCounts, Trains, TrainTypeOK
<1>6. NotBehindTheFile'
  BY <1>1, <1>2, TheFile DEF NotBehindTheFile, Trains, InEpoch, TrainTypeOK
<1>7. BestIsInTheFile' /\ InBounds'
  BY <1>1, <1>2 DEF BestIsInTheFile, InBounds, InEpoch
<1> QED
  BY <1>3, <1>4, <1>5, <1>6, <1>7

LEMMA EndEpochStep == ASSUME TrainIInv, EndEpoch PROVE TrainIInv'
<1> USE DEF TrainIInv
<1>1. TrainTypeOK'
  BY Numbers DEF EndEpoch, TrainTypeOK, modelVars, InBounds, InEpoch
<1>2. ACheckpointCountsItsTraining'
  BY DEF EndEpoch, ACheckpointCountsItsTraining
<1>3. MemoryCounts'
  BY DEF EndEpoch, MemoryCounts, Trains, modelVars
<1>4. NotBehindTheFile'
  BY DEF EndEpoch, NotBehindTheFile, Trains, InEpoch, modelVars
<1>5. BestIsInTheFile'
  BY TheFile DEF EndEpoch, BestIsInTheFile, NoLoss, TrainTypeOK
<1>6. InBounds'
  BY DEF EndEpoch, InBounds, InEpoch
<1> QED
  BY <1>1, <1>2, <1>3, <1>4, <1>5, <1>6

LEMMA SaveStep == ASSUME TrainIInv, Save PROVE TrainIInv'
<1> USE DEF TrainIInv
<1>1. upsets' \in 0..MaxUpsets
  BY UpsetType DEF Save
<1>2. doing = "save" /\ epoch < EPOCHS /\ best_loss = epoch_loss
  BY DEF Save, InBounds, InEpoch
<1>3. Checkpoint \in Models
  BY <1>2, Numbers DEF Checkpoint, Models, TrainTypeOK
<1>4. CASE file' = Checkpoint /\ saves' = TRUE /\ doing' = "epoch" /\ epoch' = epoch + 1
  <2>1. UNCHANGED <<step, epoch_loss, best_loss, modelVars, serving, scratch, trainings>>
    BY DEF Save
  <2>2. TrainTypeOK'
    BY <1>1, <1>2, <1>3, <1>4, <2>1, Numbers DEF TrainTypeOK, modelVars
  <2>3. ACheckpointCountsItsTraining'
    BY <1>2, <1>4 DEF ACheckpointCountsItsTraining, Checkpoint, MemoryCounts, Trains
  <2>4. MemoryCounts'
    BY <1>2, <1>4, <2>1 DEF MemoryCounts, Trains, modelVars
  <2>5. NotBehindTheFile'
    BY <1>4, <2>1 DEF NotBehindTheFile, Checkpoint, Trains, InEpoch, modelVars, TrainTypeOK
  <2>6. BestIsInTheFile' /\ InBounds'
    BY <1>2, <1>4, <2>1 DEF BestIsInTheFile, InBounds, InEpoch, Checkpoint
  <2> QED
    BY <2>2, <2>3, <2>4, <2>5, <2>6
<1>5. CASE file' = CutFile /\ doing' = "killed" /\ UNCHANGED <<saves, epoch>>
  <2>1. UNCHANGED <<step, epoch_loss, best_loss, modelVars, serving, scratch, trainings>>
    BY DEF Save
  <2>2. TrainTypeOK'
    BY <1>1, <1>5, <2>1 DEF TrainTypeOK, modelVars
  <2>3. file'.kind # "model"
    BY <1>5, TheFile
  <2> QED
    BY <1>5, <2>1, <2>2, <2>3 DEF ACheckpointCountsItsTraining, MemoryCounts, NotBehindTheFile,
         BestIsInTheFile, InBounds, Trains, InEpoch, modelVars
<1> QED
  BY <1>4, <1>5 DEF Save

LEMMA KillTrainingStep == ASSUME TrainIInv, KillTraining PROVE TrainIInv'
<1> USE DEF TrainIInv
<1>1. upsets' \in 0..MaxUpsets
  BY UpsetType DEF KillTraining
<1>2. file' = file \/ (file' = CutFile /\ file'.kind # "model")
  BY TheFile DEF KillTraining
<1>3. TrainTypeOK'
  BY <1>1, <1>2 DEF KillTraining, TrainTypeOK, runVars, modelVars
<1> QED
  BY <1>2, <1>3 DEF KillTraining, ACheckpointCountsItsTraining, MemoryCounts, NotBehindTheFile,
       BestIsInTheFile, InBounds, Trains, InEpoch, runVars, modelVars

LEMMA TrainAgainStep == ASSUME TrainIInv, TrainAgain PROVE TrainIInv'
<1> USE DEF TrainIInv
<1>1. TrainTypeOK'
  BY Numbers DEF TrainAgain, TrainTypeOK, runVars, modelVars
<1> QED
  BY <1>1 DEF TrainAgain, ACheckpointCountsItsTraining, MemoryCounts, NotBehindTheFile,
       BestIsInTheFile, InBounds, Trains, InEpoch, runVars, modelVars

LEMMA SampleServerStep == ASSUME TrainIInv, SampleServer PROVE TrainIInv'
<1> USE DEF TrainIInv
<1>1. upsets' \in 0..MaxUpsets
  BY UpsetType DEF SampleServer
<1>2. TrainTypeOK'
  BY <1>1 DEF SampleServer, TrainTypeOK, runVars, modelVars
<1> QED
  BY <1>2 DEF SampleServer, ACheckpointCountsItsTraining, MemoryCounts, NotBehindTheFile,
       BestIsInTheFile, InBounds, Trains, InEpoch, runVars, modelVars

LEMMA NextTrainIInv == TrainIInv /\ [TrainNext]_trainVars => TrainIInv'
<1> SUFFICES ASSUME TrainIInv, [TrainNext]_trainVars PROVE TrainIInv'
  OBVIOUS
<1>1. CASE TrainNext
  BY <1>1, LoadModelStep, LoadOptimizerStep, BeginEpochStep, BatchStep, EndEpochStep, SaveStep,
     KillTrainingStep, TrainAgainStep, SampleServerStep DEF TrainNext
<1>2. CASE UNCHANGED trainVars
  BY <1>2 DEF trainVars, runVars, modelVars, TrainIInv, TrainTypeOK, ACheckpointCountsItsTraining,
     MemoryCounts, NotBehindTheFile, BestIsInTheFile, InBounds, Trains, InEpoch
<1> QED
  BY <1>1, <1>2

\* The training's counters, weights and file have their types, and the invariant above
\* holds, however often train() is started, fails or is killed.
THEOREM TrainingInvariant == TrainSpec => []TrainIInv
BY InitTrainIInv, NextTrainIInv, PTL DEF TrainSpec

\* train() writes a checkpoint whose totals and schedule are those of its weights, over
\* every chain of runs.
THEOREM CheckpointsCount == TrainSpec => []ACheckpointCountsItsTraining
<1>1. TrainIInv => ACheckpointCountsItsTraining
  BY DEF TrainIInv
<1> QED
  BY <1>1, TrainingInvariant, PTL

\* A step that replaces a model is a save.
LEMMA ReplacingModelStep ==
  ASSUME TrainIInv, [TrainNext]_trainVars, file.kind = "model", file' # file, file' # CutFile
  PROVE  /\ \/ file'.updates > file.updates
            \/ file'.updates = file.updates /\ epoch_loss = 0
            \/ scratch
         /\ file'.best_loss < file.best_loss \/ ~saves
<1>1. Save
  BY DEF TrainNext, LoadModel, LoadOptimizer, BeginEpoch, Batch, EndEpoch, KillTraining,
     TrainAgain, SampleServer, trainVars
<1>2. doing = "save" /\ file' = Checkpoint
  BY <1>1 DEF Save
<1>3. /\ file'.updates = updates /\ file'.best_loss = epoch_loss
      /\ updates \in Nat /\ file.updates \in Nat
  BY <1>2, TheFile DEF Checkpoint, TrainIInv, TrainTypeOK
<1>4. ~scratch => file.updates <= updates /\ (file.updates < updates \/ epoch_loss = 0)
  BY <1>2 DEF TrainIInv, NotBehindTheFile, Trains, InEpoch
<1>5. saves => epoch_loss < file.best_loss
  BY <1>2 DEF TrainIInv, BestIsInTheFile, InBounds
<1> QED
  BY <1>3, <1>4, <1>5

\* The save of train() replaces a model only by one with more training and a smaller loss,
\* with the exceptions that the property names.
THEOREM ModelsGetBetter == TrainSpec => AModelIsReplacedByABetterOne
<1>1. TrainIInv /\ [TrainNext]_trainVars =>
        [file.kind = "model" /\ file' # file /\ file' # CutFile =>
          /\ \/ file'.updates > file.updates
             \/ file'.updates = file.updates /\ epoch_loss = 0
             \/ scratch
          /\ file'.best_loss < file.best_loss \/ ~saves]_trainVars
  BY ReplacingModelStep
<1> QED
  BY <1>1, TrainingInvariant, PTL DEF TrainSpec, AModelIsReplacedByABetterOne

(***************************************************************************)
(* The generation of code.                                                 *)
(***************************************************************************)

\* A start is at work: what it has made is in memory.
Running == where \notin {"start", "done", "killed"}
InRow == where \in {"row", "entry", "checkpoint", "save"}
AtEntry == where \in {"entry", "checkpoint", "save"}

\* The place of the program in its batch, its row and its end.
PlaceIsRight ==
  /\ InRow => position[turn] < Rows(turn) /\ index \in position[turn] .. BatchEnd
  /\ AtEntry => index < BatchEnd
  /\ where \in {"checkpoint", "save"} => data[Entry] > 0
  /\ where \in {"final", "remove"} => \A table \in Tables : position[table] >= Rows(table)
  /\ where = "remove" => saved = [kind |-> "json", entries |-> data]
  /\ where = "done" => checkpoint = Absent
  /\ where = "killed" => errors > 0
  /\ where = "start" /\ checkpoint.kind = "json" => errors > 0
  /\ checkpoint.kind = "json" => checkpoint.position[checkpoint.table] <= checkpoint.row

LEMMA CodeNumbers ==
  /\ train_len \in Nat /\ leetcode_len \in Nat
  /\ Languages \in Nat \ {0} /\ SAVE_INTERVAL \in Nat \ {0} /\ BATCH_SIZE \in Nat \ {0}
  /\ MaxStarts \in Nat \ {0} /\ MaxErrors \in Nat
BY CodeAssumption

LEMMA TableFacts ==
  /\ "train" \in Tables /\ "leetcode" \in Tables
  /\ \A t \in Tables : Rows(t) \in Nat /\ Other(t) \in Tables /\ Other(t) # t
  /\ \A t \in Tables : \A u \in Tables : u = t \/ u = Other(t)
BY CodeNumbers DEF Tables, Rows, Other

LEMMA EntryFacts ==
  \A e : e \in Entries <=>
      /\ e = <<e[1], e[2], e[3]>> /\ e[1] \in Tables
      /\ e[2] \in 0 .. Rows(e[1]) - 1 /\ e[3] \in 0 .. Languages - 1
<1> SUFFICES ASSUME NEW e
             PROVE  e \in Entries <=>
                      /\ e = <<e[1], e[2], e[3]>> /\ e[1] \in Tables
                      /\ e[2] \in 0 .. Rows(e[1]) - 1 /\ e[3] \in 0 .. Languages - 1
  OBVIOUS
<1>1. ASSUME e \in Entries
      PROVE  /\ e = <<e[1], e[2], e[3]>> /\ e[1] \in Tables
             /\ e[2] \in 0 .. Rows(e[1]) - 1 /\ e[3] \in 0 .. Languages - 1
  <2>1. PICK t \in Tables : e \in {t} \X (0 .. Rows(t) - 1) \X (0 .. Languages - 1)
    BY <1>1 DEF Entries
  <2> QED
    BY <2>1
<1>2. ASSUME e = <<e[1], e[2], e[3]>>, e[1] \in Tables,
             e[2] \in 0 .. Rows(e[1]) - 1, e[3] \in 0 .. Languages - 1
      PROVE  e \in Entries
  <2>1. e \in {e[1]} \X (0 .. Rows(e[1]) - 1) \X (0 .. Languages - 1)
    BY <1>2
  <2> QED
    BY <1>2, <2>1 DEF Entries
<1> QED
  BY <1>1, <1>2

LEMMA EntryParts ==
  ASSUME NEW e \in Entries
  PROVE  /\ e[1] \in Tables /\ e[2] \in Nat /\ e[2] < Rows(e[1])
         /\ e[3] \in Nat /\ e[3] < Languages
<1>1. e[1] \in Tables /\ e[2] \in 0 .. Rows(e[1]) - 1 /\ e[3] \in 0 .. Languages - 1
  BY EntryFacts
<1> QED
  BY <1>1, TableFacts, CodeNumbers

\* The entry at hand is one of the entries.
LEMMA EntryAtHand ==
  ASSUME CodeTypeOK, PlaceIsRight, AtEntry
  PROVE  Entry \in Entries /\ index < Rows(turn)
<1>1. turn \in Tables /\ index \in Nat /\ lang \in 0 .. Languages - 1 /\ position[turn] \in Nat
  BY DEF CodeTypeOK
<1>2. index < BatchEnd /\ BatchEnd <= Rows(turn)
  BY <1>1, TableFacts, CodeNumbers DEF PlaceIsRight, BatchEnd
<1>3. index \in 0 .. Rows(turn) - 1
  BY <1>1, <1>2, TableFacts, CodeNumbers DEF BatchEnd
<1>4. Entry[1] = turn /\ Entry[2] = index /\ Entry[3] = lang /\ Entry = <<Entry[1], Entry[2], Entry[3]>>
  BY DEF Entry
<1> QED
  BY <1>1, <1>2, <1>3, <1>4, EntryFacts, TableFacts, CodeNumbers DEF BatchEnd

LEMMA NoNote == Torn.kind # "json" /\ Absent.kind # "json"
BY DEF Torn, Absent

LEMMA CheckpointFacts ==
  ASSUME CodeTypeOK, checkpoint.kind = "json"
  PROVE  /\ checkpoint \in Places /\ checkpoint.table \in Tables /\ checkpoint.row \in Nat
         /\ checkpoint.lang \in Nat /\ checkpoint.lang < Languages
         /\ checkpoint.position \in [Tables -> Nat]
<1>1. checkpoint \in {Absent, Torn} \cup Places
  BY DEF CodeTypeOK
<1>2. Absent.kind # "json" /\ Torn.kind # "json"
  BY DEF Absent, Torn
<1>3. checkpoint \in Places
  BY <1>1, <1>2
<1> QED
  BY <1>3, CodeNumbers DEF Places

LEMMA HeldType ==
  ASSUME NEW f, f \in {Absent, Torn} \cup [kind : {"json"}, entries : [Entries -> Nat]]
  PROVE  Held(f) \in [Entries -> Nat]
BY DEF Held, Absent, Torn

LEMMA ErrorType ==
  ASSUME CodeTypeOK, Error \/ NoError
  PROVE  errors' \in 0..MaxErrors
BY CodeNumbers DEF CodeTypeOK, Error, NoError

LEMMA InitPlace == CodeInit => CodeTypeOK /\ PlaceIsRight
<1> SUFFICES ASSUME CodeInit PROVE CodeTypeOK /\ PlaceIsRight
  OBVIOUS
<1> USE DEF CodeInit
<1>1. 0 \in 0 .. Languages - 1 /\ 1 \in 1..MaxStarts /\ 0 \in 0..MaxErrors
  BY CodeNumbers
<1>2. CodeTypeOK
  BY <1>1, TableFacts DEF CodeTypeOK
<1>3. PlaceIsRight
  BY DEF PlaceIsRight, InRow, AtEntry, Absent
<1> QED
  BY <1>2, <1>3

LEMMA EndOfBatch ==
  ASSUME CodeTypeOK
  PROVE  /\ turn \in Tables /\ position[turn] \in Nat /\ Rows(turn) \in Nat
         /\ BatchEnd \in Nat /\ BatchEnd <= Rows(turn) /\ BatchEnd <= position[turn] + BATCH_SIZE
         /\ position[turn] < Rows(turn) => position[turn] < BatchEnd
<1>1. turn \in Tables /\ position[turn] \in Nat /\ Rows(turn) \in Nat
  BY TableFacts DEF CodeTypeOK
<1> QED
  BY <1>1, CodeNumbers DEF BatchEnd

\* A start begins where the checkpoint says, or at the begin, with nothing made;
\* what it takes for lost is what the data file has and it does not read.
LEMMA LoadFacts ==
  ASSUME CodeTypeOK, Load
  PROVE  /\ (FromTheCheckpoint /\ checkpoint.kind = "json") \/ FromTheBegin
         /\ checkpoint.kind # "json" => FromTheBegin
         /\ \/ data' = Held(saved) /\ lost' = lost
            \/ data' = [e \in Entries |-> 0] /\ lost' = lost \cup Kept(saved)
         /\ data' \in [Entries -> Nat] /\ lost' \subseteq Entries
         /\ errors' \in 0 .. MaxErrors /\ errors \in Nat /\ errors <= errors'
<1> PICK dataRaises \in BOOLEAN, checkpointRaises \in BOOLEAN :
           /\ IF dataRaises \/ checkpointRaises THEN Error ELSE NoError
           /\ load_existing_data(dataRaises) /\ load_checkpoint(checkpointRaises)
  BY DEF Load
<1>1. errors' \in 0 .. MaxErrors /\ errors \in Nat /\ errors <= errors'
  BY CodeNumbers DEF Error, NoError, CodeTypeOK
<1>2. \/ data' = Held(saved) /\ lost' = lost
      \/ data' = [e \in Entries |-> 0] /\ lost' = lost \cup Kept(saved)
  BY DEF load_existing_data, Held, Absent
<1>3. data' \in [Entries -> Nat] /\ lost' \subseteq Entries
  <2>1. Held(saved) \in [Entries -> Nat] /\ Kept(saved) \subseteq Entries /\ lost \subseteq Entries
    BY HeldType DEF CodeTypeOK, Kept
  <2> QED
    BY <1>2, <2>1
<1> QED
  BY <1>1, <1>2, <1>3 DEF load_checkpoint

LEMMA LoadPlace == ASSUME CodeTypeOK, PlaceIsRight, Load PROVE CodeTypeOK' /\ PlaceIsRight'
<1> USE DEF Load
<1>1. /\ data' \in [Entries -> Nat] /\ unsaved' = 0 /\ turn' = "train" /\ where' = "batch"
      /\ UNCHANGED <<index, lang, saved, checkpoint, starts>>
      /\ lost' \subseteq Entries /\ errors' \in 0 .. MaxErrors
  BY LoadFacts
<1>2. /\ current' \in Tables /\ position' \in [Tables -> Nat]
      /\ start' \in [row : Nat, lang : 0 .. Languages - 1]
  <2>1. CASE FromTheBegin
    BY <2>1, TableFacts, CodeNumbers DEF FromTheBegin
  <2>2. CASE FromTheCheckpoint /\ checkpoint.kind = "json" /\ checkpoint.lang + 1 >= Languages
    <3>1. /\ current' = checkpoint.table /\ start' = [row |-> checkpoint.row + 1, lang |-> 0]
          /\ position' = [checkpoint.position EXCEPT ![checkpoint.table] = checkpoint.row + 1]
      BY <2>2 DEF FromTheCheckpoint
    <3> QED
      BY <3>1, <2>2, CheckpointFacts, CodeNumbers
  <2>3. CASE FromTheCheckpoint /\ checkpoint.kind = "json" /\ ~(checkpoint.lang + 1 >= Languages)
    <3>1. /\ current' = checkpoint.table /\ start' = [row |-> checkpoint.row, lang |-> checkpoint.lang + 1]
          /\ position' = checkpoint.position
      BY <2>3 DEF FromTheCheckpoint
    <3>2. checkpoint.lang + 1 \in 0 .. Languages - 1
      BY <2>3, CheckpointFacts, CodeNumbers
    <3> QED
      BY <3>1, <3>2, <2>3, CheckpointFacts
  <2> QED
    BY <2>1, <2>2, <2>3, LoadFacts
<1>3. made' \subseteq Entries /\ repeated' = 0
  BY LoadFacts DEF CodeTypeOK, FromTheBegin, FromTheCheckpoint
<1>4. CodeTypeOK'
  BY <1>1, <1>2, <1>3, TableFacts DEF CodeTypeOK
<1>5. PlaceIsRight'
  BY <1>1 DEF PlaceIsRight, InRow, AtEntry
<1> QED
  BY <1>4, <1>5

LEMMA NextBatchPlace == ASSUME CodeTypeOK, PlaceIsRight, NextBatch PROVE CodeTypeOK' /\ PlaceIsRight'
<1> USE DEF NextBatch
<1>0. UNCHANGED <<position, current, start, lang, data, unsaved, saved, checkpoint, starts, errors, lost, made, repeated>>
  BY DEF memoryVars, noteVars
<1>1. CASE position[turn] < Rows(turn) /\ index' = position[turn] /\ where' = "row" /\ UNCHANGED turn
  <2>1. CodeTypeOK'
    BY <1>0, <1>1, EndOfBatch DEF CodeTypeOK
  <2>2. BatchEnd' = BatchEnd
    BY <1>0, <1>1 DEF BatchEnd
  <2>3. PlaceIsRight'
    BY <1>0, <1>1, <2>2, EndOfBatch DEF PlaceIsRight, InRow, AtEntry
  <2> QED
    BY <2>1, <2>3
<1>2. CASE turn' = Other(turn) /\ UNCHANGED <<index, where>>
  <2>1. CodeTypeOK'
    BY <1>0, <1>2, TableFacts DEF CodeTypeOK
  <2>2. where' = "batch"
    BY <1>2
  <2> QED
    BY <1>0, <1>2, <2>1, <2>2 DEF PlaceIsRight, InRow, AtEntry
<1>3. CASE (\A table \in Tables : position[table] >= Rows(table)) /\ where' = "final" /\ UNCHANGED <<index, turn>>
  BY <1>0, <1>3 DEF CodeTypeOK, PlaceIsRight, InRow, AtEntry, Rows
<1> QED
  BY <1>1, <1>2, <1>3

LEMMA BeginRowPlace == ASSUME CodeTypeOK, PlaceIsRight, BeginRow PROVE CodeTypeOK' /\ PlaceIsRight'
<1> USE DEF BeginRow
<1>0. /\ UNCHANGED <<position, current, start, turn, index, data, unsaved, saved, checkpoint, starts, errors, lost, made, repeated>>
      /\ where = "row" /\ where' = "entry" /\ index < BatchEnd
  BY DEF memoryVars, noteVars
<1>1. lang' \in 0 .. Languages - 1
  BY CodeNumbers DEF CodeTypeOK
<1>2. CodeTypeOK'
  BY <1>0, <1>1 DEF CodeTypeOK
<1>3. BatchEnd' = BatchEnd /\ Rows(turn)' = Rows(turn)
  BY <1>0 DEF BatchEnd, Rows
<1>4. PlaceIsRight'
  BY <1>0, <1>3 DEF PlaceIsRight, InRow, AtEntry
<1> QED
  BY <1>2, <1>4

LEMMA EndBatchPlace == ASSUME CodeTypeOK, PlaceIsRight, EndBatch PROVE CodeTypeOK' /\ PlaceIsRight'
<1> USE DEF EndBatch
<1>0. UNCHANGED <<index, lang, data, unsaved, saved, checkpoint, starts, errors, lost, made, repeated>>
  BY DEF memoryVars, noteVars
<1>1. /\ position' = [position EXCEPT ![turn] = BatchEnd] /\ current' = Other(turn)
      /\ start' = [start EXCEPT !.row = position[Other(turn)]] /\ turn' = Other(turn) /\ where' = "batch"
  OBVIOUS
<1>2. /\ position' \in [Tables -> Nat] /\ current' \in Tables /\ turn' \in Tables
      /\ start' \in [row : Nat, lang : 0 .. Languages - 1]
  BY <1>1, EndOfBatch, TableFacts DEF CodeTypeOK
<1>3. CodeTypeOK'
  BY <1>0, <1>1, <1>2 DEF CodeTypeOK
<1>4. PlaceIsRight'
  BY <1>0, <1>1 DEF PlaceIsRight, InRow, AtEntry
<1> QED
  BY <1>3, <1>4

\* What a row that raises leaves as it is, and what it does not.
LEMMA Raising ==
  ASSUME CodeTypeOK, PlaceIsRight, AtEntry, Error, RowRaises
  PROVE  /\ where' = "row" /\ index' = index + 1 /\ errors' = errors + 1 /\ errors \in Nat
         /\ errors' \in 0..MaxErrors
         /\ UNCHANGED <<position, current, start, turn, lang>>
         /\ lost' \in SUBSET Entries
         /\ BatchEnd' = BatchEnd /\ Rows(turn)' = Rows(turn)
         /\ index' \in Nat /\ index' \in position[turn] .. BatchEnd /\ position[turn] < Rows(turn)
<1>1. InRow
  BY DEF InRow, AtEntry
<1>2. BatchEnd' = BatchEnd /\ Rows(turn)' = Rows(turn)
  BY DEF RowRaises, BatchEnd, Rows
<1>3. index \in Nat /\ index < BatchEnd /\ index \in position[turn] .. BatchEnd
  BY <1>1 DEF CodeTypeOK, PlaceIsRight
<1>4. lost' \in SUBSET Entries
  BY DEF RowRaises, CodeTypeOK
<1>5. index' \in Nat /\ index' \in position[turn] .. BatchEnd /\ position[turn] < Rows(turn)
  BY <1>1, <1>3, EndOfBatch DEF RowRaises, PlaceIsRight
<1>6. errors' \in 0..MaxErrors /\ errors' = errors + 1 /\ errors \in Nat
  BY CodeNumbers, ErrorType DEF Error, CodeTypeOK
<1> QED
  BY <1>2, <1>4, <1>5, <1>6 DEF RowRaises

LEMMA RaisingPlace ==
  ASSUME CodeTypeOK, PlaceIsRight, AtEntry, Error, RowRaises,
         UNCHANGED <<data, unsaved, starts, made, repeated>>,
         saved' \in {saved, Torn}, checkpoint' \in {checkpoint, Torn}
  PROVE  CodeTypeOK' /\ PlaceIsRight'
<1>1. CodeTypeOK'
  BY Raising DEF CodeTypeOK
<1>2. PlaceIsRight'
  BY Raising, NoNote DEF PlaceIsRight, InRow, AtEntry
<1> QED
  BY <1>1, <1>2

LEMMA GeneratePlace == ASSUME CodeTypeOK, PlaceIsRight, Generate PROVE CodeTypeOK' /\ PlaceIsRight'
<1>0. where = "entry" /\ AtEntry /\ InRow
  BY DEF Generate, AtEntry, InRow
<1>1. CASE /\ NoError /\ data' = [data EXCEPT ![Entry] = @ + 1] /\ unsaved' = unsaved + 1
           /\ where' = "checkpoint" /\ UNCHANGED <<placeVars, lost, saved, checkpoint, starts>>
           /\ made' = made \cup {Entry} /\ repeated' \in {repeated, repeated + 1}
  <2> USE <1>1 DEF placeVars
  <2>1. Entry \in Entries
    BY <1>0, EntryAtHand
  <2>2. CodeTypeOK'
    BY <2>1 DEF CodeTypeOK, NoError
  <2>3. BatchEnd' = BatchEnd /\ Rows(turn)' = Rows(turn) /\ Entry' = Entry
    BY DEF BatchEnd, Rows, Entry
  <2>4. data[Entry] \in Nat /\ data'[Entry] = data[Entry] + 1
    BY <2>1 DEF CodeTypeOK
  <2>5. PlaceIsRight'
    BY <1>0, <2>3, <2>4 DEF PlaceIsRight, InRow, AtEntry
  <2> QED
    BY <2>2, <2>5
<1>2. CASE Error /\ RowRaises /\ UNCHANGED <<memoryVars, made, repeated, saved, checkpoint, starts>>
  BY <1>0, <1>2, RaisingPlace DEF memoryVars
<1> QED
  BY <1>1, <1>2 DEF Generate

LEMMA PlaceType ==
  ASSUME CodeTypeOK, PlaceIsRight, AtEntry
  PROVE  Place \in Places /\ Place.kind = "json" /\ Place.position[Place.table] <= Place.row
<1>1. Place \in Places /\ Place.kind = "json"
  BY DEF CodeTypeOK, Place, Places
<1>2. Place.position[Place.table] = position[turn] /\ Place.row = index
  BY DEF Place
<1>3. position[turn] \in Nat /\ BatchEnd \in Nat /\ index \in position[turn] .. BatchEnd
  BY EndOfBatch DEF PlaceIsRight, AtEntry, InRow
<1> QED
  BY <1>1, <1>2, <1>3

LEMMA AdvancePlace ==
  ASSUME CodeTypeOK, PlaceIsRight, AtEntry, Advance, NoError,
         UNCHANGED <<position, current, turn, data, lost, starts, made, repeated>>,
         unsaved' \in Nat, checkpoint' \in {checkpoint, Place},
         saved' \in {saved} \cup [kind : {"json"}, entries : [Entries -> Nat]]
  PROVE  CodeTypeOK' /\ PlaceIsRight'
<1>1. /\ index \in Nat /\ index < BatchEnd /\ index \in position[turn] .. BatchEnd
      /\ lang \in 0 .. Languages - 1 /\ position[turn] < Rows(turn)
  BY DEF CodeTypeOK, PlaceIsRight, InRow, AtEntry
<1>2. /\ lang' \in 0 .. Languages - 1 /\ index' \in Nat
      /\ start' \in [row : Nat, lang : 0 .. Languages - 1]
      /\ where' \in {"entry", "row"} /\ (where' = "entry" => index' = index)
      /\ index' \in position[turn] .. BatchEnd
  BY <1>1, CodeNumbers, EndOfBatch DEF Advance, CodeTypeOK
<1>3. BatchEnd' = BatchEnd /\ Rows(turn)' = Rows(turn)
  BY DEF BatchEnd, Rows
<1>4. CodeTypeOK'
  BY <1>2, PlaceType DEF CodeTypeOK, NoError
<1>5. PlaceIsRight'
  BY <1>1, <1>2, <1>3, PlaceType DEF PlaceIsRight, InRow, AtEntry
<1> QED
  BY <1>4, <1>5

LEMMA CheckpointPlace == ASSUME CodeTypeOK, PlaceIsRight, save_checkpoint PROVE CodeTypeOK' /\ PlaceIsRight'
<1>0. /\ where = "checkpoint" /\ AtEntry /\ InRow /\ UNCHANGED <<data, unsaved, saved, starts, made, repeated>>
  BY DEF save_checkpoint, AtEntry, InRow, memoryVars
<1>1. CASE NoError /\ checkpoint' = Place /\ where' = "save" /\ UNCHANGED placeVars /\ UNCHANGED lost
  <2> USE <1>1 DEF placeVars
  <2>1. CodeTypeOK'
    BY <1>0, PlaceType DEF CodeTypeOK, NoError
  <2>2. BatchEnd' = BatchEnd /\ Rows(turn)' = Rows(turn) /\ Entry' = Entry
    BY DEF BatchEnd, Rows, Entry
  <2> QED
    BY <1>0, <2>1, <2>2, PlaceType DEF PlaceIsRight, InRow, AtEntry
<1>2. CASE NoError /\ checkpoint' = Place /\ Advance /\ UNCHANGED <<position, current, turn, lost>>
  BY <1>0, <1>2, AdvancePlace DEF CodeTypeOK
<1>3. CASE Error /\ RowRaises /\ checkpoint' = Torn
  BY <1>0, <1>3, RaisingPlace
<1> QED
  BY <1>1, <1>2, <1>3 DEF save_checkpoint

LEMMA DataPlace == ASSUME CodeTypeOK, PlaceIsRight, save_data PROVE CodeTypeOK' /\ PlaceIsRight'
<1>0. /\ where = "save" /\ AtEntry /\ InRow /\ UNCHANGED <<checkpoint, starts, made, repeated>>
  BY DEF save_data, AtEntry, InRow
<1>1. CASE /\ NoError /\ saved' = [kind |-> "json", entries |-> data] /\ unsaved' = 0 /\ Advance
           /\ UNCHANGED <<position, current, turn, data, lost>>
  <2>1. saved' \in [kind : {"json"}, entries : [Entries -> Nat]]
    BY <1>1 DEF CodeTypeOK
  <2> QED
    BY <1>0, <1>1, <2>1, AdvancePlace
<1>2. CASE Error /\ RowRaises /\ saved' = Torn /\ UNCHANGED memoryVars
  BY <1>0, <1>2, RaisingPlace DEF memoryVars
<1> QED
  BY <1>1, <1>2 DEF save_data

LEMMA SaveAllPlace == ASSUME CodeTypeOK, PlaceIsRight, SaveAll PROVE CodeTypeOK' /\ PlaceIsRight'
<1>0. where = "final" /\ UNCHANGED <<placeVars, memoryVars, checkpoint, starts, made, repeated>>
  BY DEF SaveAll
<1>1. CASE /\ NoError /\ saved' = [kind |-> "json", entries |-> data] /\ where' = "remove" /\ UNCHANGED lost
  <2>1. saved' \in [kind : {"json"}, entries : [Entries -> Nat]]
    BY <1>1 DEF CodeTypeOK
  <2>2. CodeTypeOK'
    BY <1>0, <1>1, <2>1 DEF CodeTypeOK, NoError, placeVars, memoryVars
  <2> QED
    BY <1>0, <1>1, <2>2 DEF PlaceIsRight, InRow, AtEntry, placeVars, memoryVars, Rows
<1>2. CASE /\ Error /\ saved' = Torn /\ where' = "killed"
           /\ lost' = lost \cup {e \in Entries : data[e] > 0}
  <2>1. errors' \in 0..MaxErrors /\ errors' > 0
    BY <1>2, ErrorType DEF Error, CodeTypeOK
  <2>2. CodeTypeOK'
    BY <1>0, <1>2, <2>1 DEF CodeTypeOK, placeVars, memoryVars
  <2> QED
    BY <1>0, <1>2, <2>1, <2>2 DEF PlaceIsRight, InRow, AtEntry
<1> QED
  BY <1>1, <1>2 DEF SaveAll

LEMMA RemovePlace == ASSUME CodeTypeOK, PlaceIsRight, RemoveCheckpoint PROVE CodeTypeOK' /\ PlaceIsRight'
<1> USE DEF RemoveCheckpoint, placeVars, memoryVars, noteVars
<1>1. CodeTypeOK'
  BY DEF CodeTypeOK
<1> QED
  BY <1>1, NoNote DEF PlaceIsRight, InRow, AtEntry

LEMMA CrashPlace == ASSUME CodeTypeOK, PlaceIsRight, Crash PROVE CodeTypeOK' /\ PlaceIsRight'
<1>0. /\ Error /\ where' = "killed" /\ UNCHANGED <<placeVars, memoryVars, starts, made, repeated>>
      /\ saved' \in {saved, Torn} /\ checkpoint' \in {checkpoint, Torn}
      /\ lost' = lost \cup {e \in Entries : data[e] > Held(saved')[e]}
  BY DEF Crash
<1>1. errors' \in 0..MaxErrors /\ errors' > 0
  BY <1>0, ErrorType DEF Error, CodeTypeOK
<1>2. CodeTypeOK'
  BY <1>0, <1>1 DEF CodeTypeOK, placeVars, memoryVars
<1> QED
  BY <1>0, <1>1, <1>2, NoNote DEF PlaceIsRight, InRow, AtEntry

LEMMA StartPlace == ASSUME CodeTypeOK, PlaceIsRight, StartAgain PROVE CodeTypeOK' /\ PlaceIsRight'
<1>0. /\ where \in {"done", "killed"} /\ where' = "start" /\ starts' = starts + 1 /\ starts < MaxStarts
      /\ UNCHANGED <<placeVars, memoryVars, saved, checkpoint, errors, noteVars>>
  BY DEF StartAgain
<1>1. starts' \in 1..MaxStarts
  BY <1>0, CodeNumbers DEF CodeTypeOK
<1>2. CodeTypeOK'
  BY <1>0, <1>1 DEF CodeTypeOK, placeVars, memoryVars, noteVars
<1>3. where = "done" => checkpoint.kind # "json"
  BY DEF PlaceIsRight, Absent
<1> QED
  BY <1>0, <1>2, <1>3 DEF PlaceIsRight, InRow, AtEntry

LEMMA StepPlace == ASSUME CodeTypeOK, PlaceIsRight, [CodeNext]_codeVars PROVE CodeTypeOK' /\ PlaceIsRight'
<1>1. CASE UNCHANGED codeVars
  BY <1>1 DEF codeVars, placeVars, memoryVars, noteVars, CodeTypeOK, PlaceIsRight, InRow, AtEntry,
              BatchEnd, Rows, Entry
<1> QED
  BY <1>1, LoadPlace, NextBatchPlace, BeginRowPlace, EndBatchPlace, GeneratePlace, CheckpointPlace, DataPlace,
     SaveAllPlace, RemovePlace, CrashPlace, StartPlace DEF CodeNext

\* The entries that are nowhere and not known to be lost.
Missing == IF Running THEN {e \in Entries : data[e] = 0} \ lost ELSE Entries \ (Kept(saved) \cup lost)

\* What this start has passed, and what the checkpoint says is passed.
Passed == {e \in Entries : \/ e[2] < position[e[1]]
                           \/ InRow /\ e[1] = turn /\ e[2] < index
                           \/ AtEntry /\ e[1] = turn /\ e[2] = index /\ e[3] < lang}
Noted == {e \in Entries : /\ checkpoint.kind = "json"
                          /\ \/ e[2] < checkpoint.position[e[1]]
                             \/ e[1] = checkpoint.table /\ e[2] < checkpoint.row
                             \/ e[1] = checkpoint.table /\ e[2] = checkpoint.row /\ e[3] <= checkpoint.lang}

\* What is left out of the row that begins with the language of the checkpoint.
LeftOut == {e \in Entries : e[1] = current /\ e[2] = start.row /\ e[3] < start.lang}

\* How many rows have an entry of X that is missing.
RowsOf(X) == {<<e[1], e[2]>> : e \in X}
Silence(X) == Cardinality(RowsOf(X \cap Missing))
Few(X) == Silence(X) > 0 => Silence(X) < errors

\* What is passed in silence, and what will be if a row still begins in its middle: each
\* such row is paid for by an error, that of the row which began so before it or the kill.
SilenceIsPaidFor ==
  /\ Few(Noted)
  /\ Running => Few(Passed)
  /\ where = "done" => Few(Entries)
  /\ Running /\ start.lang > 0 => Silence(Passed) < errors
  /\ where \in {"batch", "row"} /\ start.lang > 0 => Silence(Passed \cup LeftOut) < errors
  /\ where = "row" /\ start.lang > 0 /\ index > position[turn] => Silence(Passed) + 1 < errors

LEMMA RowsAreFinite ==
  ASSUME NEW X \in SUBSET Entries
  PROVE  /\ IsFiniteSet(RowsOf(X)) /\ Cardinality(RowsOf(X)) \in Nat
         /\ Cardinality(RowsOf(X)) = 0 <=> X = {}
<1> DEFINE all == Tables \X (0 .. train_len + leetcode_len)
<1>1. IsFiniteSet(Tables)
  <2>1. IsFiniteSet({"train"}) /\ IsFiniteSet({"leetcode"})
    BY FS_Singleton
  <2>2. Tables = {"train"} \cup {"leetcode"}
    BY DEF Tables
  <2> QED
    BY <2>1, <2>2, FS_Union
<1>2. IsFiniteSet(0 .. train_len + leetcode_len)
  BY FS_Interval, CodeNumbers
<1>3. IsFiniteSet(all)
  BY <1>1, <1>2, FS_Product
<1>4. \A e \in X : <<e[1], e[2]>> \in all
  <2> SUFFICES ASSUME NEW e \in X PROVE <<e[1], e[2]>> \in all
    OBVIOUS
  <2>1. e[1] \in Tables /\ e[2] \in Nat /\ e[2] < Rows(e[1])
    BY EntryParts
  <2>2. Rows(e[1]) <= train_len + leetcode_len
    BY <2>1, CodeNumbers DEF Rows
  <2> QED
    BY <2>1, <2>2, CodeNumbers, TableFacts
<1>5. RowsOf(X) \in SUBSET all
  BY <1>4 DEF RowsOf
<1>6. IsFiniteSet(RowsOf(X))
  BY <1>3, <1>5, FS_Subset
<1>7. RowsOf(X) = {} <=> X = {}
  BY DEF RowsOf
<1> QED
  BY <1>6, <1>7, FS_CardinalityType, FS_EmptySet

\* Fewer entries have fewer rows.
LEMMA FewerRows ==
  ASSUME NEW X, NEW Y \in SUBSET Entries, X \subseteq Y
  PROVE  /\ Cardinality(RowsOf(X)) \in Nat /\ Cardinality(RowsOf(Y)) \in Nat
         /\ Cardinality(RowsOf(X)) <= Cardinality(RowsOf(Y))
<1>1. RowsOf(X) \in SUBSET RowsOf(Y) /\ X \in SUBSET Entries
  BY DEF RowsOf
<1> QED
  BY <1>1, RowsAreFinite, FS_Subset

\* The entries of one more row are one row more.
LEMMA OneMoreRow ==
  ASSUME NEW X \in SUBSET Entries, NEW Y \in SUBSET Entries, NEW t, NEW r,
         \A e \in Y : e \in X \/ (e[1] = t /\ e[2] = r)
  PROVE  /\ Cardinality(RowsOf(X)) \in Nat /\ Cardinality(RowsOf(Y)) \in Nat
         /\ Cardinality(RowsOf(Y)) <= Cardinality(RowsOf(X)) + 1
<1>1. RowsOf(Y) \subseteq RowsOf(X) \cup {<<t, r>>}
  BY DEF RowsOf
<1>2. IsFiniteSet(RowsOf(X))
  BY RowsAreFinite
<1> QED
  BY <1>1, <1>2, AtMostOneMore

LEMMA SetsOfEntries ==
  /\ Passed \in SUBSET Entries /\ Noted \in SUBSET Entries /\ LeftOut \in SUBSET Entries
  /\ Missing \in SUBSET Entries
BY DEF Passed, Noted, LeftOut, Missing

LEMMA SilenceType ==
  /\ Silence(Passed) \in Nat /\ Silence(Noted) \in Nat /\ Silence(Passed \cup LeftOut) \in Nat
  /\ Silence(Entries) \in Nat
<1>1. /\ Passed \cap Missing \in SUBSET Entries /\ Noted \cap Missing \in SUBSET Entries
      /\ (Passed \cup LeftOut) \cap Missing \in SUBSET Entries /\ Entries \cap Missing \in SUBSET Entries
  BY SetsOfEntries
<1> QED
  BY <1>1, RowsAreFinite DEF Silence

\* The checkpoint stays as it is, or is torn: what it notes is as few as before.
LEMMA NotedStaysFew ==
  ASSUME Few(Noted), errors \in Nat, errors' \in Nat, errors <= errors',
         checkpoint' \in {checkpoint, Torn}, Missing' \subseteq Missing
  PROVE  Few(Noted)'
<1>1. Noted' \subseteq Noted
  BY DEF Noted, Torn
<1>2. /\ (Noted \cap Missing)' \subseteq Noted \cap Missing
      /\ Noted \cap Missing \in SUBSET Entries
  BY <1>1, SetsOfEntries
<1> DEFINE before == Noted \cap Missing
           after == (Noted \cap Missing)'
<1> HIDE DEF before, after
<1>3. /\ Cardinality(RowsOf(after)) \in Nat /\ Cardinality(RowsOf(before)) \in Nat
      /\ Cardinality(RowsOf(after)) <= Cardinality(RowsOf(before))
  BY <1>2, FewerRows DEF before, after
<1>4. Silence(Noted) = Cardinality(RowsOf(before)) /\ Silence(Noted)' = Cardinality(RowsOf(after))
  BY DEF Silence, RowsOf, before, after
<1> QED
  BY <1>3, <1>4 DEF Few

\* A start goes on: what it has passed of missing entries is not more, and if a row
\* still begins in its middle what it will leave out is not either.
LEMMA PassedStaysFew ==
  ASSUME errors \in Nat, errors' \in Nat, errors <= errors',
         (Passed \cap Missing)' \subseteq Passed \cap Missing
  PROVE  /\ Silence(Passed)' \in Nat /\ Silence(Passed) \in Nat /\ Silence(Passed)' <= Silence(Passed)
         /\ Few(Passed) => Few(Passed)'
<1>2. Passed \cap Missing \in SUBSET Entries
  BY SetsOfEntries
<1> DEFINE before == Passed \cap Missing
           after == (Passed \cap Missing)'
<1> HIDE DEF before, after
<1>3. /\ Cardinality(RowsOf(after)) \in Nat /\ Cardinality(RowsOf(before)) \in Nat
      /\ Cardinality(RowsOf(after)) <= Cardinality(RowsOf(before))
  BY <1>2, FewerRows DEF before, after
<1>4. Silence(Passed) = Cardinality(RowsOf(before)) /\ Silence(Passed)' = Cardinality(RowsOf(after))
  BY DEF Silence, RowsOf, before, after
<1> QED
  BY <1>3, <1>4 DEF Few

\* Without a checkpoint nothing is noted.
LEMMA NotedIsEmpty == ASSUME checkpoint.kind # "json" PROVE Silence(Noted) = 0 /\ Few(Noted)
<1>1. Noted \cap Missing = {}
  BY DEF Noted
<1>2. RowsOf(Noted \cap Missing) = {}
  BY <1>1 DEF RowsOf
<1> QED
  BY <1>2, FS_EmptySet DEF Silence, Few

LEMMA LoadSilence ==
  ASSUME CodeTypeOK, PlaceIsRight, SilenceIsPaidFor, Load
  PROVE  SilenceIsPaidFor'
<1> USE DEF Load
<1>0. /\ where = "start" /\ where' = "batch" /\ errors \in Nat /\ errors' \in Nat /\ errors <= errors'
      /\ UNCHANGED <<saved, checkpoint, starts>>
  BY LoadFacts, CodeNumbers
<1>1. Missing' = Missing
  <2>1. Held(saved) \in [Entries -> Nat]
    BY HeldType DEF CodeTypeOK
  <2>2. Missing = Entries \ (Kept(saved) \cup lost)
    BY <1>0 DEF Missing, Running
  <2>3. Missing' = {e \in Entries : data'[e] = 0} \ lost'
    BY <1>0 DEF Missing, Running
  <2> QED
    <3>1. CASE data' = Held(saved) /\ lost' = lost
      BY <2>1, <2>2, <2>3, <3>1 DEF Kept
    <3>2. CASE data' = [e \in Entries |-> 0] /\ lost' = lost \cup Kept(saved)
      <4>1. {e \in Entries : data'[e] = 0} = Entries
        BY <3>2
      <4> QED
        BY <2>2, <2>3, <3>2, <4>1
    <3> QED
      BY <3>1, <3>2, LoadFacts
<1>2. Few(Noted)'
  BY <1>0, <1>1, NotedStaysFew DEF SilenceIsPaidFor
<1>3. CASE FromTheBegin
  <2>1. position' = [table \in Tables |-> 0] /\ start'.lang = 0
    BY <1>3 DEF FromTheBegin
  <2>2. \A e \in Entries : ~(e[2] < position'[e[1]])
    BY <2>1, EntryParts
  <2>3. Passed' = {}
    BY <1>0, <2>2 DEF Passed, InRow, AtEntry
  <2>4. Passed' \cap Missing' = {} /\ RowsOf({}) = {}
    BY <2>3 DEF RowsOf
  <2>5. Silence(Passed)' = Cardinality(RowsOf(Passed' \cap Missing'))
    BY DEF Silence, RowsOf
  <2>6. Silence(Passed)' = 0
    BY <2>4, <2>5, FS_EmptySet
  <2> QED
    BY <1>0, <1>2, <2>1, <2>6 DEF SilenceIsPaidFor, Few
<1>4. CASE FromTheCheckpoint /\ checkpoint.kind = "json"
  <2>1. Passed' \subseteq Noted /\ (start'.lang > 0 => LeftOut' \subseteq Noted)
    <3>1. CASE checkpoint.lang + 1 >= Languages
      <4>1. /\ start'.lang = 0
            /\ position' = [checkpoint.position EXCEPT ![checkpoint.table] = checkpoint.row + 1]
        BY <1>4, <3>1 DEF FromTheCheckpoint
      <4>2. ASSUME NEW e \in Entries, e[2] < position'[e[1]] PROVE e \in Noted
        <5>1. CASE e[1] # checkpoint.table
          BY <1>4, <4>1, <4>2, <5>1, EntryParts, CheckpointFacts DEF Noted
        <5>2. CASE e[1] = checkpoint.table
          <6>1. e[2] < checkpoint.row + 1
            BY <1>4, <4>1, <4>2, <5>2, CheckpointFacts
          <6> QED
            BY <1>4, <3>1, <5>2, <6>1, EntryParts, CheckpointFacts, CodeNumbers DEF Noted
        <5> QED
          BY <5>1, <5>2
      <4> QED
        BY <1>0, <4>1, <4>2 DEF Passed, InRow, AtEntry
    <3>2. CASE ~(checkpoint.lang + 1 >= Languages)
      <4>1. /\ current' = checkpoint.table /\ start' = [row |-> checkpoint.row, lang |-> checkpoint.lang + 1]
            /\ position' = checkpoint.position
        BY <1>4, <3>2 DEF FromTheCheckpoint
      <4>2. ASSUME NEW e \in LeftOut' PROVE e \in Noted
        <5>1. e \in Entries /\ e[1] = checkpoint.table /\ e[2] = checkpoint.row /\ e[3] < checkpoint.lang + 1
          BY <4>1, <4>2 DEF LeftOut
        <5>2. e[3] <= checkpoint.lang
          BY <1>4, <5>1, EntryParts, CheckpointFacts
        <5> QED
          BY <1>4, <5>1, <5>2 DEF Noted
      <4>3. Passed' \subseteq Noted
        BY <1>0, <1>4, <4>1 DEF Passed, Noted, InRow, AtEntry
      <4> QED
        BY <4>2, <4>3
    <3> QED
      BY <3>1, <3>2
  <2> DEFINE noted == Noted \cap Missing
             passed == Passed' \cap Missing'
             ahead == (Passed' \cup LeftOut') \cap Missing'
  <2>2. noted \in SUBSET Entries /\ passed \subseteq noted /\ (start'.lang > 0 => ahead \subseteq noted)
    BY <1>1, <2>1, SetsOfEntries
  <2>3. /\ Silence(Noted) = Cardinality(RowsOf(noted)) /\ Silence(Passed)' = Cardinality(RowsOf(passed))
        /\ Silence(Passed \cup LeftOut)' = Cardinality(RowsOf(ahead))
    BY DEF Silence, RowsOf
  <2> HIDE DEF noted, passed, ahead
  <2>4. /\ Silence(Passed)' \in Nat /\ Silence(Noted) \in Nat /\ Silence(Passed)' <= Silence(Noted)
        /\ start'.lang > 0 => /\ Silence(Passed \cup LeftOut)' \in Nat
                              /\ Silence(Passed \cup LeftOut)' <= Silence(Noted)
    BY <2>2, <2>3, FewerRows
  <2>5. errors > 0
    BY <1>0, <1>4 DEF PlaceIsRight
  <2>6. Few(Noted)
    BY DEF SilenceIsPaidFor
  <2> QED
    BY <1>0, <1>2, <2>4, <2>5, <2>6 DEF SilenceIsPaidFor, Few
<1> QED
  BY <1>3, <1>4, LoadFacts

LEMMA NextBatchSilence ==
  ASSUME CodeTypeOK, PlaceIsRight, SilenceIsPaidFor, NextBatch
  PROVE  SilenceIsPaidFor'
<1> USE DEF NextBatch
<1>0. /\ where = "batch" /\ errors \in Nat
      /\ UNCHANGED <<position, current, start, lang, data, unsaved, saved, checkpoint, starts, errors, lost>>
  BY DEF memoryVars, noteVars, CodeTypeOK
<1>1. where' \in {"row", "batch", "final"} /\ (where' = "row" => index' = position[turn] /\ turn' = turn)
  OBVIOUS
<1>2. Missing' = Missing
  BY <1>0, <1>1 DEF Missing, Running
<1>3. Passed' = Passed
  <2>1. Passed = {e \in Entries : e[2] < position[e[1]]}
    BY <1>0 DEF Passed, InRow, AtEntry
  <2>2. CASE where' = "row"
    <3>1. Passed' = {e \in Entries : e[2] < position[e[1]] \/ (e[1] = turn /\ e[2] < position[turn])}
      BY <1>0, <1>1, <2>2 DEF Passed, InRow, AtEntry
    <3> QED
      BY <2>1, <3>1
  <2>3. CASE where' # "row"
    BY <1>0, <1>1, <2>1, <2>3 DEF Passed, InRow, AtEntry
  <2> QED
    BY <2>2, <2>3
<1>4. LeftOut' = LeftOut
  BY <1>0 DEF LeftOut
<1>5. Noted' = Noted
  BY <1>0 DEF Noted
<1>6. position[turn] \in Nat
  BY EndOfBatch
<1>7. /\ Silence(Passed)' = Silence(Passed) /\ Silence(Noted)' = Silence(Noted)
      /\ Silence(Passed \cup LeftOut)' = Silence(Passed \cup LeftOut)
  BY <1>2, <1>3, <1>4, <1>5 DEF Silence, RowsOf
<1> QED
  BY <1>0, <1>1, <1>6, <1>7 DEF SilenceIsPaidFor, Few, Running

LEMMA BeginRowSilence ==
  ASSUME CodeTypeOK, PlaceIsRight, SilenceIsPaidFor, BeginRow
  PROVE  SilenceIsPaidFor'
<1> USE DEF BeginRow
<1>0. /\ where = "row" /\ where' = "entry" /\ errors \in Nat
      /\ UNCHANGED <<position, current, start, turn, index, data, unsaved, saved, checkpoint, starts, errors, lost>>
  BY DEF memoryVars, noteVars, CodeTypeOK
<1>1. Missing' = Missing /\ Noted' = Noted
  BY <1>0 DEF Missing, Running, Noted
<1>2. Passed = {e \in Entries : e[2] < position[e[1]] \/ (e[1] = turn /\ e[2] < index)}
  BY <1>0 DEF Passed, InRow, AtEntry
<1>3. Passed' = Passed \cup {e \in Entries : e[1] = turn /\ e[2] = index /\ e[3] < lang'}
  <2>1. Passed' = {e \in Entries : \/ e[2] < position[e[1]]
                                   \/ e[1] = turn /\ e[2] < index
                                   \/ e[1] = turn /\ e[2] = index /\ e[3] < lang'}
    BY <1>0 DEF Passed, InRow, AtEntry
  <2> QED
    BY <1>2, <2>1
<1>4. start.lang \in Nat
  BY CodeNumbers DEF CodeTypeOK
<1>5. CASE lang' = 0
  <2>1. Passed' = Passed
    BY <1>3, <1>5, EntryParts
  <2>2. Silence(Passed)' = Silence(Passed) /\ Silence(Noted)' = Silence(Noted)
    BY <1>1, <2>1 DEF Silence, RowsOf
  <2> QED
    BY <1>0, <2>2 DEF SilenceIsPaidFor, Few, Running
<1>6. CASE lang' # 0
  <2>1. current = turn /\ index = start.row /\ lang' = start.lang /\ start.lang > 0
    BY <1>4, <1>6
  <2>2. Passed' \subseteq Passed \cup LeftOut
    BY <1>3, <2>1 DEF LeftOut
  <2> DEFINE now == Passed' \cap Missing'
             ahead == (Passed \cup LeftOut) \cap Missing
  <2>3. now \subseteq ahead /\ ahead \in SUBSET Entries
    BY <1>1, <2>2, SetsOfEntries
  <2>4. Silence(Passed)' = Cardinality(RowsOf(now)) /\ Silence(Passed \cup LeftOut) = Cardinality(RowsOf(ahead))
    BY DEF Silence, RowsOf
  <2> HIDE DEF now, ahead
  <2>5. /\ Silence(Passed)' \in Nat /\ Silence(Passed \cup LeftOut) \in Nat
        /\ Silence(Passed)' <= Silence(Passed \cup LeftOut)
    BY <2>3, <2>4, FewerRows
  <2>6. Silence(Noted)' = Silence(Noted)
    BY <1>1 DEF Silence, RowsOf
  <2> QED
    BY <1>0, <2>1, <2>5, <2>6 DEF SilenceIsPaidFor, Few, Running
<1> QED
  BY <1>5, <1>6

LEMMA EndBatchSilence ==
  ASSUME CodeTypeOK, PlaceIsRight, SilenceIsPaidFor, EndBatch
  PROVE  SilenceIsPaidFor'
<1> USE DEF EndBatch
<1>0. /\ where = "row" /\ where' = "batch" /\ errors \in Nat /\ index = BatchEnd
      /\ position' = [position EXCEPT ![turn] = BatchEnd] /\ current' = Other(turn)
      /\ start' = [start EXCEPT !.row = position[Other(turn)]]
      /\ UNCHANGED <<data, unsaved, saved, checkpoint, starts, errors, lost>>
  BY DEF memoryVars, noteVars, CodeTypeOK
<1>1. Missing' = Missing /\ Noted' = Noted
  BY <1>0 DEF Missing, Running, Noted
<1>2. position[turn] < BatchEnd /\ turn \in Tables /\ BatchEnd \in Nat
  BY <1>0, EndOfBatch DEF PlaceIsRight, InRow
<1>3. Passed' = Passed
  <2>1. Passed = {e \in Entries : e[2] < position[e[1]] \/ (e[1] = turn /\ e[2] < BatchEnd)}
    BY <1>0 DEF Passed, InRow, AtEntry
  <2>2. Passed' = {e \in Entries : e[2] < position'[e[1]]}
    BY <1>0 DEF Passed, InRow, AtEntry
  <2>3. ASSUME NEW e \in Entries
        PROVE  e[2] < position'[e[1]] <=> (e[2] < position[e[1]] \/ (e[1] = turn /\ e[2] < BatchEnd))
    <3>1. e[1] \in Tables /\ e[2] \in Nat
      BY EntryParts
    <3>2. position'[e[1]] = IF e[1] = turn THEN BatchEnd ELSE position[e[1]]
      BY <1>0, <1>2, <3>1 DEF CodeTypeOK
    <3>3. position[turn] \in Nat
      BY <1>2 DEF CodeTypeOK
    <3> QED
      BY <1>2, <3>1, <3>2, <3>3
  <2> QED
    BY <2>1, <2>2, <2>3
<1>4. Silence(Passed)' = Silence(Passed) /\ Silence(Noted)' = Silence(Noted)
  BY <1>1, <1>3 DEF Silence, RowsOf
<1>5. start'.lang = start.lang
  BY <1>0 DEF CodeTypeOK
<1>6. /\ Silence(Passed \cup LeftOut)' \in Nat /\ Silence(Passed) \in Nat
      /\ Silence(Passed \cup LeftOut)' <= Silence(Passed) + 1
  <2> DEFINE now == Passed \cap Missing
             ahead == (Passed' \cup LeftOut') \cap Missing'
  <2>1. now \in SUBSET Entries /\ ahead \in SUBSET Entries
    BY <1>1, <1>3, SetsOfEntries DEF LeftOut
  <2>2. \A e \in ahead : e \in now \/ (e[1] = current' /\ e[2] = start'.row)
    BY <1>1, <1>3 DEF LeftOut
  <2>3. Silence(Passed) = Cardinality(RowsOf(now)) /\ Silence(Passed \cup LeftOut)' = Cardinality(RowsOf(ahead))
    BY DEF Silence, RowsOf
  <2> HIDE DEF now, ahead
  <2> QED
    BY <2>1, <2>2, <2>3, OneMoreRow
<1> QED
  BY <1>0, <1>2, <1>4, <1>5, <1>6 DEF SilenceIsPaidFor, Few, Running

\* A row raises: its other languages are known to be lost.
LEMMA RaisingSilence ==
  ASSUME CodeTypeOK, PlaceIsRight, SilenceIsPaidFor, AtEntry, Error, RowRaises,
         UNCHANGED data, checkpoint' \in {checkpoint, Torn}
  PROVE  SilenceIsPaidFor'
<1>0. /\ where' = "row" /\ index' = index + 1 /\ errors' = errors + 1 /\ errors \in Nat /\ errors' \in Nat
      /\ UNCHANGED <<position, current, start, turn, lang>> /\ index \in Nat /\ lang \in Nat
      /\ lost' = lost \cup {e \in Entries : e[1] = turn /\ e[2] = index /\ e[3] >= lang}
  BY Raising, CodeNumbers DEF CodeTypeOK, RowRaises
<1>1. Missing = {e \in Entries : data[e] = 0} \ lost /\ Missing' = {e \in Entries : data[e] = 0} \ lost'
  BY <1>0 DEF Missing, Running, AtEntry
<1>2. Missing' \subseteq Missing
  BY <1>0, <1>1
<1>3. (Passed \cap Missing)' \subseteq Passed \cap Missing
  <2> SUFFICES ASSUME NEW e \in Passed', e \in Missing' PROVE e \in Passed
    BY <1>2
  <2>1. e \in Entries /\ (e[2] < position[e[1]] \/ (e[1] = turn /\ e[2] < index + 1))
    BY <1>0 DEF Passed, InRow, AtEntry
  <2>2. e[2] \in Nat /\ e[3] \in Nat
    BY <2>1, EntryParts
  <2>3. ~(e[1] = turn /\ e[2] = index /\ e[3] >= lang)
    BY <1>0, <1>1, <2>1
  <2> QED
    BY <1>0, <2>1, <2>2, <2>3 DEF Passed, InRow, AtEntry
<1>4. Silence(Passed)' \in Nat /\ Silence(Passed) \in Nat /\ Silence(Passed)' <= Silence(Passed)
  BY <1>0, <1>3, PassedStaysFew
<1>5. Few(Noted)'
  BY <1>0, <1>2, NotedStaysFew DEF SilenceIsPaidFor
<1>6. /\ Silence(Passed \cup LeftOut)' \in Nat
      /\ Silence(Passed \cup LeftOut)' <= Silence(Passed)' + 1
  <2> DEFINE now == Passed' \cap Missing'
             ahead == (Passed' \cup LeftOut') \cap Missing'
  <2>1. now \in SUBSET Entries /\ ahead \in SUBSET Entries
    BY <1>1 DEF LeftOut
  <2>2. \A e \in ahead : e \in now \/ (e[1] = current /\ e[2] = start.row)
    BY <1>0 DEF LeftOut
  <2>3. Silence(Passed)' = Cardinality(RowsOf(now)) /\ Silence(Passed \cup LeftOut)' = Cardinality(RowsOf(ahead))
    BY DEF Silence, RowsOf
  <2> HIDE DEF now, ahead
  <2> QED
    BY <2>1, <2>2, <2>3, OneMoreRow
<1>7. Running /\ (start.lang > 0 => Silence(Passed) < errors) /\ Few(Passed)
  BY DEF SilenceIsPaidFor, Running, AtEntry
<1> QED
  BY <1>0, <1>4, <1>5, <1>6, <1>7 DEF SilenceIsPaidFor, Few

LEMMA GenerateSilence ==
  ASSUME CodeTypeOK, PlaceIsRight, SilenceIsPaidFor, Generate
  PROVE  SilenceIsPaidFor'
<1>0. where = "entry" /\ AtEntry
  BY DEF Generate, AtEntry
<1>1. CASE /\ NoError /\ data' = [data EXCEPT ![Entry] = @ + 1] /\ where' = "checkpoint"
           /\ UNCHANGED <<placeVars, lost, checkpoint>>
  <2>0. UNCHANGED <<errors, position, start, turn, index, lang>> /\ errors \in Nat
    BY <1>1 DEF NoError, placeVars, CodeTypeOK
  <2>1. Missing' \subseteq Missing
    <3>1. Missing = {e \in Entries : data[e] = 0} \ lost /\ Missing' = {e \in Entries : data'[e] = 0} \ lost'
      BY <1>0, <1>1 DEF Missing, Running
    <3>2. Entry \in Entries
      BY <1>0, EntryAtHand
    <3>3. \A e \in Entries : data'[e] = 0 => data[e] = 0
      BY <1>1, <3>2 DEF CodeTypeOK
    <3> QED
      BY <1>1, <3>1, <3>3
  <2>2. Passed' = Passed
    BY <1>0, <1>1, <2>0 DEF Passed, InRow, AtEntry
  <2>3. Few(Noted)'
    BY <1>1, <2>0, <2>1, NotedStaysFew DEF SilenceIsPaidFor
  <2>4. /\ Silence(Passed)' \in Nat /\ Silence(Passed) \in Nat /\ Silence(Passed)' <= Silence(Passed)
        /\ Few(Passed) => Few(Passed)'
    BY <2>0, <2>1, <2>2, PassedStaysFew
  <2> QED
    BY <1>0, <1>1, <2>0, <2>3, <2>4 DEF SilenceIsPaidFor, Running
<1>2. CASE Error /\ RowRaises /\ UNCHANGED <<memoryVars, checkpoint>>
  BY <1>0, <1>2, RaisingSilence DEF memoryVars
<1> QED
  BY <1>1, <1>2 DEF Generate

\* The entry at hand is made, and the program goes on to the next.
LEMMA AdvanceSilence ==
  ASSUME CodeTypeOK, PlaceIsRight, SilenceIsPaidFor, where \in {"checkpoint", "save"}, Advance, NoError,
         UNCHANGED <<position, current, turn, data, lost>>
  PROVE  /\ Missing' = Missing
         /\ Silence(Passed)' = Silence(Passed) /\ Few(Passed)'
         /\ Few(Noted)' => SilenceIsPaidFor'
<1>0. /\ AtEntry /\ Running /\ errors' = errors /\ errors \in Nat
      /\ turn \in Tables /\ index \in Nat /\ lang \in Nat /\ lang < Languages /\ data[Entry] > 0
  BY CodeNumbers DEF AtEntry, Running, NoError, CodeTypeOK, PlaceIsRight
<1>1. where' \in {"row", "entry"}
  BY DEF Advance
<1>2. Missing' = Missing
  BY <1>0, <1>1 DEF Missing, Running
<1>3. Entry \notin Missing
  <2>1. Missing = {e \in Entries : data[e] = 0} \ lost
    BY <1>0 DEF Missing
  <2> QED
    BY <1>0, <2>1
<1>4. Passed' \cap Missing' = Passed \cap Missing
  <2>1. Passed = {e \in Entries : \/ e[2] < position[e[1]]
                                  \/ e[1] = turn /\ e[2] < index
                                  \/ e[1] = turn /\ e[2] = index /\ e[3] < lang}
    BY <1>0 DEF Passed, InRow, AtEntry
  <2>2. \A e \in Entries : e[1] = turn /\ e[2] = index /\ e[3] = lang => e = Entry
    <3>1. \A e \in Entries : e = <<e[1], e[2], e[3]>>
      BY EntryFacts
    <3> QED
      BY <3>1 DEF Entry
  <2>3. ASSUME NEW e \in Entries
        PROVE  e \in Passed' <=> e \in Passed \/ (e[1] = turn /\ e[2] = index /\ e[3] = lang)
    <3>0. e[2] \in Nat /\ e[3] \in Nat /\ e[3] < Languages
      BY EntryParts
    <3>1. CASE lang + 1 < Languages
      <4>1. where' = "entry" /\ lang' = lang + 1 /\ index' = index
        BY <3>1 DEF Advance
      <4>2. e \in Passed' <=> \/ e[2] < position[e[1]]
                              \/ e[1] = turn /\ e[2] < index
                              \/ e[1] = turn /\ e[2] = index /\ e[3] < lang + 1
        BY <4>1 DEF Passed, InRow, AtEntry
      <4>3. e[3] < lang + 1 <=> e[3] < lang \/ e[3] = lang
        BY <1>0, <3>0
      <4> QED
        BY <2>1, <4>2, <4>3
    <3>2. CASE ~(lang + 1 < Languages)
      <4>1. where' = "row" /\ index' = index + 1
        BY <3>2 DEF Advance
      <4>2. e \in Passed' <=> e[2] < position[e[1]] \/ (e[1] = turn /\ e[2] < index + 1)
        BY <4>1 DEF Passed, InRow, AtEntry
      <4>3. e[2] < index + 1 <=> e[2] < index \/ e[2] = index
        BY <1>0, <3>0
      <4>4. e[3] < lang \/ e[3] = lang
        BY <1>0, <3>0, <3>2, CodeNumbers
      <4> QED
        BY <2>1, <4>2, <4>3, <4>4
    <3> QED
      BY <3>1, <3>2
  <2>4. Passed' \in SUBSET Entries /\ Passed \in SUBSET Entries
    BY DEF Passed
  <2> QED
    BY <1>2, <1>3, <2>2, <2>3, <2>4
<1>5. Silence(Passed)' = Silence(Passed)
  BY <1>4 DEF Silence, RowsOf
<1>6. Few(Passed) /\ (start.lang > 0 => Silence(Passed) < errors)
  BY <1>0 DEF SilenceIsPaidFor
<1>7. where' = "row" => start'.lang = 0
  BY DEF Advance, CodeTypeOK
<1>8. where' = "entry" => start' = start
  BY DEF Advance
<1>9. Few(Passed)'
  BY <1>0, <1>5, <1>6 DEF Few
<1> QED
  BY <1>0, <1>1, <1>2, <1>5, <1>6, <1>7, <1>8, <1>9 DEF SilenceIsPaidFor

LEMMA CheckpointSilence ==
  ASSUME CodeTypeOK, PlaceIsRight, SilenceIsPaidFor, save_checkpoint
  PROVE  SilenceIsPaidFor'
<1>0. where = "checkpoint" /\ AtEntry /\ Running /\ UNCHANGED data
  BY DEF save_checkpoint, AtEntry, Running, memoryVars
<1>1. CASE NoError /\ checkpoint' = Place /\ UNCHANGED <<position, turn, index, lang, start, lost>> /\ where' = "save"
  <2>0. errors' = errors /\ errors \in Nat
    BY <1>1 DEF NoError, CodeTypeOK
  <2>1. Missing' = Missing
    BY <1>0, <1>1 DEF Missing, Running
  <2>2. Passed' = Passed
    BY <1>0, <1>1 DEF Passed, InRow, AtEntry
  <2>3. Silence(Passed)' = Silence(Passed)
    BY <2>1, <2>2 DEF Silence, RowsOf
  <2>4. Noted' \cap Missing' \subseteq Passed \cap Missing
    <3> SUFFICES ASSUME NEW e \in Noted', e \in Missing PROVE e \in Passed
      BY <2>1
    <3>1. e \in Entries /\ (\/ e[2] < position[e[1]]
                            \/ e[1] = turn /\ e[2] < index
                            \/ e[1] = turn /\ e[2] = index /\ e[3] <= lang)
      BY <1>1 DEF Noted, Place
    <3>2. e[3] \in Nat /\ lang \in Nat /\ e = <<e[1], e[2], e[3]>>
      BY <3>1, EntryParts, EntryFacts, CodeNumbers DEF CodeTypeOK
    <3>3. e # Entry
      BY <1>0 DEF Missing, PlaceIsRight
    <3> QED
      BY <1>0, <3>1, <3>2, <3>3 DEF Passed, InRow, AtEntry, Entry
  <2> DEFINE passed == Passed \cap Missing
             noted == Noted' \cap Missing'
  <2>5. noted \subseteq passed /\ passed \in SUBSET Entries
    BY <2>4, SetsOfEntries
  <2>6. Silence(Passed) = Cardinality(RowsOf(passed)) /\ Silence(Noted)' = Cardinality(RowsOf(noted))
    BY DEF Silence, RowsOf
  <2> HIDE DEF passed, noted
  <2>7. Silence(Noted)' \in Nat /\ Silence(Passed) \in Nat /\ Silence(Noted)' <= Silence(Passed)
    BY <2>5, <2>6, FewerRows
  <2>8. Few(Passed) /\ (start.lang > 0 => Silence(Passed) < errors)
    BY <1>0 DEF SilenceIsPaidFor
  <2> QED
    BY <1>1, <2>0, <2>3, <2>7, <2>8 DEF SilenceIsPaidFor, Few
<1>2. CASE NoError /\ checkpoint' = Place /\ Advance /\ UNCHANGED <<position, current, turn, lost>>
  <2>0. errors' = errors /\ errors \in Nat
    BY <1>2 DEF NoError, CodeTypeOK
  <2>1. Missing' = Missing /\ (Few(Noted)' => SilenceIsPaidFor')
    BY <1>0, <1>2, AdvanceSilence
  <2>4. Noted' \cap Missing' \subseteq Passed \cap Missing
    <3> SUFFICES ASSUME NEW e \in Noted', e \in Missing PROVE e \in Passed
      BY <2>1
    <3>1. e \in Entries /\ (\/ e[2] < position[e[1]]
                            \/ e[1] = turn /\ e[2] < index
                            \/ e[1] = turn /\ e[2] = index /\ e[3] <= lang)
      BY <1>2 DEF Noted, Place
    <3>2. e[3] \in Nat /\ lang \in Nat /\ e = <<e[1], e[2], e[3]>>
      BY <3>1, EntryParts, EntryFacts, CodeNumbers DEF CodeTypeOK
    <3>3. e # Entry
      BY <1>0 DEF Missing, PlaceIsRight
    <3> QED
      BY <1>0, <3>1, <3>2, <3>3 DEF Passed, InRow, AtEntry, Entry
  <2> DEFINE passed == Passed \cap Missing
             noted == Noted' \cap Missing'
  <2>5. noted \subseteq passed /\ passed \in SUBSET Entries
    BY <2>4, SetsOfEntries
  <2>6. Silence(Passed) = Cardinality(RowsOf(passed)) /\ Silence(Noted)' = Cardinality(RowsOf(noted))
    BY DEF Silence, RowsOf
  <2> HIDE DEF passed, noted
  <2>7. Silence(Noted)' \in Nat /\ Silence(Passed) \in Nat /\ Silence(Noted)' <= Silence(Passed)
    BY <2>5, <2>6, FewerRows
  <2>8. Few(Passed)
    BY <1>0 DEF SilenceIsPaidFor
  <2> QED
    BY <2>0, <2>1, <2>7, <2>8 DEF Few
<1>3. CASE Error /\ RowRaises /\ checkpoint' = Torn
  BY <1>0, <1>3, RaisingSilence
<1> QED
  BY <1>1, <1>2, <1>3 DEF save_checkpoint, placeVars

LEMMA DataSilence ==
  ASSUME CodeTypeOK, PlaceIsRight, SilenceIsPaidFor, save_data
  PROVE  SilenceIsPaidFor'
<1>0. where = "save" /\ AtEntry /\ Running /\ UNCHANGED checkpoint
  BY DEF save_data, AtEntry, Running
<1>1. CASE NoError /\ Advance /\ UNCHANGED <<position, current, turn, data, lost>>
  <2>1. Missing' = Missing /\ (Few(Noted)' => SilenceIsPaidFor')
    BY <1>0, <1>1, AdvanceSilence
  <2>2. Few(Noted)'
    BY <1>0, <1>1, <2>1, NotedStaysFew DEF SilenceIsPaidFor, NoError, CodeTypeOK
  <2> QED
    BY <2>1, <2>2
<1>2. CASE Error /\ RowRaises /\ UNCHANGED memoryVars
  BY <1>0, <1>2, RaisingSilence DEF memoryVars
<1> QED
  BY <1>1, <1>2 DEF save_data

\* A kill: what was in memory is in the file or known to be lost.
LEMMA KilledSilence ==
  ASSUME CodeTypeOK, PlaceIsRight, SilenceIsPaidFor, Running, Error, where' = "killed",
         checkpoint' \in {checkpoint, Torn}, lost' \in SUBSET Entries, lost \subseteq lost',
         \A e \in Entries : data[e] > 0 => e \in Kept(saved') \/ e \in lost'
  PROVE  SilenceIsPaidFor'
<1>1. Missing' \subseteq Missing
  <2>1. Missing = {e \in Entries : data[e] = 0} \ lost
    BY DEF Missing
  <2>2. Missing' = Entries \ (Kept(saved') \cup lost')
    BY DEF Missing, Running, Kept
  <2>3. \A e \in Entries : data[e] = 0 \/ data[e] > 0
    BY DEF CodeTypeOK
  <2> QED
    BY <2>1, <2>2, <2>3
<1>2. errors \in Nat /\ errors' = errors + 1
  BY DEF Error, CodeTypeOK
<1>3. Few(Noted)'
  BY <1>1, <1>2, NotedStaysFew DEF SilenceIsPaidFor
<1> QED
  BY <1>3 DEF SilenceIsPaidFor, Running

LEMMA SaveAllSilence ==
  ASSUME CodeTypeOK, PlaceIsRight, SilenceIsPaidFor, SaveAll
  PROVE  SilenceIsPaidFor'
<1>0. where = "final" /\ UNCHANGED <<placeVars, memoryVars, checkpoint, starts, made, repeated>>
  BY DEF SaveAll
<1>1. CASE /\ NoError /\ where' = "remove" /\ UNCHANGED lost
  <2>1. Missing' = Missing
    BY <1>0, <1>1 DEF Missing, Running, memoryVars
  <2>2. Passed' = Passed /\ Noted' = Noted
    BY <1>0, <1>1 DEF Passed, Noted, InRow, AtEntry, placeVars
  <2>3. Silence(Passed)' = Silence(Passed) /\ Silence(Noted)' = Silence(Noted)
    BY <2>1, <2>2 DEF Silence, RowsOf
  <2> QED
    BY <1>0, <1>1, <2>3 DEF SilenceIsPaidFor, Few, Running, NoError, placeVars
<1>2. CASE /\ Error /\ saved' = Torn /\ where' = "killed"
           /\ lost' = lost \cup {e \in Entries : data[e] > 0}
  BY <1>0, <1>2, KilledSilence DEF Running, CodeTypeOK
<1> QED
  BY <1>1, <1>2 DEF SaveAll

LEMMA CrashSilence ==
  ASSUME CodeTypeOK, PlaceIsRight, SilenceIsPaidFor, Crash
  PROVE  SilenceIsPaidFor'
<1>0. /\ Error /\ where' = "killed" /\ saved' \in {saved, Torn} /\ checkpoint' \in {checkpoint, Torn}
      /\ lost' = lost \cup {e \in Entries : data[e] > Held(saved')[e]} /\ where \notin {"done", "killed"}
  BY DEF Crash
<1>1. Held(saved') \in [Entries -> Nat]
  BY <1>0, HeldType DEF CodeTypeOK
<1>2. CASE Running
  <2>1. \A e \in Entries : data[e] > 0 => e \in Kept(saved') \/ e \in lost'
    BY <1>0, <1>1 DEF Kept, CodeTypeOK
  <2> QED
    BY <1>0, <1>2, <2>1, KilledSilence DEF CodeTypeOK
<1>3. CASE ~Running
  <2>0. where = "start" /\ errors \in Nat /\ errors' = errors + 1
    BY <1>0, <1>3 DEF Running, Error, CodeTypeOK
  <2>1. saved' = saved /\ checkpoint' = checkpoint
    BY <2>0 DEF Crash
  <2>2. Missing' \subseteq Missing
    BY <1>0, <2>0, <2>1 DEF Missing, Running
  <2>3. Few(Noted)'
    BY <2>0, <2>1, <2>2, NotedStaysFew DEF SilenceIsPaidFor
  <2> QED
    BY <1>0, <2>3 DEF SilenceIsPaidFor, Running
<1> QED
  BY <1>2, <1>3

\* All is passed, and all that is in memory is in the file.
LEMMA RemoveSilence ==
  ASSUME CodeTypeOK, PlaceIsRight, SilenceIsPaidFor, RemoveCheckpoint
  PROVE  SilenceIsPaidFor'
<1>0. /\ where = "remove" /\ where' = "done" /\ checkpoint' = Absent
      /\ UNCHANGED <<position, data, saved, errors, lost>> /\ errors \in Nat
      /\ saved = [kind |-> "json", entries |-> data]
  BY DEF RemoveCheckpoint, placeVars, memoryVars, noteVars, PlaceIsRight, CodeTypeOK
<1>1. Missing' = Missing
  <2>1. Kept(saved) = {e \in Entries : data[e] > 0}
    BY <1>0 DEF Kept, Held
  <2>2. Missing = {e \in Entries : data[e] = 0} \ lost
    BY <1>0 DEF Missing, Running
  <2>3. Missing' = Entries \ (Kept(saved) \cup lost)
    BY <1>0 DEF Missing, Running, Kept
  <2> QED
    BY <2>1, <2>2, <2>3 DEF CodeTypeOK
<1>2. Passed = Entries
  <2>1. \A e \in Entries : e[2] < position[e[1]]
    <3> SUFFICES ASSUME NEW e \in Entries PROVE e[2] < position[e[1]]
      OBVIOUS
    <3>1. e[1] \in Tables /\ e[2] \in Nat /\ e[2] < Rows(e[1]) /\ Rows(e[1]) \in Nat
      BY EntryParts, TableFacts
    <3>2. position[e[1]] >= Rows(e[1]) /\ position[e[1]] \in Nat
      BY <1>0, <3>1 DEF PlaceIsRight, CodeTypeOK
    <3> QED
      BY <3>1, <3>2
  <2> QED
    BY <2>1 DEF Passed
<1>3. Silence(Entries)' = Silence(Passed)
  BY <1>1, <1>2 DEF Silence, RowsOf, Entries, Rows, Tables
<1>4. Few(Entries)'
  BY <1>0, <1>3 DEF SilenceIsPaidFor, Few, Running
<1>5. Few(Noted)'
  <2>1. Noted' = {}
    BY <1>0 DEF Noted, Absent
  <2>2. Silence(Noted)' = Cardinality({})
    BY <2>1 DEF Silence, RowsOf
  <2> QED
    BY <2>2, FS_EmptySet DEF Few
<1> QED
  BY <1>0, <1>4, <1>5 DEF SilenceIsPaidFor, Running

LEMMA StartSilence ==
  ASSUME CodeTypeOK, PlaceIsRight, SilenceIsPaidFor, StartAgain
  PROVE  SilenceIsPaidFor'
<1>0. /\ where \in {"done", "killed"} /\ where' = "start"
      /\ UNCHANGED <<saved, checkpoint, errors, lost>> /\ errors \in Nat
  BY DEF StartAgain, noteVars, CodeTypeOK
<1>1. Missing' = Missing
  BY <1>0 DEF Missing, Running, Kept
<1>2. Few(Noted)'
  BY <1>0, <1>1, NotedStaysFew DEF SilenceIsPaidFor
<1> QED
  BY <1>0, <1>2 DEF SilenceIsPaidFor, Running

LEMMA InitSilence == CodeInit => SilenceIsPaidFor
<1> SUFFICES ASSUME CodeInit PROVE SilenceIsPaidFor
  OBVIOUS
<1>1. Few(Noted)
  BY NotedIsEmpty DEF CodeInit, Absent
<1> QED
  BY <1>1 DEF CodeInit, SilenceIsPaidFor, Running

LEMMA StepSilence ==
  ASSUME CodeTypeOK, PlaceIsRight, SilenceIsPaidFor, [CodeNext]_codeVars
  PROVE  SilenceIsPaidFor'
<1>1. CASE UNCHANGED codeVars
  <2>1. /\ Missing' = Missing /\ Noted' = Noted /\ Passed' = Passed /\ LeftOut' = LeftOut
        /\ UNCHANGED <<where, start, index, position, turn, errors>>
    BY <1>1 DEF codeVars, placeVars, memoryVars, noteVars, Missing, Running, Noted, Passed, LeftOut, InRow, AtEntry, Kept
  <2>2. /\ Silence(Passed)' = Silence(Passed) /\ Silence(Noted)' = Silence(Noted)
        /\ Silence(Passed \cup LeftOut)' = Silence(Passed \cup LeftOut) /\ Silence(Entries)' = Silence(Entries)
    BY <2>1 DEF Silence, RowsOf, Entries, Rows, Tables
  <2> QED
    BY <2>1, <2>2 DEF SilenceIsPaidFor, Few, Running
<1> QED
  BY <1>1, LoadSilence, NextBatchSilence, BeginRowSilence, EndBatchSilence, GenerateSilence, CheckpointSilence,
     DataSilence, SaveAllSilence, RemoveSilence, CrashSilence, StartSilence DEF CodeNext

\* The entries that this start may still make, and those made that lie beyond the batches
\* that begin at the positions p.
ToCome ==
  {e \in Entries : /\ e[2] >= position[e[1]]
                   /\ InRow /\ e[1] = turn => e[2] >= index
                   /\ where = "entry" /\ e[1] = turn /\ e[2] = index => e[3] >= lang
                   /\ where \in {"checkpoint", "save"} /\ e[1] = turn /\ e[2] = index => e[3] > lang}
Beyond(p) == {e \in made : e[2] >= p[e[1]] + BATCH_SIZE}
Limit == 2 * BATCH_SIZE * Languages + starts - 1

\* What a start repeats, with what it may still repeat; and of what is made, all but an
\* entry of each earlier start lies in the batches at the positions of the checkpoint.
RepeatsAreFew ==
  /\ AResumeRepeatsAtMostABatchOfEachTable
  /\ Running => repeated + Cardinality(made \cap ToCome) <= Limit
  /\ Running => Cardinality(Beyond(position)) < starts
  /\ checkpoint.kind = "json" =>
       Cardinality(Beyond(checkpoint.position) \ (IF where = "checkpoint" THEN {Entry} ELSE {}))
         < IF where = "killed" THEN starts + 1 ELSE starts

LEMMA EntriesAreFinite == IsFiniteSet(Entries)
<1> DEFINE all == Tables \X ((0 .. train_len + leetcode_len) \X (0 .. Languages))
           f == [e \in Entries |-> <<e[1], <<e[2], e[3]>>>>]
<1>1. IsFiniteSet(Tables)
  <2>1. IsFiniteSet({"train"}) /\ IsFiniteSet({"leetcode"}) /\ Tables = {"train"} \cup {"leetcode"}
    BY FS_Singleton DEF Tables
  <2> QED
    BY <2>1, FS_Union
<1>2. IsFiniteSet(0 .. train_len + leetcode_len) /\ IsFiniteSet(0 .. Languages)
  BY FS_Interval, CodeNumbers
<1>3. IsFiniteSet((0 .. train_len + leetcode_len) \X (0 .. Languages))
  BY <1>2, FS_Product
<1>4. IsFiniteSet(all)
  BY <1>1, <1>3, FS_Product
<1>5. \A e \in Entries : f[e] \in all
  <2> SUFFICES ASSUME NEW e \in Entries PROVE f[e] \in all
    OBVIOUS
  <2>1. e[1] \in Tables /\ e[2] \in Nat /\ e[2] < Rows(e[1]) /\ e[3] \in Nat /\ e[3] < Languages
    BY EntryParts
  <2>2. Rows(e[1]) <= train_len + leetcode_len
    BY <2>1, CodeNumbers DEF Rows
  <2> QED
    BY <2>1, <2>2, CodeNumbers, TableFacts
<1>6. \A e1, e2 \in Entries : f[e1] = f[e2] => e1 = e2
  BY EntryFacts
<1> HIDE DEF all
<1>7. f \in Injection(Entries, all)
  BY <1>5, <1>6, Fun_IsInj
<1> QED
  BY <1>4, <1>7, FS_Injection

LEMMA Counted ==
  ASSUME NEW X \in SUBSET Entries, NEW Y, Y \subseteq X
  PROVE  /\ IsFiniteSet(X) /\ IsFiniteSet(Y) /\ Cardinality(X) \in Nat /\ Cardinality(Y) \in Nat
         /\ Cardinality(Y) <= Cardinality(X)
<1>1. IsFiniteSet(X)
  BY EntriesAreFinite, FS_Subset
<1>2. Y \in SUBSET X
  OBVIOUS
<1> QED
  BY <1>1, <1>2, FS_Subset, FS_CardinalityType

\* The entries of a batch of each table.
LEMMA TwoBatches ==
  ASSUME NEW p \in [Tables -> Nat], NEW X \in SUBSET Entries,
         \A e \in X : e[2] >= p[e[1]] /\ e[2] < p[e[1]] + BATCH_SIZE
  PROVE  Cardinality(X) <= 2 * BATCH_SIZE * Languages /\ Cardinality(X) \in Nat
<1> DEFINE cells == (0 .. BATCH_SIZE - 1) \X (0 .. Languages - 1)
           all == Tables \X cells
           f == [e \in X |-> <<e[1], <<e[2] - p[e[1]], e[3]>>>>]
<1>1. IsFiniteSet(Tables) /\ Cardinality(Tables) = 2
  <2> DEFINE one == {"train"}
  <2>1. IsFiniteSet(one) /\ Cardinality(one) = 1
    BY FS_Singleton
  <2>2. Tables = one \cup {"leetcode"} /\ "leetcode" \notin one
    BY DEF Tables
  <2> HIDE DEF one
  <2>3. IsFiniteSet(one \cup {"leetcode"}) /\ Cardinality(one \cup {"leetcode"}) = Cardinality(one) + 1
    BY <2>1, <2>2, FS_AddElement
  <2> QED
    BY <2>1, <2>2, <2>3
<1>2. /\ IsFiniteSet(0 .. BATCH_SIZE - 1) /\ Cardinality(0 .. BATCH_SIZE - 1) = BATCH_SIZE
      /\ IsFiniteSet(0 .. Languages - 1) /\ Cardinality(0 .. Languages - 1) = Languages
  BY FS_Interval, CodeNumbers
<1>3. IsFiniteSet(cells) /\ Cardinality(cells) = BATCH_SIZE * Languages
  BY <1>2, FS_Product
<1> HIDE DEF cells
<1>4. IsFiniteSet(all) /\ Cardinality(all) = 2 * (BATCH_SIZE * Languages)
  BY <1>1, <1>3, FS_Product
<1>5. \A e \in X : f[e] \in all
  <2> SUFFICES ASSUME NEW e \in X PROVE <<e[1], <<e[2] - p[e[1]], e[3]>>>> \in all
    OBVIOUS
  <2>1. e[1] \in Tables /\ e[2] \in Nat /\ e[3] \in Nat /\ e[3] < Languages /\ p[e[1]] \in Nat
    BY EntryParts
  <2>2. e[2] - p[e[1]] \in 0 .. BATCH_SIZE - 1 /\ e[3] \in 0 .. Languages - 1
    BY <2>1, CodeNumbers
  <2> QED
    BY <2>1, <2>2 DEF cells
<1>6. ASSUME NEW a \in X, NEW b \in X, f[a] = f[b] PROVE a = b
  <2>1. a[1] = b[1] /\ a[2] - p[a[1]] = b[2] - p[b[1]] /\ a[3] = b[3]
    BY <1>6
  <2>2. a[2] \in Nat /\ b[2] \in Nat /\ a[1] \in Tables /\ p[a[1]] \in Nat
    BY EntryParts
  <2>3. a[2] = b[2]
    BY <2>1, <2>2
  <2>4. a = <<a[1], a[2], a[3]>> /\ b = <<b[1], b[2], b[3]>>
    BY EntryFacts
  <2> QED
    BY <2>1, <2>3, <2>4
<1> HIDE DEF all
<1>7. f \in Injection(X, all)
  BY <1>5, <1>6, Fun_IsInj
<1>8. Cardinality(X) <= 2 * (BATCH_SIZE * Languages) /\ IsFiniteSet(X)
  BY <1>4, <1>7, FS_Injection
<1>9. 2 * (BATCH_SIZE * Languages) = 2 * BATCH_SIZE * Languages
  BY CodeNumbers
<1> QED
  BY <1>8, <1>9, FS_CardinalityType

LEMMA StartsType == ASSUME CodeTypeOK PROVE starts \in Nat /\ starts >= 1 /\ Limit \in Int /\ repeated \in Nat
<1>1. starts \in Nat /\ starts >= 1 /\ repeated \in Nat
  BY CodeNumbers DEF CodeTypeOK
<1>2. 2 * BATCH_SIZE * Languages \in Nat
  BY CodeNumbers
<1> QED
  BY <1>1, <1>2 DEF Limit

\* What is made is a set of entries; what is beyond some positions is beyond earlier ones.
LEMMA BeyondLess ==
  ASSUME NEW M \in SUBSET Entries, NEW p \in [Tables -> Nat], NEW q \in [Tables -> Nat],
         \A t \in Tables : p[t] <= q[t]
  PROVE  {e \in M : e[2] >= q[e[1]] + BATCH_SIZE} \subseteq {e \in M : e[2] >= p[e[1]] + BATCH_SIZE}
<1> SUFFICES ASSUME NEW e \in M, e[2] >= q[e[1]] + BATCH_SIZE PROVE e[2] >= p[e[1]] + BATCH_SIZE
  OBVIOUS
<1>1. e[1] \in Tables /\ e[2] \in Nat
  BY EntryParts
<1> QED
  BY <1>1, CodeNumbers

LEMMA LoadRepeats ==
  ASSUME CodeTypeOK, PlaceIsRight, RepeatsAreFew, Load
  PROVE  RepeatsAreFew'
<1>0. /\ where = "start" /\ where' = "batch" /\ repeated' = 0
      /\ UNCHANGED <<checkpoint, starts>>
  BY DEF Load
<1>11. made' = {} \/ (checkpoint.kind = "json" /\ FromTheCheckpoint /\ made' = made)
  <2>1. CASE FromTheBegin
    <3>1. made' = {}
      BY <2>1 DEF FromTheBegin
    <3> QED
      BY <3>1
  <2>2. CASE FromTheCheckpoint /\ checkpoint.kind = "json"
    <3>1. made' = made
      BY <2>2 DEF FromTheCheckpoint
    <3> QED
      BY <2>2, <3>1
  <2> QED
    BY <2>1, <2>2, LoadFacts
<1>1. position' \in [Tables -> Nat] /\ made' \in SUBSET Entries
  BY LoadPlace DEF CodeTypeOK
<1>2. /\ IsFiniteSet(Beyond(position)') /\ Cardinality(Beyond(position)') \in Nat
      /\ Cardinality(Beyond(position)') < starts
  <2>0. Beyond(position)' = {e \in made' : e[2] >= position'[e[1]] + BATCH_SIZE}
    BY DEF Beyond
  <2>1. CASE made' = {}
    <3>1. Beyond(position)' = {}
      BY <1>0, <2>0, <2>1
    <3> QED
      BY <3>1, FS_EmptySet, StartsType
  <2>2. CASE checkpoint.kind = "json" /\ FromTheCheckpoint /\ made' = made
    <3>1. checkpoint.position \in [Tables -> Nat] /\ checkpoint.table \in Tables /\ checkpoint.row \in Nat
      BY <2>2, CheckpointFacts
    <3> DEFINE old == Beyond(checkpoint.position)
               new == Beyond(position)'
               kept == {e \in Entries : e[2] >= checkpoint.row + BATCH_SIZE}
    <3>2. old \in SUBSET Entries /\ Cardinality(old) < starts
      <4>1. old \ {} = old
        OBVIOUS
      <4> QED
        BY <1>0, <2>2, <4>1 DEF RepeatsAreFew, Beyond, CodeTypeOK
    <3>3. new \subseteq old
      <4>1. CASE position' = checkpoint.position
        BY <1>0, <2>0, <2>2, <4>1 DEF Beyond
      <4>2. CASE /\ position' = [checkpoint.position EXCEPT ![checkpoint.table] = checkpoint.row + 1]
                 /\ checkpoint.position[checkpoint.table] <= checkpoint.row
        <5>1. \A t \in Tables : checkpoint.position[t] <= position'[t]
          BY <3>1, <4>2
        <5>2. made \in SUBSET Entries
          BY DEF CodeTypeOK
        <5> QED
          BY <1>0, <1>1, <2>0, <2>2, <3>1, <5>1, <5>2, BeyondLess DEF Beyond
      <4> QED
        BY <2>2, <4>1, <4>2 DEF FromTheCheckpoint, PlaceIsRight
    <3> HIDE DEF old, new
    <3>4. IsFiniteSet(new) /\ Cardinality(new) \in Nat /\ Cardinality(old) \in Nat /\ Cardinality(new) <= Cardinality(old)
      BY <3>2, <3>3, Counted
    <3> QED
      BY <3>2, <3>4, StartsType DEF new
  <2> QED
    BY <1>11, <2>1, <2>2
<1>3. Cardinality((made \cap ToCome)') <= 2 * BATCH_SIZE * Languages + Cardinality(Beyond(position)')
  <2> DEFINE all == (made \cap ToCome)'
             far == Beyond(position)'
             near == all \ far
  <2>1. all \in SUBSET Entries
    BY DEF ToCome
  <2>2. \A e \in near : e[2] >= position'[e[1]] /\ e[2] < position'[e[1]] + BATCH_SIZE
    <3> SUFFICES ASSUME NEW e \in near PROVE e[2] >= position'[e[1]] /\ e[2] < position'[e[1]] + BATCH_SIZE
      OBVIOUS
    <3>1. e \in Entries /\ e \in made' /\ e[2] >= position'[e[1]]
      BY DEF ToCome
    <3>2. ~(e[2] >= position'[e[1]] + BATCH_SIZE)
      BY <3>1 DEF Beyond
    <3> QED
      BY <1>1, <3>1, <3>2, EntryParts, CodeNumbers
  <2>3. near \in SUBSET Entries
    BY <2>1
  <2>4. Cardinality(near) <= 2 * BATCH_SIZE * Languages /\ Cardinality(near) \in Nat
    BY <1>1, <2>2, <2>3, TwoBatches
  <2>5. all \subseteq near \cup far /\ IsFiniteSet(near)
    BY <2>3, Counted
  <2> HIDE DEF all, far, near
  <2>6. IsFiniteSet(far)
    BY <1>2 DEF far
  <2>7. /\ IsFiniteSet(near \cup far)
        /\ Cardinality(near \cup far) = Cardinality(near) + Cardinality(far) - Cardinality(near \cap far)
    BY <2>5, <2>6, FS_Union
  <2>8. Cardinality(near \cap far) \in Nat /\ Cardinality(far) \in Nat
    BY <2>5, <2>6, FS_Intersection, FS_CardinalityType
  <2>9. Cardinality(all) <= Cardinality(near \cup far)
    BY <2>5, <2>7, FS_Subset
  <2>10. Cardinality(all) \in Nat /\ Cardinality(near \cup far) \in Nat /\ 2 * BATCH_SIZE * Languages \in Nat
    BY <2>1, <2>7, Counted, FS_CardinalityType, CodeNumbers
  <2> QED
    BY <2>4, <2>7, <2>8, <2>9, <2>10 DEF all, far
<1>4. (made \cap ToCome)' \in SUBSET Entries
  BY DEF ToCome
<1>5. Cardinality((made \cap ToCome)') \in Nat
  BY <1>4, Counted
<1>6. repeated' + Cardinality((made \cap ToCome)') <= Limit'
  BY <1>0, <1>2, <1>3, <1>5, StartsType, CodeNumbers DEF Limit
<1>8. AResumeRepeatsAtMostABatchOfEachTable'
  <2>1. 2 * BATCH_SIZE * Languages \in Nat
    BY CodeNumbers
  <2> QED
    BY <1>0, <2>1, StartsType DEF AResumeRepeatsAtMostABatchOfEachTable
<1>9. checkpoint.kind = "json" => Cardinality(Beyond(checkpoint.position)') < starts
  <2> SUFFICES ASSUME checkpoint.kind = "json" PROVE Cardinality(Beyond(checkpoint.position)') < starts
    OBVIOUS
  <2>1. Beyond(checkpoint.position)' = Beyond(checkpoint.position) \/ Beyond(checkpoint.position)' = {}
    BY <1>0, <1>11 DEF Beyond
  <2>2. Beyond(checkpoint.position) \ {} = Beyond(checkpoint.position)
    OBVIOUS
  <2> QED
    BY <1>0, <2>1, <2>2, FS_EmptySet, StartsType DEF RepeatsAreFew
<1>10. Beyond(checkpoint.position)' \ {} = Beyond(checkpoint.position)'
  OBVIOUS
<1> QED
  BY <1>0, <1>2, <1>6, <1>8, <1>9, <1>10, StartsType DEF RepeatsAreFew, Running

\* What holds the bounds from one state of a start to the next.
LEMMA RepeatsStay ==
  ASSUME CodeTypeOK, CodeTypeOK', RepeatsAreFew, Running, Running', UNCHANGED starts,
         /\ made' = made /\ repeated' = repeated
         /\ \A t \in Tables : position[t] <= position'[t],
         (made \cap ToCome)' \subseteq made \cap ToCome,
         \/ checkpoint' = Torn
         \/ checkpoint' = checkpoint /\ (where = "checkpoint" => where' = "checkpoint" /\ Entry' = Entry)
         \/ checkpoint' = Place
  PROVE  RepeatsAreFew'
<1>1. made \in SUBSET Entries /\ position \in [Tables -> Nat] /\ position' \in [Tables -> Nat]
  BY DEF CodeTypeOK
<1> DEFINE far == Beyond(position)
           farther == Beyond(position)'
           coming == made \cap ToCome
           still == (made \cap ToCome)'
<1>2. farther \subseteq far /\ far \in SUBSET Entries
  BY <1>1, BeyondLess DEF Beyond
<1>3. still \subseteq coming /\ coming \in SUBSET Entries
  BY <1>1
<1> HIDE DEF far, farther, coming, still
<1>4. Cardinality(farther) \in Nat /\ Cardinality(far) \in Nat /\ Cardinality(farther) <= Cardinality(far)
  BY <1>2, Counted
<1>5. Cardinality(still) \in Nat /\ Cardinality(coming) \in Nat /\ Cardinality(still) <= Cardinality(coming)
  BY <1>3, Counted
<1>6. Cardinality(far) < starts /\ repeated + Cardinality(coming) <= Limit
  BY DEF RepeatsAreFew, far, coming
<1>7. AResumeRepeatsAtMostABatchOfEachTable' /\ Limit' = Limit
  BY DEF RepeatsAreFew, AResumeRepeatsAtMostABatchOfEachTable, Limit
<1>8. ASSUME checkpoint'.kind = "json"
      PROVE  Cardinality(Beyond(checkpoint.position)' \ (IF where' = "checkpoint" THEN {Entry'} ELSE {})) < starts
  <2>1. CASE checkpoint' = checkpoint /\ (where = "checkpoint" => where' = "checkpoint" /\ Entry' = Entry)
    <3> DEFINE old == Beyond(checkpoint.position) \ (IF where = "checkpoint" THEN {Entry} ELSE {})
               new == Beyond(checkpoint.position)' \ (IF where' = "checkpoint" THEN {Entry'} ELSE {})
    <3>1. Beyond(checkpoint.position)' = Beyond(checkpoint.position)
      BY <2>1 DEF Beyond
    <3>2. new \subseteq old /\ old \in SUBSET Entries
      BY <1>1, <2>1, <3>1 DEF Beyond
    <3>3. Cardinality(old) < starts
      BY <1>8, <2>1 DEF RepeatsAreFew, Running
    <3> HIDE DEF old, new
    <3>4. Cardinality(new) \in Nat /\ Cardinality(old) \in Nat /\ Cardinality(new) <= Cardinality(old)
      BY <3>2, Counted
    <3> QED
      BY <3>3, <3>4, StartsType DEF new
  <2>2. CASE checkpoint' = Place
    <3> DEFINE new == Beyond(checkpoint.position)' \ (IF where' = "checkpoint" THEN {Entry'} ELSE {})
    <3>1. Beyond(checkpoint.position)' = Beyond(position)
      BY <2>2 DEF Beyond, Place
    <3>2. new \subseteq far
      BY <3>1 DEF far
    <3> HIDE DEF new
    <3>3. Cardinality(new) \in Nat /\ Cardinality(new) <= Cardinality(far)
      BY <1>2, <3>2, Counted
    <3> QED
      BY <1>4, <1>6, <3>3, StartsType DEF new
  <2> QED
    BY <1>8, <2>1, <2>2, NoNote
<1>9. where' # "killed"
  BY DEF Running
<1> QED
  BY <1>4, <1>5, <1>6, <1>7, <1>8, <1>9, StartsType DEF RepeatsAreFew, farther, still

LEMMA NextBatchRepeats ==
  ASSUME CodeTypeOK, PlaceIsRight, RepeatsAreFew, NextBatch
  PROVE  RepeatsAreFew'
<1>0. /\ where = "batch" /\ where' \in {"row", "batch", "final"}
      /\ where' = "row" => index' = position[turn] /\ turn' = turn
      /\ UNCHANGED <<position, checkpoint, starts, made, repeated>>
  BY DEF NextBatch, noteVars
<1>1. ToCome' \subseteq ToCome
  BY <1>0 DEF ToCome, InRow
<1>2. \A t \in Tables : position[t] <= position'[t]
  BY <1>0 DEF CodeTypeOK
<1> QED
  BY <1>0, <1>1, <1>2, NextBatchPlace, RepeatsStay DEF Running

LEMMA BeginRowRepeats ==
  ASSUME CodeTypeOK, PlaceIsRight, RepeatsAreFew, BeginRow
  PROVE  RepeatsAreFew'
<1>0. /\ where = "row" /\ where' = "entry"
      /\ UNCHANGED <<position, turn, index, checkpoint, starts, made, repeated>>
  BY DEF BeginRow, noteVars
<1>1. ToCome' \subseteq ToCome
  BY <1>0 DEF ToCome, InRow
<1>2. \A t \in Tables : position[t] <= position'[t]
  BY <1>0 DEF CodeTypeOK
<1> QED
  BY <1>0, <1>1, <1>2, BeginRowPlace, RepeatsStay DEF Running

LEMMA EndBatchRepeats ==
  ASSUME CodeTypeOK, PlaceIsRight, RepeatsAreFew, EndBatch
  PROVE  RepeatsAreFew'
<1>0. /\ where = "row" /\ where' = "batch" /\ index = BatchEnd
      /\ position' = [position EXCEPT ![turn] = BatchEnd]
      /\ UNCHANGED <<checkpoint, starts, made, repeated>>
  BY DEF EndBatch, noteVars
<1>1. turn \in Tables /\ position[turn] \in Nat /\ BatchEnd \in Nat /\ position[turn] < BatchEnd
  BY <1>0, EndOfBatch DEF PlaceIsRight, InRow
<1>2. \A t \in Tables : position[t] <= position'[t]
  BY <1>0, <1>1 DEF CodeTypeOK
<1>3. ToCome' \subseteq ToCome
  <2> SUFFICES ASSUME NEW e \in ToCome' PROVE e \in ToCome
    OBVIOUS
  <2>1. e \in Entries /\ e[2] >= position'[e[1]]
    BY DEF ToCome, Entries, Rows, Tables
  <2>2. e[1] \in Tables /\ e[2] \in Nat
    BY <2>1, EntryParts
  <2>3. e[2] >= position[e[1]]
    BY <1>0, <1>1, <2>1, <2>2 DEF CodeTypeOK
  <2>4. e[1] = turn => e[2] >= index
    BY <1>0, <1>1, <2>1, <2>2 DEF CodeTypeOK
  <2> QED
    BY <1>0, <2>1, <2>3, <2>4 DEF ToCome
<1> QED
  BY <1>0, <1>2, <1>3, EndBatchPlace, RepeatsStay DEF Running

LEMMA RaisingRepeats ==
  ASSUME CodeTypeOK, CodeTypeOK', PlaceIsRight, RepeatsAreFew, AtEntry, Error, RowRaises,
         UNCHANGED <<made, repeated, starts>>, checkpoint' = Torn \/ (checkpoint' = checkpoint /\ where # "checkpoint")
  PROVE  RepeatsAreFew'
<1>0. /\ where' = "row" /\ index' = index + 1 /\ index \in Nat
      /\ UNCHANGED <<position, turn, lang>>
  BY Raising DEF CodeTypeOK
<1>1. \A t \in Tables : position[t] <= position'[t]
  BY <1>0 DEF CodeTypeOK
<1>2. ToCome' \subseteq ToCome
  <2> SUFFICES ASSUME NEW e \in ToCome' PROVE e \in ToCome
    OBVIOUS
  <2>1. e \in Entries /\ e[2] >= position[e[1]] /\ (e[1] = turn => e[2] >= index + 1)
    BY <1>0 DEF ToCome, InRow, Entries, Rows, Tables
  <2>2. e[2] \in Nat
    BY <2>1, EntryParts
  <2> QED
    BY <1>0, <2>1, <2>2 DEF ToCome, InRow
<1> QED
  BY <1>0, <1>1, <1>2, RepeatsStay DEF Running, AtEntry

LEMMA GenerateRepeats ==
  ASSUME CodeTypeOK, PlaceIsRight, RepeatsAreFew, Generate
  PROVE  RepeatsAreFew'
<1>0. where = "entry" /\ AtEntry /\ CodeTypeOK' /\ UNCHANGED <<saved, checkpoint, starts>>
  BY GeneratePlace DEF Generate, AtEntry
<1>1. CASE /\ NoError /\ where' = "checkpoint" /\ UNCHANGED <<placeVars, lost>>
           /\ repeated' = IF Entry \in made THEN repeated + 1 ELSE repeated
           /\ made' = made \cup {Entry}
  <2>0. UNCHANGED <<position, turn, index, lang>> /\ Entry' = Entry /\ Entry \in Entries /\ index < BatchEnd
    BY <1>0, <1>1, EntryAtHand DEF placeVars, Entry, PlaceIsRight
  <2>1. lang \in Nat /\ index \in Nat /\ turn \in Tables /\ position[turn] \in Nat
        /\ position[turn] <= index /\ index < position[turn] + BATCH_SIZE
    BY <1>0, <2>0, EndOfBatch, CodeNumbers DEF CodeTypeOK, PlaceIsRight, InRow
  <2>2. /\ Entry[1] = turn /\ Entry[2] = index /\ Entry[3] = lang
        /\ \A e \in Entries : e[1] = turn /\ e[2] = index /\ e[3] = lang => e = Entry
    <3>1. \A e \in Entries : e = <<e[1], e[2], e[3]>>
      BY EntryFacts
    <3> QED
      BY <3>1 DEF Entry
  <2>3. ToCome' = ToCome \ {Entry} /\ Entry \in ToCome
    <3>1. ToCome = {e \in Entries : /\ e[2] >= position[e[1]]
                                    /\ e[1] = turn => e[2] >= index
                                    /\ e[1] = turn /\ e[2] = index => e[3] >= lang}
      BY <1>0 DEF ToCome, InRow
    <3>2. ToCome' = {e \in Entries : /\ e[2] >= position[e[1]]
                                     /\ e[1] = turn => e[2] >= index
                                     /\ e[1] = turn /\ e[2] = index => e[3] > lang}
      BY <1>1, <2>0 DEF ToCome, InRow, Entries, Rows, Tables
    <3>3. \A e \in Entries : e[3] > lang <=> e[3] >= lang /\ e[3] # lang
      <4> SUFFICES ASSUME NEW e \in Entries PROVE e[3] > lang <=> e[3] >= lang /\ e[3] # lang
        OBVIOUS
      <4>1. e[3] \in Nat
        BY EntryParts
      <4> QED
        BY <2>1, <4>1
    <3>4. Entry \in ToCome /\ Entry \notin ToCome'
      BY <2>0, <2>1, <2>2, <3>1, <3>2
    <3> QED
      BY <2>2, <3>1, <3>2, <3>3, <3>4
  <2>4. made \in SUBSET Entries
    BY DEF CodeTypeOK
  <2> DEFINE coming == made \cap ToCome
             still == (made \cap ToCome)'
             far == Beyond(position)
  <2>5. still = coming \ {Entry} /\ (Entry \in coming <=> Entry \in made) /\ coming \in SUBSET Entries
    BY <1>1, <2>3, <2>4
  <2>6. Cardinality(coming) \in Nat /\ Cardinality(still) \in Nat
        /\ repeated' + Cardinality(still) = repeated + Cardinality(coming)
    <3> HIDE DEF coming, still
    <3>1. IsFiniteSet(coming) /\ Cardinality(coming) \in Nat
      BY <2>5, Counted
    <3>2. Cardinality(coming \ {Entry}) = IF Entry \in coming THEN Cardinality(coming) - 1 ELSE Cardinality(coming)
      BY <3>1, FS_RemoveElement
    <3>3. Cardinality(still) \in Nat
      BY <2>5, Counted
    <3> QED
      BY <1>1, <2>5, <3>1, <3>2, <3>3, StartsType
  <2>7. Beyond(position)' = far
    <3>1. Entry[2] < position[Entry[1]] + BATCH_SIZE /\ ~(Entry[2] >= position[Entry[1]] + BATCH_SIZE)
      BY <2>1, <2>2, CodeNumbers
    <3> QED
      BY <1>1, <2>0, <3>1 DEF Beyond
  <2>8. ASSUME checkpoint.kind = "json" PROVE Cardinality(Beyond(checkpoint.position)' \ {Entry'}) < starts
    <3> DEFINE old == Beyond(checkpoint.position)
               new == Beyond(checkpoint.position)' \ {Entry'}
    <3>1. new \subseteq old /\ old \in SUBSET Entries
      BY <1>0, <1>1, <2>0, <2>4 DEF Beyond
    <3>2. Cardinality(old \ {}) < starts /\ old \ {} = old
      BY <1>0, <2>8 DEF RepeatsAreFew
    <3> HIDE DEF old, new
    <3>3. Cardinality(new) \in Nat /\ Cardinality(old) \in Nat /\ Cardinality(new) <= Cardinality(old)
      BY <3>1, Counted
    <3> QED
      BY <3>2, <3>3, StartsType DEF new
  <2>9. repeated + Cardinality(coming) <= Limit /\ Limit' = Limit /\ Cardinality(far) < starts
    BY <1>0 DEF RepeatsAreFew, Running, Limit
  <2>10. AResumeRepeatsAtMostABatchOfEachTable'
    <3>1. repeated' <= Limit
      BY <1>0, <2>6, <2>9, StartsType, CodeNumbers DEF CodeTypeOK
    <3> QED
      BY <1>0, <3>1 DEF AResumeRepeatsAtMostABatchOfEachTable, Limit
  <2> HIDE DEF coming, still, far
  <2> QED
    BY <1>0, <1>1, <2>6, <2>7, <2>8, <2>9, <2>10 DEF RepeatsAreFew, still
<1>2. CASE Error /\ RowRaises /\ UNCHANGED <<made, repeated>>
  BY <1>0, <1>2, RaisingRepeats
<1> QED
  BY <1>1, <1>2 DEF Generate

LEMMA AdvanceRepeats ==
  ASSUME CodeTypeOK, CodeTypeOK', PlaceIsRight, RepeatsAreFew, where \in {"checkpoint", "save"}, Advance,
         UNCHANGED <<position, turn, made, repeated, starts>>,
         checkpoint' = Place \/ (checkpoint' = checkpoint /\ where # "checkpoint")
  PROVE  RepeatsAreFew'
<1>0. where' \in {"row", "entry"} /\ index \in Nat /\ lang \in Nat
  BY CodeNumbers DEF Advance, CodeTypeOK
<1>1. \A t \in Tables : position[t] <= position'[t]
  BY DEF CodeTypeOK
<1>2. ToCome' \subseteq ToCome
  <2> SUFFICES ASSUME NEW e \in ToCome' PROVE e \in ToCome
    OBVIOUS
  <2>1. e \in Entries /\ e[2] >= position[e[1]] /\ (e[1] = turn => e[2] >= index')
        /\ (where' = "entry" /\ e[1] = turn /\ e[2] = index' => e[3] >= lang')
    BY <1>0 DEF ToCome, InRow, Entries, Rows, Tables
  <2>2. e[2] \in Nat /\ e[3] \in Nat /\ e[3] < Languages
    BY <2>1, EntryParts
  <2>3. e[1] = turn => e[2] >= index /\ (e[2] = index => e[3] > lang)
    BY <1>0, <2>1, <2>2 DEF Advance
  <2> QED
    BY <2>1, <2>3 DEF ToCome
<1> QED
  BY <1>0, <1>1, <1>2, RepeatsStay DEF Running

LEMMA CheckpointRepeats ==
  ASSUME CodeTypeOK, PlaceIsRight, RepeatsAreFew, save_checkpoint
  PROVE  RepeatsAreFew'
<1>0. /\ where = "checkpoint" /\ AtEntry /\ CodeTypeOK' /\ UNCHANGED <<starts, made, repeated>>
  BY CheckpointPlace DEF save_checkpoint, AtEntry
<1>1. CASE checkpoint' = Place /\ where' = "save" /\ UNCHANGED placeVars
  <2>1. ToCome' \subseteq ToCome
    BY <1>0, <1>1 DEF placeVars, ToCome, InRow
  <2>2. \A t \in Tables : position[t] <= position'[t]
    BY <1>1 DEF placeVars, CodeTypeOK
  <2> QED
    BY <1>0, <1>1, <2>1, <2>2, RepeatsStay DEF Running
<1>2. CASE checkpoint' = Place /\ Advance /\ UNCHANGED <<position, current, turn>>
  BY <1>0, <1>2, AdvanceRepeats
<1>3. CASE Error /\ RowRaises /\ checkpoint' = Torn
  BY <1>0, <1>3, RaisingRepeats
<1> QED
  BY <1>1, <1>2, <1>3 DEF save_checkpoint

LEMMA DataRepeats ==
  ASSUME CodeTypeOK, PlaceIsRight, RepeatsAreFew, save_data
  PROVE  RepeatsAreFew'
<1>0. /\ where = "save" /\ AtEntry /\ CodeTypeOK' /\ UNCHANGED <<checkpoint, starts, made, repeated>>
  BY DataPlace DEF save_data, AtEntry
<1>1. CASE Advance /\ UNCHANGED <<position, current, turn>>
  BY <1>0, <1>1, AdvanceRepeats
<1>2. CASE Error /\ RowRaises
  BY <1>0, <1>2, RaisingRepeats
<1> QED
  BY <1>1, <1>2 DEF save_data

\* A kill: the entry that was not noted is one more beyond the checkpoint.
LEMMA KilledRepeats ==
  ASSUME CodeTypeOK, RepeatsAreFew, where \notin {"done", "killed"}, where' = "killed",
         UNCHANGED <<starts, made, repeated>>, checkpoint' \in {checkpoint, Torn}
  PROVE  RepeatsAreFew'
<1>1. AResumeRepeatsAtMostABatchOfEachTable'
  BY DEF RepeatsAreFew, AResumeRepeatsAtMostABatchOfEachTable
<1>2. ASSUME checkpoint'.kind = "json" PROVE Cardinality(Beyond(checkpoint.position)' \ {}) < starts + 1
  <2> DEFINE open == IF where = "checkpoint" THEN {Entry} ELSE {}
             far == Beyond(checkpoint.position)
             noted == far \ open
  <2>1. checkpoint' = checkpoint /\ checkpoint.kind = "json"
    BY <1>2, NoNote
  <2>2. Cardinality(noted) < starts
    BY <2>1 DEF RepeatsAreFew
  <2>3. Beyond(checkpoint.position)' = far /\ far \ {} = far
    BY <2>1 DEF Beyond
  <2>4. noted \in SUBSET Entries /\ far \subseteq noted \cup {Entry}
    BY DEF Beyond, CodeTypeOK
  <2> HIDE DEF far, noted
  <2>5. Cardinality(far) <= Cardinality(noted) + 1 /\ Cardinality(far) \in Nat /\ Cardinality(noted) \in Nat
    BY <2>4, Counted, AtMostOneMore
  <2> QED
    BY <2>2, <2>3, <2>5, StartsType
<1> QED
  BY <1>1, <1>2 DEF RepeatsAreFew, Running

LEMMA SaveAllRepeats ==
  ASSUME CodeTypeOK, PlaceIsRight, RepeatsAreFew, SaveAll
  PROVE  RepeatsAreFew'
<1>0. /\ where = "final" /\ CodeTypeOK' /\ UNCHANGED <<placeVars, checkpoint, starts, made, repeated>>
  BY SaveAllPlace DEF SaveAll
<1>1. CASE where' = "remove"
  <2>1. ToCome' = ToCome /\ \A t \in Tables : position[t] <= position'[t]
    BY <1>0, <1>1 DEF placeVars, ToCome, InRow, CodeTypeOK
  <2> QED
    BY <1>0, <1>1, <2>1, RepeatsStay DEF Running
<1>2. CASE where' = "killed"
  BY <1>0, <1>2, KilledRepeats
<1> QED
  BY <1>1, <1>2 DEF SaveAll

LEMMA OtherRepeats ==
  ASSUME CodeTypeOK, PlaceIsRight, RepeatsAreFew, RemoveCheckpoint \/ Crash \/ StartAgain
  PROVE  RepeatsAreFew'
<1>1. CASE RemoveCheckpoint
  <2>1. checkpoint'.kind # "json" /\ where' = "done" /\ UNCHANGED <<starts, repeated>>
    BY <1>1, NoNote DEF RemoveCheckpoint, noteVars
  <2> QED
    BY <2>1 DEF RepeatsAreFew, Running, AResumeRepeatsAtMostABatchOfEachTable
<1>2. CASE Crash
  BY <1>2, KilledRepeats DEF Crash
<1>3. CASE StartAgain
  <2>1. /\ where \in {"done", "killed"} /\ where' = "start" /\ starts' = starts + 1
        /\ UNCHANGED <<checkpoint, made, repeated>>
    BY <1>3 DEF StartAgain, noteVars
  <2>2. AResumeRepeatsAtMostABatchOfEachTable'
    <3>1. 2 * BATCH_SIZE * Languages \in Nat /\ repeated <= 2 * BATCH_SIZE * Languages + starts - 1
      BY CodeNumbers DEF RepeatsAreFew, AResumeRepeatsAtMostABatchOfEachTable
    <3> QED
      BY <2>1, <3>1, StartsType DEF AResumeRepeatsAtMostABatchOfEachTable
  <2>3. ASSUME checkpoint.kind = "json" PROVE where = "killed" /\ Cardinality(Beyond(checkpoint.position) \ {}) < starts + 1
    BY <2>1, <2>3, NoNote DEF RepeatsAreFew, PlaceIsRight
  <2>4. Beyond(checkpoint.position)' = Beyond(checkpoint.position)
    BY <2>1 DEF Beyond
  <2> QED
    BY <2>1, <2>2, <2>3, <2>4 DEF RepeatsAreFew, Running
<1> QED
  BY <1>1, <1>2, <1>3

LEMMA InitRepeats == CodeInit => RepeatsAreFew
<1> SUFFICES ASSUME CodeInit PROVE RepeatsAreFew
  OBVIOUS
<1>1. 2 * BATCH_SIZE * Languages \in Nat
  BY CodeNumbers
<1>2. checkpoint.kind # "json" /\ where = "start" /\ repeated = 0 /\ starts = 1
  BY NoNote DEF CodeInit
<1> QED
  BY <1>1, <1>2 DEF RepeatsAreFew, Running, AResumeRepeatsAtMostABatchOfEachTable

LEMMA StepRepeats ==
  ASSUME CodeTypeOK, PlaceIsRight, RepeatsAreFew, [CodeNext]_codeVars
  PROVE  RepeatsAreFew'
<1>1. CASE UNCHANGED codeVars
  <2>1. UNCHANGED <<where, position, turn, index, lang, checkpoint, starts, made, repeated>>
    BY <1>1 DEF codeVars, placeVars, noteVars
  <2>2. ToCome' = ToCome /\ Beyond(position)' = Beyond(position) /\ Entry' = Entry /\ Limit' = Limit
        /\ Beyond(checkpoint.position)' = Beyond(checkpoint.position)
    BY <2>1 DEF ToCome, InRow, Entries, Rows, Tables, Beyond, Entry, Limit
  <2> QED
    BY <2>1, <2>2 DEF RepeatsAreFew, Running, AResumeRepeatsAtMostABatchOfEachTable
<1> QED
  BY <1>1, LoadRepeats, NextBatchRepeats, BeginRowRepeats, EndBatchRepeats, GenerateRepeats, CheckpointRepeats,
     DataRepeats, SaveAllRepeats, OtherRepeats DEF CodeNext

\* The inductive invariant: the place of the program in its batches, that every row passed
\* in silence is paid for by an error, and what is beyond the batches of the checkpoint.
THEOREM CodeInvariant == CodeSpec => [](CodeTypeOK /\ PlaceIsRight /\ SilenceIsPaidFor /\ RepeatsAreFew)
<1>1. CodeInit => CodeTypeOK /\ PlaceIsRight /\ SilenceIsPaidFor /\ RepeatsAreFew
  BY InitPlace, InitSilence, InitRepeats
<1>2. CodeTypeOK /\ PlaceIsRight /\ SilenceIsPaidFor /\ RepeatsAreFew /\ [CodeNext]_codeVars
        => (CodeTypeOK /\ PlaceIsRight /\ SilenceIsPaidFor /\ RepeatsAreFew)'
  BY StepPlace, StepSilence, StepRepeats
<1> QED
  BY <1>1, <1>2, PTL DEF CodeSpec

\* AResumeRepeatsAtMostABatchOfEachTable in every reachable state, for any tables, batches
\* and languages: a start makes again at most a batch of each table and an entry for each
\* earlier start (save_checkpoint notes the positions where the batches began).
THEOREM ResumesRepeatLittle == CodeSpec => []AResumeRepeatsAtMostABatchOfEachTable
<1>1. RepeatsAreFew => AResumeRepeatsAtMostABatchOfEachTable
  BY DEF RepeatsAreFew
<1> QED
  BY <1>1, CodeInvariant, PTL

\* FewRowsAreSkippedInSilence in every reachable state, for any tables, batches, languages
\* and errors: the rows with an entry that is nowhere and not known to be lost are fewer
\* than the errors (start_language_index is not reset by a row that raises).
THEOREM FewRowsAreSilent == CodeSpec => []FewRowsAreSkippedInSilence
<1>1. CodeTypeOK /\ SilenceIsPaidFor => FewRowsAreSkippedInSilence
  <2> SUFFICES ASSUME CodeTypeOK, SilenceIsPaidFor, where = "done" PROVE FewRowsAreSkippedInSilence
    BY DEF FewRowsAreSkippedInSilence
  <2> DEFINE silent == Entries \ (Kept(saved) \cup lost)
  <2>1. Entries \cap Missing = silent
    BY DEF Missing, Running
  <2>2. Few(Entries) /\ Silence(Entries) = Cardinality(RowsOf(silent))
    BY <2>1 DEF SilenceIsPaidFor, Silence
  <2>3. silent \in SUBSET Entries
    OBVIOUS
  <2>4. Cardinality(RowsOf(silent)) \in Nat /\ (Cardinality(RowsOf(silent)) = 0 <=> silent = {})
    BY <2>3, RowsAreFinite
  <2>5. RowsOf(silent) = {<<e[1], e[2]>> : e \in silent}
    BY DEF RowsOf
  <2>6. silent # {} => Cardinality(RowsOf(silent)) < errors
    BY <2>2, <2>4 DEF Few
  <2> QED
    BY <2>5, <2>6 DEF FewRowsAreSkippedInSilence
<1> QED
  BY <1>1, CodeInvariant, PTL

=============================================================================
