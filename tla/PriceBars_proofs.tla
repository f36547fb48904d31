-------------------------- MODULE PriceBars_proofs --------------------------
(***************************************************************************)
(* The bars of one ticker, for every set of trades, every length of bars   *)
(* and windows, and any number of passes.                                  *)
(*                                                                         *)
(* First the bars of the last Keep5m moments are final.  The invariant it  *)
(* needs: dates are integers, and no cutoff of a pass in progress is       *)
(* younger than the retention of five minute bars, however long the pass   *)
(* has waited between its two folds.                                       *)
(*                                                                         *)
(* Then what a bar holds.  BarsIInv says that every row is a bar of trades *)
(* of its own day, that the cutoffs are multiples of an hour and of a day, *)
(* and, while nothing was stored at a seam, that the trades of a bar lie   *)
(* between its date and its close, before those of any later bar, and that *)
(* the request in flight asks from a last bar of five minutes on.  The     *)
(* lemmas before it are those of summed volumes (any of the bars may be    *)
(* counted first; bars folded into groups have together the volume they    *)
(* had), of buckets (a bucket of a bucket is the larger one), and of a     *)
(* compaction: each of its rows is the fold of the rows it puts there, in  *)
(* their order, so folding the result again is folding the rows.           *)
(***************************************************************************)
EXTENDS PriceBars, SequenceTheorems, FiniteSetTheorems, WellFoundedInduction, TLAPS

CutoffsAreOld ==
  /\ now \in Int
  /\ DOMAIN bars \subseteq Int
  /\ cutoffs \in Seq(Int)
  /\ \A i \in 1..Len(cutoffs) : cutoffs[i] <= now - Keep5m

LEMMA Lengths == HourLen \in Nat \ {0} /\ DayLen \in Nat \ {0}
BY LengthAssumption

LEMMA Windows ==
  /\ Keep5m \in Nat /\ Keep1h \in Nat /\ Start \in Nat /\ End \in Nat
  /\ Keep5m < Keep1h
BY WindowAssumption

\* A bucket starts no later than what is in it.
LEMMA BucketBelow ==
  ASSUME NEW d \in Int, NEW size \in Nat \ {0}
  PROVE  Bucket(d, size) \in Int /\ Bucket(d, size) <= d
BY SMTT(30) DEF Bucket

\* Rows at or after a cutoff stay as they are when the earlier ones are folded.
LEMMA FoldKeepsLater ==
  ASSUME NEW b, DOMAIN b \subseteq Int, NEW cutoff \in Int, NEW size \in Nat \ {0}
  PROVE  /\ DOMAIN Compacted(b, cutoff, size) \subseteq Int
         /\ \A d \in DOMAIN b : d >= cutoff =>
              d \in DOMAIN Compacted(b, cutoff, size) /\ Compacted(b, cutoff, size)[d] = b[d]
<1> DEFINE old == {d \in DOMAIN b : d < cutoff}
           agg == Aggregated(b, cutoff, size)
           rest == Keep(b, DOMAIN b \ BeforeCutoff(b, cutoff))
<1>1. DOMAIN Keep(b, old) = old
  BY DEF Keep
<1>2. DOMAIN agg = {Bucket(d, size) : d \in old}
  BY <1>1 DEF Aggregated, Candles
<1>3. \A k \in DOMAIN agg : k \in Int /\ k < cutoff
  <2> SUFFICES ASSUME NEW k \in DOMAIN agg PROVE k \in Int /\ k < cutoff
    OBVIOUS
  <2>1. PICK d \in old : k = Bucket(d, size)
    BY <1>2
  <2> HIDE DEF agg
  <2> QED
    BY <2>1, BucketBelow
<1>4. /\ DOMAIN rest = {d \in DOMAIN b : ~(d < cutoff)}
      /\ \A d \in DOMAIN rest : rest[d] = b[d]
  BY DEF Keep, BeforeCutoff
<1>5. Compacted(b, cutoff, size) = Join(agg, rest)
  BY DEF Compacted
<1> HIDE DEF agg, rest
<1> QED
  BY <1>3, <1>4, <1>5 DEF Join

LEMMA UpsertKeeps ==
  ASSUME NEW b, NEW response
  PROVE  /\ DOMAIN Upserted(b, response) = DOMAIN b \cup DOMAIN response
         /\ \A d \in DOMAIN b : Upserted(b, response)[d] = b[d]
BY DEF Upserted, Join

\* The answers of the source have integer dates, and so has each part of them.
LEMMA PartDates ==
  ASSUME NEW response, DOMAIN response \subseteq Int,
         NEW part \in StoredParts(response) \cup {<<>>}
  PROVE  DOMAIN part \subseteq Int
<1>1. CASE part = <<>>
  BY <1>1
<1>2. CASE part \in StoredParts(response)
  <2>1. PICK D : D \subseteq DOMAIN response /\ part = Keep(response, D)
    BY <1>2 DEF StoredParts
  <2> QED
    BY <2>1 DEF Keep
<1> QED
  BY <1>1, <1>2

LEMMA SourceDates ==
  ASSUME NEW len, NEW offset, NEW from, NEW r
  PROVE  DOMAIN SourceBars(len, offset, from, r) \subseteq Moment
BY DEF SourceBars

\* What a step may do to the table: nothing, an upsert, or a fold up to a cutoff.
TableStep ==
  \/ UNCHANGED bars
  \/ \E part : DOMAIN part \subseteq Int /\ bars' = Upserted(bars, part)
  \/ \E i \in 1..Len(cutoffs), size \in Nat \ {0} : bars' = Compacted(bars, cutoffs[i], size)

LEMMA MomentsAreIntegers == Moment \subseteq Int
BY Windows DEF Moment

LEMMA NextTableStep ==
  ASSUME Next
  PROVE  TableStep
<1>1. ASSUME StoreLive PROVE TableStep
  <2>1. PICK q \in live : \E r \in q.at..now :
          LET from == IF q.since < r - Served5m THEN r - Served5m ELSE q.since
              answer == SourceBars(SlotLen, 0, from, r)
              response == Keep(answer, {d \in DOMAIN answer : d <= q.at})
          IN  \E part \in StoredParts(response) \cup {<<>>} : bars' = Upserted(bars, part)
    BY <1>1 DEF StoreLive
  <2>2. PICK r \in q.at..now :
          LET from == IF q.since < r - Served5m THEN r - Served5m ELSE q.since
              answer == SourceBars(SlotLen, 0, from, r)
              response == Keep(answer, {d \in DOMAIN answer : d <= q.at})
          IN  \E part \in StoredParts(response) \cup {<<>>} : bars' = Upserted(bars, part)
    BY <2>1
  <2> DEFINE from == IF q.since < r - Served5m THEN r - Served5m ELSE q.since
             answer == SourceBars(SlotLen, 0, from, r)
             response == Keep(answer, {d \in DOMAIN answer : d <= q.at})
  <2>3. PICK part \in StoredParts(response) \cup {<<>>} : bars' = Upserted(bars, part)
    BY <2>2
  <2>4. DOMAIN answer \subseteq Int
    BY SourceDates, MomentsAreIntegers
  <2> HIDE DEF answer
  <2>5. DOMAIN response \subseteq Int
    BY <2>4 DEF Keep
  <2> HIDE DEF response
  <2>6. DOMAIN part \subseteq Int
    BY <2>3, <2>5, PartDates
  <2> QED
    BY <2>3, <2>6 DEF TableStep
<1>2. ASSUME StoreHistory PROVE TableStep
  <2>1. PICK at \in history : \E r \in at..now :
          \E part \in StoredParts(SourceBars(HourLen, HourOffset, r - Served1h, r)) \cup {<<>>} :
            bars' = Upserted(bars, part)
    BY <1>2 DEF StoreHistory
  <2>5. PICK r \in at..now :
          \E part \in StoredParts(SourceBars(HourLen, HourOffset, r - Served1h, r)) \cup {<<>>} :
            bars' = Upserted(bars, part)
    BY <2>1
  <2> DEFINE response == SourceBars(HourLen, HourOffset, r - Served1h, r)
  <2>2. PICK part \in StoredParts(response) \cup {<<>>} : bars' = Upserted(bars, part)
    BY <2>5
  <2>3. DOMAIN response \subseteq Int
    BY SourceDates, MomentsAreIntegers
  <2> HIDE DEF response
  <2>4. DOMAIN part \subseteq Int
    BY <2>2, <2>3, PartDates
  <2> QED
    BY <2>2, <2>4 DEF TableStep
<1>3. ASSUME HourlyPass PROVE TableStep
  BY <1>3, Lengths DEF HourlyPass, TableStep
<1>4. ASSUME DailyPass PROVE TableStep
  BY <1>4, Lengths DEF DailyPass, TableStep
<1>5. ASSUME Tick \/ AskLive \/ AskHistory \/ AskHistoryUnread \/ BacktestMiss \/ BeginPass \/ PassFails
      PROVE  TableStep
  BY <1>5 DEF Tick, AskLive, AskHistory, AskHistoryUnread, BacktestMiss, BeginPass, PassFails, TableStep
<1> QED
  BY <1>1, <1>2, <1>3, <1>4, <1>5 DEF Next

LEMMA TableStepKeepsRecent ==
  ASSUME CutoffsAreOld, TableStep
  PROVE  /\ DOMAIN bars' \subseteq Int
         /\ \A d \in DOMAIN bars : d >= now - Keep5m => d \in DOMAIN bars' /\ bars'[d] = bars[d]
<1>1. CASE UNCHANGED bars
  BY <1>1 DEF CutoffsAreOld
<1>2. CASE \E part : DOMAIN part \subseteq Int /\ bars' = Upserted(bars, part)
  <2>1. PICK part : DOMAIN part \subseteq Int /\ bars' = Upserted(bars, part)
    BY <1>2
  <2> QED
    BY <2>1, UpsertKeeps DEF CutoffsAreOld
<1>3. CASE \E i \in 1..Len(cutoffs), size \in Nat \ {0} : bars' = Compacted(bars, cutoffs[i], size)
  <2>1. PICK i \in 1..Len(cutoffs), size \in Nat \ {0} : bars' = Compacted(bars, cutoffs[i], size)
    BY <1>3
  <2>2. cutoffs[i] \in Int /\ cutoffs[i] <= now - Keep5m
    BY <2>1 DEF CutoffsAreOld
  <2>3. /\ DOMAIN bars' \subseteq Int
        /\ \A d \in DOMAIN bars : d >= cutoffs[i] => d \in DOMAIN bars' /\ bars'[d] = bars[d]
    BY <2>1, <2>2, FoldKeepsLater DEF CutoffsAreOld
  <2> QED
    BY <2>2, <2>3, Windows DEF CutoffsAreOld
<1> QED
  BY <1>1, <1>2, <1>3 DEF TableStep

LEMMA TailOfPair ==
  ASSUME NEW s \in Seq(Int), Len(s) = 2
  PROVE  Tail(s) \in Seq(Int) /\ Len(Tail(s)) = 1 /\ Tail(s)[1] = s[2]
<1>1. s # <<>>
  BY EmptySeq
<1>2. /\ Tail(s) \in Seq(Int) /\ Len(Tail(s)) = Len(s) - 1
      /\ \A i \in 1..Len(Tail(s)) : Tail(s)[i] = s[i + 1]
  BY <1>1, HeadTailProperties
<1>3. Len(Tail(s)) = 1
  BY <1>2
<1>4. Tail(s)[1] = s[1 + 1]
  BY <1>2, <1>3
<1> QED
  BY <1>2, <1>3, <1>4

\* The clock only runs forward, and a new pass takes its cutoffs from the past.
LEMMA NextCutoffs ==
  ASSUME CutoffsAreOld, Next
  PROVE  CutoffsAreOld'
<1> DEFINE Old(c, n) == c \in Seq(Int) /\ \A i \in 1..Len(c) : c[i] <= n - Keep5m
<1>1. DOMAIN bars' \subseteq Int
  BY NextTableStep, TableStepKeepsRecent
<1>2. now' \in Int /\ Old(cutoffs', now')
  <2>1. CASE Tick
    BY <2>1, Windows DEF Tick, CutoffsAreOld
  <2>2. CASE BeginPass
    <3>1. /\ Bucket(now - Keep5m, HourLen) \in Int /\ Bucket(now - Keep5m, HourLen) <= now - Keep5m
          /\ Bucket(now - Keep1h, DayLen) \in Int /\ Bucket(now - Keep1h, DayLen) <= now - Keep1h
      BY BucketBelow, Lengths, Windows DEF CutoffsAreOld
    <3>2. Bucket(now - Keep1h, DayLen) <= now - Keep5m
      BY <3>1, Windows DEF CutoffsAreOld
    <3> QED
      BY <2>2, <3>1, <3>2, Windows DEF BeginPass, CutoffsAreOld
  <2>3. CASE HourlyPass \/ DailyPass
    <3>1. /\ now' = now
          /\ cutoffs' = <<>> \/ (Len(cutoffs) = 2 /\ cutoffs' = Tail(cutoffs))
      BY <2>3 DEF HourlyPass, DailyPass
    <3>2. CASE cutoffs' = <<>>
      BY <3>1, <3>2 DEF CutoffsAreOld
    <3>3. CASE Len(cutoffs) = 2 /\ cutoffs' = Tail(cutoffs)
      <4>1. cutoffs \in Seq(Int)
        BY DEF CutoffsAreOld
      <4>2. cutoffs' \in Seq(Int) /\ Len(cutoffs') = 1 /\ cutoffs'[1] = cutoffs[2]
        BY <3>3, <4>1, TailOfPair
      <4> QED
        BY <3>1, <3>3, <4>2 DEF CutoffsAreOld
    <3> QED
      BY <3>1, <3>2, <3>3
  <2>4. CASE PassFails
    BY <2>4 DEF PassFails, CutoffsAreOld
  <2>5. CASE AskLive \/ StoreLive \/ AskHistory \/ AskHistoryUnread \/ BacktestMiss \/ StoreHistory
    BY <2>5 DEF AskLive, StoreLive, AskHistory, AskHistoryUnread, BacktestMiss, StoreHistory, CutoffsAreOld
  <2> QED
    BY <2>1, <2>2, <2>3, <2>4, <2>5 DEF Next
<1> QED
  BY <1>1, <1>2 DEF CutoffsAreOld

LEMMA InitCutoffs == Init => CutoffsAreOld
<1> SUFFICES ASSUME Init PROVE CutoffsAreOld
  OBVIOUS
<1> DEFINE old == SourceBars(HourLen, HourOffset, Start - Served1h, Start - Keep5m)
<1>1. DOMAIN old \subseteq Int
  BY SourceDates, MomentsAreIntegers
<1>2. bars \in {<<>>, [d \in DOMAIN old |-> [old[d] EXCEPT !.legacy = TRUE]]}
  BY DEF Init
<1> HIDE DEF old
<1>3. DOMAIN bars \subseteq Int
  BY <1>1, <1>2
<1> QED
  BY <1>3, Windows DEF Init, CutoffsAreOld

\* A bar of the last thirty days is never changed and never removed: not by an
\* answer that overlaps it, nor by a pass that was begun long ago.
THEOREM RecentBarsStay == Spec => RecentBarsAreFinal
<1>1. Init => CutoffsAreOld
  BY InitCutoffs
<1>2. CutoffsAreOld /\ [Next]_vars => CutoffsAreOld'
  BY NextCutoffs DEF vars, CutoffsAreOld
<1>3. CutoffsAreOld /\ [Next]_vars =>
        [\A d \in DOMAIN bars : d >= now - Keep5m => d \in DOMAIN bars' /\ bars'[d] = bars[d]]_vars
  BY NextTableStep, TableStepKeepsRecent
<1> QED
  BY <1>1, <1>2, <1>3, PTL DEF Spec, RecentBarsAreFinal

-----------------------------------------------------------------------------
(* Sets of sets and sets of numbers have least elements.                   *)

LEMMA SmallestSubset ==
  ASSUME NEW U, IsFiniteSet(U), NEW B \in SUBSET SUBSET U, B # {}
  PROVE  \E S \in B : \A T \in SUBSET S : T # S => T \notin B
<1>1. IsWellFoundedOn(StrictSubsetOrdering(U), SUBSET U)
  BY FS_StrictSubsetOrderingWellFounded, FS_FiniteSubsetsOfFinite
<1>2. PICK S \in B : \A T \in B : ~(<<T, S>> \in StrictSubsetOrdering(U))
  BY <1>1, WFMin
<1>3. ASSUME NEW T \in SUBSET S, T # S, T \in B PROVE FALSE
  <2>1. <<T, S>> \in (SUBSET U) \X (SUBSET U) /\ <<T, S>>[1] = T /\ <<T, S>>[2] = S
    BY <1>3
  <2> QED
    BY <1>2, <1>3, <2>1 DEF StrictSubsetOrdering
<1> QED
  BY <1>3

Less == {pair \in Nat \X Nat : pair[1] < pair[2]}

LEMMA LessIsWellFounded == IsWellFoundedOn(Less, Nat)
BY NatLessThanWellFounded DEF OpToRel, Less

LEMMA LeastNumber ==
  ASSUME NEW S \in SUBSET Nat, S # {}
  PROVE  \E x \in S : \A y \in S : x <= y
<1>1. PICK x \in S : \A y \in S : ~(<<y, x>> \in Less)
  BY LessIsWellFounded, WFMin
<1>2. ASSUME NEW y \in S PROVE x <= y
  <2>1. <<y, x>> \in Nat \X Nat /\ <<y, x>>[1] = y /\ <<y, x>>[2] = x
    OBVIOUS
  <2>2. ~(y < x)
    BY <1>1, <2>1 DEF Less
  <2> QED
    BY <2>2
<1> QED
  BY <1>2

LEMMA GreatestNumber ==
  ASSUME NEW S \in SUBSET Nat, S # {}, NEW n \in Nat, \A i \in S : i <= n
  PROVE  \E i \in S : \A j \in S : j <= i
<1> DEFINE T == {n - i : i \in S}
<1>0. \A i \in S : n - i \in Nat
  OBVIOUS
<1>1. T \in SUBSET Nat /\ T # {}
  BY <1>0
<1>2. PICK d \in T : \A y \in T : d <= y
  BY <1>1, LeastNumber
<1>3. PICK i \in S : d = n - i
  OBVIOUS
<1>4. ASSUME NEW j \in S PROVE j <= i
  <2>1. n - j \in T
    OBVIOUS
  <2>2. d <= n - j
    BY <1>2, <2>1
  <2> QED
    BY <1>3, <2>2
<1> QED
  BY <1>4

\* The first and the last of some moments.
LEMMA Extremes ==
  ASSUME NEW S \in SUBSET Moment, S # {}
  PROVE  /\ Min(S) \in S /\ Max(S) \in S
         /\ \A d \in S : Min(S) <= d /\ d <= Max(S)
         /\ Min(S) \in Nat /\ Max(S) \in Nat
<1>0. End \in Nat
  BY WindowAssumption
<1>1. S \in SUBSET Nat /\ \A d \in S : d <= End
  BY <1>0 DEF Moment
<1>2. \E x \in S : \A y \in S : x <= y
  BY <1>1, LeastNumber
<1>3. \E x \in S : \A y \in S : y <= x
  BY <1>0, <1>1, GreatestNumber
<1>4. Min(S) \in S /\ \A d \in S : Min(S) <= d
  BY <1>2 DEF Min
<1>5. \E x \in S : \A y \in S : x >= y
  BY <1>1, <1>3
<1>6. Max(S) \in S /\ \A d \in S : Max(S) >= d
  BY <1>5 DEF Max
<1>7. Max(S) \in Nat /\ Min(S) \in Nat
  BY <1>1, <1>4, <1>6
<1>8. \A d \in S : d \in Nat /\ d <= Max(S)
  BY <1>1, <1>6, <1>7
<1> QED
  BY <1>4, <1>6, <1>7, <1>8

\* The first and the last are known by what they are.
LEMMA ExtremesAre ==
  ASSUME NEW S \in SUBSET Moment, NEW x \in S
  PROVE  /\ (\A d \in S : x <= d) => Min(S) = x
         /\ (\A d \in S : d <= x) => Max(S) = x
<1>1. /\ Min(S) \in S /\ Max(S) \in S
      /\ \A d \in S : Min(S) <= d /\ d <= Max(S)
      /\ Min(S) \in Nat /\ Max(S) \in Nat
  BY Extremes
<1>2. x \in Nat
  BY WindowAssumption DEF Moment
<1> QED
  BY <1>1, <1>2

LEMMA MomentsAreFinite == ASSUME NEW S \in SUBSET Moment PROVE IsFiniteSet(S)
<1>1. IsFiniteSet(Moment)
  BY FS_Interval, WindowAssumption DEF Moment
<1> QED
  BY <1>1, FS_Subset

-----------------------------------------------------------------------------
(* Bags under union.                                                       *)

IsBag(B) == B \in [DOMAIN B -> Nat \ {0}]

LEMMA EmptyBagFacts == IsBag(EmptyBag) /\ DOMAIN EmptyBag = {}
BY DEF IsBag, EmptyBag, SetToBag

LEMMA BagUnionFacts ==
  ASSUME NEW A, NEW B
  PROVE  /\ DOMAIN (A (+) B) = DOMAIN A \cup DOMAIN B
         /\ IsBag(A) /\ IsBag(B) => IsBag(A (+) B)
<1>1. DOMAIN (A (+) B) = DOMAIN A \cup DOMAIN B
  BY DEF (+)
<1>2. ASSUME IsBag(A), IsBag(B) PROVE IsBag(A (+) B)
  <2>1. \A e \in DOMAIN A : A[e] \in Nat \ {0}
    BY <1>2 DEF IsBag
  <2>2. \A e \in DOMAIN B : B[e] \in Nat \ {0}
    BY <1>2 DEF IsBag
  <2>3. \A e \in DOMAIN A \cup DOMAIN B :
          (IF e \in DOMAIN A THEN A[e] ELSE 0) + (IF e \in DOMAIN B THEN B[e] ELSE 0) \in Nat \ {0}
    BY <2>1, <2>2
  <2> QED
    BY <2>3 DEF (+), IsBag
<1> QED
  BY <1>1, <1>2

LEMMA BagUnionCommutes ==
  ASSUME NEW A, NEW B, IsBag(A), IsBag(B)
  PROVE  A (+) B = B (+) A
<1>1. \A e \in DOMAIN A : A[e] \in Nat
  BY DEF IsBag
<1>2. \A e \in DOMAIN B : B[e] \in Nat
  BY DEF IsBag
<1> QED
  BY <1>1, <1>2 DEF (+)

LEMMA BagUnionAssociates ==
  ASSUME NEW A, NEW B, NEW C, IsBag(A), IsBag(B), IsBag(C)
  PROVE  A (+) (B (+) C) = (A (+) B) (+) C
<1>1. \A e \in DOMAIN A : A[e] \in Nat
  BY DEF IsBag
<1>2. \A e \in DOMAIN B : B[e] \in Nat
  BY DEF IsBag
<1>3. \A e \in DOMAIN C : C[e] \in Nat
  BY DEF IsBag
<1> QED
  BY <1>1, <1>2, <1>3 DEF (+)

LEMMA BagUnionEmpty ==
  ASSUME NEW A, IsBag(A)
  PROVE  A (+) EmptyBag = A /\ EmptyBag (+) A = A
<1>1. \A e \in DOMAIN A : A[e] \in Nat
  BY DEF IsBag
<1>2. DOMAIN EmptyBag = {}
  BY EmptyBagFacts
<1>3. A = [e \in DOMAIN A |-> A[e]]
  BY DEF IsBag
<1> QED
  BY <1>1, <1>2, <1>3 DEF (+)

-----------------------------------------------------------------------------
(* The summed volume.                                                      *)

OneOf(s) == CHOOSE d \in s : TRUE

\* One step of the sum, and the sums of all the subsets of s.
Step(b, f, s) == IF s = {} THEN EmptyBag ELSE b[OneOf(s)].trades (+) f[s \ {OneOf(s)}]
Sums(b, f, s) == f = [x \in SUBSET s |-> Step(b, f, x)]
Sum(b, s) == CHOOSE f : Sums(b, f, s)

LEMMA OneOfIt == ASSUME NEW s, s # {} PROVE OneOf(s) \in s
BY DEF OneOf

LEMMA VolumeIsSum == ASSUME NEW b, NEW D PROVE Volume(b, D) = Sum(b, D)[D]
BY DEF Volume, MapThenFoldSet, Sum, Sums, Step, OneOf

LEMMA SumsAt ==
  ASSUME NEW b, NEW f, NEW s, Sums(b, f, s), NEW x \in SUBSET s
  PROVE  f[x] = Step(b, f, x)
BY DEF Sums

LEMMA SumsOfPart ==
  ASSUME NEW b, NEW f, NEW s, Sums(b, f, s), NEW e \in SUBSET s
  PROVE  Sums(b, [x \in SUBSET e |-> f[x]], e)
<1> DEFINE g == [x \in SUBSET e |-> f[x]]
<1>1. ASSUME NEW x \in SUBSET e PROVE g[x] = Step(b, g, x)
  <2>1. g[x] = Step(b, f, x)
    BY SumsAt
  <2>2. x # {} => x \ {OneOf(x)} \in SUBSET e
    OBVIOUS
  <2> QED
    BY <2>1, <2>2 DEF Step
<1>2. DOMAIN g = SUBSET e /\ g = [x \in SUBSET e |-> g[x]]
  OBVIOUS
<1> HIDE DEF g
<1>3. g = [x \in SUBSET e |-> Step(b, g, x)]
  BY <1>1, <1>2
<1> QED
  BY <1>3 DEF Sums, g

LEMMA SumsAreUnique ==
  ASSUME NEW b, NEW f, NEW g, NEW s, IsFiniteSet(s), Sums(b, f, s), Sums(b, g, s)
  PROVE  f = g
<1> DEFINE differ == {x \in SUBSET s : f[x] # g[x]}
<1>1. CASE differ = {}
  <2>1. DOMAIN f = SUBSET s /\ DOMAIN g = SUBSET s /\ f = [x \in SUBSET s |-> f[x]] /\ g = [x \in SUBSET s |-> g[x]]
    BY DEF Sums
  <2> QED
    BY <1>1, <2>1
<1>2. CASE differ # {}
  <2>0. differ \in SUBSET SUBSET s
    OBVIOUS
  <2>1. PICK x \in differ : \A y \in SUBSET x : y # x => y \notin differ
    <3> HIDE DEF differ
    <3> QED
      BY <1>2, <2>0, SmallestSubset
  <2>2. f[x] = Step(b, f, x) /\ g[x] = Step(b, g, x)
    BY SumsAt
  <2>3. x # {}
    BY <2>2 DEF Step
  <2>4. OneOf(x) \in x
    BY <2>3, OneOfIt
  <2>5. f[x \ {OneOf(x)}] = g[x \ {OneOf(x)}]
    BY <2>1, <2>4
  <2> QED
    BY <2>2, <2>3, <2>5 DEF Step
<1> QED
  BY <1>1, <1>2

LEMMA SumsExist ==
  ASSUME NEW b, NEW s, IsFiniteSet(s)
  PROVE  Sums(b, Sum(b, s), s)
<1> DEFINE without == {x \in SUBSET s : ~\E f : Sums(b, f, x)}
<1>1. CASE without # {}
  <2>0. without \in SUBSET SUBSET s
    OBVIOUS
  <2>1. PICK x \in without : \A y \in SUBSET x : y # x => y \notin without
    <3> HIDE DEF without
    <3> QED
      BY <1>1, <2>0, SmallestSubset
  <2>2. ASSUME NEW y \in SUBSET x, y # x PROVE Sums(b, Sum(b, y), y)
    <3>1. \E f : Sums(b, f, y)
      BY <2>1, <2>2
    <3> QED
      BY <3>1 DEF Sum
  <2>3. ASSUME NEW y \in SUBSET x, y # x, NEW z \in SUBSET y PROVE Sum(b, y)[z] = Sum(b, z)[z]
    <3> DEFINE g == [w \in SUBSET z |-> Sum(b, y)[w]]
    <3>1. Sums(b, g, z)
      BY <2>2, <2>3, SumsOfPart
    <3>2. Sums(b, Sum(b, z), z)
      BY <2>2, <2>3
    <3>3. IsFiniteSet(z)
      BY <2>3, FS_Subset
    <3>4. g = Sum(b, z)
      BY <3>1, <3>2, <3>3, SumsAreUnique
    <3> QED
      BY <3>4
  <2> DEFINE last == IF x = {} THEN EmptyBag
                     ELSE b[OneOf(x)].trades (+) Sum(b, x \ {OneOf(x)})[x \ {OneOf(x)}]
             g == [y \in SUBSET x |-> IF y = x THEN last ELSE Sum(b, y)[y]]
  <2>4. ASSUME NEW y \in SUBSET x PROVE g[y] = Step(b, g, y)
    <3>1. CASE y = {}
      <4>1. y # x => Sum(b, y)[y] = Step(b, Sum(b, y), y)
        BY <2>2, SumsAt
      <4> QED
        BY <3>1, <4>1 DEF Step
    <3>2. CASE y # {}
      <4> DEFINE z == y \ {OneOf(y)}
      <4>1. OneOf(y) \in y
        BY <3>2, OneOfIt
      <4>2. z \in SUBSET y /\ z \in SUBSET x /\ z # x /\ z # y
        BY <4>1
      <4>3. g[z] = Sum(b, z)[z]
        BY <4>2
      <4>4. CASE y = x
        BY <3>2, <4>3, <4>4 DEF Step
      <4>5. CASE y # x
        <5>1. Sum(b, y)[y] = b[OneOf(y)].trades (+) Sum(b, y)[z]
          BY <2>2, <3>2, <4>5, SumsAt DEF Step
        <5>2. Sum(b, y)[z] = Sum(b, z)[z]
          BY <2>3, <4>2, <4>5
        <5> QED
          BY <3>2, <4>3, <4>5, <5>1, <5>2 DEF Step
      <4> QED
        BY <4>4, <4>5
    <3> QED
      BY <3>1, <3>2
  <2>5. DOMAIN g = SUBSET x /\ g = [y \in SUBSET x |-> g[y]]
    OBVIOUS
  <2> HIDE DEF g
  <2>6. g = [y \in SUBSET x |-> Step(b, g, y)]
    BY <2>4, <2>5
  <2>7. Sums(b, g, x)
    BY <2>6 DEF Sums
  <2> QED
    BY <2>7
<1>2. CASE without = {}
  <2>1. \E f : Sums(b, f, s)
    BY <1>2
  <2> QED
    BY <2>1 DEF Sum
<1> QED
  BY <1>1, <1>2

\* The volume of no bar is none; that of some is one's and that of the others.
LEMMA VolumeStep ==
  ASSUME NEW b, NEW D, IsFiniteSet(D)
  PROVE  /\ Volume(b, {}) = EmptyBag
         /\ D # {} => Volume(b, D) = b[OneOf(D)].trades (+) Volume(b, D \ {OneOf(D)})
<1>1. Sums(b, Sum(b, D), D)
  BY SumsExist
<1>2. Volume(b, {}) = EmptyBag
  <2>1. IsFiniteSet({})
    BY FS_EmptySet
  <2>2. Sums(b, Sum(b, {}), {})
    BY <2>1, SumsExist
  <2>3. Sum(b, {})[{}] = Step(b, Sum(b, {}), {})
    BY <2>2, SumsAt
  <2> QED
    BY <2>3, VolumeIsSum DEF Step
<1>3. ASSUME D # {} PROVE Volume(b, D) = b[OneOf(D)].trades (+) Volume(b, D \ {OneOf(D)})
  <2> DEFINE E == D \ {OneOf(D)}
             g == [w \in SUBSET E |-> Sum(b, D)[w]]
  <2>1. Sum(b, D)[D] = b[OneOf(D)].trades (+) Sum(b, D)[E]
    BY <1>1, <1>3, SumsAt DEF Step
  <2>2. E \in SUBSET D /\ IsFiniteSet(E)
    BY FS_Subset
  <2>3. Sums(b, g, E)
    BY <1>1, <2>2, SumsOfPart
  <2>4. Sums(b, Sum(b, E), E)
    BY <2>2, SumsExist
  <2>5. g = Sum(b, E)
    BY <2>2, <2>3, <2>4, SumsAreUnique
  <2>6. Sum(b, D)[E] = Sum(b, E)[E]
    BY <2>5
  <2> QED
    BY <2>1, <2>6, VolumeIsSum
<1> QED
  BY <1>2, <1>3

LEMMA VolumeDomain ==
  ASSUME NEW b, NEW D, IsFiniteSet(D)
  PROVE  DOMAIN Volume(b, D) = UNION {DOMAIN b[d].trades : d \in D}
<1> DEFINE All(s) == UNION {DOMAIN b[d].trades : d \in s}
           wrong == {x \in SUBSET D : DOMAIN Volume(b, x) # All(x)}
<1>1. ASSUME wrong # {} PROVE FALSE
  <2>0. wrong \in SUBSET SUBSET D
    OBVIOUS
  <2>1. PICK x \in wrong : \A y \in SUBSET x : y # x => y \notin wrong
    <3> HIDE DEF wrong
    <3> QED
      BY <1>1, <2>0, SmallestSubset
  <2>2. IsFiniteSet(x)
    BY FS_Subset
  <2>3. x # {}
    BY <2>2, VolumeStep, EmptyBagFacts
  <2> DEFINE y == x \ {OneOf(x)}
  <2>4. OneOf(x) \in x /\ y \in SUBSET x /\ y # x
    BY <2>3, OneOfIt
  <2>5. DOMAIN Volume(b, y) = All(y)
    BY <2>1, <2>4
  <2>6. Volume(b, x) = b[OneOf(x)].trades (+) Volume(b, y)
    BY <2>2, <2>3, VolumeStep
  <2>7. DOMAIN Volume(b, x) = DOMAIN b[OneOf(x)].trades \cup All(y)
    BY <2>5, <2>6, BagUnionFacts
  <2>8. All(x) = DOMAIN b[OneOf(x)].trades \cup All(y)
    BY <2>4
  <2> QED
    BY <2>7, <2>8
<1> QED
  BY <1>1

\* The volume is that of the bars' trades, whatever else differs.
LEMMA VolumeSame ==
  ASSUME NEW b, NEW c, NEW D, IsFiniteSet(D), \A d \in D : c[d].trades = b[d].trades
  PROVE  Volume(c, D) = Volume(b, D)
<1> DEFINE wrong == {x \in SUBSET D : Volume(c, x) # Volume(b, x)}
<1>1. ASSUME wrong # {} PROVE FALSE
  <2>0. wrong \in SUBSET SUBSET D
    OBVIOUS
  <2>1. PICK x \in wrong : \A y \in SUBSET x : y # x => y \notin wrong
    <3> HIDE DEF wrong
    <3> QED
      BY <1>1, <2>0, SmallestSubset
  <2>2. IsFiniteSet(x)
    BY FS_Subset
  <2>3. x # {}
    BY <2>2, VolumeStep
  <2> DEFINE y == x \ {OneOf(x)}
  <2>4. OneOf(x) \in x /\ y \in SUBSET x /\ y # x
    BY <2>3, OneOfIt
  <2>5. Volume(c, y) = Volume(b, y)
    BY <2>1, <2>4
  <2>6. /\ Volume(b, x) = b[OneOf(x)].trades (+) Volume(b, y)
        /\ Volume(c, x) = c[OneOf(x)].trades (+) Volume(c, y)
    BY <2>2, <2>3, VolumeStep
  <2>7. c[OneOf(x)].trades = b[OneOf(x)].trades
    BY <2>4
  <2> QED
    BY <2>5, <2>6, <2>7
<1>2. D \notin wrong
  BY <1>1
<1> QED
  BY <1>2

\* A volume is a bag when every bar has one.
Bags(b, D) == \A d \in D : IsBag(b[d].trades)

LEMMA VolumeIsBag ==
  ASSUME NEW b, NEW D, IsFiniteSet(D), Bags(b, D)
  PROVE  IsBag(Volume(b, D))
<1> DEFINE wrong == {x \in SUBSET D : ~IsBag(Volume(b, x))}
<1>1. ASSUME wrong # {} PROVE FALSE
  <2>0. wrong \in SUBSET SUBSET D
    OBVIOUS
  <2>1. PICK x \in wrong : \A y \in SUBSET x : y # x => y \notin wrong
    <3> HIDE DEF wrong
    <3> QED
      BY <1>1, <2>0, SmallestSubset
  <2>2. IsFiniteSet(x)
    BY FS_Subset
  <2>3. x # {}
    BY <2>2, VolumeStep, EmptyBagFacts
  <2> DEFINE y == x \ {OneOf(x)}
  <2>4. OneOf(x) \in x /\ y \in SUBSET x /\ y # x
    BY <2>3, OneOfIt
  <2>5. IsBag(Volume(b, y)) /\ IsBag(b[OneOf(x)].trades)
    BY <2>1, <2>4 DEF Bags
  <2>6. Volume(b, x) = b[OneOf(x)].trades (+) Volume(b, y)
    BY <2>2, <2>3, VolumeStep
  <2> QED
    BY <2>5, <2>6, BagUnionFacts
<1> QED
  BY <1>1

\* Any of the bars may be counted first.
LEMMA VolumeAny ==
  ASSUME NEW b, NEW D, IsFiniteSet(D), Bags(b, D), NEW e \in D
  PROVE  Volume(b, D) = b[e].trades (+) Volume(b, D \ {e})
<1> DEFINE wrong == {x \in SUBSET D : \E d \in x : Volume(b, x) # b[d].trades (+) Volume(b, x \ {d})}
<1>1. ASSUME wrong # {} PROVE FALSE
  <2>0. wrong \in SUBSET SUBSET D
    OBVIOUS
  <2>1. PICK x \in wrong : \A y \in SUBSET x : y # x => y \notin wrong
    <3> HIDE DEF wrong
    <3> QED
      BY <1>1, <2>0, SmallestSubset
  <2>2. PICK d \in x : Volume(b, x) # b[d].trades (+) Volume(b, x \ {d})
    OBVIOUS
  <2> DEFINE c == OneOf(x)
  <2>3. IsFiniteSet(x) /\ c \in x
    BY FS_Subset, OneOfIt
  <2>4. Volume(b, x) = b[c].trades (+) Volume(b, x \ {c})
    BY <2>3, VolumeStep
  <2>5. c # d
    BY <2>2, <2>4
  <2> HIDE DEF c
  <2>6. /\ x \ {c} \in SUBSET x /\ x \ {c} # x /\ d \in x \ {c}
        /\ x \ {d} \in SUBSET x /\ x \ {d} # x /\ c \in x \ {d}
    BY <2>3, <2>5
  <2> DEFINE rest == (x \ {c}) \ {d}
  <2>7. rest = (x \ {d}) \ {c}
    OBVIOUS
  <2>8. Volume(b, x \ {c}) = b[d].trades (+) Volume(b, rest)
    BY <2>1, <2>6
  <2>9. Volume(b, x \ {d}) = b[c].trades (+) Volume(b, rest)
    BY <2>1, <2>6, <2>7
  <2>10. rest \in SUBSET D
    OBVIOUS
  <2> HIDE DEF rest
  <2>11. IsFiniteSet(rest) /\ Bags(b, rest)
    BY <2>10, FS_Subset DEF Bags
  <2>12. IsBag(Volume(b, rest))
    BY <2>11, VolumeIsBag
  <2>13. IsBag(b[c].trades) /\ IsBag(b[d].trades)
    BY <2>3 DEF Bags
  <2> DEFINE A == b[c].trades
             B == b[d].trades
             R == Volume(b, rest)
  <2>14. IsBag(A) /\ IsBag(B) /\ IsBag(R)
    BY <2>12, <2>13
  <2>15. Volume(b, x) = A (+) (B (+) R) /\ b[d].trades (+) Volume(b, x \ {d}) = B (+) (A (+) R)
    BY <2>4, <2>8, <2>9
  <2> HIDE DEF A, B, R
  <2>16. A (+) (B (+) R) = (A (+) B) (+) R
    BY <2>14, BagUnionAssociates
  <2>17. B (+) (A (+) R) = (B (+) A) (+) R
    BY <2>14, BagUnionAssociates
  <2>18. A (+) B = B (+) A
    BY <2>14, BagUnionCommutes
  <2> QED
    BY <2>2, <2>15, <2>16, <2>17, <2>18
<1> QED
  BY <1>1

LEMMA VolumeOfOne ==
  ASSUME NEW b, NEW d, IsBag(b[d].trades)
  PROVE  Volume(b, {d}) = b[d].trades
<1>1. IsFiniteSet({d})
  BY FS_Singleton
<1>2. Bags(b, {d})
  BY DEF Bags
<1>3. Volume(b, {d}) = b[d].trades (+) Volume(b, {d} \ {d})
  BY <1>1, <1>2, VolumeAny
<1>4. {d} \ {d} = {}
  OBVIOUS
<1>5. Volume(b, {}) = EmptyBag
  BY <1>1, VolumeStep
<1> QED
  BY <1>3, <1>4, <1>5, BagUnionEmpty

LEMMA VolumeOfBoth ==
  ASSUME NEW b, NEW D, NEW E, IsFiniteSet(D), IsFiniteSet(E), Bags(b, D), Bags(b, E), D \cap E = {}
  PROVE  Volume(b, D \cup E) = Volume(b, D) (+) Volume(b, E)
<1> DEFINE wrong == {x \in SUBSET D : Volume(b, x \cup E) # Volume(b, x) (+) Volume(b, E)}
<1>0. IsBag(Volume(b, E))
  BY VolumeIsBag
<1>1. ASSUME wrong # {} PROVE FALSE
  <2>0. wrong \in SUBSET SUBSET D
    OBVIOUS
  <2>1. PICK x \in wrong : \A y \in SUBSET x : y # x => y \notin wrong
    <3> HIDE DEF wrong
    <3> QED
      BY <1>1, <2>0, SmallestSubset
  <2>2. x # {}
    <3> SUFFICES ASSUME x = {} PROVE FALSE
      OBVIOUS
    <3>1. Volume(b, x) = EmptyBag /\ x \cup E = E
      BY VolumeStep
    <3> QED
      BY <1>0, <3>1, BagUnionEmpty
  <2>3. PICK d \in x : TRUE
    BY <2>2
  <2> DEFINE y == x \ {d}
  <2>4. y \in SUBSET x /\ y # x /\ y \in SUBSET D
    OBVIOUS
  <2>5. Volume(b, y \cup E) = Volume(b, y) (+) Volume(b, E)
    BY <2>1, <2>4
  <2>6. (x \cup E) \ {d} = y \cup E
    OBVIOUS
  <2>7. IsFiniteSet(x \cup E) /\ Bags(b, x \cup E) /\ IsFiniteSet(x) /\ Bags(b, x) /\ IsFiniteSet(y) /\ Bags(b, y)
    BY FS_Subset, FS_Union DEF Bags
  <2>8. Volume(b, x \cup E) = b[d].trades (+) Volume(b, y \cup E)
    BY <2>6, <2>7, VolumeAny
  <2>9. Volume(b, x) = b[d].trades (+) Volume(b, y)
    BY <2>7, VolumeAny
  <2>10. IsBag(b[d].trades) /\ IsBag(Volume(b, y))
    BY <2>7, VolumeIsBag DEF Bags
  <2>11. b[d].trades (+) (Volume(b, y) (+) Volume(b, E)) = (b[d].trades (+) Volume(b, y)) (+) Volume(b, E)
    BY <1>0, <2>10, BagUnionAssociates
  <2> QED
    BY <2>5, <2>8, <2>9, <2>11
<1>2. D \notin wrong
  BY <1>1
<1> QED
  BY <1>2

\* Bars that have been folded into groups have together the volume they had:
\* p names the group of each bar.
LEMMA VolumeOfGroups ==
  ASSUME NEW b, NEW c, NEW D, NEW p, NEW K,
         IsFiniteSet(D), Bags(b, D), IsFiniteSet(K),
         \A k \in K : c[k].trades = Volume(b, {d \in D : p[d] = k})
  PROVE  Volume(c, K) = Volume(b, {d \in D : p[d] \in K})
<1> DEFINE In(x) == {d \in D : p[d] \in x}
           wrong == {x \in SUBSET K : Volume(c, x) # Volume(b, In(x))}
<1>0. \A x : IsFiniteSet(In(x)) /\ Bags(b, In(x)) /\ IsBag(Volume(b, In(x)))
  <2> SUFFICES ASSUME NEW x PROVE IsFiniteSet(In(x)) /\ Bags(b, In(x)) /\ IsBag(Volume(b, In(x)))
    OBVIOUS
  <2>1. In(x) \in SUBSET D
    OBVIOUS
  <2> HIDE DEF In
  <2>2. IsFiniteSet(In(x)) /\ Bags(b, In(x))
    BY <2>1, FS_Subset DEF Bags
  <2> QED
    BY <2>2, VolumeIsBag
<1>3. \A k \in K : {d \in D : p[d] = k} = In({k})
  OBVIOUS
<1>4. ASSUME NEW k \in K PROVE IsBag(c[k].trades)
  <2>1. c[k].trades = Volume(b, In({k}))
    BY <1>3
  <2> HIDE DEF In
  <2> QED
    BY <1>0, <2>1
<1>1. ASSUME wrong # {} PROVE FALSE
  <2>0. wrong \in SUBSET SUBSET K
    OBVIOUS
  <2>1. PICK x \in wrong : \A y \in SUBSET x : y # x => y \notin wrong
    <3> HIDE DEF wrong
    <3> QED
      BY <1>1, <2>0, SmallestSubset
  <2>2. IsFiniteSet(x) /\ Bags(c, x)
    BY <1>4, FS_Subset DEF Bags
  <2>3. x # {}
    <3> SUFFICES ASSUME x = {} PROVE FALSE
      OBVIOUS
    <3>1. In(x) = {}
      OBVIOUS
    <3> QED
      BY <2>2, <3>1, VolumeStep
  <2>4. PICK k \in x : TRUE
    BY <2>3
  <2> DEFINE y == x \ {k}
  <2>5. y \in SUBSET x /\ y # x
    OBVIOUS
  <2>6. Volume(c, y) = Volume(b, In(y))
    BY <2>1, <2>5
  <2>7. Volume(c, x) = c[k].trades (+) Volume(c, y)
    BY <2>2, VolumeAny
  <2>8. c[k].trades = Volume(b, In({k}))
    BY <1>3
  <2>9. In(x) = In({k}) \cup In(y) /\ In({k}) \cap In(y) = {}
    OBVIOUS
  <2> HIDE DEF In
  <2>10. Volume(b, In({k}) \cup In(y)) = Volume(b, In({k})) (+) Volume(b, In(y))
    BY <1>0, <2>9, VolumeOfBoth
  <2>11. Volume(c, x) # Volume(b, In(x))
    OBVIOUS
  <2> QED
    BY <2>6, <2>7, <2>8, <2>9, <2>10, <2>11
<1>2. K \notin wrong
  BY <1>1
<1> QED
  BY <1>2

\* Bars that share no trade count each once.
LEMMA VolumeOnce ==
  ASSUME NEW b, NEW D, IsFiniteSet(D), Bags(b, D),
         \A d \in D : \A t \in DOMAIN b[d].trades : b[d].trades[t] = 1,
         \A d, e \in D : d # e => DOMAIN b[d].trades \cap DOMAIN b[e].trades = {}
  PROVE  \A t \in DOMAIN Volume(b, D) : Volume(b, D)[t] = 1
<1> DEFINE wrong == {x \in SUBSET D : ~\A t \in DOMAIN Volume(b, x) : Volume(b, x)[t] = 1}
<1>1. ASSUME wrong # {} PROVE FALSE
  <2>0. wrong \in SUBSET SUBSET D
    OBVIOUS
  <2>1. PICK x \in wrong : \A y \in SUBSET x : y # x => y \notin wrong
    <3> HIDE DEF wrong
    <3> QED
      BY <1>1, <2>0, SmallestSubset
  <2>2. IsFiniteSet(x) /\ Bags(b, x)
    BY FS_Subset DEF Bags
  <2>3. x # {}
    BY <2>2, VolumeStep, EmptyBagFacts
  <2>4. PICK d \in x : TRUE
    BY <2>3
  <2> DEFINE y == x \ {d}
  <2>5. y \in SUBSET x /\ y # x /\ IsFiniteSet(y)
    BY <2>2, FS_Subset
  <2>6. \A t \in DOMAIN Volume(b, y) : Volume(b, y)[t] = 1
    BY <2>1, <2>5
  <2>7. Volume(b, x) = b[d].trades (+) Volume(b, y)
    BY <2>2, VolumeAny
  <2>8. DOMAIN Volume(b, y) = UNION {DOMAIN b[e].trades : e \in y}
    BY <2>5, VolumeDomain
  <2>9. DOMAIN b[d].trades \cap DOMAIN Volume(b, y) = {}
    BY <2>8
  <2>10. \A t \in DOMAIN b[d].trades : b[d].trades[t] = 1
    OBVIOUS
  <2> DEFINE A == b[d].trades
             B == Volume(b, y)
  <2>11. \A t \in DOMAIN (A (+) B) : (A (+) B)[t] = 1
    <3> HIDE DEF A, B
    <3>1. DOMAIN A \cap DOMAIN B = {} /\ (\A t \in DOMAIN A : A[t] = 1) /\ (\A t \in DOMAIN B : B[t] = 1)
      BY <2>6, <2>9, <2>10 DEF A, B
    <3> QED
      BY <3>1 DEF (+)
  <2> QED
    BY <2>7, <2>11
<1>2. D \notin wrong
  BY <1>1
<1> QED
  BY <1>2

-----------------------------------------------------------------------------
(* Buckets.                                                                *)

LEMMA Quotient ==
  ASSUME NEW d \in Int, NEW n \in Nat \ {0}
  PROVE  d \div n \in Int /\ (d \div n) * n <= d /\ d < (d \div n) * n + n
BY SMTT(30)

LEMMA NextMultiple ==
  ASSUME NEW p \in Int, NEW q \in Int, NEW n \in Nat \ {0}, p < q
  PROVE  p * n \in Int /\ q * n \in Int /\ p * n + n <= q * n
BY SMTT(30)

LEMMA QuotientIs ==
  ASSUME NEW d \in Int, NEW n \in Nat \ {0}, NEW q \in Int, q * n <= d, d < q * n + n
  PROVE  d \div n = q
<1>1. d \div n \in Int /\ (d \div n) * n <= d /\ d < (d \div n) * n + n
  BY Quotient
<1>2. ~(d \div n < q)
  BY <1>1, NextMultiple
<1>3. ~(q < d \div n)
  BY <1>1, NextMultiple
<1> QED
  BY <1>1, <1>2, <1>3

LEMMA Remainder ==
  ASSUME NEW d \in Int, NEW n \in Nat \ {0}
  PROVE  d % n = d - (d \div n) * n
BY SMTT(30)

LEMMA Times == ASSUME NEW p \in Int, NEW n \in Int PROVE p * n \in Int
BY SMTT(30)

\* A multiple of a size, and the bucket of a date.
Multiple(m, n) == \E q \in Int : m = q * n

LEMMA MultipleIs ==
  ASSUME NEW m \in Int, NEW n \in Nat \ {0}
  PROVE  Multiple(m, n) <=> m % n = 0
<1>1. m \div n \in Int /\ m % n = m - (m \div n) * n /\ (m \div n) * n \in Int
  BY Quotient, Remainder, Times
<1>2. ASSUME m % n = 0 PROVE Multiple(m, n)
  <2>1. m = (m \div n) * n
    BY <1>1, <1>2
  <2> QED
    BY <1>1, <2>1 DEF Multiple
<1>3. ASSUME Multiple(m, n) PROVE m % n = 0
  <2>1. PICK q \in Int : m = q * n
    BY <1>3 DEF Multiple
  <2>2. m \div n = q
    BY <2>1, QuotientIs
  <2> QED
    BY <1>1, <2>1, <2>2
<1> QED
  BY <1>2, <1>3

LEMMA BucketFacts ==
  ASSUME NEW d \in Int, NEW n \in Nat \ {0}
  PROVE  /\ Bucket(d, n) \in Int /\ Multiple(Bucket(d, n), n)
         /\ Bucket(d, n) <= d /\ d < Bucket(d, n) + n
<1>1. d \div n \in Int /\ (d \div n) * n <= d /\ d < (d \div n) * n + n /\ (d \div n) * n \in Int
  BY Quotient, Times
<1> QED
  BY <1>1 DEF Bucket, Multiple

\* Multiples of a size are that size apart.
LEMMA MultiplesApart ==
  ASSUME NEW n \in Nat \ {0}, NEW x \in Int, NEW y \in Int, Multiple(x, n), Multiple(y, n), x < y
  PROVE  x + n <= y
<1>1. PICK p \in Int : x = p * n
  BY DEF Multiple
<1>2. PICK q \in Int : y = q * n
  BY DEF Multiple
<1>3. ~(q < p) /\ p # q
  BY <1>1, <1>2, NextMultiple
<1>4. p < q
  BY <1>3
<1> QED
  BY <1>1, <1>2, <1>4, NextMultiple

\* The bucket of a date is the multiple below it.
LEMMA BucketIs ==
  ASSUME NEW d \in Int, NEW n \in Nat \ {0}, NEW m \in Int, Multiple(m, n), m <= d, d < m + n
  PROVE  Bucket(d, n) = m
<1>1. PICK q \in Int : m = q * n
  BY DEF Multiple
<1>2. d \div n = q
  BY <1>1, QuotientIs
<1> QED
  BY <1>1, <1>2 DEF Bucket

LEMMA BucketsInOrder ==
  ASSUME NEW d \in Int, NEW e \in Int, NEW n \in Nat \ {0}, d <= e
  PROVE  Bucket(d, n) <= Bucket(e, n)
<1>1. /\ Bucket(d, n) \in Int /\ Multiple(Bucket(d, n), n) /\ Bucket(d, n) <= d
      /\ Bucket(e, n) \in Int /\ Multiple(Bucket(e, n), n) /\ e < Bucket(e, n) + n
  BY BucketFacts
<1>2. ~(Bucket(e, n) < Bucket(d, n))
  BY <1>1, MultiplesApart
<1> QED
  BY <1>1, <1>2

\* A multiple of a multiple.
LEMMA MultipleOfMultiple ==
  ASSUME NEW n \in Nat \ {0}, NEW k \in Nat \ {0}, Multiple(k, n), NEW m, Multiple(m, k)
  PROVE  Multiple(m, n)
<1>1. PICK p \in Int : k = p * n
  BY DEF Multiple
<1>2. PICK q \in Int : m = q * k
  BY DEF Multiple
<1>3. m = (q * p) * n /\ q * p \in Int
  BY <1>1, <1>2, SMTT(30)
<1> QED
  BY <1>3 DEF Multiple

\* A bucket stays in the larger one.
LEMMA BucketOfBucket ==
  ASSUME NEW d \in Int, NEW n \in Nat \ {0}, NEW k \in Nat \ {0}, Multiple(k, n)
  PROVE  Bucket(Bucket(d, n), k) = Bucket(d, k)
<1>1. /\ Bucket(d, n) \in Int /\ Multiple(Bucket(d, n), n) /\ Bucket(d, n) <= d
      /\ d < Bucket(d, n) + n
      /\ Bucket(d, k) \in Int /\ Multiple(Bucket(d, k), k) /\ Bucket(d, k) <= d
      /\ d < Bucket(d, k) + k
  BY BucketFacts
<1>2. Multiple(Bucket(d, k), n)
  BY <1>1, MultipleOfMultiple
<1>3. Bucket(d, k) <= Bucket(d, n)
  <2>1. ~(Bucket(d, n) < Bucket(d, k))
    BY <1>1, <1>2, MultiplesApart
  <2> QED
    BY <1>1, <2>1
<1>4. Bucket(d, n) < Bucket(d, k) + k
  BY <1>1
<1> QED
  BY <1>1, <1>3, <1>4, BucketIs

\* The day of a date is the day of its bucket.
LEMMA DayIsBucket ==
  ASSUME NEW d \in Int, NEW e \in Int, NEW k \in Nat \ {0}
  PROVE  d \div k = e \div k <=> Bucket(d, k) = Bucket(e, k)
<1>1. d \div k \in Int /\ e \div k \in Int
  BY Quotient
<1>2. ASSUME Bucket(d, k) = Bucket(e, k) PROVE d \div k = e \div k
  <2>1. (d \div k) * k = (e \div k) * k
    BY <1>2 DEF Bucket
  <2>2. ~(d \div k < e \div k) /\ ~(e \div k < d \div k)
    BY <1>1, <2>1, NextMultiple
  <2> QED
    BY <1>1, <2>2
<1> QED
  BY <1>2 DEF Bucket

LEMMA Sizes ==
  /\ SlotLen \in Nat \ {0} /\ HourLen \in Nat \ {0} /\ DayLen \in Nat \ {0}
  /\ HourOffset \in Nat /\ HourOffset < HourLen
  /\ Multiple(HourLen, SlotLen) /\ Multiple(DayLen, HourLen) /\ Multiple(DayLen, SlotLen)
  /\ Multiple(HourLen, HourLen) /\ Multiple(DayLen, DayLen) /\ Multiple(HourOffset, SlotLen)
<1>1. /\ SlotLen \in Nat \ {0} /\ HourLen \in Nat \ {0} /\ DayLen \in Nat \ {0}
      /\ HourOffset \in Nat /\ HourOffset < HourLen
  BY LengthAssumption
<1>2. Multiple(HourLen, SlotLen) /\ Multiple(DayLen, HourLen) /\ Multiple(HourOffset, SlotLen)
  BY <1>1, LengthAssumption, MultipleIs
<1>3. Multiple(DayLen, SlotLen)
  BY <1>1, <1>2, MultipleOfMultiple
<1>4. HourLen % HourLen = 0 /\ DayLen % DayLen = 0
  BY <1>1
<1>5. Multiple(HourLen, HourLen) /\ Multiple(DayLen, DayLen)
  BY <1>1, <1>4, MultipleIs
<1> QED
  BY <1>1, <1>2, <1>3, <1>5

-----------------------------------------------------------------------------
(* Bars.                                                                   *)

IsBar(x) ==
  /\ x = [open |-> x.open, close |-> x.close, trades |-> x.trades, legacy |-> x.legacy]
  /\ IsBag(x.trades) /\ DOMAIN x.trades \subseteq Trading
  /\ {x.open, x.close} \subseteq DOMAIN x.trades
  /\ x.legacy \in BOOLEAN

\* A bar at d is of one day.
OfDay(x, d) == \A t \in DOMAIN x.trades : Bucket(t, DayLen) = Bucket(d, DayLen)

Table(b) == DOMAIN b \subseteq Moment /\ \A d \in DOMAIN b : IsBar(b[d]) /\ OfDay(b[d], d)

LEMMA Moments == /\ \A d \in Moment : d \in Nat /\ d \in Int
                 /\ \A t \in Trading : t \in Moment
BY WindowAssumption, TradingAssumption DEF Moment

LEMMA TableFacts ==
  ASSUME NEW b, Table(b), NEW D \in SUBSET DOMAIN b
  PROVE  IsFiniteSet(D) /\ Bags(b, D) /\ D \in SUBSET Moment /\ IsFiniteSet(DOMAIN b)
<1>1. D \in SUBSET Moment /\ DOMAIN b \in SUBSET Moment
  BY DEF Table
<1>2. IsFiniteSet(D) /\ IsFiniteSet(DOMAIN b)
  BY <1>1, MomentsAreFinite
<1>3. Bags(b, D)
  BY DEF Table, IsBar, Bags
<1> QED
  BY <1>1, <1>2, <1>3

\* The fold of some bars is a bar of their trades.
LEMMA FoldIsBar ==
  ASSUME NEW b, Table(b), NEW D \in SUBSET DOMAIN b, D # {}
  PROVE  /\ IsBar(Fold(b, D))
         /\ Fold(b, D).open = b[Min(D)].open /\ Fold(b, D).close = b[Max(D)].close
         /\ Fold(b, D).trades = Volume(b, D)
         /\ Fold(b, D).legacy = (\E d \in D : b[d].legacy)
         /\ DOMAIN Fold(b, D).trades = UNION {DOMAIN b[d].trades : d \in D}
<1>1. IsFiniteSet(D) /\ Bags(b, D) /\ D \in SUBSET Moment
  BY TableFacts
<1>2. Min(D) \in D /\ Max(D) \in D
  BY <1>1, Extremes
<1>3. \A d \in D : IsBar(b[d])
  BY DEF Table
<1>4. IsBag(Volume(b, D))
  BY <1>1, VolumeIsBag
<1>5. DOMAIN Volume(b, D) = UNION {DOMAIN b[d].trades : d \in D}
  BY <1>1, VolumeDomain
<1>6. DOMAIN Volume(b, D) \subseteq Trading
  BY <1>3, <1>5 DEF IsBar
<1>7. {b[Min(D)].open, b[Max(D)].close} \subseteq DOMAIN Volume(b, D)
  <2>1. b[Min(D)].open \in DOMAIN b[Min(D)].trades /\ b[Max(D)].close \in DOMAIN b[Max(D)].trades
    BY <1>2, <1>3 DEF IsBar
  <2> QED
    BY <1>2, <1>5, <2>1
<1> DEFINE some == \E d \in D : b[d].legacy
           v == Volume(b, D)
           o == b[Min(D)].open
           c == b[Max(D)].close
<1>8. Fold(b, D) = [open |-> o, close |-> c, trades |-> v, legacy |-> some]
  BY DEF Fold
<1>9. some \in BOOLEAN
  OBVIOUS
<1>10. DOMAIN v = UNION {DOMAIN b[d].trades : d \in D} /\ IsBag(v) /\ DOMAIN v \subseteq Trading
       /\ {o, c} \subseteq DOMAIN v
  BY <1>4, <1>5, <1>6, <1>7
<1> HIDE DEF some, v, o, c
<1>11. /\ Fold(b, D).open = o /\ Fold(b, D).close = c /\ Fold(b, D).trades = v
       /\ Fold(b, D).legacy = some
  BY <1>8
<1>12. IsBar(Fold(b, D))
  BY <1>8, <1>9, <1>10, <1>11 DEF IsBar
<1> QED
  BY <1>10, <1>11, <1>12 DEF some, v, o, c

LEMMA FoldOfOne ==
  ASSUME NEW b, Table(b), NEW d \in DOMAIN b
  PROVE  Fold(b, {d}) = b[d]
<1>1. IsBar(b[d]) /\ d \in Moment
  BY DEF Table
<1>2. {d} \in SUBSET Moment /\ d \in {d} /\ (\A e \in {d} : d <= e) /\ (\A e \in {d} : e <= d)
  BY <1>1, Moments
<1>3. Min({d}) = d /\ Max({d}) = d
  BY <1>2, ExtremesAre
<1>4. Volume(b, {d}) = b[d].trades
  BY <1>1, VolumeOfOne DEF IsBar
<1>5. (\E e \in {d} : b[e].legacy) = b[d].legacy
  <2>1. b[d].legacy \in BOOLEAN
    BY <1>1 DEF IsBar
  <2> QED
    BY <2>1, Zenon
<1>6. b[d] = [open |-> b[d].open, close |-> b[d].close, trades |-> b[d].trades, legacy |-> b[d].legacy]
  BY <1>1 DEF IsBar
<1> DEFINE some == \E e \in {d} : b[e].legacy
           v == Volume(b, {d})
<1>7. Fold(b, {d}) = [open |-> b[Min({d})].open, close |-> b[Max({d})].close, trades |-> v, legacy |-> some]
  BY DEF Fold
<1>8. some = b[d].legacy /\ v = b[d].trades
  BY <1>4, <1>5
<1> HIDE DEF some, v
<1>9. Fold(b, {d}) = [open |-> b[d].open, close |-> b[d].close, trades |-> b[d].trades, legacy |-> b[d].legacy]
  BY <1>3, <1>7, <1>8
<1> QED
  BY <1>6, <1>9

\* Where a compaction puts the bar at d.
Place(d, cutoff, size) == IF d < cutoff THEN Bucket(d, size) ELSE d

Places(b, cutoff, size) == {Place(d, cutoff, size) : d \in DOMAIN b}
PutAt(b, k, cutoff, size) == {d \in DOMAIN b : Place(d, cutoff, size) = k}

LEMMA PlaceFacts ==
  ASSUME NEW d \in Nat, NEW cutoff \in Int, NEW n \in Nat \ {0}, Multiple(cutoff, n)
  PROVE  /\ Place(d, cutoff, n) \in Nat /\ Place(d, cutoff, n) <= d
         /\ d < cutoff <=> Place(d, cutoff, n) < cutoff
<1>0. d \in Int
  OBVIOUS
<1>1. /\ Bucket(d, n) \in Int /\ Multiple(Bucket(d, n), n) /\ Bucket(d, n) <= d
      /\ d < Bucket(d, n) + n
  BY <1>0, BucketFacts
<1>2. 0 <= Bucket(d, n)
  <2>1. 0 = 0 * n /\ 0 \in Int
    OBVIOUS
  <2>2. Multiple(0, n)
    BY <2>1 DEF Multiple
  <2>3. ~(Bucket(d, n) < 0)
    BY <1>1, <2>2, MultiplesApart
  <2> QED
    BY <1>1, <2>3
<1> QED
  BY <1>1, <1>2 DEF Place

LEMMA PlacesInOrder ==
  ASSUME NEW d \in Nat, NEW e \in Nat, d <= e,
         NEW cutoff \in Int, NEW n \in Nat \ {0}, Multiple(cutoff, n)
  PROVE  Place(d, cutoff, n) <= Place(e, cutoff, n)
<1>0. d \in Int /\ e \in Int
  OBVIOUS
<1>1. Bucket(d, n) <= Bucket(e, n) /\ Bucket(d, n) \in Int /\ Bucket(d, n) <= d
  BY <1>0, BucketsInOrder, BucketFacts
<1> QED
  BY <1>1 DEF Place

\* Larger buckets do not notice.
LEMMA PlaceInBucket ==
  ASSUME NEW d \in Nat, NEW cutoff \in Int, NEW n \in Nat \ {0}, NEW k \in Nat \ {0}, Multiple(k, n)
  PROVE  Bucket(Place(d, cutoff, n), k) = Bucket(d, k)
BY BucketOfBucket DEF Place

\* A compaction folds the bars it puts at the same date.
LEMMA CompactedIs ==
  ASSUME NEW b, Table(b), NEW cutoff \in Int, NEW n \in Nat \ {0}, Multiple(cutoff, n)
  PROVE  /\ DOMAIN Compacted(b, cutoff, n) = Places(b, cutoff, n)
         /\ \A k \in DOMAIN Compacted(b, cutoff, n) :
              Compacted(b, cutoff, n)[k] = Fold(b, PutAt(b, k, cutoff, n))
<1> DEFINE old == {d \in DOMAIN b : d < cutoff}
           kept == Keep(b, old)
           agg == Aggregated(b, cutoff, n)
           rest == Keep(b, DOMAIN b \ BeforeCutoff(b, cutoff))
           At(k) == {d \in DOMAIN b : Place(d, cutoff, n) = k}
<1>0. \A d \in DOMAIN b : d \in Nat
  BY Moments DEF Table
<1>1. DOMAIN kept = old /\ \A d \in old : kept[d] = b[d]
  BY DEF Keep
<1>2. /\ DOMAIN agg = {Bucket(d, n) : d \in old}
      /\ \A k \in DOMAIN agg : agg[k] = Fold(kept, {d \in old : Bucket(d, n) = k})
  BY <1>1 DEF Aggregated, Candles
<1>3. /\ DOMAIN rest = {d \in DOMAIN b : ~(d < cutoff)}
      /\ \A d \in DOMAIN rest : rest[d] = b[d]
  BY DEF Keep, BeforeCutoff
<1>4. Compacted(b, cutoff, n) = Join(agg, rest)
  BY DEF Compacted
<1>5. ASSUME NEW k \in DOMAIN agg
      PROVE  k < cutoff /\ agg[k] = Fold(b, At(k))
  <2>1. PICK e \in old : k = Bucket(e, n)
    BY <1>2
  <2>2. k = Place(e, cutoff, n) /\ e \in Nat /\ e < cutoff
    BY <1>0, <2>1 DEF Place
  <2>3. k < cutoff
    BY <2>2, PlaceFacts
  <2> DEFINE G == {d \in old : Bucket(d, n) = k}
  <2>4. G = At(k)
    <3>1. ASSUME NEW d \in At(k) PROVE d \in G
      <4>1. d \in DOMAIN b /\ Place(d, cutoff, n) = k /\ d \in Nat
        BY <1>0
      <4>2. d < cutoff
        BY <2>3, <4>1, PlaceFacts
      <4> QED
        BY <4>1, <4>2 DEF Place
    <3>2. ASSUME NEW d \in G PROVE d \in At(k)
      BY DEF Place
    <3> QED
      BY <3>1, <3>2
  <2>5. e \in G /\ G \in SUBSET DOMAIN b /\ G # {}
    BY <2>1
  <2>6. \A d \in G : kept[d] = b[d]
    BY <1>1
  <2>7. Table(kept)
    BY <1>1 DEF Table
  <2>8. agg[k] = Fold(kept, G)
    BY <1>2
  <2>9. IsFiniteSet(G) /\ G \in SUBSET Moment
    BY <2>5, TableFacts
  <2>10. Min(G) \in G /\ Max(G) \in G
    BY <2>5, <2>9, Extremes
  <2>11. Volume(kept, G) = Volume(b, G)
    <3> HIDE DEF G, kept
    <3> QED
      BY <2>6, <2>9, VolumeSame
  <2>12. (\E d \in G : kept[d].legacy) = (\E d \in G : b[d].legacy)
    <3> HIDE DEF G, kept
    <3> QED
      BY <2>6, Zenon
  <2>13. kept[Min(G)].open = b[Min(G)].open /\ kept[Max(G)].close = b[Max(G)].close
    <3> HIDE DEF G, kept
    <3> QED
      BY <2>6, <2>10
  <2>14. Fold(kept, G) = Fold(b, G)
    <3> HIDE DEF G, kept
    <3> QED
      BY <2>11, <2>12, <2>13 DEF Fold
  <2> QED
    BY <2>3, <2>4, <2>8, <2>14
<1>6. ASSUME NEW k \in DOMAIN rest
      PROVE  k \in DOMAIN b /\ ~(k < cutoff) /\ rest[k] = Fold(b, At(k))
  <2>1. k \in DOMAIN b /\ ~(k < cutoff) /\ rest[k] = b[k] /\ k \in Nat
    BY <1>0, <1>3
  <2>2. ASSUME NEW d \in At(k) PROVE d = k
    <3>1. d \in Nat /\ Place(d, cutoff, n) = k
      BY <1>0
    <3>2. ~(d < cutoff)
      BY <2>1, <3>1, PlaceFacts
    <3> QED
      BY <3>1, <3>2 DEF Place
  <2>3. k \in At(k)
    BY <2>1 DEF Place
  <2>4. At(k) = {k}
    BY <2>2, <2>3
  <2> HIDE DEF rest, At
  <2> QED
    BY <2>1, <2>4, FoldOfOne
<1>7. {Place(d, cutoff, n) : d \in DOMAIN b} = DOMAIN agg \cup DOMAIN rest
  <2>1. \A d \in DOMAIN b : d < cutoff => Place(d, cutoff, n) = Bucket(d, n) /\ d \in old
    BY DEF Place
  <2>2. \A d \in DOMAIN b : ~(d < cutoff) => Place(d, cutoff, n) = d /\ d \in DOMAIN rest
    BY <1>3 DEF Place
  <2> HIDE DEF agg, rest
  <2> QED
    BY <1>2, <1>3, <2>1, <2>2
<1>8. /\ DOMAIN Join(agg, rest) = DOMAIN agg \cup DOMAIN rest
      /\ \A k \in DOMAIN agg \cup DOMAIN rest : Join(agg, rest)[k] = IF k \in DOMAIN agg THEN agg[k] ELSE rest[k]
  BY DEF Join
<1>9. \A k : At(k) = PutAt(b, k, cutoff, n)
  BY DEF PutAt
<1> HIDE DEF agg, rest, At
<1> QED
  BY <1>4, <1>5, <1>6, <1>7, <1>8, <1>9 DEF Places

\* A folded table is a table: no bar leaves its day.
LEMMA TableCompacted ==
  ASSUME NEW b, Table(b), NEW cutoff \in Int, NEW n \in Nat \ {0}, Multiple(cutoff, n), Multiple(DayLen, n)
  PROVE  Table(Compacted(b, cutoff, n))
<1> DEFINE c == Compacted(b, cutoff, n)
           At(k) == PutAt(b, k, cutoff, n)
<1>1. /\ DOMAIN c = Places(b, cutoff, n)
      /\ \A k \in DOMAIN c : c[k] = Fold(b, At(k))
  BY CompactedIs
<1>2. ASSUME NEW k \in DOMAIN c
      PROVE  k \in Moment /\ IsBar(c[k]) /\ OfDay(c[k], k)
  <2>1. PICK e \in DOMAIN b : k = Place(e, cutoff, n)
    BY <1>1 DEF Places
  <2>2. e \in Nat /\ e <= End
    BY WindowAssumption DEF Table, Moment
  <2>3. k \in Nat /\ k <= e
    BY <2>1, <2>2, PlaceFacts
  <2>4. k \in Moment
    BY <2>2, <2>3, WindowAssumption DEF Moment
  <2>5. At(k) \in SUBSET DOMAIN b /\ At(k) # {}
    BY <2>1 DEF PutAt
  <2> DEFINE g == At(k)
  <2>6. c[k] = Fold(b, g)
    BY <1>1
  <2>7. g \in SUBSET DOMAIN b /\ g # {} /\ \A d \in g : Place(d, cutoff, n) = k
    BY <2>5 DEF PutAt
  <2> HIDE DEF c, g
  <2>8. IsBar(Fold(b, g)) /\ DOMAIN Fold(b, g).trades = UNION {DOMAIN b[d].trades : d \in g}
    BY <2>7, FoldIsBar
  <2>9. ASSUME NEW t \in DOMAIN Fold(b, g).trades PROVE Bucket(t, DayLen) = Bucket(k, DayLen)
    <3>1. PICK d \in g : t \in DOMAIN b[d].trades
      BY <2>8
    <3>2. Bucket(t, DayLen) = Bucket(d, DayLen) /\ d \in Nat
      BY <2>7, <3>1, Moments DEF Table, OfDay
    <3>3. Bucket(Place(d, cutoff, n), DayLen) = Bucket(d, DayLen)
      BY <3>2, PlaceInBucket, Sizes
    <3> QED
      BY <2>7, <3>2, <3>3
  <2> QED
    BY <2>4, <2>6, <2>8, <2>9 DEF OfDay
<1> HIDE DEF c
<1>3. Table(c)
  BY <1>2 DEF Table
<1> QED
  BY <1>3 DEF c

\* Folding changes no candle of the size it folds to, nor a larger one.
LEMMA CandlesKept ==
  ASSUME NEW b, Table(b), NEW cutoff \in Int, NEW n \in Nat \ {0}, Multiple(cutoff, n),
         NEW k \in Nat \ {0}, Multiple(k, n), Multiple(DayLen, n)
  PROVE  Candles(Compacted(b, cutoff, n), k) = Candles(b, k)
<1> DEFINE c == Compacted(b, cutoff, n)
           P(d) == Place(d, cutoff, n)
           At(x) == PutAt(b, x, cutoff, n)
           In(x) == {d \in DOMAIN b : Bucket(d, k) = x}
           CIn(x) == {d \in DOMAIN c : Bucket(d, k) = x}
<1>0. DOMAIN c = Places(b, cutoff, n) /\ \A x \in DOMAIN c : c[x] = Fold(b, At(x))
  BY CompactedIs
<1>1. DOMAIN c = {P(d) : d \in DOMAIN b} /\ \A x \in DOMAIN c : c[x] = Fold(b, At(x))
  BY <1>0 DEF Places
<1>11. \A x : At(x) = {d \in DOMAIN b : P(d) = x}
  BY DEF PutAt
<1>2. Table(c)
  BY TableCompacted
<1>3. \A d \in DOMAIN b : d \in Nat /\ P(d) \in DOMAIN c /\ Bucket(P(d), k) = Bucket(d, k)
  <2> SUFFICES ASSUME NEW d \in DOMAIN b PROVE d \in Nat /\ P(d) \in DOMAIN c /\ Bucket(P(d), k) = Bucket(d, k)
    OBVIOUS
  <2>1. d \in Nat
    BY Moments DEF Table
  <2>2. Bucket(P(d), k) = Bucket(d, k)
    BY <2>1, PlaceInBucket
  <2> QED
    BY <1>1, <2>1, <2>2
<1>4. \A d, e \in DOMAIN b : d <= e => P(d) <= P(e)
  BY <1>3, PlacesInOrder
<1>5. \A d \in DOMAIN c : d \in Nat
  BY <1>2, Moments DEF Table
<1> HIDE DEF c, P, At
<1>6. {Bucket(d, k) : d \in DOMAIN c} = {Bucket(d, k) : d \in DOMAIN b}
  BY <1>1, <1>3
<1>7. ASSUME NEW x \in {Bucket(d, k) : d \in DOMAIN b}
      PROVE  Fold(c, CIn(x)) = Fold(b, In(x))
  <2>1. CIn(x) = {P(d) : d \in In(x)}
    BY <1>1, <1>3
  <2>2. /\ In(x) \in SUBSET DOMAIN b /\ In(x) # {}
        /\ CIn(x) \in SUBSET DOMAIN c /\ CIn(x) # {}
    BY <1>3
  <2>3. ASSUME NEW y \in CIn(x) PROVE At(y) \in SUBSET In(x) /\ At(y) \in SUBSET DOMAIN b /\ At(y) # {} /\ c[y] = Fold(b, At(y))
    BY <1>1, <1>11, <1>3
  <2>4. \A d \in In(x) : d \in At(P(d)) /\ P(d) \in CIn(x)
    BY <1>3, <1>11
  <2>6. In(x) = {d \in DOMAIN b : P(d) \in CIn(x)}
    BY <1>3, <2>4
  <2> DEFINE p == [d \in DOMAIN b |-> P(d)]
  <2>7. /\ IsFiniteSet(DOMAIN b) /\ Bags(b, DOMAIN b) /\ In(x) \in SUBSET Moment
        /\ IsFiniteSet(CIn(x)) /\ CIn(x) \in SUBSET Moment
    <3>1. IsFiniteSet(DOMAIN b) /\ Bags(b, DOMAIN b)
      BY TableFacts
    <3>2. In(x) \in SUBSET Moment
      BY <2>2 DEF Table
    <3>3. CIn(x) \in SUBSET Moment
      BY <1>2, <2>2 DEF Table
    <3> HIDE DEF CIn, In
    <3> QED
      BY <3>1, <3>2, <3>3, MomentsAreFinite
  <2>8. Volume(c, CIn(x)) = Volume(b, In(x))
    <3>1. \A y \in CIn(x) : c[y].trades = Volume(b, {d \in DOMAIN b : p[d] = y})
      <4> SUFFICES ASSUME NEW y \in CIn(x) PROVE c[y].trades = Volume(b, {d \in DOMAIN b : p[d] = y})
        OBVIOUS
      <4>1. {d \in DOMAIN b : p[d] = y} = At(y)
        BY <1>11
      <4>2. c[y] = Fold(b, At(y)) /\ At(y) \in SUBSET DOMAIN b /\ At(y) # {}
        BY <2>3
      <4>3. c[y].trades = Volume(b, At(y))
        BY <4>2, FoldIsBar
      <4> QED
        BY <4>1, <4>3
    <3>2. In(x) = {d \in DOMAIN b : p[d] \in CIn(x)}
      BY <2>6
    <3> HIDE DEF p, CIn, In
    <3>3. Volume(c, CIn(x)) = Volume(b, {d \in DOMAIN b : p[d] \in CIn(x)})
      BY <2>7, <3>1, VolumeOfGroups
    <3> QED
      BY <3>2, <3>3
  <2> DEFINE lo == Min(In(x))
             hi == Max(In(x))
  <2>9. /\ lo \in In(x) /\ hi \in In(x) /\ \A d \in In(x) : lo <= d /\ d <= hi
    <3> HIDE DEF In
    <3> QED
      BY <2>2, <2>7, Extremes
  <2>10. Min(CIn(x)) = P(lo) /\ Max(CIn(x)) = P(hi)
    <3>1. P(lo) \in CIn(x) /\ P(hi) \in CIn(x)
      BY <2>4, <2>9
    <3>2. \A d \in In(x) : P(lo) <= P(d) /\ P(d) <= P(hi)
      <4> HIDE DEF lo, hi
      <4> QED
        BY <1>4, <2>9
    <3>3. \A y \in CIn(x) : P(lo) <= y /\ y <= P(hi)
      <4> HIDE DEF lo, hi, CIn, In
      <4> QED
        BY <2>1, <3>2
    <3> HIDE DEF lo, hi, CIn, In
    <3> QED
      BY <2>7, <3>1, <3>3, ExtremesAre
  <2>11. c[P(lo)].open = b[lo].open
    <3>1. P(lo) \in CIn(x)
      BY <2>4, <2>9
    <3> DEFINE g == At(P(lo))
    <3>2. g \in SUBSET In(x) /\ g \in SUBSET DOMAIN b /\ g # {} /\ c[P(lo)] = Fold(b, g)
      BY <2>3, <3>1
    <3>3. lo \in g
      BY <2>4, <2>9
    <3> HIDE DEF g, lo, In, CIn
    <3>4. g \in SUBSET Moment /\ \A d \in g : lo <= d
      BY <2>7, <2>9, <3>2
    <3>5. Min(g) = lo
      BY <3>3, <3>4, ExtremesAre
    <3> QED
      BY <3>2, <3>5, FoldIsBar
  <2>12. c[P(hi)].close = b[hi].close
    <3>1. P(hi) \in CIn(x)
      BY <2>4, <2>9
    <3> DEFINE g == At(P(hi))
    <3>2. g \in SUBSET In(x) /\ g \in SUBSET DOMAIN b /\ g # {} /\ c[P(hi)] = Fold(b, g)
      BY <2>3, <3>1
    <3>3. hi \in g
      BY <2>4, <2>9
    <3> HIDE DEF g, hi, In, CIn
    <3>4. g \in SUBSET Moment /\ \A d \in g : d <= hi
      BY <2>7, <2>9, <3>2
    <3>5. Max(g) = hi
      BY <3>3, <3>4, ExtremesAre
    <3> QED
      BY <3>2, <3>5, FoldIsBar
  <2>13. (\E y \in CIn(x) : c[y].legacy) = (\E d \in In(x) : b[d].legacy)
    <3>1. ASSUME NEW y \in CIn(x) PROVE c[y].legacy = (\E d \in At(y) : b[d].legacy)
      <4>1. At(y) \in SUBSET DOMAIN b /\ At(y) # {} /\ c[y] = Fold(b, At(y))
        BY <2>3
      <4>2. Fold(b, At(y)).legacy = (\E d \in At(y) : b[d].legacy)
        BY <4>1, FoldIsBar, Zenon
      <4> QED
        BY <4>1, <4>2, Zenon
    <3>2. ASSUME NEW y \in CIn(x), c[y].legacy PROVE \E d \in In(x) : b[d].legacy
      <4>1. \E d \in At(y) : b[d].legacy
        BY <3>1, <3>2, Zenon
      <4>2. At(y) \in SUBSET In(x)
        BY <2>3
      <4> HIDE DEF In
      <4> QED
        BY <4>1, <4>2, Zenon
    <3>3. ASSUME NEW d \in In(x), b[d].legacy PROVE \E y \in CIn(x) : c[y].legacy
      <4>1. d \in At(P(d)) /\ P(d) \in CIn(x)
        BY <2>4
      <4> DEFINE y == P(d)
      <4>2. c[y].legacy = (\E e \in At(y) : b[e].legacy)
        BY <3>1, <4>1
      <4>3. d \in At(y) /\ y \in CIn(x)
        BY <4>1
      <4> HIDE DEF In, CIn, y
      <4>4. c[y].legacy
        BY <3>3, <4>2, <4>3, Zenon
      <4> QED
        BY <4>3, <4>4, Zenon
    <3> HIDE DEF In, CIn
    <3> QED
      BY <3>2, <3>3, Zenon
  <2> DEFINE some == \E d \in In(x) : b[d].legacy
             csome == \E y \in CIn(x) : c[y].legacy
  <2>14. Fold(b, In(x)) = [open |-> b[lo].open, close |-> b[hi].close, trades |-> Volume(b, In(x)), legacy |-> some]
    BY DEF Fold
  <2>15. Fold(c, CIn(x)) = [open |-> c[Min(CIn(x))].open, close |-> c[Max(CIn(x))].close,
                            trades |-> Volume(c, CIn(x)), legacy |-> csome]
    BY DEF Fold
  <2>16. csome = some
    BY <2>13
  <2> HIDE DEF some, csome, lo, hi, In, CIn
  <2> QED
    BY <2>8, <2>10, <2>11, <2>12, <2>14, <2>15, <2>16
<1>8. Candles(c, k) = [x \in {Bucket(d, k) : d \in DOMAIN c} |-> Fold(c, CIn(x))]
  BY DEF Candles
<1>9. Candles(b, k) = [x \in {Bucket(d, k) : d \in DOMAIN b} |-> Fold(b, In(x))]
  BY DEF Candles
<1>10. Candles(c, k) = Candles(b, k)
  <2> HIDE DEF CIn, In
  <2> QED
    BY <1>6, <1>7, <1>8, <1>9
<1> QED
  BY <1>10 DEF c

\* No trade is in two bars: the trades of each lie after its date and between its
\* open and its close, those of an earlier bar before those of a later one.
Once(b) ==
  /\ \A d \in DOMAIN b :
       /\ Multiple(d, SlotLen)
       /\ \A t \in DOMAIN b[d].trades :
            b[d].trades[t] = 1 /\ d <= t /\ b[d].open <= t /\ t <= b[d].close
  /\ \A d, e \in DOMAIN b : d < e =>
       \A t \in DOMAIN b[d].trades, u \in DOMAIN b[e].trades : t < u

LEMMA TradesAreMoments ==
  ASSUME NEW x, IsBar(x)
  PROVE  (\A t \in DOMAIN x.trades : t \in Trading /\ t \in Nat) 
         /\ x.close \in Nat /\ x.close \in DOMAIN x.trades
         /\ x.open \in Nat /\ x.open \in DOMAIN x.trades
BY Moments DEF IsBar

LEMMA OnceCounts ==
  ASSUME NEW b, Table(b), Once(b), NEW D \in SUBSET DOMAIN b
  PROVE  \A t \in DOMAIN Volume(b, D) : Volume(b, D)[t] = 1
<1>1. IsFiniteSet(D) /\ Bags(b, D)
  BY TableFacts
<1>2. \A d \in D : \A t \in DOMAIN b[d].trades : b[d].trades[t] = 1
  BY DEF Once
<1>3. ASSUME NEW d \in D, NEW e \in D, d # e PROVE DOMAIN b[d].trades \cap DOMAIN b[e].trades = {}
  <2>1. d \in Nat /\ e \in Nat /\ IsBar(b[d]) /\ IsBar(b[e])
    BY Moments DEF Table
  <2>2. \A t \in DOMAIN b[d].trades \cup DOMAIN b[e].trades : t \in Nat
    BY <2>1, TradesAreMoments
  <2>3. d < e \/ e < d
    BY <1>3, <2>1
  <2>4. ASSUME NEW t \in DOMAIN b[d].trades \cap DOMAIN b[e].trades PROVE FALSE
    <3>1. t < t
      BY <2>3 DEF Once
    <3> QED
      BY <2>2, <3>1
  <2> QED
    BY <2>4
<1> QED
  BY <1>1, <1>2, <1>3, VolumeOnce

LEMMA OnceCompacted ==
  ASSUME NEW b, Table(b), Once(b), NEW cutoff \in Int, NEW n \in Nat \ {0}, Multiple(cutoff, n),
         Multiple(n, SlotLen)
  PROVE  Once(Compacted(b, cutoff, n))
<1> DEFINE c == Compacted(b, cutoff, n)
           P(d) == Place(d, cutoff, n)
           At(x) == PutAt(b, x, cutoff, n)
<1>0. DOMAIN c = Places(b, cutoff, n) /\ \A x \in DOMAIN c : c[x] = Fold(b, At(x))
  BY CompactedIs
<1>1. DOMAIN c = {P(d) : d \in DOMAIN b} /\ \A x \in DOMAIN c : c[x] = Fold(b, At(x))
  BY <1>0 DEF Places
<1>2. \A x : At(x) = {d \in DOMAIN b : P(d) = x}
  BY DEF PutAt
<1>3. \A d \in DOMAIN b : d \in Nat /\ IsBar(b[d])
  BY Moments DEF Table
<1>4. \A d \in DOMAIN b : P(d) \in Nat /\ P(d) <= d
  BY <1>3, PlaceFacts
<1>5. \A d, e \in DOMAIN b : P(d) < P(e) => d < e
  <2> SUFFICES ASSUME NEW d \in DOMAIN b, NEW e \in DOMAIN b, P(d) < P(e) PROVE d < e
    OBVIOUS
  <2>1. d \in Nat /\ e \in Nat /\ P(d) \in Nat /\ P(e) \in Nat
    BY <1>3, <1>4
  <2>2. e <= d => P(e) <= P(d)
    BY <2>1, PlacesInOrder
  <2> HIDE DEF P
  <2> QED
    BY <2>1, <2>2
<1>6. \A d \in DOMAIN b : Multiple(P(d), SlotLen)
  <2> SUFFICES ASSUME NEW d \in DOMAIN b PROVE Multiple(P(d), SlotLen)
    OBVIOUS
  <2>1. d \in Int /\ Multiple(d, SlotLen)
    BY <1>3 DEF Once
  <2>2. Multiple(Bucket(d, n), n)
    BY <2>1, BucketFacts
  <2>3. Multiple(Bucket(d, n), SlotLen)
    BY <2>2, Sizes, MultipleOfMultiple
  <2> QED
    BY <2>1, <2>3 DEF Place
<1> HIDE DEF c, P, At
<1>7. ASSUME NEW x \in DOMAIN c
      PROVE  /\ At(x) \in SUBSET DOMAIN b /\ At(x) # {}
             /\ c[x].trades = Volume(b, At(x))
             /\ c[x].open = b[Min(At(x))].open /\ c[x].close = b[Max(At(x))].close
             /\ DOMAIN c[x].trades = UNION {DOMAIN b[d].trades : d \in At(x)}
             /\ Min(At(x)) \in At(x) /\ Max(At(x)) \in At(x)
             /\ \A d \in At(x) : Min(At(x)) <= d /\ d <= Max(At(x))
  <2>1. At(x) \in SUBSET DOMAIN b /\ At(x) # {} /\ c[x] = Fold(b, At(x))
    BY <1>1, <1>2
  <2>2. At(x) \in SUBSET Moment
    BY <2>1 DEF Table
  <2> QED
    BY <2>1, <2>2, FoldIsBar, Extremes
<1>8. ASSUME NEW x \in DOMAIN c, NEW t \in DOMAIN c[x].trades
      PROVE  c[x].trades[t] = 1 /\ x <= t /\ c[x].open <= t /\ t <= c[x].close
  <2>1. PICK d \in At(x) : t \in DOMAIN b[d].trades
    BY <1>7
  <2>2. P(d) = x /\ d \in DOMAIN b
    BY <1>2
  <2>3. d \in Nat /\ x \in Nat /\ t \in Nat /\ x <= d /\ d <= t /\ b[d].open <= t /\ t <= b[d].close
    BY <1>3, <1>4, <2>1, <2>2, TradesAreMoments DEF Once
  <2> DEFINE m == Max(At(x))
             lo == Min(At(x))
  <2>4. m \in At(x) /\ d <= m /\ c[x].close = b[m].close
    BY <1>7
  <2>5. m \in DOMAIN b /\ m \in Nat /\ b[m].close \in DOMAIN b[m].trades /\ b[m].close \in Nat
    BY <1>2, <1>3, <2>4, TradesAreMoments
  <2>6. lo \in At(x) /\ lo <= d /\ c[x].open = b[lo].open
    BY <1>7
  <2>7. lo \in DOMAIN b /\ lo \in Nat /\ b[lo].open \in DOMAIN b[lo].trades /\ b[lo].open \in Nat
    BY <1>2, <1>3, <2>6, TradesAreMoments
  <2> HIDE DEF m, lo
  <2>8. b[lo].open <= t
    <3>1. CASE d = lo
      BY <2>3, <3>1
    <3>2. CASE lo < d
      <4>1. b[lo].open < t
        BY <2>1, <2>2, <2>7, <3>2 DEF Once
      <4> QED
        BY <2>3, <2>7, <4>1
    <3> QED
      BY <2>3, <2>6, <2>7, <3>1, <3>2
  <2>9. t <= b[m].close
    <3>1. CASE d = m
      BY <2>3, <3>1
    <3>2. CASE d < m
      <4>1. t < b[m].close
        BY <2>1, <2>2, <2>5, <3>2 DEF Once
      <4> QED
        BY <2>3, <2>5, <4>1
    <3> QED
      BY <2>3, <2>4, <2>5, <3>1, <3>2
  <2>10. c[x].trades[t] = 1
    BY <1>7, OnceCounts
  <2> QED
    BY <2>3, <2>4, <2>9, <2>10, <2>6, <2>8
<1>9. ASSUME NEW x \in DOMAIN c, NEW y \in DOMAIN c, x < y,
             NEW t \in DOMAIN c[x].trades, NEW u \in DOMAIN c[y].trades
      PROVE  t < u
  <2>1. PICK d \in At(x) : t \in DOMAIN b[d].trades
    BY <1>7
  <2>2. PICK e \in At(y) : u \in DOMAIN b[e].trades
    BY <1>7
  <2>3. d \in DOMAIN b /\ e \in DOMAIN b /\ P(d) < P(e)
    BY <1>2, <1>9
  <2> QED
    BY <1>5, <2>1, <2>2, <2>3 DEF Once
<1>10. \A x \in DOMAIN c : Multiple(x, SlotLen)
  BY <1>1, <1>6
<1>11. Once(c)
  BY <1>8, <1>9, <1>10 DEF Once
<1> QED
  BY <1>11 DEF c

-----------------------------------------------------------------------------
(* What the source answers.                                                *)

LEMMA MultiplesAdd ==
  ASSUME NEW n \in Nat \ {0}, NEW x \in Int, NEW y \in Int, Multiple(x, n), Multiple(y, n)
  PROVE  Multiple(x + y, n)
<1>1. PICK p \in Int : x = p * n
  BY DEF Multiple
<1>2. PICK q \in Int : y = q * n
  BY DEF Multiple
<1>3. x + y = (p + q) * n /\ p + q \in Int
  BY <1>1, <1>2, SMTT(30)
<1> QED
  BY <1>3 DEF Multiple

\* The dates that are offset after a multiple of len.
LEMMA DatesApart ==
  ASSUME NEW len \in Nat \ {0}, NEW offset \in Nat, NEW d \in Int, d % len = offset
  PROVE  Multiple(d - offset, len) /\ d - offset = Bucket(d, len)
<1>1. d % len = d - (d \div len) * len /\ (d \div len) * len \in Int
  BY Remainder, Quotient, Times
<1>2. d - offset = Bucket(d, len)
  BY <1>1 DEF Bucket
<1> QED
  BY <1>2, BucketFacts

\* A bar of five minutes is of one day, ...
LEMMA SlotInADay ==
  ASSUME NEW d \in Nat, NEW t \in Nat, d % SlotLen = 0, d <= t, t < d + SlotLen
  PROVE  Bucket(t, DayLen) = Bucket(d, DayLen)
<1> DEFINE day == Bucket(d, DayLen)
<1>0. d \in Int
  OBVIOUS
<1>1. /\ day \in Int /\ Multiple(day, DayLen) /\ day <= d /\ d < day + DayLen
  BY <1>0, Sizes, BucketFacts
<1>2. Multiple(d, SlotLen)
  BY Sizes, MultipleIs
<1>3. Multiple(day, SlotLen)
  BY <1>1, Sizes, MultipleOfMultiple
<1> HIDE DEF day
<1>4. Multiple(day + DayLen, SlotLen)
  BY <1>1, <1>3, Sizes, MultiplesAdd
<1>5. d + SlotLen <= day + DayLen
  BY <1>1, <1>2, <1>4, Sizes, MultiplesApart
<1>6. day <= t /\ t < day + DayLen
  BY <1>1, <1>5, Sizes
<1>7. Bucket(t, DayLen) = day
  BY <1>1, <1>6, Sizes, BucketIs
<1> QED
  BY <1>7 DEF day

\* ... and one of an hour too, for the next day trades only after the offset.
LEMMA HourInADay ==
  ASSUME NEW d \in Nat, NEW t \in Trading, d % HourLen = HourOffset, d <= t, t < d + HourLen
  PROVE  Bucket(t, DayLen) = Bucket(d, DayLen)
<1> DEFINE day == Bucket(d, DayLen)
           hour == d - HourOffset
           end == day + DayLen
<1>0. t \in Nat /\ t \in Int /\ t % DayLen >= HourOffset
  BY Moments, TradingAssumption
<1>1. /\ day \in Int /\ Multiple(day, DayLen) /\ day <= d /\ d < day + DayLen
  BY Sizes, BucketFacts
<1>2. Multiple(hour, HourLen) /\ hour \in Int
  BY Sizes, DatesApart
<1>3. Multiple(day, HourLen)
  BY <1>1, Sizes, MultipleOfMultiple
<1> HIDE DEF day
<1>4. Multiple(end, HourLen) /\ Multiple(end, DayLen) /\ end \in Int
  BY <1>1, <1>3, Sizes, MultiplesAdd
<1>5. hour < end
  BY <1>1, Sizes
<1>6. hour + HourLen <= end
  <2> HIDE DEF hour, end
  <2> QED
    BY <1>2, <1>4, <1>5, Sizes, MultiplesApart
<1>7. t < end + HourOffset
  BY <1>0, <1>1, <1>6, Sizes
<1>8. DayLen >= HourLen
  <2>1. 0 = 0 * HourLen /\ 0 \in Int
    BY Sizes
  <2>2. Multiple(0, HourLen)
    BY <2>1 DEF Multiple
  <2>3. 0 + HourLen <= DayLen
    BY <2>2, Sizes, MultiplesApart
  <2> QED
    BY <2>3, Sizes
<1>9. t < end
  <2> SUFFICES ASSUME ~(t < end) PROVE FALSE
    OBVIOUS
  <2>1. end <= t /\ t < end + DayLen
    BY <1>0, <1>4, <1>7, <1>8, Sizes
  <2>2. Bucket(t, DayLen) = end
    <3> HIDE DEF end
    <3> QED
      BY <1>0, <1>4, <2>1, Sizes, BucketIs
  <2>3. t % DayLen = t - Bucket(t, DayLen)
    BY <1>0, Sizes, Remainder DEF Bucket
  <2>4. t % DayLen < HourOffset
    <3> HIDE DEF end
    <3> QED
      BY <1>0, <1>4, <1>7, <2>2, <2>3, Sizes
  <2> QED
    BY <1>0, <2>3, <2>4, <2>2, <1>4, Sizes
<1>10. day <= t /\ t < day + DayLen
  BY <1>0, <1>1, <1>9, Sizes
<1>11. Bucket(t, DayLen) = day
  BY <1>0, <1>1, <1>10, Sizes, BucketIs
<1> QED
  BY <1>11 DEF day

LEMMA SourceIs ==
  ASSUME NEW len \in Nat \ {0}, NEW offset \in Nat, Multiple(len, SlotLen), Multiple(offset, SlotLen),
         \A d \in Nat : \A t \in Trading :
           d % len = offset /\ d <= t /\ t < d + len => Bucket(t, DayLen) = Bucket(d, DayLen),
         NEW from, NEW r
  PROVE  /\ Table(SourceBars(len, offset, from, r)) /\ Once(SourceBars(len, offset, from, r))
         /\ \A d \in DOMAIN SourceBars(len, offset, from, r) :
              from <= d /\ SourceBars(len, offset, from, r)[d].close < d + len
<1> DEFINE made(d) == {t \in Trading : d <= t /\ t < d + len /\ t <= r}
           s == SourceBars(len, offset, from, r)
<1>1. /\ DOMAIN s = {d \in Moment : from <= d /\ d % len = offset /\ made(d) # {}}
      /\ \A d \in DOMAIN s :
           s[d] = [open |-> Min(made(d)), close |-> Max(made(d)), trades |-> SetToBag(made(d)), legacy |-> FALSE]
  BY DEF SourceBars
<1>2. ASSUME NEW d \in DOMAIN s
      PROVE  /\ d \in Moment /\ d \in Nat /\ from <= d /\ d % len = offset
             /\ IsBar(s[d]) /\ OfDay(s[d], d) /\ s[d].close < d + len
             /\ \A t \in DOMAIN s[d].trades :
                  s[d].trades[t] = 1 /\ t \in Nat /\ d <= t /\ t < d + len
                  /\ s[d].open <= t /\ t <= s[d].close
  <2> DEFINE m == made(d)
  <2>1. d \in Moment /\ d \in Nat /\ from <= d /\ d % len = offset /\ m # {}
    BY <1>1, Moments
  <2>2. s[d] = [open |-> Min(m), close |-> Max(m), trades |-> SetToBag(m), legacy |-> FALSE]
    BY <1>1
  <2>3. m \in SUBSET Moment /\ m \in SUBSET Trading /\ \A t \in m : t \in Nat /\ d <= t /\ t < d + len
    BY Moments
  <2>4. \A t \in m : Bucket(t, DayLen) = Bucket(d, DayLen)
    BY <2>1, <2>3
  <2> HIDE DEF m, s
  <2>5. Min(m) \in m /\ Max(m) \in m /\ \A t \in m : Min(m) <= t /\ t <= Max(m)
    BY <2>1, <2>3, Extremes
  <2>6. DOMAIN SetToBag(m) = m /\ IsBag(SetToBag(m)) /\ \A t \in m : SetToBag(m)[t] = 1
    BY DEF SetToBag, IsBag
  <2>7. /\ s[d].open = Min(m) /\ s[d].close = Max(m) /\ s[d].trades = SetToBag(m) /\ s[d].legacy = FALSE
    BY <2>2
  <2>8. IsBar(s[d])
    BY <2>2, <2>3, <2>5, <2>6, <2>7 DEF IsBar
  <2>9. OfDay(s[d], d)
    BY <2>4, <2>6, <2>7 DEF OfDay
  <2> QED
    BY <2>1, <2>3, <2>5, <2>6, <2>7, <2>8, <2>9
<1> HIDE DEF s
<1>3. Table(s)
  BY <1>2 DEF Table
<1>4. ASSUME NEW d \in DOMAIN s PROVE Multiple(d, SlotLen)
  <2>1. d \in Int /\ d % len = offset
    BY <1>2
  <2>2. Multiple(d - offset, len) /\ d - offset \in Int
    BY <2>1, DatesApart
  <2>3. Multiple(d - offset, SlotLen)
    BY <2>2, Sizes, MultipleOfMultiple
  <2>4. Multiple((d - offset) + offset, SlotLen)
    BY <2>2, <2>3, Sizes, MultiplesAdd
  <2>5. (d - offset) + offset = d
    BY <2>1
  <2> QED
    BY <2>4, <2>5
<1>5. ASSUME NEW d \in DOMAIN s, NEW e \in DOMAIN s, d < e PROVE d + len <= e
  <2>1. /\ d \in Int /\ e \in Int
        /\ Multiple(d - offset, len) /\ d - offset \in Int
        /\ Multiple(e - offset, len) /\ e - offset \in Int
    BY <1>2, DatesApart
  <2>2. d - offset < e - offset
    BY <1>5, <2>1
  <2>3. (d - offset) + len <= e - offset
    BY <2>1, <2>2, MultiplesApart
  <2> QED
    BY <2>1, <2>3
<1>6. ASSUME NEW d \in DOMAIN s, NEW e \in DOMAIN s, d < e,
             NEW t \in DOMAIN s[d].trades, NEW u \in DOMAIN s[e].trades
      PROVE  t < u
  <2>1. t \in Nat /\ u \in Nat /\ d \in Nat /\ e \in Nat /\ t < d + len /\ e <= u
    BY <1>2
  <2>2. d + len <= e
    BY <1>5, <1>6
  <2> QED
    BY <2>1, <2>2
<1>7. Once(s)
  BY <1>2, <1>4, <1>6 DEF Once
<1>8. \A d \in DOMAIN s : from <= d /\ s[d].close < d + len
  BY <1>2
<1> QED
  BY <1>3, <1>7, <1>8 DEF s

LEMMA LiveAnswer ==
  ASSUME NEW from, NEW r
  PROVE  /\ Table(SourceBars(SlotLen, 0, from, r)) /\ Once(SourceBars(SlotLen, 0, from, r))
         /\ \A d \in DOMAIN SourceBars(SlotLen, 0, from, r) :
              from <= d /\ SourceBars(SlotLen, 0, from, r)[d].close < d + SlotLen
<1>1. 0 % SlotLen = 0 /\ SlotLen % SlotLen = 0
  BY Sizes
<1>2. Multiple(SlotLen, SlotLen) /\ Multiple(0, SlotLen)
  BY <1>1, Sizes, MultipleIs
<1>3. \A d \in Nat : \A t \in Trading :
        d % SlotLen = 0 /\ d <= t /\ t < d + SlotLen => Bucket(t, DayLen) = Bucket(d, DayLen)
  BY SlotInADay, Moments
<1>4. 0 \in Nat
  OBVIOUS
<1> QED
  BY <1>2, <1>3, <1>4, Sizes, SourceIs

LEMMA HistoryAnswer ==
  ASSUME NEW from, NEW r
  PROVE  /\ Table(SourceBars(HourLen, HourOffset, from, r))
         /\ Once(SourceBars(HourLen, HourOffset, from, r))
<1>1. \A d \in Nat : \A t \in Trading :
        d % HourLen = HourOffset /\ d <= t /\ t < d + HourLen => Bucket(t, DayLen) = Bucket(d, DayLen)
  BY HourInADay
<1> QED
  BY <1>1, Sizes, SourceIs

-----------------------------------------------------------------------------
(* What is stored of an answer.                                            *)

\* A table with some of the rows of another.
PartOf(c, b) == DOMAIN c \subseteq DOMAIN b /\ \A d \in DOMAIN c : c[d] = b[d]

LEMMA PartIs ==
  ASSUME NEW b, Table(b), NEW c, PartOf(c, b)
  PROVE  Table(c) /\ (Once(b) => Once(c))
<1>1. Table(c)
  BY DEF Table, PartOf
<1>2. Once(b) => Once(c)
  BY DEF Once, PartOf
<1> QED
  BY <1>1, <1>2

LEMMA StoredIsPart ==
  ASSUME NEW response, NEW part \in StoredParts(response) \cup {<<>>}
  PROVE  PartOf(part, response)
<1>1. CASE part = <<>>
  BY <1>1 DEF PartOf
<1>2. CASE part \in StoredParts(response)
  <2>1. PICK D : D \subseteq DOMAIN response /\ part = Keep(response, D)
    BY <1>2 DEF StoredParts
  <2> QED
    BY <2>1 DEF Keep, PartOf
<1> QED
  BY <1>1, <1>2

LEMMA TableUpserted ==
  ASSUME NEW b, Table(b), NEW c, Table(c)
  PROVE  Table(Upserted(b, c))
BY DEF Table, Upserted, Join

\* An answer from the last bar on, which is one of five minutes.
LEMMA OnceUpserted ==
  ASSUME NEW b, Table(b), Once(b), NEW c, Table(c), Once(c), NEW since,
         DOMAIN b # {} => since \in DOMAIN b /\ (\A d \in DOMAIN b : d <= since)
                          /\ b[since].close < since + SlotLen,
         \A d \in DOMAIN c : since <= d
  PROVE  Once(Upserted(b, c))
<1> DEFINE u == Upserted(b, c)
<1>1. /\ DOMAIN u = DOMAIN b \cup DOMAIN c
      /\ \A d \in DOMAIN u : u[d] = IF d \in DOMAIN b THEN b[d] ELSE c[d]
  BY DEF Upserted, Join
<1> HIDE DEF u
<1>2. \A d \in DOMAIN b : d \in Nat /\ IsBar(b[d])
  BY Moments DEF Table
<1>3. \A d \in DOMAIN c : d \in Nat /\ IsBar(c[d])
  BY Moments DEF Table
<1>4. ASSUME NEW d \in DOMAIN b, NEW e \in DOMAIN c, e \notin DOMAIN b
      PROVE  /\ d < e
             /\ \A t \in DOMAIN b[d].trades, v \in DOMAIN c[e].trades : t < v
  <2>1. since \in DOMAIN b /\ d <= since /\ b[since].close < since + SlotLen /\ since <= e
    OBVIOUS
  <2>2. since \in Nat /\ e \in Nat /\ d \in Nat /\ since < e
    BY <1>2, <1>3, <1>4, <2>1
  <2>3. Multiple(since, SlotLen) /\ Multiple(e, SlotLen)
    BY <2>1 DEF Once
  <2>4. since \in Int /\ e \in Int
    BY <2>2
  <2>5. since + SlotLen <= e
    BY <2>2, <2>3, <2>4, Sizes, MultiplesApart
  <2>6. ASSUME NEW t \in DOMAIN b[d].trades, NEW v \in DOMAIN c[e].trades PROVE t < v
    <3>1. t \in Nat /\ v \in Nat /\ e <= v
      BY <1>2, <1>3, TradesAreMoments DEF Once
    <3>2. b[since].close \in Nat /\ b[since].close \in DOMAIN b[since].trades
      BY <1>2, <2>1, TradesAreMoments
    <3>3. t <= b[since].close
      <4>1. CASE d = since
        BY <4>1 DEF Once
      <4>2. CASE d < since
        <5>1. t < b[since].close
          BY <2>1, <3>2, <4>2 DEF Once
        <5> QED
          BY <3>1, <3>2, <5>1
      <4> QED
        BY <2>1, <2>2, <4>1, <4>2
    <3> QED
      BY <2>1, <2>2, <2>5, <3>1, <3>2, <3>3, Sizes
  <2> QED
    BY <2>1, <2>2, <2>6
<1>5. ASSUME NEW d \in DOMAIN u
      PROVE  /\ Multiple(d, SlotLen)
             /\ \A t \in DOMAIN u[d].trades :
                  u[d].trades[t] = 1 /\ d <= t /\ u[d].open <= t /\ t <= u[d].close
  BY <1>1 DEF Once
<1>6. ASSUME NEW d \in DOMAIN u, NEW e \in DOMAIN u, d < e,
             NEW t \in DOMAIN u[d].trades, NEW v \in DOMAIN u[e].trades
      PROVE  t < v
  <2>1. CASE d \in DOMAIN b /\ e \in DOMAIN b
    BY <1>1, <1>6, <2>1 DEF Once
  <2>2. CASE d \in DOMAIN b /\ e \notin DOMAIN b
    BY <1>1, <1>4, <1>6, <2>2
  <2>3. CASE d \notin DOMAIN b /\ e \in DOMAIN b
    <3>1. e < d /\ d \in Nat /\ e \in Nat
      BY <1>1, <1>2, <1>3, <1>4, <2>3
    <3> QED
      BY <1>6, <3>1
  <2>4. CASE d \notin DOMAIN b /\ e \notin DOMAIN b
    BY <1>1, <1>6, <2>4 DEF Once
  <2> QED
    BY <2>1, <2>2, <2>3, <2>4
<1>7. Once(u)
  BY <1>5, <1>6 DEF Once
<1> QED
  BY <1>7 DEF u

-----------------------------------------------------------------------------
(* The inductive invariant.                                                *)

\* The request in flight asks from the last bar on, a bar of five minutes.
LiveFits ==
  \A q \in live : DOMAIN bars # {} =>
    q.since \in DOMAIN bars /\ (\A d \in DOMAIN bars : d <= q.since)
    /\ bars[q.since].close < q.since + SlotLen

CutoffsOnTheGrid ==
  /\ cutoffs \in Seq(Int) /\ Len(cutoffs) \in 0..2
  /\ Len(cutoffs) = 2 => Multiple(cutoffs[1], HourLen) /\ Multiple(cutoffs[2], DayLen)
  /\ Len(cutoffs) = 1 => Multiple(cutoffs[1], DayLen)

BarsIInv ==
  /\ now \in Start..End
  /\ live \subseteq [since : Moment, at : Moment] /\ history \subseteq Moment
  /\ passes \in 0..MaxPasses /\ {seam, rerun} \subseteq BOOLEAN
  /\ CutoffsOnTheGrid
  /\ Table(bars)
  /\ seam \/ (Once(bars) /\ LiveFits)

LEMMA MoreWindows ==
  /\ Start \in Nat /\ End \in Nat /\ FetchBack \in Nat /\ FetchBack < Start /\ Start <= End
  /\ Keep5m \in Nat /\ Keep1h \in Nat /\ MaxPasses \in Nat
BY WindowAssumption, BoundAssumption

LEMMA InitBars == Init => BarsIInv
<1> SUFFICES ASSUME Init PROVE BarsIInv
  OBVIOUS
<1> DEFINE old == SourceBars(HourLen, HourOffset, Start - Served1h, Start - Keep5m)
           legacy == [d \in DOMAIN old |-> [old[d] EXCEPT !.legacy = TRUE]]
<1>1. Table(old) /\ Once(old)
  BY HistoryAnswer
<1>2. bars \in {<<>>, legacy}
  BY DEF Init
<1>3. Table(<<>>) /\ Once(<<>>)
  BY DEF Table, Once
<1>4. Table(legacy) /\ Once(legacy)
  <2> HIDE DEF old
  <2>1. DOMAIN legacy = DOMAIN old
    OBVIOUS
  <2>2. ASSUME NEW d \in DOMAIN old
        PROVE  /\ legacy[d] = [open |-> old[d].open, close |-> old[d].close, trades |-> old[d].trades, legacy |-> TRUE]
               /\ legacy[d].trades = old[d].trades /\ legacy[d].close = old[d].close
               /\ legacy[d].open = old[d].open /\ legacy[d].legacy = TRUE
    <3>1. old[d] = [open |-> old[d].open, close |-> old[d].close, trades |-> old[d].trades, legacy |-> old[d].legacy]
      BY <1>1 DEF Table, IsBar
    <3>2. legacy[d] = [old[d] EXCEPT !.legacy = TRUE]
      OBVIOUS
    <3> HIDE DEF legacy
    <3>3. legacy[d] = [open |-> old[d].open, close |-> old[d].close, trades |-> old[d].trades, legacy |-> TRUE]
      BY <3>1, <3>2
    <3> QED
      BY <3>3
  <2> HIDE DEF legacy
  <2>3. \A d \in DOMAIN old : IsBar(legacy[d])
    BY <1>1, <2>2 DEF Table, IsBar
  <2>4. \A d \in DOMAIN old : OfDay(legacy[d], d)
    BY <1>1, <2>2 DEF Table, OfDay
  <2>5. Table(legacy)
    BY <1>1, <2>1, <2>3, <2>4 DEF Table
  <2>6. Once(legacy)
    <3>1. ASSUME NEW d \in DOMAIN old
          PROVE  /\ Multiple(d, SlotLen)
                 /\ \A t \in DOMAIN legacy[d].trades :
                      legacy[d].trades[t] = 1 /\ d <= t /\ legacy[d].open <= t /\ t <= legacy[d].close
      <4>1. /\ legacy[d].trades = old[d].trades /\ legacy[d].close = old[d].close
            /\ legacy[d].open = old[d].open
        BY <2>2
      <4>2. /\ Multiple(d, SlotLen)
            /\ \A t \in DOMAIN old[d].trades :
                 old[d].trades[t] = 1 /\ d <= t /\ old[d].open <= t /\ t <= old[d].close
        BY <1>1 DEF Once
      <4> QED
        BY <4>1, <4>2
    <3>2. ASSUME NEW d \in DOMAIN old, NEW e \in DOMAIN old, d < e,
                 NEW t \in DOMAIN legacy[d].trades, NEW u \in DOMAIN legacy[e].trades
          PROVE  t < u
      <4>1. t \in DOMAIN old[d].trades /\ u \in DOMAIN old[e].trades
        BY <2>2
      <4> QED
        BY <1>1, <3>2, <4>1 DEF Once
    <3> QED
      BY <2>1, <3>1, <3>2 DEF Once
  <2> QED
    BY <2>5, <2>6
<1> HIDE DEF legacy
<1>5. Table(bars) /\ Once(bars)
  BY <1>2, <1>3, <1>4
<1>6. LiveFits
  BY DEF Init, LiveFits
<1>7. CutoffsOnTheGrid
  BY DEF Init, CutoffsOnTheGrid
<1>8. now \in Start..End /\ passes \in 0..MaxPasses /\ {seam, rerun} \subseteq BOOLEAN
  <2>1. now = Start /\ passes = 0
    BY DEF Init
  <2>2. {seam, rerun} \subseteq BOOLEAN
    BY DEF Init
  <2> QED
    BY <2>1, <2>2, MoreWindows
<1>9. live \subseteq [since : Moment, at : Moment] /\ history \subseteq Moment
  BY DEF Init
<1> QED
  BY <1>5, <1>6, <1>7, <1>8, <1>9 DEF BarsIInv

\* A pass in either of its halves.
LEMMA PassKeeps ==
  ASSUME BarsIInv, NEW size \in {HourLen, DayLen}, Multiple(cutoffs[1], size), cutoffs[1] \in Int,
         bars' = Compacted(bars, cutoffs[1], size), seam' = (seam \/ live # {}), UNCHANGED live
  PROVE  Table(bars)' /\ (seam \/ (Once(bars) /\ LiveFits))' /\ seam' \in BOOLEAN
<1>1. /\ size \in Nat \ {0} /\ Multiple(DayLen, size) /\ Multiple(size, SlotLen)
  BY Sizes
<1>2. Table(bars)
  BY DEF BarsIInv
<1>3. Table(Compacted(bars, cutoffs[1], size))
  BY <1>1, <1>2, TableCompacted
<1>4. Once(bars) => Once(Compacted(bars, cutoffs[1], size))
  BY <1>1, <1>2, OnceCompacted
<1>5. Table(bars)'
  BY <1>3
<1>6. Once(bars) => Once(bars)'
  BY <1>4
<1> QED
  BY <1>5, <1>6 DEF BarsIInv, LiveFits

LEMMA AskLiveKeeps == ASSUME BarsIInv, AskLive PROVE BarsIInv'
<1>1. Table(bars) /\ now \in Start..End
  BY DEF BarsIInv
<1>2. /\ live' = {[ since |-> IF Latest = -1 THEN now - FetchBack ELSE Latest, at |-> now ]}
      /\ seam' = (seam \/ (Latest # -1 /\ bars[Latest].close >= Latest + SlotLen))
      /\ UNCHANGED <<now, bars, history, passes, cutoffs, rerun>>
  BY DEF AskLive
<1>3. \/ DOMAIN bars = {} /\ Latest = -1
      \/ /\ DOMAIN bars # {} /\ Latest # -1 /\ Latest \in DOMAIN bars /\ Latest \in Nat
         /\ \A d \in DOMAIN bars : d <= Latest
  <2>1. DOMAIN bars \in SUBSET Moment
    BY <1>1 DEF Table
  <2>2. DOMAIN bars # {} => /\ Max(DOMAIN bars) \in DOMAIN bars /\ Max(DOMAIN bars) \in Nat
                            /\ \A d \in DOMAIN bars : d <= Max(DOMAIN bars)
    BY <2>1, Extremes
  <2> QED
    BY <2>2 DEF Latest
<1>4. now \in Moment /\ now - FetchBack \in Moment
  BY <1>1, MoreWindows DEF Moment
<1>5. Latest # -1 => Latest \in Moment
  BY <1>1, <1>3 DEF Table
<1>6. live' \subseteq [since : Moment, at : Moment]
  BY <1>2, <1>4, <1>5
<1>7. Latest # -1 => bars[Latest].close \in Nat
  BY <1>1, <1>3, TradesAreMoments DEF Table
<1>8. ~seam' => LiveFits'
  <2> SUFFICES ASSUME ~seam', NEW q \in live', DOMAIN bars # {}
      PROVE  /\ q.since \in DOMAIN bars /\ (\A d \in DOMAIN bars : d <= q.since)
             /\ bars[q.since].close < q.since + SlotLen
    BY <1>2 DEF LiveFits
  <2>1. q.since = Latest
    BY <1>2, <1>3
  <2>2. ~(bars[Latest].close >= Latest + SlotLen)
    BY <1>2, <1>3
  <2> QED
    BY <1>3, <1>7, <2>1, <2>2, Sizes
<1>9. seam' \in BOOLEAN /\ (~seam' => ~seam)
  BY <1>2 DEF BarsIInv
<1>10. CutoffsOnTheGrid' /\ Table(bars)' /\ (Once(bars) => Once(bars)')
  BY <1>2 DEF BarsIInv, CutoffsOnTheGrid
<1> QED
  BY <1>2, <1>6, <1>8, <1>9, <1>10 DEF BarsIInv

LEMMA StoreLiveKeeps == ASSUME BarsIInv, StoreLive PROVE BarsIInv'
<1>1. PICK q \in live : \E r \in q.at..now :
        LET from == IF q.since < r - Served5m THEN r - Served5m ELSE q.since
            answer == SourceBars(SlotLen, 0, from, r)
            response == Keep(answer, {d \in DOMAIN answer : d <= q.at})
        IN  \E part \in StoredParts(response) \cup {<<>>} :
              /\ bars' = Upserted(bars, part)
              /\ live' = {}
              /\ UNCHANGED <<now, history, passes, cutoffs, seam, rerun>>
  BY DEF StoreLive
<1>2. PICK r \in q.at..now :
        LET from == IF q.since < r - Served5m THEN r - Served5m ELSE q.since
            answer == SourceBars(SlotLen, 0, from, r)
            response == Keep(answer, {d \in DOMAIN answer : d <= q.at})
        IN  \E part \in StoredParts(response) \cup {<<>>} :
              /\ bars' = Upserted(bars, part)
              /\ live' = {}
              /\ UNCHANGED <<now, history, passes, cutoffs, seam, rerun>>
  BY <1>1
<1> DEFINE from == IF q.since < r - Served5m THEN r - Served5m ELSE q.since
           answer == SourceBars(SlotLen, 0, from, r)
           response == Keep(answer, {d \in DOMAIN answer : d <= q.at})
<1>3. PICK part \in StoredParts(response) \cup {<<>>} :
        /\ bars' = Upserted(bars, part)
        /\ live' = {}
        /\ UNCHANGED <<now, history, passes, cutoffs, seam, rerun>>
  BY <1>2
<1>4. q.since \in Int /\ r \in Int /\ Served5m \in Int
  BY WindowAssumption DEF BarsIInv, Moment
<1>5. from \in Int /\ q.since <= from
  BY <1>4
<1>6. Table(answer) /\ Once(answer) /\ \A d \in DOMAIN answer : from <= d
  BY LiveAnswer
<1>7. PartOf(response, answer)
  <2> HIDE DEF answer
  <2> QED
    BY DEF Keep, PartOf
<1>8. PartOf(part, response)
  <2> HIDE DEF response
  <2> QED
    BY <1>3, StoredIsPart
<1> HIDE DEF from, answer, response
<1>9. PartOf(part, answer)
  BY <1>7, <1>8 DEF PartOf
<1>10. Table(part) /\ Once(part)
  BY <1>6, <1>9, PartIs
<1>11. \A d \in DOMAIN part : q.since <= d
  <2>1. \A d \in DOMAIN part : d \in Nat /\ from <= d
    BY <1>6, <1>9, <1>10, Moments DEF PartOf, Table
  <2> QED
    BY <1>4, <1>5, <2>1
<1>12. Table(Upserted(bars, part))
  BY <1>10, TableUpserted DEF BarsIInv
<1>13. ~seam => Once(Upserted(bars, part))
  <2> SUFFICES ASSUME ~seam PROVE Once(Upserted(bars, part))
    OBVIOUS
  <2>1. Table(bars) /\ Once(bars)
    BY DEF BarsIInv
  <2>2. DOMAIN bars # {} =>
          q.since \in DOMAIN bars /\ (\A d \in DOMAIN bars : d <= q.since)
          /\ bars[q.since].close < q.since + SlotLen
    BY <1>1 DEF BarsIInv, LiveFits
  <2> QED
    BY <1>10, <1>11, <2>1, <2>2, OnceUpserted
<1>14. Table(bars)'
  BY <1>3, <1>12
<1>15. ~seam => Once(bars)'
  BY <1>3, <1>13
<1>16. LiveFits' /\ CutoffsOnTheGrid'
  BY <1>3 DEF LiveFits, BarsIInv, CutoffsOnTheGrid
<1> QED
  BY <1>3, <1>14, <1>15, <1>16 DEF BarsIInv

LEMMA StoreHistoryKeeps == ASSUME BarsIInv, StoreHistory PROVE BarsIInv'
<1>1. PICK at \in history : \E r \in at..now :
        \E part \in StoredParts(SourceBars(HourLen, HourOffset, r - Served1h, r)) \cup {<<>>} :
          /\ bars' = Upserted(bars, part)
          /\ history' = {}
          /\ seam' = (seam \/ bars # <<>> \/ live # {})
          /\ rerun' = (rerun \/ part = SourceBars(HourLen, HourOffset, r - Served1h, r))
          /\ UNCHANGED <<now, live, passes, cutoffs>>
  BY DEF StoreHistory
<1>2. PICK r \in at..now :
        \E part \in StoredParts(SourceBars(HourLen, HourOffset, r - Served1h, r)) \cup {<<>>} :
          /\ bars' = Upserted(bars, part)
          /\ history' = {}
          /\ seam' = (seam \/ bars # <<>> \/ live # {})
          /\ rerun' = (rerun \/ part = SourceBars(HourLen, HourOffset, r - Served1h, r))
          /\ UNCHANGED <<now, live, passes, cutoffs>>
  BY <1>1
<1> DEFINE response == SourceBars(HourLen, HourOffset, r - Served1h, r)
<1>3. PICK part \in StoredParts(response) \cup {<<>>} :
        /\ bars' = Upserted(bars, part)
        /\ history' = {}
        /\ seam' = (seam \/ bars # <<>> \/ live # {})
        /\ rerun' = (rerun \/ part = response)
        /\ UNCHANGED <<now, live, passes, cutoffs>>
  BY <1>2
<1>4. Table(response) /\ Once(response)
  BY HistoryAnswer
<1> HIDE DEF response
<1>5. PartOf(part, response)
  BY <1>3, StoredIsPart
<1>6. Table(part) /\ Once(part)
  BY <1>4, <1>5, PartIs
<1>7. Table(Upserted(bars, part))
  BY <1>6, TableUpserted DEF BarsIInv
<1>8. bars = <<>> => Once(Upserted(bars, part))
  <2> SUFFICES ASSUME bars = <<>> PROVE Once(Upserted(bars, part))
    OBVIOUS
  <2>1. DOMAIN bars = {}
    OBVIOUS
  <2>2. PartOf(Upserted(bars, part), part)
    BY <2>1 DEF Upserted, Join, PartOf
  <2> QED
    BY <1>6, <2>2, PartIs
<1>9. Table(bars)'
  BY <1>3, <1>7
<1>10. bars = <<>> => Once(bars)'
  BY <1>3, <1>8
<1>11. (live = {} => LiveFits') /\ CutoffsOnTheGrid'
  BY <1>3 DEF LiveFits, BarsIInv, CutoffsOnTheGrid
<1>12. seam' \in BOOLEAN /\ rerun' \in BOOLEAN
  BY <1>3 DEF BarsIInv
<1>13. seam' \/ (Once(bars) /\ LiveFits)'
  BY <1>3, <1>10, <1>11 DEF BarsIInv
<1> QED
  BY <1>3, <1>9, <1>11, <1>12, <1>13 DEF BarsIInv
LEMMA NextBars == ASSUME BarsIInv, [Next]_vars PROVE BarsIInv'
<1>1. CASE Tick
  BY <1>1, MoreWindows DEF Tick, BarsIInv, CutoffsOnTheGrid, LiveFits
<1>2. CASE AskHistory \/ AskHistoryUnread \/ BacktestMiss
  <2>1. /\ UNCHANGED <<now, bars, live, passes, cutoffs, seam, rerun>>
        /\ history' = {now}
    BY <1>2 DEF AskHistory, AskHistoryUnread, BacktestMiss
  <2>2. now \in Moment
    BY MoreWindows DEF BarsIInv, Moment
  <2> QED
    BY <2>1, <2>2 DEF BarsIInv, CutoffsOnTheGrid, LiveFits
<1>3. CASE BeginPass
  <2>1. now - Keep5m \in Int /\ now - Keep1h \in Int
    BY MoreWindows DEF BarsIInv
  <2> DEFINE h == Bucket(now - Keep5m, HourLen)
             k == Bucket(now - Keep1h, DayLen)
  <2>2. h \in Int /\ Multiple(h, HourLen) /\ k \in Int /\ Multiple(k, DayLen)
    BY <2>1, Sizes, BucketFacts
  <2>3. /\ cutoffs' = <<h, k>> /\ passes < MaxPasses /\ passes' = passes + 1
        /\ UNCHANGED <<now, bars, live, history, seam, rerun>>
    BY <1>3 DEF BeginPass
  <2> HIDE DEF h, k
  <2>4. CutoffsOnTheGrid'
    BY <2>2, <2>3 DEF CutoffsOnTheGrid
  <2>5. passes' \in 0..MaxPasses
    BY <2>3, MoreWindows DEF BarsIInv
  <2> QED
    BY <2>3, <2>4, <2>5 DEF BarsIInv, LiveFits
<1>4. CASE HourlyPass
  <2>1. /\ Len(cutoffs) = 2 /\ bars' = Compacted(bars, cutoffs[1], HourLen)
        /\ cutoffs' = Tail(cutoffs) /\ seam' = (seam \/ live # {})
        /\ UNCHANGED <<now, live, history, passes, rerun>>
    BY <1>4 DEF HourlyPass
  <2>2. cutoffs \in Seq(Int) /\ Multiple(cutoffs[1], HourLen) /\ Multiple(cutoffs[2], DayLen)
    BY <2>1 DEF BarsIInv, CutoffsOnTheGrid
  <2>3. cutoffs[1] \in Int
    BY <2>1, <2>2
  <2>4. cutoffs' \in Seq(Int) /\ Len(cutoffs') = 1 /\ cutoffs'[1] = cutoffs[2]
    BY <2>1, <2>2, TailOfPair
  <2>5. Table(bars)' /\ (seam \/ (Once(bars) /\ LiveFits))' /\ seam' \in BOOLEAN
    BY <2>1, <2>2, <2>3, PassKeeps
  <2>6. CutoffsOnTheGrid'
    BY <2>2, <2>4 DEF CutoffsOnTheGrid
  <2> QED
    BY <2>1, <2>5, <2>6 DEF BarsIInv
<1>5. CASE DailyPass
  <2>1. /\ Len(cutoffs) = 1 /\ bars' = Compacted(bars, cutoffs[1], DayLen)
        /\ cutoffs' = <<>> /\ seam' = (seam \/ live # {})
        /\ UNCHANGED <<now, live, history, passes, rerun>>
    BY <1>5 DEF DailyPass
  <2>2. cutoffs \in Seq(Int) /\ Multiple(cutoffs[1], DayLen)
    BY <2>1 DEF BarsIInv, CutoffsOnTheGrid
  <2>3. cutoffs[1] \in Int
    BY <2>1, <2>2
  <2>5. Table(bars)' /\ (seam \/ (Once(bars) /\ LiveFits))' /\ seam' \in BOOLEAN
    BY <2>1, <2>2, <2>3, PassKeeps
  <2>6. CutoffsOnTheGrid'
    BY <2>1 DEF CutoffsOnTheGrid
  <2> QED
    BY <2>1, <2>5, <2>6 DEF BarsIInv
<1>6. CASE PassFails
  BY <1>6 DEF PassFails, BarsIInv, CutoffsOnTheGrid, LiveFits
<1>7. CASE UNCHANGED vars
  BY <1>7 DEF vars, BarsIInv, CutoffsOnTheGrid, LiveFits
<1> QED
  BY <1>1, <1>2, <1>3, <1>4, <1>5, <1>6, <1>7, AskLiveKeeps, StoreLiveKeeps, StoreHistoryKeeps DEF Next

\* The inductive invariant holds in every reachable state, whatever is fetched,
\* backfilled and folded in which order (fetchPrices, getOldHistoricPriceData
\* and compactPrices of src/main.go).
THEOREM BarsInvariant == Spec => []BarsIInv
BY InitBars, NextBars, PTL DEF Spec

\* TypeOK in every reachable state: the rows of the price table are bars that open
\* and close with trades of their own, and with the first and the last of them as long as
\* no bar was stored at a seam (arg_min and arg_max of compactTicker).
THEOREM BarsTypeCorrect == Spec => []TypeOK
<1>1. BarsIInv => TypeOK
  <2> SUFFICES ASSUME BarsIInv PROVE TypeOK
    OBVIOUS
  <2>1. DOMAIN bars \subseteq Moment /\ \A d \in DOMAIN bars : IsBar(bars[d])
    BY DEF BarsIInv, Table
  <2>2. \A d \in DOMAIN bars :
          /\ {bars[d].open, bars[d].close} \subseteq DOMAIN bars[d].trades
          /\ DOMAIN bars[d].trades \subseteq Trading
          /\ \A t \in DOMAIN bars[d].trades : bars[d].trades[t] \in Nat \ {0}
          /\ bars[d].legacy \in BOOLEAN
    BY <2>1 DEF IsBar, IsBag
  <2>3. seam \/ \A d \in DOMAIN bars : \A t \in DOMAIN bars[d].trades :
                   bars[d].open <= t /\ t <= bars[d].close
    BY DEF BarsIInv, Once
  <2> QED
    BY <2>1, <2>2, <2>3 DEF BarsIInv, TypeOK, CutoffsOnTheGrid
<1> QED
  BY <1>1, BarsInvariant, PTL

\* BarsStayInTheirDay in every reachable state: neither an hourly bar of the source
\* nor a fold of compactTicker shows a trade of another day.
THEOREM BarsOfTheirDay == Spec => []BarsStayInTheirDay
<1>1. BarsIInv => BarsStayInTheirDay
  <2> SUFFICES ASSUME BarsIInv, NEW d \in DOMAIN bars, NEW t \in DOMAIN bars[d].trades
      PROVE  t \div DayLen = d \div DayLen
    BY DEF BarsStayInTheirDay
  <2>1. d \in Nat /\ IsBar(bars[d]) /\ Bucket(t, DayLen) = Bucket(d, DayLen)
    BY Moments DEF BarsIInv, Table, OfDay
  <2>2. t \in Nat
    BY <2>1, TradesAreMoments
  <2>3. t \in Int /\ d \in Int
    BY <2>1, <2>2
  <2> QED
    BY <2>1, <2>3, Sizes, DayIsBucket
<1> QED
  BY <1>1, BarsInvariant, PTL

\* CountedTwiceOnlyAtASeam in every reachable state: fetchPrices and compactPrices
\* alone count no trade twice, after any failures, retries and restarts of passes.
THEOREM CountedOnce == Spec => []CountedTwiceOnlyAtASeam
<1>1. BarsIInv => CountedTwiceOnlyAtASeam
  <2>1. ASSUME BarsIInv, ~seam PROVE \A t \in DOMAIN Volume(bars, DOMAIN bars) : Volume(bars, DOMAIN bars)[t] = 1
    <3>1. Table(bars) /\ Once(bars)
      BY <2>1 DEF BarsIInv
    <3> QED
      BY <3>1, OnceCounts
  <2> QED
    BY <2>1 DEF CountedTwiceOnlyAtASeam
<1> QED
  BY <1>1, BarsInvariant, PTL

\* A half of a pass that is done has changed no candle of its size or larger.
LEMMA PassKeepsCandles ==
  ASSUME BarsIInv, [Next]_vars
  PROVE  /\ Len(cutoffs) = 2 /\ Len(cutoffs') = 1 => Candles(bars', HourLen) = Candles(bars, HourLen)
         /\ Len(cutoffs') < Len(cutoffs) => Candles(bars', DayLen) = Candles(bars, DayLen)
<1>1. Table(bars) /\ CutoffsOnTheGrid
  BY DEF BarsIInv
<1>2. CASE HourlyPass
  <2>1. Len(cutoffs) = 2 /\ bars' = Compacted(bars, cutoffs[1], HourLen)
    BY <1>2 DEF HourlyPass
  <2>2. cutoffs[1] \in Int /\ Multiple(cutoffs[1], HourLen)
    BY <1>1, <2>1 DEF CutoffsOnTheGrid
  <2>3. /\ Candles(Compacted(bars, cutoffs[1], HourLen), HourLen) = Candles(bars, HourLen)
        /\ Candles(Compacted(bars, cutoffs[1], HourLen), DayLen) = Candles(bars, DayLen)
    BY <1>1, <2>2, Sizes, CandlesKept
  <2> QED
    BY <2>1, <2>3
<1>3. CASE DailyPass
  <2>1. Len(cutoffs) = 1 /\ bars' = Compacted(bars, cutoffs[1], DayLen)
    BY <1>3 DEF DailyPass
  <2>2. cutoffs[1] \in Int /\ Multiple(cutoffs[1], DayLen)
    BY <1>1, <2>1 DEF CutoffsOnTheGrid
  <2>3. Candles(Compacted(bars, cutoffs[1], DayLen), DayLen) = Candles(bars, DayLen)
    BY <1>1, <2>2, Sizes, CandlesKept
  <2> QED
    BY <2>1, <2>3
<1>4. CASE PassFails
  BY <1>4 DEF PassFails
<1>5. CASE BeginPass
  BY <1>5 DEF BeginPass
<1>6. CASE Tick \/ AskLive \/ StoreLive \/ AskHistory \/ AskHistoryUnread \/ BacktestMiss \/ StoreHistory \/ UNCHANGED vars
  <2>1. cutoffs' = cutoffs
    BY <1>6 DEF Tick, AskLive, StoreLive, AskHistory, AskHistoryUnread, BacktestMiss, StoreHistory, vars
  <2>2. Len(cutoffs) \in Nat
    BY <1>1 DEF CutoffsOnTheGrid
  <2> QED
    BY <2>1, <2>2
<1> QED
  BY <1>2, <1>3, <1>4, <1>5, <1>6 DEF Next

\* CompactionKeepsCandles: the folds of compactTicker change no candle of the size
\* they fold to and no larger one, for rows of any sizes and any cutoffs on the grid.
THEOREM CandlesStay == Spec => CompactionKeepsCandles
<1>1. BarsIInv /\ [Next]_vars =>
        [/\ Len(cutoffs) = 2 /\ Len(cutoffs') = 1 => Candles(bars', HourLen) = Candles(bars, HourLen)
         /\ Len(cutoffs') < Len(cutoffs) => Candles(bars', DayLen) = Candles(bars, DayLen)]_vars
  BY PassKeepsCandles
<1> QED
  BY <1>1, BarsInvariant, PTL DEF Spec, CompactionKeepsCandles
=============================================================================
