------------------------------ MODULE PriceBars ------------------------------
(***************************************************************************)
(* The bars of one ticker in the DuckDB price table: the five minute bars  *)
(* fetchPrices appends, the hourly history a backfill inserts, and the     *)
(* compaction that folds old bars into hourly and daily ones.              *)
(*                                                                         *)
(* Time is counted in moments, and one trade happens in each moment of     *)
(* Trading.  A bar stands for the bag of trades it was made from: its      *)
(* volume is the size of the bag, its high and low are those of the trades *)
(* in it, and open and close name one trade each.  What the data source    *)
(* answers is external: the bars of the trades made so far.                *)
(***************************************************************************)
EXTENDS Bags, FiniteSets, FiniteSetsExt, Integers, Sequences

CONSTANTS
  Trading,      \* the moments at which a trade is made
  SlotLen, HourLen, DayLen,   \* lengths of the three sizes of bars
  HourOffset,   \* the source's hourly bars start this long after the hour
  FetchBack,    \* where fetchPrices starts without any bar: 7 days
  Keep5m,       \* priceRetention5mSec: 30 days
  Served5m,     \* how far back the source serves five minute bars: 60 days
  Keep1h,       \* priceRetention1hSec: 365 days
  Served1h,     \* ... and hourly bars: 729 days
  Start, End,   \* bounds on the clock
  ChunkRows,    \* priceUpsertChunkRows
  MaxPasses     \* bound on the compaction passes

ASSUME LengthAssumption ==
  /\ {SlotLen, HourLen, DayLen} \subseteq Nat \ {0}
  /\ HourLen % SlotLen = 0 /\ DayLen % HourLen = 0
  /\ HourOffset \in 0..(HourLen - 1) /\ HourOffset % SlotLen = 0
ASSUME WindowAssumption ==
  /\ {FetchBack, Keep5m, Served5m, Keep1h, Served1h, Start, End} \subseteq Nat
  /\ 0 < FetchBack /\ FetchBack < Keep5m /\ Keep5m < Served5m
  /\ Served5m < Keep1h /\ Keep1h < Served1h /\ Served1h <= Start /\ Start <= End
\* No session with an offset runs past midnight: NYSE's is 13:30 to 21:00 UTC.
ASSUME TradingAssumption ==
  /\ Trading \subseteq 0..End
  /\ \A t \in Trading : t % DayLen >= HourOffset

ASSUME BoundAssumption == {ChunkRows, MaxPasses} \subseteq Nat \ {0}

VARIABLES
  now,      \* the clock
  bars,     \* the rows of the ticker: a function from their dates
  live,     \* the request of fetchPrices in flight
  history,  \* the request of a backfill in flight
  passes,   \* compaction passes so far
  cutoffs,  \* the cutoffs of the pass in progress
  seam,     \* a bar may have been stored beside others of the same trades
  rerun     \* a backfill has been stored to the end

vars == <<now, bars, live, history, passes, cutoffs, seam, rerun>>

Moment == 0..End

\* Fault: rounds to the nearest bucket.
NearestBucket(d, size) == ((d + size \div 2) \div size) * size

\* date // size * size
Bucket(d, size) == (d \div size) * size

Keep(b, D) == [d \in D |-> b[d]]

\* Both tables' rows, and the first one's where both have one.
Join(b, c) == [d \in DOMAIN b \cup DOMAIN c |-> IF d \in DOMAIN b THEN b[d] ELSE c[d]]

-----------------------------------------------------------------------------
(* The rows and what is read from them.                                    *)

\* The summed volume of the bars at the dates D, trade by trade.
Volume(b, D) ==
  MapThenFoldSet(LAMBDA x, y : x (+) y, EmptyBag, LAMBDA d : b[d].trades,
                 LAMBDA S : CHOOSE d \in S : TRUE, D)

\* One row of the aggregate: arg_min(open, date), arg_max(close, date), the
\* extremes and the volume of the bars at the dates D.
Fold(b, D) ==
  [ open |-> b[Min(D)].open, close |-> b[Max(D)].close,
    trades |-> Volume(b, D), legacy |-> \E d \in D : b[d].legacy ]

\* SELECT ... GROUP BY date // size * size.
Candles(b, size) ==
  [k \in {Bucket(d, size) : d \in DOMAIN b} |->
     Fold(b, {d \in DOMAIN b : Bucket(d, size) = k})]

\* Fault: DELETE takes the bar at the cutoff, which was not aggregated.
UpToCutoff(b, cutoff) == {d \in DOMAIN b : d <= cutoff}

\* Fault: nothing is deleted.
NothingDeleted(b, cutoff) == {}

BeforeCutoff(b, cutoff) == {d \in DOMAIN b : d < cutoff}

Aggregated(b, cutoff, size) == Candles(Keep(b, {d \in DOMAIN b : d < cutoff}), size)

Compacted(b, cutoff, size) ==
  Join(Aggregated(b, cutoff, size), Keep(b, DOMAIN b \ BeforeCutoff(b, cutoff)))

\* Fault: INSERT OR REPLACE.
Replaced(b, response) == Join(response, b)

\* ON CONFLICT (ticker, date) DO NOTHING.
Upserted(b, response) == Join(b, response)

\* The bars of the source that start at from or later, at the moment r: the last
\* one may still be in progress.
SourceBars(len, offset, from, r) ==
  LET made(d) == {t \in Trading : d <= t /\ t < d + len /\ t <= r}
  IN  [d \in {d \in Moment : from <= d /\ d % len = offset /\ made(d) # {}} |->
         [ open |-> Min(made(d)), close |-> Max(made(d)),
           trades |-> SetToBag(made(d)), legacy |-> FALSE ]]

\* upsertPrices commits chunk by chunk, in the order of the dates, until all are
\* done or one fails.
StoredParts(response) ==
  LET before(d) == {e \in DOMAIN response : e < d}
      parts == {before(d) : d \in {e \in DOMAIN response : Cardinality(before(e)) % ChunkRows = 0}}
  IN  {Keep(response, D) : D \in parts \cup {DOMAIN response}}

Latest == IF DOMAIN bars = {} THEN -1 ELSE Max(DOMAIN bars)

-----------------------------------------------------------------------------
\* The table is empty, or holds hourly bars from the time when their volume was
\* divided by 60.
Init ==
  /\ now = Start
  /\ LET old == SourceBars(HourLen, HourOffset, Start - Served1h, Start - Keep5m)
     IN  bars \in {<<>>, [d \in DOMAIN old |-> [old[d] EXCEPT !.legacy = TRUE]]}
  /\ live = {} /\ history = {}
  /\ passes = 0 /\ cutoffs = <<>>
  /\ seam = FALSE /\ rerun = FALSE

Tick ==
  /\ now < End
  /\ now' = now + 1
  /\ UNCHANGED <<bars, live, history, passes, cutoffs, seam, rerun>>

\* fetchPrices reads the last date and asks for everything from there on.  What
\* follows an hourly or daily bar is a part of it.
AskLive ==
  /\ live = {}
  /\ live' = {[ since |-> IF Latest = -1 THEN now - FetchBack ELSE Latest, at |-> now ]}
  /\ seam' = (seam \/ (Latest # -1 /\ bars[Latest].close >= Latest + SlotLen))
  /\ UNCHANGED <<now, bars, history, passes, cutoffs, rerun>>

\* The answer, made at some moment r, is stored; bars of the
\* future are skipped.  A request that fails stores nothing.
StoreLive ==
  \E q \in live : \E r \in q.at..now :
    LET from == IF q.since < r - Served5m THEN r - Served5m ELSE q.since
        answer == SourceBars(SlotLen, 0, from, r)
        response == Keep(answer, {d \in DOMAIN answer : d <= q.at})
    IN  \E part \in StoredParts(response) \cup {<<>>} :
          /\ bars' = Upserted(bars, part)
          /\ live' = {}
          /\ UNCHANGED <<now, history, passes, cutoffs, seam, rerun>>

\* hasOldPriceData finds no bar past the retention of five minute bars.
AskHistory ==
  /\ history = {}
  /\ ~\E d \in DOMAIN bars : d < now - Keep5m
  /\ history' = {now}
  /\ UNCHANGED <<now, bars, live, passes, cutoffs, seam, rerun>>

\* ... or fails, which starts the backfill of whatever table there is, too.
AskHistoryUnread ==
  /\ history = {}
  /\ history' = {now}
  /\ UNCHANGED <<now, bars, live, passes, cutoffs, seam, rerun>>

\* A backtest finds no bar in the range it was asked for, whatever the others.
BacktestMiss ==
  /\ history = {}
  /\ \E s, e \in Moment : s <= e /\ e <= now /\ ~\E d \in DOMAIN bars : s <= d /\ d <= e
  /\ history' = {now}
  /\ UNCHANGED <<now, bars, live, passes, cutoffs, seam, rerun>>

StoreHistory ==
  \E at \in history : \E r \in at..now :
    LET response == SourceBars(HourLen, HourOffset, r - Served1h, r)
    IN  \E part \in StoredParts(response) \cup {<<>>} :
          /\ bars' = Upserted(bars, part)
          /\ history' = {}
          /\ seam' = (seam \/ bars # <<>> \/ live # {})
          /\ rerun' = (rerun \/ part = response)
          /\ UNCHANGED <<now, live, passes, cutoffs>>

\* compactPrices fixes both cutoffs, ...
BeginPass ==
  /\ cutoffs = <<>>
  /\ passes < MaxPasses
  /\ passes' = passes + 1
  /\ cutoffs' = << Bucket(now - Keep5m, HourLen), Bucket(now - Keep1h, DayLen) >>
  /\ UNCHANGED <<now, bars, live, history, seam, rerun>>

\* ... folds into hours, then into days; an error ends the pass.
HourlyPass ==
  /\ Len(cutoffs) = 2
  /\ bars' = Compacted(bars, cutoffs[1], HourLen)
  /\ cutoffs' = Tail(cutoffs)
  /\ seam' = (seam \/ live # {})
  /\ UNCHANGED <<now, live, history, passes, rerun>>

DailyPass ==
  /\ Len(cutoffs) = 1
  /\ bars' = Compacted(bars, cutoffs[1], DayLen)
  /\ cutoffs' = <<>>
  /\ seam' = (seam \/ live # {})
  /\ UNCHANGED <<now, live, history, passes, rerun>>

PassFails ==
  /\ cutoffs # <<>>
  /\ cutoffs' = <<>>
  /\ UNCHANGED <<now, bars, live, history, passes, seam, rerun>>

Next ==
  \/ Tick
  \/ AskLive \/ StoreLive
  \/ AskHistory \/ AskHistoryUnread \/ BacktestMiss \/ StoreHistory
  \/ BeginPass \/ HourlyPass \/ DailyPass \/ PassFails

Spec == Init /\ [][Next]_vars
-----------------------------------------------------------------------------
(* Properties.                                                             *)

\* The type of every variable; a bar opens and closes with trades of its own, and,
\* as long as none was stored at a seam, with the first and the last of them.
TypeOK ==
  /\ now \in Start..End
  /\ DOMAIN bars \subseteq Moment
  /\ \A d \in DOMAIN bars :
       /\ {bars[d].open, bars[d].close} \subseteq DOMAIN bars[d].trades
       /\ DOMAIN bars[d].trades \subseteq Trading
       /\ \A t \in DOMAIN bars[d].trades : bars[d].trades[t] \in Nat \ {0}
       /\ bars[d].legacy \in BOOLEAN
  /\ live \subseteq [since : Moment, at : Moment] /\ history \subseteq Moment
  /\ passes \in 0..MaxPasses /\ Len(cutoffs) \in 0..2
  /\ {seam, rerun} \subseteq BOOLEAN
  /\ seam \/ \A d \in DOMAIN bars : \A t \in DOMAIN bars[d].trades :
               bars[d].open <= t /\ t <= bars[d].close

\* Whatever is fetched, backfilled and folded in which order, the trades of a bar
\* are trades of its day, so no daily candle shows those of another day.
BarsStayInTheirDay ==
  \A d \in DOMAIN bars : \A t \in DOMAIN bars[d].trades : t \div DayLen = d \div DayLen

\* compactTicker "keeping open/high/low/close/sum(volume)": folding into hours
\* changes no hourly and no daily candle, folding into days no daily one,
\* whatever bars of whatever size the table holds.
CompactionKeepsCandles ==
  [][ /\ Len(cutoffs) = 2 /\ Len(cutoffs') = 1 => Candles(bars', HourLen) = Candles(bars, HourLen)
      /\ Len(cutoffs') < Len(cutoffs) => Candles(bars', DayLen) = Candles(bars, DayLen) ]_vars

\* A bar younger than the retention of five minute bars is final: no later
\* answer, backfill or compaction changes or removes it.
RecentBarsAreFinal ==
  [][\A d \in DOMAIN bars : d >= now - Keep5m => d \in DOMAIN bars' /\ bars'[d] = bars[d]]_vars

\* Fetching, retrying after failures and compacting count no trade twice, as long
\* as no bar was stored at a seam: a backfill into a table with bars, a fetch
\* that goes on from a bar longer than five minutes, a compaction in between.
CountedTwiceOnlyAtASeam ==
  seam \/ LET volume == Volume(bars, DOMAIN bars)
          IN  \A t \in DOMAIN volume : volume[t] = 1

\* README.md:23, "Re-run the historic backfill for a ticker to fix its history".
RerunFixesHistory == rerun => \A d \in DOMAIN bars : ~bars[d].legacy
=============================================================================
