-------------------------- MODULE PriceFetchProofs --------------------------
(***************************************************************************)
(* Proofs about the price cache: coverage rows stay apart and every bar is  *)
(* covered, whoever writes, in whatever order, and wherever a cycle stops.  *)
(***************************************************************************)
EXTENDS PriceFetch, CoverageProofs

Fields == {"seen", "todo", "plugs", "blocked", "found", "cover", "gap", "left",
           "outstanding", "reached", "called", "got", "answer", "bars", "stamps", "clean"}

Rows == SUBSET Spans

\* The cache: typed rows that are apart, and every bar in one of them.
RowsInv ==
    /\ spans \in [Instruments -> [Providers -> Rows]]
    /\ bars \in [Instruments -> SUBSET Int]
    /\ CoverageSeparated
    /\ BarsCovered

\* The worker: it asks a plugin, and the bars of an answer lie within the range that
\* was asked for.
LocalsInv ==
    /\ DOMAIN w = Fields
    /\ w.left \in Seq(Plugins)
    /\ pc \in {"range", "answer"} => w.left # <<>>
    /\ pc = "answer" => w.bars \subseteq RangeDays(Asked)

CacheInv == known \subseteq Instruments /\ RowsInv /\ LocalsInv

\* Writing one row set: what StoreRange, ImportBars and the cascade have in common.
LEMMA CacheWrite ==
    ASSUME NEW i \in Instruments, NEW p \in Providers, NEW rows \in Rows, NEW days \in SUBSET Int,
           CacheInv, Separated(rows),
           SpanDays(spans[i][p]) \subseteq SpanDays(rows), days \subseteq SpanDays(rows),
           bars' = [bars EXCEPT ![i] = @ \cup days],
           spans' = [spans EXCEPT ![i][p] = rows]
    PROVE  RowsInv'
<1>1. spans' \in [Instruments -> [Providers -> Rows]]
  BY DEF CacheInv, RowsInv
<1>2. bars' \in [Instruments -> SUBSET Int]
  BY DEF CacheInv, RowsInv
<1>3. \A j \in Instruments, q \in Providers :
         spans'[j][q] = IF j = i /\ q = p THEN rows ELSE spans[j][q]
  BY DEF CacheInv, RowsInv
<1>4. CoverageSeparated'
  BY <1>3 DEF CacheInv, RowsInv, CoverageSeparated
<1>5. ASSUME NEW j \in Instruments, NEW d \in bars'[j]
      PROVE  \E q \in Providers : d \in SpanDays(spans'[j][q])
  <2>1. CASE d \in bars[j]
    <3>1. d \in SpanDays(UNION {spans[j][q] : q \in Providers})
      BY <2>1 DEF CacheInv, RowsInv, BarsCovered, CoveredDays
    <3>2. PICK q \in Providers : d \in SpanDays(spans[j][q])
      BY <3>1 DEF SpanDays
    <3> QED
      BY <3>2, <1>3
  <2>2. CASE d \notin bars[j]
    <3>1. j = i /\ d \in days
      BY <2>2, <1>5 DEF CacheInv, RowsInv
    <3> QED
      BY <3>1, <1>3
  <2> QED
    BY <2>1, <2>2
<1>6. BarsCovered'
  BY <1>5 DEF BarsCovered, CoveredDays, SpanDays
<1> QED
  BY <1>1, <1>2, <1>4, <1>6 DEF RowsInv

\* The rows that UpsertPricesForRange leaves are apart and stand for the days there were
\* and the days of the range.
LEMMA UpsertedRows ==
    ASSUME NEW i, NEW p \in Providers, NEW r, CacheInv, CanStore(i, r)
    PROVE  /\ i \in Instruments
           /\ r.from \in Dates /\ r.before \in Dates /\ r.from < r.before
           /\ UpsertCoverageSpan(spans[i][p], r.from, r.before) \in Rows
           /\ Separated(UpsertCoverageSpan(spans[i][p], r.from, r.before))
           /\ SpanDays(UpsertCoverageSpan(spans[i][p], r.from, r.before)) =
                 SpanDays(spans[i][p]) \cup RangeDays(r)
<1>1. i \in Instruments /\ r.from \in Dates /\ r.before \in Dates /\ r.from < r.before
  BY DEF CacheInv, RowsInv, CanStore
<1>2. spans[i][p] \in SUBSET [from : 1 .. (LastDay + 1), before : 1 .. (LastDay + 1)]
  BY <1>1 DEF CacheInv, RowsInv, Rows, Spans, Dates
<1>3. Separated(spans[i][p])
  BY <1>1 DEF CacheInv, RowsInv, CoverageSeparated
<1>4. 1 \in Nat /\ LastDay + 1 \in Nat
  BY LastDayAssumption
<1>5. r.from \in 1 .. (LastDay + 1) /\ r.before \in 1 .. (LastDay + 1) /\ r.from < r.before
  BY <1>1 DEF Dates
<1> DEFINE from == r.from
           before == r.before
           old == spans[i][p]
<1> HIDE DEF from, before, old
<1>6. /\ UpsertCoverageSpan(old, from, before)
            \in SUBSET [from : 1 .. (LastDay + 1), before : 1 .. (LastDay + 1)]
      /\ Separated(UpsertCoverageSpan(old, from, before))
      /\ SpanDays(UpsertCoverageSpan(old, from, before)) = SpanDays(old) \cup (from .. (before - 1))
  <2>1. /\ old \in SUBSET [from : 1 .. (LastDay + 1), before : 1 .. (LastDay + 1)]
        /\ Separated(old)
        /\ from \in 1 .. (LastDay + 1) /\ before \in 1 .. (LastDay + 1) /\ from < before
    BY <1>2, <1>3, <1>5 DEF from, before, old
  <2> QED
    BY <1>4, <2>1, UpsertTheorem
<1> QED
  BY <1>1, <1>6 DEF from, before, old, Rows, Spans, Dates, RangeDays

\* UpsertPricesForRange keeps the rows apart and covers the bars it stores.
LEMMA StoreStep ==
    ASSUME NEW i, NEW p \in Providers, NEW r, NEW days \in SUBSET RangeDays(r),
           CacheInv, CanStore(i, r), StoreRange(i, p, days, r)
    PROVE  RowsInv'
<1> DEFINE rows == UpsertCoverageSpan(spans[i][p], r.from, r.before)
<1>1. i \in Instruments /\ r.from \in Dates /\ r.before \in Dates /\ r.from < r.before
  BY UpsertedRows
<1>2. rows \in Rows /\ Separated(rows) /\ SpanDays(rows) = SpanDays(spans[i][p]) \cup RangeDays(r)
  BY UpsertedRows
<1>3. days \subseteq SpanDays(rows) /\ SpanDays(spans[i][p]) \subseteq SpanDays(rows)
  BY <1>2
<1>4. days \in SUBSET Int
  BY <1>1, LastDayAssumption DEF RangeDays, Dates
<1>5. bars' = [bars EXCEPT ![i] = @ \cup days] /\ spans' = [spans EXCEPT ![i][p] = rows]
  BY DEF StoreRange
<1> HIDE DEF rows
<1> QED
  BY <1>1, <1>2, <1>3, <1>4, <1>5, CacheWrite

\* A step that leaves rows and bars alone leaves the facts about them alone.
LEMMA CacheSame ==
    ASSUME CacheInv, UNCHANGED <<spans, bars>>
    PROVE  RowsInv'
  BY DEF CacheInv, RowsInv, CoverageSeparated, BarsCovered, CoveredDays


\* The locals of a worker that is asleep.
LEMMA AsleepLocals ==
    ASSUME pc' = "idle" \/ pc' = "held", w' = Asleep
    PROVE  LocalsInv'
  BY DEF LocalsInv, Asleep, Fields

\* A worker that does not move keeps its locals.
LEMMA LocalsSame ==
    ASSUME LocalsInv, UNCHANGED <<pc, w>>
    PROVE  LocalsInv'
  BY DEF LocalsInv, Asked

\* Every step of the worker asks a plugin of the order, and only a call to it
\* (FetchPrices) brings bars, which are bars of the range.
LEMMA LocalsStep ==
    ASSUME CacheInv, Worker
    PROVE  LocalsInv'
<1> USE DEF CacheInv, LocalsInv, Fields, Goto
<1>1. CASE Wake
  BY <1>1, AsleepLocals DEF Wake
<1>2. CASE ReadHeld
  BY <1>2 DEF ReadHeld
<1>3. CASE ReadGaps
  BY <1>3 DEF ReadGaps
<1>4. CASE ReadFXHeld
  BY <1>4 DEF ReadFXHeld
<1>5. CASE ReadFXGaps
  BY <1>5, AsleepLocals DEF ReadFXGaps
<1>6. CASE ReadConfigs
  BY <1>6, AsleepLocals DEF ReadConfigs
<1>7. CASE ReadBlocks
  BY <1>7 DEF ReadBlocks
<1>8. CASE ReadInstruments
  BY <1>8 DEF ReadInstruments
<1>9. CASE ReadCoverage
  BY <1>9 DEF ReadCoverage
<1>10. CASE ReadFails
  BY <1>10, AsleepLocals DEF ReadFails
<1>11. CASE NextGap
  BY <1>11, OrderAssumption DEF NextGap
<1>12. CASE CycleDone
  BY <1>12, AsleepLocals DEF CycleDone
<1>13. CASE TryPlugin
  <2>1. w.left # <<>> /\ w.left \in Seq(Plugins) /\ Tail(w.left) \in Seq(Plugins)
    BY <1>13 DEF TryPlugin
  <2>2. \/ /\ pc' = "range"
           /\ w' = [w EXCEPT !.reached = TRUE, !.outstanding = Outstanding(Head(w.left))]
        \/ /\ pc' = "plugin"
           /\ w' = [w EXCEPT !.reached = @ \/ Eligible(Head(w.left)), !.left = Tail(@)]
    BY <1>13 DEF TryPlugin
  <2>3. CASE pc' = "range"
    BY <2>1, <2>2, <2>3
  <2>4. CASE pc' = "plugin"
    BY <2>1, <2>2, <2>4
  <2> QED
    BY <2>2, <2>3, <2>4
<1>14. CASE GapFailed
  BY <1>14 DEF GapFailed, GapEnd
<1>15. CASE GapFetched
  BY <1>15 DEF GapFetched, GapEnd
<1>16. CASE BeyondHistory
  BY <1>16 DEF BeyondHistory, CoverRange
<1>17. CASE TruncateToHistory
  BY <1>17 DEF TruncateToHistory, CoverRange
<1>18. CASE FetchPrices
  BY <1>18 DEF FetchPrices, Published, Asked
<1>19. CASE StoreBars
  <2>1. w.left # <<>> /\ w.left \in Seq(Plugins) /\ Tail(w.left) \in Seq(Plugins)
    BY <1>19 DEF StoreBars
  <2>2. \/ pc' = "range" /\ w' = [NextRange EXCEPT !.got = @ \/ w.bars # {}]
        \/ NextPlugin(w)
    BY <1>19 DEF StoreBars
  <2>3. CASE NextPlugin(w)
    BY <2>1, <2>3 DEF NextPlugin
  <2>4. CASE pc' = "range" /\ w' = [NextRange EXCEPT !.got = @ \/ w.bars # {}]
    BY <2>1, <2>4 DEF NextRange
  <2> QED
    BY <2>2, <2>3, <2>4
<1>20. CASE NoData
  BY <1>20 DEF NoData, NextRange, CoverRange
<1>21. CASE Refuse
  BY <1>21 DEF Refuse, NextPlugin
<1>22. CASE PluginError
  BY <1>22 DEF PluginError, NextPlugin
<1>23. CASE ReadFXNeeds
  BY <1>23 DEF ReadFXNeeds
<1> QED
  BY <1>1, <1>2, <1>3, <1>4, <1>5, <1>6, <1>7, <1>8, <1>9, <1>10,
     <1>11, <1>12, <1>13, <1>14, <1>15, <1>16, <1>17, <1>18, <1>19, <1>20, <1>21, <1>22,
     <1>23 DEF Worker


\* Every write of the worker goes through UpsertPricesForRange.
LEMMA WorkerRows ==
    ASSUME CacheInv, Worker
    PROVE  RowsInv' /\ known' \subseteq Instruments
<1>1. known' \subseteq Instruments
  BY DEF CacheInv, Worker, Wake, ReadHeld, ReadGaps, ReadFXHeld, ReadFXNeeds, ReadFXGaps, ReadConfigs,
         ReadBlocks, ReadInstruments, ReadCoverage, ReadFails, NextGap, CycleDone, TryPlugin,
         GapFailed, GapFetched, BeyondHistory, TruncateToHistory, FetchPrices, StoreBars,
         NoData, Refuse, PluginError, Reading, Working, store
<1>2. CASE BeyondHistory \/ TruncateToHistory \/ NoData \/ StoreBars
  <2>1. Plugin \in Providers
    <3>1. w.left # <<>> /\ w.left \in Seq(Plugins)
      BY <1>2 DEF CacheInv, LocalsInv, BeyondHistory, TruncateToHistory, NoData, StoreBars
    <3> QED
      BY <3>1 DEF Plugin, Providers
  <2>2. \/ UNCHANGED <<spans, bars>>
        \/ \E r : CanStore(w.gap.inst, r) /\ StoreRange(w.gap.inst, Plugin, {}, r)
        \/ /\ pc = "answer"
           /\ CanStore(w.gap.inst, Asked)
           /\ StoreRange(w.gap.inst, Plugin, w.bars, Asked)
    BY <1>2 DEF BeyondHistory, TruncateToHistory, NoData, StoreBars, CoverRange
  <2>3. ASSUME NEW i, NEW r, NEW days \in SUBSET RangeDays(r),
               CanStore(i, r), StoreRange(i, Plugin, days, r)
        PROVE  RowsInv'
    BY <2>1, <2>3, StoreStep
  <2>4. CASE /\ pc = "answer"
             /\ CanStore(w.gap.inst, Asked)
             /\ StoreRange(w.gap.inst, Plugin, w.bars, Asked)
    <3>1. w.bars \in SUBSET RangeDays(Asked)
      BY <2>4 DEF CacheInv, LocalsInv
    <3> QED
      BY <1>1, <2>3, <2>4, <3>1
  <2>5. ASSUME NEW r, CanStore(w.gap.inst, r), StoreRange(w.gap.inst, Plugin, {}, r)
        PROVE  RowsInv'
    <3>1. {} \in SUBSET RangeDays(r)
      OBVIOUS
    <3> QED
      BY <2>3, <2>5, <3>1
  <2> QED
    BY <1>1, <2>2, <2>4, <2>5, CacheSame
<1>3. CASE ~(BeyondHistory \/ TruncateToHistory \/ NoData \/ StoreBars)
  <2>1. UNCHANGED <<spans, bars>>
    BY <1>3 DEF Worker, Wake, ReadHeld, ReadGaps, ReadFXHeld, ReadFXNeeds, ReadFXGaps, ReadConfigs,
         ReadBlocks, ReadInstruments, ReadCoverage, ReadFails, NextGap, CycleDone, TryPlugin,
         GapFailed, GapFetched, FetchPrices, Refuse, PluginError, Reading, Working, store
  <2> QED
    BY <1>1, <2>1, CacheSame
<1> QED
  BY <1>2, <1>3

\* The bars of an import outside its declared spans cover their own dates.
LEMMA ImportBarsStep ==
    ASSUME NEW i \in Instruments, CacheInv, ImportBars(i)
    PROVE  RowsInv'
<1>1. PICK days \in SUBSET Days :
         /\ bars' = [bars EXCEPT ![i] = @ \cup days]
         /\ spans' = [spans EXCEPT ![i]["import"] = CoverSuppliedDates(@, days)]
  BY DEF ImportBars
<1> DEFINE old == spans[i]["import"]
           all == SpanDays(old) \cup days
           rows == RunsOf(all)
<1>2. "import" \in Providers
  BY DEF Providers
<1>3. old \in SUBSET [from : 1 .. (LastDay + 1), before : 1 .. (LastDay + 1)]
  BY <1>2 DEF CacheInv, RowsInv, Rows, Spans, Dates
<1>4. all \in SUBSET (1 .. ((LastDay + 1) - 1))
  <2>1. ASSUME NEW d \in SpanDays(old)
        PROVE  d \in 1 .. LastDay
    <3>1. PICK s \in old : d \in s.from .. (s.before - 1)
      BY DEF SpanDays
    <3>2. s.from \in 1 .. (LastDay + 1) /\ s.before \in 1 .. (LastDay + 1)
      BY <1>3
    <3> QED
      BY <3>1, <3>2, LastDayAssumption
  <2>2. (LastDay + 1) - 1 = LastDay
    BY LastDayAssumption
  <2>3. all \subseteq 1 .. LastDay
    BY <2>1 DEF Days
  <2> QED
    BY <2>2, <2>3
<1> HIDE DEF all
<1>5. /\ rows \in SUBSET [from : 1 .. (LastDay + 1), before : 1 .. (LastDay + 1)]
      /\ Separated(rows)
      /\ SpanDays(rows) = all
  BY <1>4, RunsTheorem, LastDayAssumption
<1>6. rows \in Rows
  BY <1>5 DEF Rows, Spans, Dates
<1>7. days \subseteq SpanDays(rows) /\ SpanDays(old) \subseteq SpanDays(rows)
  BY <1>5 DEF all
<1>8. spans' = [spans EXCEPT ![i]["import"] = rows]
  BY <1>1, <1>2 DEF CoverSuppliedDates, all, CacheInv, RowsInv
<1>9. days \in SUBSET Int
  BY LastDayAssumption DEF Days
<1> HIDE DEF rows
<1> QED
  BY <1>1, <1>2, <1>5, <1>6, <1>7, <1>8, <1>9, CacheWrite

\* The cascade takes an instrument's rows and bars together.
LEMMA MergeStep ==
    ASSUME NEW i \in Instruments, CacheInv, MergeInstruments(i)
    PROVE  RowsInv'
<1>1. /\ spans' = [spans EXCEPT ![i] = [p \in Providers |-> {}]]
      /\ bars' = [bars EXCEPT ![i] = {}]
  BY DEF MergeInstruments
<1>2. spans' \in [Instruments -> [Providers -> Rows]] /\ bars' \in [Instruments -> SUBSET Int]
  BY <1>1 DEF CacheInv, RowsInv, Rows
<1>3. CoverageSeparated'
  BY <1>1 DEF CacheInv, RowsInv, CoverageSeparated, Separated
<1>4. BarsCovered'
  BY <1>1 DEF CacheInv, RowsInv, BarsCovered, CoveredDays
<1> QED
  BY <1>2, <1>3, <1>4 DEF RowsInv


\* Every step keeps the invariant: the worker's by the lemmas above, everybody
\* else's because an import is a write like the worker's and nobody touches the
\* worker's locals.
LEMMA CacheNext ==
    ASSUME CacheInv, [Next]_vars
    PROVE  CacheInv'
<1>1. CASE Worker
  BY <1>1, LocalsStep, WorkerRows DEF CacheInv
<1>2. CASE UNCHANGED vars
  BY <1>2, LocalsSame, CacheSame DEF CacheInv, vars, store
<1>3. CASE \/ Nudge \/ SetDisplayCurrency \/ UpsertPriceFetchBlocks
           \/ DeletePriceFetchBlock \/ UpdatePlugin \/ Midnight
  <2>1. UNCHANGED <<pc, w, spans, bars, known>>
    BY <1>3 DEF Nudge, SetDisplayCurrency, UpsertPriceFetchBlocks, DeletePriceFetchBlock,
                UpdatePlugin, Midnight, Outside, store
  <2> QED
    BY <2>1, LocalsSame, CacheSame DEF CacheInv
<1>4. CASE Crash
  <2>1. UNCHANGED <<spans, bars, known>> /\ pc' = "idle" /\ w' = Asleep
    BY <1>4 DEF Crash, Goto, store
  <2> QED
    BY <2>1, AsleepLocals, CacheSame DEF CacheInv
<1>5. ASSUME NEW i \in Instruments, PostTxs(i)
      PROVE  CacheInv'
  <2>1. UNCHANGED <<pc, w, spans, bars, known>>
    BY <1>5 DEF PostTxs, Outside
  <2> QED
    BY <2>1, LocalsSame, CacheSame DEF CacheInv
<1>6. ASSUME NEW i \in Instruments, ImportRange(i)
      PROVE  CacheInv'
  <2>1. UNCHANGED <<pc, w, known>>
    BY <1>6 DEF ImportRange, Outside
  <2>2. PICK a \in Dates, b \in Dates :
           /\ CanStore(i, DateRange(a, b))
           /\ \E days \in SUBSET RangeDays(DateRange(a, b)) :
                 StoreRange(i, "import", days, DateRange(a, b))
    BY <1>6 DEF ImportRange
  <2>3. PICK days \in SUBSET RangeDays(DateRange(a, b)) :
           StoreRange(i, "import", days, DateRange(a, b))
    BY <2>2
  <2>4. "import" \in Providers
    BY DEF Providers
  <2>5. RowsInv'
    BY <2>2, <2>3, <2>4, StoreStep
  <2> QED
    BY <2>1, <2>5, LocalsSame DEF CacheInv
<1>7. ASSUME NEW i \in Instruments, ImportBars(i)
      PROVE  CacheInv'
  <2>1. UNCHANGED <<pc, w, known>>
    BY <1>7 DEF ImportBars, Outside
  <2> QED
    BY <1>7, <2>1, ImportBarsStep, LocalsSame DEF CacheInv
<1>8. ASSUME NEW i \in Instruments, MergeInstruments(i)
      PROVE  CacheInv'
  <2>1. UNCHANGED <<pc, w>> /\ known' \subseteq known
    BY <1>8 DEF MergeInstruments, Outside
  <2> QED
    BY <1>8, <2>1, MergeStep, LocalsSame DEF CacheInv
<1> QED
  BY <1>1, <1>2, <1>3, <1>4, <1>5, <1>6, <1>7, <1>8 DEF Next, Environment

\* A fresh store has no rows and no bars.
LEMMA CacheInit == Init => CacheInv
<1> SUFFICES ASSUME Init
             PROVE  CacheInv
  OBVIOUS
<1>1. LocalsInv
  BY DEF Init, Asleep, LocalsInv, Fields
<1>2. spans \in [Instruments -> [Providers -> Rows]] /\ bars \in [Instruments -> SUBSET Int]
  BY DEF Init, Rows
<1>3. CoverageSeparated
  BY DEF Init, CoverageSeparated, Separated
<1>4. BarsCovered
  BY DEF Init, BarsCovered, CoveredDays
<1> QED
  BY <1>1, <1>2, <1>3, <1>4 DEF Init, CacheInv, RowsInv

\* Whoever writes, the fetcher for a plugin or an import, and wherever a cycle
\* stops: the coverage of an instrument by a provider never holds two spans that
\* overlap or abut (upsertCoverageSpan).
THEOREM SeparatedTheorem == Spec => []CoverageSeparated
<1>1. CacheInv => CoverageSeparated
  BY DEF CacheInv, RowsInv
<1> QED
  BY <1>1, CacheInit, CacheNext, PTL DEF Spec

\* The containment invariant of the price cache: every stored bar lies within a span
\* of its instrument (UpsertPricesForRange, UpsertPrices).
THEOREM CoveredTheorem == Spec => []BarsCovered
<1>1. CacheInv => BarsCovered
  BY DEF CacheInv, RowsInv
<1> QED
  BY <1>1, CacheInit, CacheNext, PTL DEF Spec

\* The rows of the cache are sound, for any instruments, providers, plugins and
\* dates, and whatever fails (UpsertPricesForRange, UpsertPrices, MergeInstruments).
THEOREM CacheTheorem == Spec => []CacheIsSound
  BY SeparatedTheorem, CoveredTheorem, PTL DEF CacheIsSound

-----------------------------------------------------------------------------
(* The cache implements its abstract specification. *)

\* New rows for one provider that stand for the old days and some more: an addition
\* to that provider's answers and to nobody else's, with the bars that come with it.
LEMMA RecordWrite ==
    ASSUME NEW i \in Instruments, NEW p \in Providers, NEW rows \in Rows,
           NEW days \in SUBSET Int, NEW found,
           spans \in [Instruments -> [Providers -> Rows]],
           spans' = [spans EXCEPT ![i][p] = rows],
           SpanDays(rows) = SpanDays(spans[i][p]) \cup days,
           bars' = [bars EXCEPT ![i] = @ \cup found],
           i \in known, known' = known
    PROVE  Cache!Record(i, p, days, found)
<1>1. \A j \in Instruments, q \in Providers :
         spans'[j][q] = IF j = i /\ q = p THEN rows ELSE spans[j][q]
  OBVIOUS
<1>2. \A j \in Instruments, q \in Providers :
         SpanDays(spans'[j][q]) = IF j = i /\ q = p THEN SpanDays(spans[i][p]) \cup days
                                  ELSE SpanDays(spans[j][q])
  BY <1>1
<1>3. AnsweredDays' = [j \in Instruments |-> [q \in Providers |-> SpanDays(spans'[j][q])]]
  BY DEF AnsweredDays, SpanDays
<1> DEFINE D(j, q) == SpanDays(spans[j][q])
           E(j, q) == SpanDays(spans'[j][q])
<1>4. AnsweredDays = [j \in Instruments |-> [q \in Providers |-> D(j, q)]]
  BY DEF AnsweredDays
<1>5. AnsweredDays' = [j \in Instruments |-> [q \in Providers |-> E(j, q)]]
  BY <1>3
<1>6. \A j \in Instruments, q \in Providers :
         E(j, q) = IF j = i /\ q = p THEN D(i, p) \cup days ELSE D(j, q)
  BY <1>2
<1> HIDE DEF D, E
<1>7. [AnsweredDays[i] EXCEPT ![p] = @ \cup days] = [q \in Providers |-> E(i, q)]
  BY <1>4, <1>6
<1>8. ASSUME NEW j \in Instruments, j # i
      PROVE  AnsweredDays[j] = [q \in Providers |-> E(j, q)]
  BY <1>4, <1>6, <1>8
<1> DEFINE F(j) == [q \in Providers |-> E(j, q)]
<1>9. DOMAIN AnsweredDays = Instruments /\ AnsweredDays = [j \in Instruments |-> AnsweredDays[j]]
  BY <1>4
<1>10. AnsweredDays' = [j \in Instruments |-> F(j)]
  BY <1>5
<1>11. [AnsweredDays[i] EXCEPT ![p] = @ \cup days] = F(i)
  BY <1>7
<1>12. \A j \in Instruments : j # i => AnsweredDays[j] = F(j)
  BY <1>8
<1> HIDE DEF F
<1>13. AnsweredDays' = [AnsweredDays EXCEPT ![i][p] = @ \cup days]
  BY <1>9, <1>10, <1>11, <1>12
<1> QED
  BY <1>13 DEF Cache!Record

\* UpsertPricesForRange is one answer for the days of its range.
LEMMA StoreAnswers ==
    ASSUME NEW i, NEW p \in Providers, NEW r, NEW days \in SUBSET RangeDays(r),
           CacheInv, CanStore(i, r), StoreRange(i, p, days, r), known' = known
    PROVE  Cache!CacheStep
<1> DEFINE rows == UpsertCoverageSpan(spans[i][p], r.from, r.before)
           a == r.from
           b == r.before - 1
<1>1. i \in Instruments /\ r.from \in Dates /\ r.before \in Dates /\ r.from < r.before
  BY UpsertedRows
<1>2. rows \in Rows /\ SpanDays(rows) = SpanDays(spans[i][p]) \cup RangeDays(r)
  BY UpsertedRows
<1>3. spans' = [spans EXCEPT ![i][p] = rows] /\ bars' = [bars EXCEPT ![i] = @ \cup days]
  BY DEF StoreRange
<1>4. a \in Cache!CalendarDays /\ b \in Cache!CalendarDays /\ a <= b /\ a .. b \in SUBSET Int
  BY <1>1, LastDayAssumption DEF Cache!CalendarDays, Dates
<1>5. RangeDays(r) = a .. b
  BY DEF RangeDays
<1>6. i \in known /\ spans \in [Instruments -> [Providers -> Rows]]
  BY DEF CanStore, CacheInv, RowsInv
<1> HIDE DEF rows, a, b
<1>7. Cache!Record(i, p, a .. b, days)
  BY <1>1, <1>2, <1>3, <1>4, <1>5, <1>6, RecordWrite
<1>8. Cache!AnswerFor(i, p)
  BY <1>4, <1>5, <1>7 DEF Cache!AnswerFor
<1> QED
  BY <1>1, <1>8 DEF Cache!CacheStep

\* The bars of an import outside its declared spans answer for their own days.
LEMMA ImportSupplies ==
    ASSUME NEW i \in Instruments, CacheInv, ImportBars(i)
    PROVE  Cache!CacheStep
<1>1. PICK days \in (SUBSET Days) \ {{}} :
         /\ bars' = [bars EXCEPT ![i] = @ \cup days]
         /\ spans' = [spans EXCEPT ![i]["import"] = CoverSuppliedDates(@, days)]
  BY DEF ImportBars
<1> DEFINE old == spans[i]["import"]
           all == SpanDays(old) \cup days
           rows == RunsOf(all)
<1>2. "import" \in Providers
  BY DEF Providers
<1>3. old \in SUBSET [from : 1 .. (LastDay + 1), before : 1 .. (LastDay + 1)]
  BY <1>2 DEF CacheInv, RowsInv, Rows, Spans, Dates
<1>4. all \in SUBSET (1 .. ((LastDay + 1) - 1))
  <2>1. ASSUME NEW d \in SpanDays(old)
        PROVE  d \in 1 .. LastDay
    <3>1. PICK s \in old : d \in s.from .. (s.before - 1)
      BY DEF SpanDays
    <3>2. s.from \in 1 .. (LastDay + 1) /\ s.before \in 1 .. (LastDay + 1)
      BY <1>3
    <3> QED
      BY <3>1, <3>2, LastDayAssumption
  <2>2. (LastDay + 1) - 1 = LastDay
    BY LastDayAssumption
  <2>3. all \subseteq 1 .. LastDay
    BY <2>1 DEF Days
  <2> QED
    BY <2>2, <2>3
<1>5. spans' = [spans EXCEPT ![i]["import"] = rows]
  BY <1>1, <1>2 DEF CoverSuppliedDates, CacheInv, RowsInv
<1> HIDE DEF all
<1>6. /\ rows \in SUBSET [from : 1 .. (LastDay + 1), before : 1 .. (LastDay + 1)]
      /\ SpanDays(rows) = all
  BY <1>4, RunsTheorem, LastDayAssumption
<1>7. SpanDays(rows) = SpanDays(spans[i]["import"]) \cup days
  BY <1>6 DEF all
<1> HIDE DEF rows
<1>8. spans \in [Instruments -> [Providers -> Rows]] /\ rows \in Rows /\ days \in SUBSET Int
  BY <1>6, LastDayAssumption DEF CacheInv, RowsInv, Rows, Spans, Dates, Days
<1>9. Cache!Record(i, "import", days, days)
  <2>1. i \in known /\ known' = known
    BY DEF ImportBars
  <2> QED
    BY <1>1, <1>2, <1>5, <1>7, <1>8, <2>1, RecordWrite
<1>10. Cache!Supply(i, "import")
  BY <1>1, <1>9 DEF Cache!Supply, Cache!CalendarDays, Days
<1> QED
  BY <1>2, <1>10 DEF Cache!CacheStep

\* The cascade forgets the instrument whole.
LEMMA MergeForgets ==
    ASSUME NEW i \in Instruments, CacheInv, MergeInstruments(i)
    PROVE  Cache!CacheStep
<1>1. /\ spans' = [spans EXCEPT ![i] = [p \in Providers |-> {}]]
      /\ bars' = [bars EXCEPT ![i] = {}]
      /\ i \in known /\ known' = known \ {i}
  BY DEF MergeInstruments
<1> DEFINE D(j, q) == SpanDays(spans[j][q])
           E(j, q) == SpanDays(spans'[j][q])
<1>2. \A j \in Instruments, q \in Providers : E(j, q) = IF j = i THEN {} ELSE D(j, q)
  BY <1>1 DEF CacheInv, RowsInv, SpanDays
<1>3. AnsweredDays = [j \in Instruments |-> [q \in Providers |-> D(j, q)]]
  BY DEF AnsweredDays
<1>4. AnsweredDays' = [j \in Instruments |-> [q \in Providers |-> E(j, q)]]
  BY DEF AnsweredDays, SpanDays
<1> HIDE DEF D, E
<1>5. AnsweredDays' = [AnsweredDays EXCEPT ![i] = [p \in Providers |-> {}]]
  BY <1>2, <1>3, <1>4
<1>6. Cache!Forget(i)
  BY <1>1, <1>5 DEF Cache!Forget
<1> QED
  BY <1>6 DEF Cache!CacheStep

\* A step that leaves rows, bars and instruments alone is none of the cache.
LEMMA SameCache ==
    ASSUME UNCHANGED <<spans, bars, known>>
    PROVE  UNCHANGED Cache!cache
<1>1. AnsweredDays' = AnsweredDays
  BY DEF AnsweredDays
<1> QED
  BY <1>1 DEF Cache!cache

\* The worker's writes are answers, and its other steps are none of a reader's business.
LEMMA WorkerRefines ==
    ASSUME CacheInv, Worker
    PROVE  [Cache!CacheStep]_(Cache!cache)
<1>1. known' = known
  BY DEF Worker, Wake, ReadHeld, ReadGaps, ReadFXHeld, ReadFXNeeds, ReadFXGaps, ReadConfigs,
         ReadBlocks, ReadInstruments, ReadCoverage, ReadFails, NextGap, CycleDone, TryPlugin,
         GapFailed, GapFetched, BeyondHistory, TruncateToHistory, FetchPrices, StoreBars,
         NoData, Refuse, PluginError, Reading, Working, store
<1>2. CASE UNCHANGED <<spans, bars>>
  BY <1>1, <1>2, SameCache
<1>3. CASE BeyondHistory \/ TruncateToHistory \/ NoData \/ StoreBars
  <2>1. Plugin \in Providers
    <3>1. w.left # <<>> /\ w.left \in Seq(Plugins)
      BY <1>3 DEF CacheInv, LocalsInv, BeyondHistory, TruncateToHistory, NoData, StoreBars
    <3> QED
      BY <3>1 DEF Plugin, Providers
  <2>2. \/ UNCHANGED <<spans, bars>>
        \/ \E r : CanStore(w.gap.inst, r) /\ StoreRange(w.gap.inst, Plugin, {}, r)
        \/ /\ pc = "answer"
           /\ CanStore(w.gap.inst, Asked)
           /\ StoreRange(w.gap.inst, Plugin, w.bars, Asked)
    BY <1>3 DEF BeyondHistory, TruncateToHistory, NoData, StoreBars, CoverRange
  <2>3. ASSUME NEW i, NEW r, NEW days \in SUBSET RangeDays(r),
               CanStore(i, r), StoreRange(i, Plugin, days, r)
        PROVE  Cache!CacheStep
    BY <1>1, <2>1, <2>3, StoreAnswers
  <2>4. CASE /\ pc = "answer"
             /\ CanStore(w.gap.inst, Asked)
             /\ StoreRange(w.gap.inst, Plugin, w.bars, Asked)
    <3>1. w.bars \in SUBSET RangeDays(Asked)
      BY <2>4 DEF CacheInv, LocalsInv
    <3> QED
      BY <2>3, <2>4, <3>1
  <2>5. ASSUME NEW r, CanStore(w.gap.inst, r), StoreRange(w.gap.inst, Plugin, {}, r)
        PROVE  Cache!CacheStep
    <3>1. {} \in SUBSET RangeDays(r)
      OBVIOUS
    <3> QED
      BY <2>3, <2>5, <3>1
  <2> QED
    BY <1>2, <2>2, <2>4, <2>5
<1>4. CASE ~(BeyondHistory \/ TruncateToHistory \/ NoData \/ StoreBars)
  <2>1. UNCHANGED <<spans, bars>>
    BY <1>4 DEF Worker, Wake, ReadHeld, ReadGaps, ReadFXHeld, ReadFXNeeds, ReadFXGaps, ReadConfigs,
         ReadBlocks, ReadInstruments, ReadCoverage, ReadFails, NextGap, CycleDone, TryPlugin,
         GapFailed, GapFetched, FetchPrices, Refuse, PluginError, Reading, Working, store
  <2> QED
    BY <1>2, <2>1
<1> QED
  BY <1>3, <1>4

\* Every step of the program is a step of the cache or none at all.
LEMMA StepRefines ==
    ASSUME CacheInv, [Next]_vars
    PROVE  [Cache!CacheStep]_(Cache!cache)
<1>1. CASE Worker
  BY <1>1, WorkerRefines
<1>2. CASE \/ UNCHANGED vars \/ Nudge \/ SetDisplayCurrency \/ UpsertPriceFetchBlocks
           \/ DeletePriceFetchBlock \/ UpdatePlugin \/ Midnight \/ Crash
           \/ \E i \in Instruments : PostTxs(i)
  <2>1. UNCHANGED <<spans, bars, known>>
    BY <1>2 DEF vars, Nudge, SetDisplayCurrency, UpsertPriceFetchBlocks, DeletePriceFetchBlock,
                UpdatePlugin, Midnight, Crash, PostTxs, store
  <2> QED
    BY <2>1, SameCache
<1>3. ASSUME NEW i \in Instruments, ImportRange(i)
      PROVE  Cache!CacheStep
  <2>1. PICK a \in Dates, b \in Dates :
           /\ CanStore(i, DateRange(a, b))
           /\ \E days \in SUBSET RangeDays(DateRange(a, b)) :
                 StoreRange(i, "import", days, DateRange(a, b))
    BY <1>3 DEF ImportRange
  <2>2. PICK days \in SUBSET RangeDays(DateRange(a, b)) :
           StoreRange(i, "import", days, DateRange(a, b))
    BY <2>1
  <2>3. "import" \in Providers /\ known' = known
    BY <1>3 DEF Providers, ImportRange
  <2> QED
    BY <2>1, <2>2, <2>3, StoreAnswers
<1>4. ASSUME NEW i \in Instruments, ImportBars(i)
      PROVE  Cache!CacheStep
  BY <1>4, ImportSupplies
<1>5. ASSUME NEW i \in Instruments, MergeInstruments(i)
      PROVE  Cache!CacheStep
  BY <1>5, MergeForgets
<1> QED
  BY <1>1, <1>2, <1>3, <1>4, <1>5 DEF Next, Environment

\* The price tables, written by cycles that read and write in separate statements, by
\* imports and by merges, implement PriceCache: a reader sees answers being added, each
\* for exactly the days it is about, and instruments going, and nothing else.
THEOREM ImplementsTheorem == Spec => ImplementsCache
<1>1. Init => Cache!CacheInitially
  <2> SUFFICES ASSUME Init
               PROVE  Cache!CacheInitially
    OBVIOUS
  <2>1. \A i \in Instruments, p \in Providers : SpanDays(spans[i][p]) = {}
    BY DEF Init, SpanDays
  <2>2. AnsweredDays = [i \in Instruments |-> [p \in Providers |-> {}]]
    BY <2>1 DEF AnsweredDays
  <2> QED
    BY <2>2 DEF Init, Cache!CacheInitially
<1>2. CacheInv /\ [Next]_vars => [Cache!CacheStep]_(Cache!cache)
  BY StepRefines
<1> QED
  BY <1>1, <1>2, CacheInit, CacheNext, PTL DEF Spec, ImplementsCache, Cache!CacheSpec

=============================================================================
