----------------------------- MODULE PriceFetch -----------------------------
(***************************************************************************)
(* The price fetcher (server/pricefetcher) over the price cache             *)
(* (server/db/postgres/price_cache.go).  A trigger wakes the worker; a cycle *)
(* reads what is held, what is covered, the plugins, the blocks and each     *)
(* plugin's own coverage, in separate statements, and then puts every gap to *)
(* the plugins in precedence order.  Users, imports, admins and midnight go  *)
(* on beside it.                                                            *)
(***************************************************************************)
EXTENDS DateRanges, Coverage

CONSTANTS
    Instruments,
    PluginOrder,    \* the registered plugins, highest precedence first
    LastDay,        \* the last day that comes
    Currency,       \* [Instruments -> STRING], "USD" included
    FXPair,         \* [a set of currencies -> Instruments]
    Accepts,        \* {<<instrument, plugin>>}: filters and identifiers allow it
    HistDays,       \* [Plugins -> Nat]: max_history_days, 0 for none
    Quotes,         \* {<<plugin, instrument, day>>}: the bars a provider has
    FlipMenu,       \* the position histories a user can have, sets of days
    MaxEdits,       \* bound on what users, imports and admins do
    MaxFaults,      \* bound on statements and calls that fail
    MaxCrashes      \* bound on crashes of the process

Plugins == {PluginOrder[k] : k \in DOMAIN PluginOrder}
Providers == Plugins \cup {"import"}
Days == 1 .. LastDay

\* Coverage runs to the day after the last.
Dates == 1 .. (LastDay + 1)

\* FX pairs have no transactions.
Tradable == Instruments \ {FXPair[c] : c \in DOMAIN FXPair}
Histories(i) == IF i \in Tradable THEN FlipMenu ELSE {{}}
Pairs == Instruments \X Plugins

ASSUME OrderAssumption == PluginOrder \in Seq(Plugins)
ASSUME LastDayAssumption == LastDay \in Nat

VARIABLES
    today,
    flips,      \* [Instruments -> SUBSET Days]: when the position opens and closes
    display,    \* the users' display currencies other than USD
    known,      \* the rows of instruments
    spans,      \* price_coverage: [Instruments -> [Providers -> set of spans]]
    bars,       \* eod_prices: [Instruments -> set of days]
    blocks,     \* price_fetch_blocks
    enabled,    \* plugin_config.enabled
    trigger,    \* priceTrigger, a channel of one
    pc,         \* where the worker is
    w,          \* its locals
    refused,    \* pairs a provider refused for good and whose block was written
    edits, faults, crashes

store == <<flips, display, known, spans, bars, blocks, enabled>>
bounds == <<edits, faults, crashes>>
vars == <<today, store, trigger, pc, w, refused, bounds>>

Gap(i, ranges) == [inst |-> i, ranges |-> ranges]

Asleep == [seen |-> [i \in Instruments |-> <<>>], todo |-> {}, plugs |-> {},
           blocked |-> {}, found |-> {}, cover |-> [i \in Instruments |-> [p \in Plugins |-> {}]],
           gap |-> Gap("none", <<>>), left |-> <<>>, outstanding |-> <<>>,
           reached |-> FALSE, called |-> FALSE, got |-> FALSE,
           answer |-> "none", bars |-> {}, stamps |-> {}, clean |-> TRUE]

Init ==
    /\ today \in Days
    /\ flips \in [Instruments -> FlipMenu \cup {{}}]
    /\ \A i \in Instruments : flips[i] \in Histories(i) /\ \A d \in flips[i] : d <= today
    /\ display \in SUBSET DOMAIN FXPair
    /\ known = Instruments
    /\ spans = [i \in Instruments |-> [p \in Providers |-> {}]]
    /\ bars = [i \in Instruments |-> {}]
    /\ blocks = {}
    /\ enabled \in SUBSET Plugins
    /\ trigger = FALSE
    /\ pc = "idle"
    /\ w = Asleep
    /\ refused = {}
    /\ edits = 0 /\ faults = 0 /\ crashes = 0

Fault == faults < MaxFaults /\ faults' = faults + 1
NoFault == UNCHANGED faults

-----------------------------------------------------------------------------
(* The price cache. *)

\* merged_price_coverage: the spans of every provider in one list.
Merged(i) ==
    LET all == UNION {spans[i][p] : p \in Providers}
    IN  MergeRanges(SetToSeq(all))

CoveredDays(i) == SpanDays(UNION {spans[i][p] : p \in Providers})

\* The list that a query ordered by covered_from returns.
InOrder(rows) == SetToSortSeq(rows, LAMBDA a, b : a.from < b.from)

\* The rows a currency's pair is needed for: the instruments quoted in it and,
\* when somebody's display currency is c, the instruments that are not.
NeedsRate(i, c) == Currency[i] = c \/ c \in display

\* The held ranges of two instruments are put one after the other.
FXNeededUnmerged(seen, c) ==
    FlattenSeq(SetToSeq({seen[i] : i \in {j \in Instruments : NeedsRate(j, c)}}))

FXNeeded(seen, c) ==
    MergeRanges(FlattenSeq(SetToSeq({seen[i] : i \in {j \in Instruments : NeedsRate(j, c)}})))

Gaps(needed, insts) ==
    {g \in {Gap(i, SubtractRanges(needed[i], Merged(i))) : i \in insts} : g.ranges # <<>>}

\* The instrument is there to refer to, and the end is after the start.
CanStore(i, r) == i \in known /\ r.from \in Dates /\ r.before \in Dates /\ r.from < r.before

\* UpsertPricesForRange: bars and coverage in one transaction.
StoreRange(i, p, days, r) ==
    /\ bars' = [bars EXCEPT ![i] = @ \cup days]
    /\ spans' = [spans EXCEPT ![i][p] = UpsertCoverageSpan(@, r.from, r.before)]

\* UpsertPrices merges one span per contiguous run of the supplied dates into the
\* rows: what is left are the runs of all the days (UpsertsLeaveRuns).
CoverSuppliedDates(rows, days) == RunsOf(SpanDays(rows) \cup days)

-----------------------------------------------------------------------------
(* The worker. *)

Goto(step, locals) == pc' = step /\ w' = locals

Wake ==
    /\ pc = "idle" /\ trigger
    /\ trigger' = FALSE
    /\ Goto("held", Asleep)
    /\ UNCHANGED <<today, store, refused, bounds>>

\* Nothing but the worker's locals changes in a read.
Reading == UNCHANGED <<today, store, trigger, refused, bounds>>

HeldNow == [i \in Instruments |-> IF i \in known THEN HeldRanges(flips[i], today) ELSE <<>>]

\* PriceGaps reads the held ranges and then the coverage.
ReadHeld ==
    /\ pc = "held"
    /\ Goto("gaps", [w EXCEPT !.seen = HeldNow])
    /\ Reading

ReadGaps ==
    /\ pc = "gaps"
    /\ Goto("fxheld", [w EXCEPT !.todo = Gaps(w.seen, Instruments)])
    /\ Reading

\* FXGaps reads the held ranges again, then the currencies and their pairs, then
\* the coverage.
ReadFXHeld ==
    /\ pc = "fxheld"
    /\ Goto("fxneeds", [w EXCEPT !.seen = HeldNow])
    /\ Reading

PairOf(i) == {c \in DOMAIN FXPair : FXPair[c] = i /\ i \in known}

ReadFXNeeds ==
    /\ pc = "fxneeds"
    /\ Goto("fxgaps", [w EXCEPT !.seen = [i \in Instruments |->
                          FlattenSeq(SetToSeq({FXNeeded(w.seen, c) : c \in PairOf(i)}))]])
    /\ Reading

ReadFXGaps ==
    /\ pc = "fxgaps"
    /\ LET all == w.todo \cup Gaps(w.seen, Instruments)
       IN  IF all = {} THEN Goto("idle", Asleep)
           ELSE Goto("configs", [w EXCEPT !.todo = all, !.seen = Asleep.seen])
    /\ Reading

ReadConfigs ==
    /\ pc = "configs"
    /\ IF enabled = {} THEN Goto("idle", Asleep) ELSE Goto("blocks", [w EXCEPT !.plugs = enabled])
    /\ Reading

ReadBlocks ==
    /\ pc = "blocks"
    /\ Goto("instruments", [w EXCEPT !.blocked = blocks])
    /\ Reading

ReadInstruments ==
    /\ pc = "instruments"
    /\ Goto("cover", [w EXCEPT !.found = known])
    /\ Reading

ReadCoverage ==
    /\ pc = "cover"
    /\ Goto("gap", [w EXCEPT !.cover = [i \in Instruments |-> [p \in Plugins |-> spans[i][p]]]])
    /\ Reading

\* A read that fails ends the cycle.
ReadFails ==
    /\ pc \in {"held", "gaps", "fxheld", "fxneeds", "fxgaps", "configs", "blocks", "instruments", "cover"}
    /\ Fault
    /\ Goto("idle", Asleep)
    /\ UNCHANGED <<today, store, trigger, refused, edits, crashes>>

\* gapOutcome: what the telemetry row of a gap says became of it.
GapOutcome(fetched) ==
    IF fetched THEN (IF w.got THEN "filled" ELSE "settled_empty")
    ELSE IF ~w.reached THEN "no_eligible_plugin"
    ELSE IF ~w.called THEN "settled_empty"
    ELSE "all_plugins_failed"

Stamp(g, outcome) == {[gap |-> g, outcome |-> outcome]}

GapEnd(outcome) ==
    Goto("gap", [w EXCEPT !.stamps = @ \cup Stamp(w.gap, outcome), !.gap = Asleep.gap,
                          !.left = <<>>, !.outstanding = <<>>,
                          !.reached = FALSE, !.called = FALSE, !.got = FALSE])

NextGap ==
    /\ pc = "gap"
    /\ \E g \in w.todo :
         IF g.inst \in w.found
         THEN Goto("plugin", [w EXCEPT !.todo = @ \ {g}, !.gap = g, !.left = PluginOrder])
         ELSE Goto("gap", [w EXCEPT !.todo = @ \ {g},
                                    !.stamps = @ \cup Stamp(g, "instrument_missing")])
    /\ Reading

CycleDone ==
    /\ pc = "gap" /\ w.todo = {}
    /\ Goto("idle", Asleep)
    /\ Reading

\* Only the first plugin by precedence is tried.
EligibleFirst(p) == /\ p = PluginOrder[1] /\ p \in w.plugs
                    /\ <<w.gap.inst, p>> \in Accepts \ w.blocked

\* The filters, on what the cycle read: the plugin is enabled, takes the instrument
\* and is not blocked for it.
Eligible(p) == /\ p \in w.plugs
               /\ <<w.gap.inst, p>> \in Accepts
               /\ <<w.gap.inst, p>> \notin w.blocked

Outstanding(p) == SubtractRanges(w.gap.ranges, InOrder(w.cover[w.gap.inst][p]))

TryPlugin ==
    /\ pc = "plugin" /\ w.left # <<>>
    /\ LET p == Head(w.left)
       IN  IF Eligible(p) /\ Outstanding(p) # <<>>
           THEN Goto("range", [w EXCEPT !.reached = TRUE, !.outstanding = Outstanding(p)])
           ELSE Goto("plugin", [w EXCEPT !.reached = @ \/ Eligible(p), !.left = Tail(@)])
    /\ Reading

\* No plugin is left for the gap.
GapFailed ==
    /\ pc = "plugin" /\ w.left = <<>>
    /\ GapEnd(GapOutcome(FALSE))
    /\ Reading

\* The plugin got through every outstanding range: the gap is done.
GapFetched ==
    /\ pc = "range" /\ w.outstanding = <<>>
    /\ GapEnd(GapOutcome(TRUE))
    /\ Reading

Plugin == Head(w.left)
Asked == Head(w.outstanding)
Cutoff == today - HistDays[Plugin]
Unreachable(day) == HistDays[Plugin] > 0 /\ day <= Cutoff

\* An answer without bars is not recorded.
CoverRangeNot(r, locals) ==
    /\ w' = locals
    /\ NoFault
    /\ UNCHANGED <<spans, bars>>

\* coverRange records an answer without bars; a write that fails is only logged.
CoverRange(r, locals) ==
    \/ /\ CanStore(w.gap.inst, r)
       /\ StoreRange(w.gap.inst, Plugin, {}, r)
       /\ NoFault
       /\ w' = locals
    \/ /\ \/ Fault
          \/ ~CanStore(w.gap.inst, r) /\ NoFault
       /\ UNCHANGED <<spans, bars>>
       /\ w' = [locals EXCEPT !.clean = FALSE]

Working == UNCHANGED <<today, flips, display, known, enabled, trigger, edits, crashes>>

\* The whole range is older than the plugin's history.
BeyondHistory ==
    /\ pc = "range" /\ w.outstanding # <<>> /\ w.answer = "none"
    /\ Unreachable(Asked.before)
    /\ CoverRange(Asked, [w EXCEPT !.outstanding = Tail(@), !.called = TRUE])
    /\ Working /\ UNCHANGED <<pc, blocks, refused>>

\* Its head is: the head is settled and the tail is about to be asked for, whatever
\* the clock does meanwhile.
TruncateToHistory ==
    /\ pc = "range" /\ w.outstanding # <<>> /\ w.answer = "none"
    /\ ~Unreachable(Asked.before) /\ HistDays[Plugin] > 0 /\ Asked.from < Cutoff
    /\ CoverRange(DateRange(Asked.from, Cutoff),
                  [w EXCEPT !.outstanding[1].from = Cutoff, !.called = TRUE, !.answer = "trimmed"])
    /\ Working /\ UNCHANGED <<pc, blocks, refused>>

\* What the provider has published of the asked range: bars of days that are over.
\* That a provider keeps to the range is its contract; nobody checks the bars.
Published(i, p) ==
    {d \in RangeDays(Asked) : <<p, i, d>> \in Quotes /\ d < today}

FetchPrices ==
    /\ pc = "range" /\ w.outstanding # <<>>
    /\ w.answer = "trimmed" \/ ~(HistDays[Plugin] > 0 /\ Asked.from < Cutoff)
    /\ LET found == Published(w.gap.inst, Plugin)
       IN  \/ /\ NoFault
              /\ w' = [w EXCEPT !.answer = "bars", !.bars = found, !.called = TRUE]
           \/ /\ found = {} /\ NoFault
              /\ w' = [w EXCEPT !.answer = "no_data", !.bars = {}, !.called = TRUE]
           \/ /\ Fault
              /\ \E a \in {"permanent", "error"} :
                    w' = [w EXCEPT !.answer = a, !.bars = {}, !.called = TRUE]
    /\ pc' = "answer"
    /\ UNCHANGED <<today, store, trigger, refused, edits, crashes>>

\* The plugin is done with its ranges, the next one is tried.
NextPlugin(locals) ==
    pc' = "plugin" /\ w' = [locals EXCEPT !.left = Tail(@), !.outstanding = <<>>, !.answer = "none",
                                          !.bars = {}]

NextRange == [w EXCEPT !.outstanding = Tail(@), !.answer = "none", !.bars = {}]

\* The bars are stored under the range that was asked for.  When the write fails
\* the next plugin is tried.
StoreBars ==
    /\ pc = "answer" /\ w.answer = "bars"
    /\ \/ /\ CanStore(w.gap.inst, Asked)
          /\ StoreRange(w.gap.inst, Plugin, w.bars, Asked)
          /\ NoFault
          /\ Goto("range", [NextRange EXCEPT !.got = @ \/ w.bars # {}])
       \/ /\ \/ Fault
             \/ ~CanStore(w.gap.inst, Asked) /\ NoFault
          /\ UNCHANGED <<spans, bars>>
          /\ NextPlugin(w)
    /\ Working /\ UNCHANGED <<blocks, refused>>

\* "Nothing here" is an answer: it is recorded and the next range follows.
NoData ==
    /\ pc = "answer" /\ w.answer = "no_data"
    /\ pc' = "range"
    /\ CoverRange(Asked, NextRange)
    /\ Working /\ UNCHANGED <<blocks, refused>>

\* A provider that refuses for good is blocked; the error of the write is dropped.
Refuse ==
    /\ pc = "answer" /\ w.answer = "permanent"
    /\ LET pair == <<w.gap.inst, Plugin>>
       IN  \/ /\ w.gap.inst \in known /\ NoFault
              /\ blocks' = blocks \cup {pair}
              /\ refused' = refused \cup {pair}
           \/ /\ \/ Fault
                 \/ w.gap.inst \notin known /\ NoFault
              /\ UNCHANGED <<blocks, refused>>
    /\ NextPlugin(w)
    /\ Working /\ UNCHANGED <<spans, bars>>

PluginError ==
    /\ pc = "answer" /\ w.answer = "error"
    /\ NextPlugin(w)
    /\ Reading

Worker == \/ Wake \/ ReadHeld \/ ReadGaps \/ ReadFXHeld \/ ReadFXNeeds \/ ReadFXGaps
          \/ ReadConfigs          \/ ReadBlocks \/ ReadInstruments \/ ReadCoverage \/ ReadFails
          \/ NextGap \/ CycleDone \/ TryPlugin \/ GapFailed \/ GapFetched
          \/ BeyondHistory \/ TruncateToHistory \/ FetchPrices
          \/ StoreBars \/ NoData \/ Refuse \/ PluginError

-----------------------------------------------------------------------------
(* Everybody else. *)

Edit == edits < MaxEdits /\ edits' = edits + 1
Outside == UNCHANGED <<today, pc, w, faults, crashes>>

\* Ingestion, SetDisplayCurrency and the admin's button send without blocking.
Nudge ==
    /\ trigger' = TRUE
    /\ UNCHANGED <<today, store, pc, w, refused, bounds>>

\* An upload changes when an instrument is held.
PostTxs(i) ==
    /\ Edit
    /\ i \in known
    /\ \E f \in Histories(i) : (\A d \in f : d <= today) /\ flips' = [flips EXCEPT ![i] = f]
    /\ Outside /\ UNCHANGED <<display, known, spans, bars, blocks, enabled, trigger, refused>>

SetDisplayCurrency ==
    /\ Edit
    /\ \E d \in SUBSET DOMAIN FXPair : display' = d
    /\ trigger' = TRUE
    /\ Outside /\ UNCHANGED <<flips, known, spans, bars, blocks, enabled, refused>>

\* upsertGroups: a declared span with the bars inside it, in one transaction.
ImportRange(i) ==
    /\ Edit
    /\ \E a, b \in Dates :
         /\ CanStore(i, DateRange(a, b))
         /\ \E days \in SUBSET RangeDays(DateRange(a, b)) :
               StoreRange(i, "import", days, DateRange(a, b))
    /\ Outside /\ UNCHANGED <<flips, display, known, blocks, enabled, trigger, refused>>

\* Bars outside every declared span cover their own dates.
ImportBars(i) ==
    /\ Edit
    /\ i \in known
    /\ \E days \in (SUBSET Days) \ {{}} :
         /\ bars' = [bars EXCEPT ![i] = @ \cup days]
         /\ spans' = [spans EXCEPT ![i]["import"] = CoverSuppliedDates(@, days)]
    /\ Outside /\ UNCHANGED <<flips, display, known, blocks, enabled, trigger, refused>>

\* The fetch block part of a system archive.
UpsertPriceFetchBlocks ==
    /\ Edit
    /\ \E pair \in Pairs : pair[1] \in known /\ blocks' = blocks \cup {pair}
    /\ Outside /\ UNCHANGED <<flips, display, known, spans, bars, enabled, trigger, refused>>

DeletePriceFetchBlock ==
    /\ Edit
    /\ \E pair \in blocks : blocks' = blocks \ {pair} /\ refused' = refused \ {pair}
    /\ Outside /\ UNCHANGED <<flips, display, known, spans, bars, enabled, trigger>>

UpdatePlugin ==
    /\ Edit
    /\ \E on \in SUBSET Plugins : enabled' = on
    /\ Outside /\ UNCHANGED <<flips, display, known, spans, bars, blocks, trigger, refused>>

\* An instrument is merged into another, which may be one outside the model: its
\* postings move to the survivor, its bars, coverage and blocks go with the row
\* (ON DELETE CASCADE).
MergeInstruments(i) ==
    /\ Edit
    /\ i \in known
    /\ known' = known \ {i}
    /\ \/ flips' = [flips EXCEPT ![i] = {}]
       \/ \E s \in known \ {i} : \E f \in Histories(s) :
             /\ \A d \in f : d <= today
             /\ flips' = [flips EXCEPT ![i] = {}, ![s] = f]
    /\ spans' = [spans EXCEPT ![i] = [p \in Providers |-> {}]]
    /\ bars' = [bars EXCEPT ![i] = {}]
    /\ blocks' = {pair \in blocks : pair[1] # i}
    /\ refused' = {pair \in refused : pair[1] # i}
    /\ Outside /\ UNCHANGED <<display, enabled, trigger>>

Midnight ==
    /\ today < LastDay
    /\ today' = today + 1
    /\ UNCHANGED <<store, trigger, pc, w, refused, bounds>>

\* The process dies and comes back: the channel and the cycle are gone, and no
\* cycle is started on the way up.
Crash ==
    /\ crashes < MaxCrashes
    /\ crashes' = crashes + 1
    /\ trigger' = FALSE
    /\ Goto("idle", Asleep)
    /\ UNCHANGED <<today, store, refused, edits, faults>>

Environment == \/ Nudge \/ SetDisplayCurrency \/ UpsertPriceFetchBlocks
               \/ DeletePriceFetchBlock \/ UpdatePlugin \/ Midnight \/ Crash
               \/ \E i \in Instruments : \/ PostTxs(i) \/ ImportRange(i) \/ ImportBars(i)
                                         \/ MergeInstruments(i)

Next == Worker \/ Environment

Spec == Init /\ [][Next]_vars

\* The worker goroutine runs, and somebody keeps sending triggers.
FairSpec == Spec /\ WF_vars(Worker) /\ WF_vars(Nudge)

-----------------------------------------------------------------------------
(* What it promises. *)

Spans == [from : Dates, before : Dates]

\* The tables hold what their columns allow, whatever a cycle writes into them.
TypeOK ==
    /\ today \in Days
    /\ flips \in [Instruments -> SUBSET Days]
    /\ display \subseteq DOMAIN FXPair
    /\ known \subseteq Instruments
    /\ spans \in [Instruments -> [Providers -> SUBSET Spans]]
    /\ bars \in [Instruments -> SUBSET Days]
    /\ blocks \subseteq Pairs /\ refused \subseteq Pairs
    /\ enabled \subseteq Plugins
    /\ trigger \in BOOLEAN

\* "the table never holds overlapping or abutting spans" (coverage.go), for every
\* instrument and provider, whoever writes next to whom.
CoverageSeparated == \A i \in Instruments, p \in Providers : Separated(spans[i][p])

\* Every eod_prices row lies within some span for its instrument (prices.md, the
\* containment invariant), whichever path stored it and wherever a cycle stopped.
BarsCovered == \A i \in Instruments : bars[i] \subseteq CoveredDays(i)

\* The rows of the cache are sound: spans apart, and every bar within one.
CacheIsSound == CoverageSeparated /\ BarsCovered

\* A range that a plugin is asked about is one it has not answered for: the
\* coverage the cycle read is still good when the call is made.
NotAskedTwice ==
    pc = "answer" => RangeDays(Asked) \cap SpanDays(spans[w.gap.inst][Plugin]) = {}

\* A pair whose provider refused for good is not asked again until an admin deletes
\* the block: no cycle is at work on an older list of blocks.
RefusedNotAsked ==
    pc = "answer" => <<w.gap.inst, Plugin>> \notin refused

\* No plugin is asked in vain: neither about a day it has answered for, nor about an
\* instrument it refused, though the lists were read at the start of the cycle
\* and the tables, typed as they are, are written meanwhile.
NotAskedInVain == TypeOK /\ NotAskedTwice /\ RefusedNotAsked

\* A gap stamped filled or settled is settled: every day of it is covered, unless a
\* write failed or the instrument went.
SettledIsCovered ==
    \A s \in w.stamps :
        /\ s.outcome \in {"filled", "settled_empty"}
        /\ w.clean
        /\ s.gap.inst \in known
        => ListDays(s.gap.ranges) \subseteq CoveredDays(s.gap.inst)

\* The days of an instrument that the next cycle would take up.
HeldDays(i) == ListDays(HeldNow[i])
GapDays(i) == HeldDays(i) \ CoveredDays(i)

CanAsk(i, p) == p \in enabled /\ <<i, p>> \in Accepts /\ <<i, p>> \notin blocks

\* With triggers coming, a held day is answered for by somebody, or nobody can be
\* asked, or it is not held any more.
GapsAnswered ==
    \A i \in Instruments, d \in Days :
        d \in GapDays(i) ~> d \notin GapDays(i) \/ \A p \in Plugins : ~CanAsk(i, p)

\* The days that a provider's rows stand for.
AnsweredDays == [i \in Instruments |-> [p \in Providers |-> SpanDays(spans[i][p])]]

Cache == INSTANCE PriceCache WITH answered <- AnsweredDays, stored <- bars, present <- known

\* The fetcher, the imports and the merges, on rows of spans, are the cache of
\* PriceCache: each commit adds one provider's answer, exactly the days it was about,
\* bars only within them, or drops an instrument whole; nothing else changes either.
ImplementsCache == Cache!CacheSpec

=============================================================================
