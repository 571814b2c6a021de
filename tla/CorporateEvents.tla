-------------------------- MODULE CorporateEvents --------------------------
(***************************************************************************)
(* Corporate events of one underlying: the fetch worker                     *)
(* (server/corporateevents/worker.go), the import of an archive's corporate  *)
(* event part (server/service/ingestion/corporate_event_worker.go), and the  *)
(* option pass that both end with (option_splits.go), over the tables of     *)
(* server/db/postgres/corporate_events.go.  The two run beside each other:   *)
(* a step below is one statement, transaction or provider call.              *)
(***************************************************************************)
EXTENDS OptionSplits, DateRanges, Coverage

CONSTANTS
    Worlds,         \* what may be and happen outside, see below
    Plugins,        \* the registered plugins
    FirstTrade,     \* the day of the stock's first posting
    Lookahead,      \* DefaultLookaheadDays
    FirstDay, LastDay

Providers == Plugins \cup {"import"}
Runs == {"cycle", "import"}
Splits(evs) == {e \in evs : e.kind = "split"}
Stock == 0          \* the id of the underlying, beside those of the options

VARIABLES
    world,          \* one of Worlds: the events of the world [kind, ex, from, to],
                    \* those known at the start, the enabled plugins by precedence, the
                    \* options held at the start (ids to rows), the ids a later upload
                    \* may give a new option, and bounds on failing statements, files
                    \* and crashes
    today,
    announced,      \* the events that providers know of
    splits,         \* stock_splits: ex dates to ratios
    dividends,      \* cash_dividends: ex dates
    unhandled,      \* unhandled_corporate_events
    coverage,       \* corporate_event_coverage: [Providers -> set of spans]
    blocks,         \* corporate_event_fetch_blocks: plugins
    opts,           \* the options: instruments with their OCC rows
    txs,            \* postings: [inst, basis, adj], one per trade
    pc,             \* [Runs -> where the run is]
    loc,            \* [Runs -> its locals]
    told,           \* what each provider answered, or a file said
    seen,           \* what the properties allow for: the splits that the stock may not be
                    \* adjusted for (missed), those stored after a later one (late), and
                    \* whether a pass mixed two states of an option (torn)
    faults, imports, crashes

events == <<splits, dividends, unhandled, coverage, blocks>>
book == <<opts, txs>>
bounds == <<faults, imports, crashes>>
vars == <<world, today, announced, events, book, pc, loc, told, seen, bounds>>

Events == world.events
Book == world.book
PluginOrder == world.plugins

Resting == [since |-> NoDate, gaps |-> <<>>, left |-> <<>>, blocked |-> {}, got |-> {},
            span |-> <<>>, landed |-> {}, plan |-> <<>>, todo |-> <<>>, stuck |-> {}]

Unadjusted == [num |-> 1, den |-> 1]

Init ==
    /\ world \in Worlds
    /\ today = FirstDay
    /\ announced = world.known
    /\ splits = <<>> /\ dividends = {} /\ unhandled = {}
    /\ coverage = [p \in Providers |-> {}]
    /\ blocks = {}
    /\ opts = Book
    /\ txs = [t \in {Stock} \cup DOMAIN Book |->
                [inst |-> t, adj |-> Unadjusted,
                 basis |-> IF t = Stock THEN FirstTrade ELSE Book[t].firstTrade]]
    /\ pc = [r \in Runs |-> "idle"]
    /\ loc = [r \in Runs |-> Resting]
    /\ told = [p \in Providers |-> {}]
    /\ seen = [missed |-> {}, late |-> {}, torn |-> FALSE]
    /\ faults = 0 /\ imports = 0 /\ crashes = 0

Fault == faults < world.faults /\ faults' = faults + 1
NoFault == UNCHANGED faults
Goto(r, step, locals) == pc' = [pc EXCEPT ![r] = step] /\ loc' = [loc EXCEPT ![r] = locals]

-----------------------------------------------------------------------------
(* The statements. *)

UpsertStockSplits(new) ==
    splits' = [ex \in DOMAIN splits \cup {e.ex : e \in new} |->
                  IF \E e \in new : e.ex = ex
                  THEN LET e == CHOOSE e \in new : e.ex = ex IN [from |-> e.from, to |-> e.to]
                  ELSE splits[ex]]

UpsertCashDividends(new) == dividends' = dividends \cup {e.ex : e \in new}

UpsertCorporateEventCoverage(p, span) ==
    coverage' = [coverage EXCEPT ![p] = UpsertCoverageSpan(@, span.from, span.before)]

\* Its error is ignored.
CreateCorporateEventFetchBlock(p) == blocks' \in {blocks, blocks \cup {p}}


\* ON CONFLICT ... WHERE NOT resolved DO NOTHING: a resolved row is no conflict.
InsertUnhandledCorporateEvents(new) == unhandled' = unhandled \cup new
Unhandled(inst, type, ex) == [inst |-> inst, type |-> type, ex |-> ex, resolved |-> FALSE]
SplitType(ratio) == IF ratio.to < ratio.from THEN "REVERSE_SPLIT" ELSE "NON_WHOLE_SPLIT"

\* RecomputeSplitAdjustments: from scratch, for the postings of one instrument.
RecomputeSplitAdjustments(postings, inst) ==
    [t \in DOMAIN postings |->
        IF postings[t].inst = inst
        THEN [postings[t] EXCEPT !.adj = SplitFactorAt(splits, postings[t].basis, today)]
        ELSE postings[t]]

-----------------------------------------------------------------------------
(* The fetch cycle. *)

\* HeldEventBearingInstruments: since the first trade of the stock or of an option
\* on it.
EarliestTx == Min({txs[t].basis : t \in DOMAIN txs})

ComputeMissingIntervals(since) ==
    SubtractRanges(<<DateRange(since, today + Lookahead + 1)>>,
                   MergeRanges(SetToSeq(UNION {coverage[p] : p \in Providers})))

\* The reads of runCycle.  When one fails, or no plugin is enabled, the deferred
\* option pass still runs.
CycleReads(at, then, locals) ==
    /\ pc["cycle"] = at
    /\ \/ NoFault /\ Goto("cycle", then, locals)
       \/ Fault /\ Goto("cycle", "list", Resting)
    /\ UNCHANGED <<world, today, announced, events, book, told, seen, imports, crashes>>

CycleBegin == CycleReads("idle", IF PluginOrder = <<>> THEN "list" ELSE "blocks",
                         [Resting EXCEPT !.since = IF PluginOrder = <<>> THEN NoDate ELSE EarliestTx])

ReadBlocks == CycleReads("blocks", "coverage", [loc["cycle"] EXCEPT !.blocked = blocks])

ReadCoverage ==
    CycleReads("coverage", "gap",
               [loc["cycle"] EXCEPT !.gaps = ComputeMissingIntervals(loc["cycle"].since),
                                    !.left = PluginOrder, !.since = NoDate])

NextPlugin(l) == [l EXCEPT !.left = Tail(@), !.got = {}]
NextGap(l) == [l EXCEPT !.gaps = Tail(@), !.left = PluginOrder, !.got = {}]

SkipBlocked ==
    /\ pc["cycle"] = "gap"
    /\ LET l == loc["cycle"] IN
       /\ l.gaps # <<>> /\ l.left # <<>>
       /\ Head(l.left) \in l.blocked
       /\ Goto("cycle", "gap", NextPlugin(l))
    /\ UNCHANGED <<world, today, announced, events, book, told, seen, bounds>>

\* No plugin filled it: the gap is left as it is.
GiveUpGap ==
    /\ pc["cycle"] = "gap"
    /\ loc["cycle"].gaps # <<>> /\ loc["cycle"].left = <<>>
    /\ Goto("cycle", "gap", NextGap(loc["cycle"]))
    /\ UNCHANGED <<world, today, announced, events, book, told, seen, bounds>>

\* What a provider has for the gap.
Published(gap) == {e \in announced : e.ex \in RangeDays(gap)}

FetchEvents ==
    /\ pc["cycle"] = "gap"
    /\ LET l == loc["cycle"]
           p == Head(l.left)
       IN  /\ l.gaps # <<>> /\ l.left # <<>> /\ p \notin l.blocked
           /\ \/ /\ NoFault
                 /\ told' = [told EXCEPT ![p] = @ \cup Published(Head(l.gaps))]
                 /\ Goto("cycle", "splits",
                         [l EXCEPT !.got = Published(Head(l.gaps)), !.span = Head(l.gaps)])
                 /\ UNCHANGED blocks
              \/ \* ErrPermanent, or an error that leaves no trace.
                 /\ Fault
                 /\ CreateCorporateEventFetchBlock(p)
                 /\ Goto("cycle", "gap", NextPlugin(l))
                 /\ UNCHANGED told
    /\ UNCHANGED <<world, today, announced, splits, dividends, unhandled, coverage, book, seen,
                   imports, crashes>>

\* A store that failed: the cycle tries the next plugin, the import is over, with
\* no recompute for splits it has stored.
StoreFailed(r) ==
    IF r = "cycle"
    THEN Goto(r, "gap", NextPlugin(loc[r])) /\ UNCHANGED seen
    ELSE Goto(r, "idle", Resting) /\ seen' = [seen EXCEPT !.missed = @ \cup loc[r].landed]

\* The splits of the world that a later one is stored before.
Overtaken(new) ==
    {f.ex : f \in {g \in Splits(Events) : /\ g.ex \notin DOMAIN splits \cup {e.ex : e \in new}
                                          /\ \E e \in new : g.ex < e.ex}}

\* The coverage is written though the splits were not.
StoreSplitsOrNot(r) ==
    /\ pc[r] = "splits"
    /\ LET new == Splits(loc[r].got) IN
       \/ /\ NoFault
          /\ UpsertStockSplits(new)
          /\ seen' = [seen EXCEPT !.late = @ \cup Overtaken(new)]
          /\ Goto(r, "dividends", [loc[r] EXCEPT !.landed = @ \cup {e.ex : e \in new}])
       \/ /\ Fault /\ new # {}
          /\ Goto(r, "dividends", loc[r])
          /\ UNCHANGED <<splits, seen>>
    /\ UNCHANGED <<world, today, announced, dividends, unhandled, coverage, blocks, book, told,
                   imports, crashes>>

StoreSplits(r) ==
    /\ pc[r] = "splits"
    /\ LET new == Splits(loc[r].got) IN
       \/ /\ NoFault
          /\ UpsertStockSplits(new)
          /\ seen' = [seen EXCEPT !.late = @ \cup Overtaken(new)]
          /\ Goto(r, "dividends", [loc[r] EXCEPT !.landed = @ \cup {e.ex : e \in new}])
       \/ /\ Fault /\ new # {}
          /\ StoreFailed(r)
          /\ UNCHANGED splits
    /\ UNCHANGED <<world, today, announced, dividends, unhandled, coverage, blocks, book, told,
                   imports, crashes>>

\* The cycle puts a special dividend aside as an unhandled event, the failure of
\* which is only logged; an import stores it like any other.
Specials(r) == IF r = "cycle" THEN {e \in loc[r].got : e.kind = "special"} ELSE {}

\* insertSpecialDividend, for each.
PutAside(evs) == {Unhandled(Stock, "SPECIAL_CASH_DIVIDEND", e.ex) : e \in evs}

StoreDividends(r) ==
    /\ pc[r] = "dividends"
    /\ LET new == {f \in loc[r].got : f.kind # "split"} \ Specials(r)
           aside == PutAside(Specials(r))
       IN  \/ /\ NoFault
              /\ UpsertCashDividends(new)
              /\ InsertUnhandledCorporateEvents(aside)
              /\ Goto(r, "cover", loc[r]) /\ UNCHANGED seen
           \/ /\ Fault /\ aside # {}
              /\ UpsertCashDividends(new)
              /\ UNCHANGED unhandled
              /\ Goto(r, "cover", loc[r]) /\ UNCHANGED seen
           \/ /\ Fault /\ new # {}
              /\ InsertUnhandledCorporateEvents(aside)
              /\ UNCHANGED dividends
              /\ StoreFailed(r)
    /\ UNCHANGED <<world, today, announced, splits, coverage, blocks, book, told,
                   imports, crashes>>

Provider(r) == IF r = "cycle" THEN Head(loc[r].left) ELSE "import"

Cover(r) ==
    /\ pc[r] = "cover"
    /\ LET l == loc[r] IN
       \/ /\ NoFault
          /\ IF l.span = <<>> THEN UNCHANGED coverage
             ELSE UpsertCorporateEventCoverage(Provider(r), l.span)
          /\ IF r = "cycle" THEN Goto(r, "gap", NextGap(l)) ELSE Goto(r, "recompute", l)
          /\ UNCHANGED seen
       \/ /\ Fault /\ l.span # <<>>
          /\ UNCHANGED coverage
          /\ StoreFailed(r)
    /\ UNCHANGED <<world, today, announced, splits, dividends, unhandled, blocks, book, told,
                   imports, crashes>>

GapsDone ==
    /\ pc["cycle"] = "gap" /\ loc["cycle"].gaps = <<>>
    /\ Goto("cycle", "recompute", loc["cycle"])
    /\ UNCHANGED <<world, today, announced, events, book, told, seen, bounds>>

\* Only when splits were stored in this run, and once: an error is logged.
Recompute(r) ==
    /\ pc[r] = "recompute"
    /\ IF loc[r].landed # {}
       THEN \/ /\ NoFault
               /\ txs' = RecomputeSplitAdjustments(txs, Stock)
               /\ seen' = [seen EXCEPT !.missed = {}]
            \/ /\ Fault
               /\ seen' = [seen EXCEPT !.missed = @ \cup loc[r].landed]
               /\ UNCHANGED txs
       ELSE UNCHANGED <<txs, seen, faults>>
    \* The import runs the option pass only after splits; the cycle always.
    /\ IF loc[r].landed # {} \/ r = "cycle" THEN Goto(r, "list", Resting) ELSE Goto(r, "idle", Resting)
    /\ UNCHANGED <<world, today, announced, events, opts, told, imports, crashes>>

-----------------------------------------------------------------------------
(* The import of a corporate event part. *)

\* A row of the file that buildSplit or buildDividend cannot read is an error on a
\* part that goes on.
Readable(evs) == evs \ world.malformed

\* One group, of an instrument that resolves or not; writeImportCoverage drops a
\* span that is empty.
ImportBegin ==
    /\ pc["import"] = "idle" /\ imports < world.imports
    /\ imports' = imports + 1
    /\ \/ \E evs \in SUBSET announced, span \in {<<>>, DateRange(FirstTrade, today + 1)} :
            /\ evs # {} \/ span # <<>>
            /\ told' = [told EXCEPT !["import"] = @ \cup evs]
            /\ Goto("import", "splits", [Resting EXCEPT !.got = Readable(evs), !.span = span])
       \/ UNCHANGED <<told, pc, loc>>
    /\ UNCHANGED <<world, today, announced, events, book, seen, faults, crashes>>

\* The unhandled event part: rows that are not there with the same flag.
RestoreUnhandled ==
    /\ imports < world.imports
    /\ imports' = imports + 1
    /\ \E e \in announced, resolved \in BOOLEAN :
         LET type == IF e.kind = "split" THEN SplitType(e) ELSE "SPECIAL_CASH_DIVIDEND" IN
         unhandled' = unhandled \cup {[Unhandled(Stock, type, e.ex) EXCEPT !.resolved = resolved]}
    /\ UNCHANGED <<world, today, announced, splits, dividends, coverage, blocks, book, pc, loc,
                   told, seen, faults, crashes>>

-----------------------------------------------------------------------------
(* The option pass: ProcessPendingOptionSplits. *)

\* The query of ListPendingOptionSplits.
ListPending(r) ==
    /\ pc[r] = "list"
    /\ LET due == {o \in DOMAIN opts : PendingSplits(opts[o], splits, today) # {}}
       IN  \/ /\ NoFault
              /\ IF due = {} THEN Goto(r, "idle", Resting)
                 ELSE Goto(r, "load", [Resting EXCEPT !.plan =
                          [o \in due |-> PendingSplits(opts[o], splits, today)]])
           \/ Fault /\ Goto(r, "idle", Resting)
    /\ UNCHANGED <<world, today, announced, events, book, told, seen, imports, crashes>>

\* The symbol of the name in force that applyOptionSplits finds.
CurrentOCC(o) ==
    IF InForce(o) = {} THEN NoName ELSE (CHOOSE r \in InForce(o) : TRUE).strike

Job(o, exs) == [id |-> o, exs |-> exs, strike |-> opts[o].strike,
                occ |-> CurrentOCC(opts[o]), open |-> InForce(opts[o]) # {}]

\* Its second query: the rows of the options, after the splits were listed.
LoadOptions(r) ==
    /\ pc[r] = "load"
    /\ LET plan == loc[r].plan
           there == DOMAIN plan \cap DOMAIN opts
           order == Ascending(there)
       IN  \/ /\ NoFault
              /\ seen' = [seen EXCEPT !.torn = @ \/ \E o \in there :
                              plan[o] \ PendingSplits(opts[o], splits, today) # {}]
              /\ Goto(r, "apply", [Resting EXCEPT !.todo =
                          [k \in DOMAIN order |-> Job(order[k], plan[order[k]])]])
           \/ Fault /\ UNCHANGED seen /\ Goto(r, "idle", Resting)
    /\ UNCHANGED <<world, today, announced, events, book, told, imports, crashes>>

Blocking(job) == {ex \in job.exs : ~ IsWholeForwardSplit(splits[ex])}

\* A split that cannot be applied holds the whole option back.
HoldBack(r) ==
    /\ pc[r] = "apply" /\ loc[r].todo # <<>>
    /\ LET job == Head(loc[r].todo) IN
       /\ Blocking(job) # {}
       /\ Goto(r, "apply", [loc[r] EXCEPT !.todo = Tail(@), !.stuck = @ \cup Blocking(job)])
    /\ UNCHANGED <<world, today, announced, events, book, told, seen, bounds>>

\* No OCC symbol: a warning.  One that does not parse: an unhandled event.
CannotRestate(r) ==
    /\ pc[r] = "apply" /\ loc[r].todo # <<>>
    /\ LET job == Head(loc[r].todo)
           event == Unhandled(job.id, "NON_WHOLE_SPLIT", Max(job.exs))
       IN  /\ Blocking(job) = {} /\ job.occ = NoName
           /\ \/ NoFault /\ InsertUnhandledCorporateEvents(IF job.open THEN {event} ELSE {})
              \/ Fault /\ job.open /\ UNCHANGED unhandled
           /\ Goto(r, "apply", [loc[r] EXCEPT !.todo = Tail(@)])
    /\ UNCHANGED <<world, today, announced, splits, dividends, coverage, blocks, book, told, seen,
                   imports, crashes>>

\* mergeInstruments moves the postings.
MovePostings(postings, id, after) ==
    [t \in DOMAIN postings |->
        IF postings[t].inst \in DOMAIN after \cup {Stock} THEN postings[t]
        ELSE [postings[t] EXCEPT !.inst = id]]

\* The transaction ends with the recompute of the option's own.
RestatePostings(postings, id, after) ==
    RecomputeSplitAdjustments(MovePostings(postings, id, after), id)

Apply(r) ==
    /\ pc[r] = "apply" /\ loc[r].todo # <<>>
    /\ LET job == Head(loc[r].todo) IN
       /\ Blocking(job) = {} /\ job.occ # NoName
       /\ \E mints \in {Mints(job.strike, job.exs, splits)} :
          \E res \in ApplyOptionSplit(opts, job.id, mints) :
            \/ /\ NoFault /\ res.ok
               /\ opts' = res.opts
               /\ txs' = RestatePostings(txs, job.id, res.opts)
            \/ NoFault /\ ~ res.ok /\ UNCHANGED book
            \/ Fault /\ UNCHANGED book
       /\ Goto(r, "apply", [loc[r] EXCEPT !.todo = Tail(@)])
    /\ UNCHANGED <<world, today, announced, events, told, seen, imports, crashes>>

\* One event per split, however many options it holds back.
ReportBlocked(r) ==
    /\ pc[r] = "apply" /\ loc[r].todo = <<>>
    /\ LET reports == {Unhandled(Stock, SplitType(splits[ex]), ex) : ex \in loc[r].stuck} IN
       \/ NoFault /\ InsertUnhandledCorporateEvents(reports)
       \/ Fault /\ reports # {} /\ UNCHANGED unhandled
    /\ Goto(r, "idle", Resting)
    /\ UNCHANGED <<world, today, announced, splits, dividends, coverage, blocks, book, told, seen,
                   imports, crashes>>

-----------------------------------------------------------------------------
(* The rest of the world. *)

Announce ==
    /\ \E e \in Events \ announced : announced' = announced \cup {e}
    /\ UNCHANGED <<world, today, events, book, pc, loc, told, seen, bounds>>

\* A stored split takes effect, and nothing recomputes the stock for it.
Midnight ==
    /\ today < LastDay
    /\ today' = today + 1
    /\ seen' = [seen EXCEPT !.missed = @ \cup ({today + 1} \cap DOMAIN splits)]
    /\ UNCHANGED <<world, announced, events, book, pc, loc, told, bounds>>

\* The ratios of the world up to a day, and the strike that a contract of the
\* book has on it.
WorldSplits(c, d) ==
    LET reach == {e \in Splits(Events) : /\ NameFloor(Book[c]) < e.ex
                                         /\ e.ex <= d /\ e.ex <= Book[c].expiry}
    IN  [ex \in {e.ex : e \in reach} |-> CHOOSE e \in reach : e.ex = ex]

MarketStrike(c, d) ==
    AdjustStrike(Book[c].strike, SplitFactorAt(WorldSplits(c, d), NoDate, d))

\* FindInstrumentByIdentifier: the name in force wins, then the last one closed.
FindByName(strike, expiry) ==
    LET rows == {<<o, r>> \in UNION {{o} \X opts[o].occ : o \in DOMAIN opts} :
                    r.strike = strike /\ opts[o].expiry = expiry}
    IN  IF rows = {} THEN {}
        ELSE {x[1] : x \in {y \in rows : y[2].before = Max({z[2].before : z \in rows})}}

\* With splits of their own or of their underlying, which is the one stock here.
InstrumentsWithSplits(ids) == IF DOMAIN splits = {} THEN {} ELSE ids

\* An upload of today names a contract by the symbol it has today, which dates
\* the name of an option that has to be created; then recomputeSplitAdjustedTxs.
Trade(id) ==
    /\ id \notin DOMAIN txs
    /\ \E c \in DOMAIN Book :
         /\ today <= Book[c].expiry
         /\ Book[c].strike # NoName
         /\ \A ex \in DOMAIN WorldSplits(c, today) : IsWholeForwardSplit(WorldSplits(c, today)[ex])
         /\ LET s     == MarketStrike(c, today)
                found == FindByName(s, Book[c].expiry)
                inst  == IF found = {} THEN id ELSE Min(found)
                added == [t \in DOMAIN txs \cup {id} |->
                            IF t = id THEN [inst |-> inst, adj |-> Unadjusted, basis |-> today]
                            ELSE txs[t]]
            IN  /\ opts' = [o \in DOMAIN opts \cup {inst} |->
                              IF o # inst THEN opts[o]
                              ELSE IF inst = id
                              THEN [occ |-> {Name(s, today, Forever)}, strike |-> s,
                                    expiry |-> Book[c].expiry, firstTrade |-> today,
                                    contracts |-> {c}]
                              ELSE [opts[o] EXCEPT !.firstTrade = Earliest(@, today)]]
                /\ txs' = IF inst \in InstrumentsWithSplits({inst})
                          THEN RecomputeSplitAdjustments(added, inst) ELSE added
    /\ UNCHANGED <<world, today, announced, events, pc, loc, told, seen, bounds>>

ResolveUnhandled ==
    /\ \E e \in unhandled :
         /\ ~ e.resolved
         /\ unhandled' = (unhandled \ {e}) \cup {[e EXCEPT !.resolved = TRUE]}
    /\ UNCHANGED <<world, today, announced, splits, dividends, coverage, blocks, book, pc, loc, told,
                   seen, bounds>>

DeleteFetchBlock ==
    /\ \E p \in blocks : blocks' = blocks \ {p}
    /\ UNCHANGED <<world, today, announced, splits, dividends, unhandled, coverage, book, pc, loc,
                   told, seen, bounds>>

Crash ==
    /\ crashes < world.crashes
    /\ crashes' = crashes + 1
    /\ \E r \in Runs : pc[r] # "idle"
    /\ seen' = [seen EXCEPT !.missed = @ \cup UNION {loc[r].landed : r \in Runs}]
    /\ pc' = [r \in Runs |-> "idle"]
    /\ loc' = [r \in Runs |-> Resting]
    /\ UNCHANGED <<world, today, announced, events, book, told, faults, imports>>

-----------------------------------------------------------------------------
Cycle ==
    \/ CycleBegin \/ ReadBlocks \/ ReadCoverage \/ SkipBlocked \/ GiveUpGap \/ FetchEvents \/ GapsDone

Step(r) ==
    \/ StoreSplits(r) \/ StoreDividends(r) \/ Cover(r) \/ Recompute(r)
    \/ ListPending(r) \/ LoadOptions(r)
    \/ HoldBack(r) \/ CannotRestate(r) \/ Apply(r) \/ ReportBlocked(r)

Environment ==
    \/ ImportBegin \/ RestoreUnhandled \/ Announce \/ Midnight
    \/ ResolveUnhandled \/ DeleteFetchBlock \/ Crash
    \/ \E id \in world.trades : Trade(id)

Next == Cycle \/ Environment \/ \E r \in Runs : Step(r)

\* The worker is woken over and over, and an import that has begun goes on.
Spec == /\ Init /\ [][Next]_vars
        /\ WF_vars(Cycle \/ Step("cycle"))
        /\ WF_vars(Step("import"))

-----------------------------------------------------------------------------
(* Properties. *)

(* Rows have the shape the schema gives them, and an option's names end      *)
(* after they begin.                                                         *)
TypeOK ==
    /\ today \in FirstDay .. LastDay
    /\ announced \subseteq Events
    /\ DOMAIN splits \subseteq {e.ex : e \in Splits(Events)}
    /\ \A p \in Providers : Separated(coverage[p])
    /\ blocks \subseteq Plugins
    /\ \A o \in DOMAIN opts : \A r \in opts[o].occ : r.from < r.before
    /\ \A t \in DOMAIN txs : txs[t].inst \in DOMAIN opts \cup {Stock}

Advertised(p) == {e \in told[p] : e.ex \in SpanDays(coverage[p]) /\ e.kind # "special"}
Persisted(e) == e.ex \in (IF e.kind = "split" THEN DOMAIN splits ELSE dividends)

(* worker.go and corporate_event_worker.go record coverage after the events:  *)
(* a split or a regular dividend that a provider reported, or a file spelled   *)
(* out, for a day that it covers is in the table, whatever failed and whoever  *)
(* else was storing.                                                           *)
CoveredIsStored ==
    \A p \in Providers : \A e \in Advertised(p) :
        \/ Persisted(e)
        \/ \E r \in Runs : e \in loc[r].got
        \/ p = "import" /\ e \in world.malformed

(* ApplyOptionSplit converges whatever snapshot it planned from: an option    *)
(* wears one name at a time and its strike is the one that name spells, with   *)
(* two passes under way, one of them stale.                                    *)
OneNameInForce ==
    \A o \in DOMAIN opts :
        opts[o].occ # {} =>
            /\ Cardinality(InForce(opts[o])) = 1
            /\ CurrentOCC(opts[o]) \in {opts[o].strike, NoName}

(* The symbol in force is closed rather than deleted, so a file exported       *)
(* before a split still finds the contract: the name that a contract was booked *)
(* under is a row of the instrument its postings are on, after any number of   *)
(* restatements and merges.                                                    *)
BookedNameKept ==
    \A c \in DOMAIN Book : \A r \in Book[c].occ :
        \E o \in DOMAIN opts :
            /\ c \in opts[o].contracts
            /\ \E s \in opts[o].occ : s.strike = r.strike /\ s.from = r.from

(* Names hold: one in force at a time, and none that was in use forgotten, in  *)
(* tables that are of their types.                                             *)
NamesHold == TypeOK /\ OneNameInForce /\ BookedNameKept

(* Splits stored in the order of their ex dates leave every option with the    *)
(* strike the market gives it on the day its name became correct, unless a pass *)
(* listed an option's splits before another restated it and read its strike    *)
(* after.                                                                      *)
StrikeIsTheMarkets ==
    (seen.late = {} /\ ~ seen.torn) =>
        \A o \in DOMAIN opts : \A r \in InForce(opts[o]) : \A c \in opts[o].contracts :
            Cardinality(opts[o].contracts) = 1 /\ r.strike # NoName
                => r.strike = MarketStrike(c, r.from)

InEffect(basis) == {ex \in DOMAIN splits : ex > basis /\ ex <= today}
FactorOf(exs) == [num |-> Product([ex \in exs |-> splits[ex].to], exs),
                  den |-> Product([ex \in exs |-> splits[ex].from], exs)]

\* The posting is adjusted for every split of must, and for no others but those of may.
AdjustedFor(t, must, may) ==
    \E more \in SUBSET (may \ must) : txs[t].adj = FactorOf(must \cup more)

(* The adjusted figures of a posting are as-of now.  With no run under way a    *)
(* stock posting is adjusted for every stored split in effect since its basis,  *)
(* save those whose recompute failed or was cut short or whose ex date has come *)
(* since (missed), and never for one that is not in effect or for one twice.    *)
(* So is a posting on an option that nothing is pending for, for every split in *)
(* the contract's life, save those stored after a later one had restated it     *)
(* (late): ApplyOptionSplit recomputes what it restates.  A split after the     *)
(* expiry counts only if the option was recomputed for another reason.          *)
AdjustedAtRest ==
    (\A r \in Runs : pc[r] = "idle") =>
        \A t \in DOMAIN txs :
            LET inEffect == InEffect(txs[t].basis) IN
            IF txs[t].inst = Stock THEN AdjustedFor(t, inEffect \ seen.missed, inEffect)
            ELSE LET o == opts[txs[t].inst] IN
                 PendingSplits(o, splits, today) = {} =>
                    AdjustedFor(t, {ex \in inEffect : ex <= o.expiry} \ seen.late, inEffect)

OptionIds == UNION {DOMAIN v.book \cup v.trades : v \in Worlds}

Pending(o) == IF o \in DOMAIN opts THEN PendingSplits(opts[o], splits, today) ELSE {}
HeldBack(o) == {ex \in Pending(o) : ~ IsWholeForwardSplit(splits[ex])}
Reported(inst, ex) == \E e \in unhandled : e.inst = inst /\ e.ex = ex /\ ~ e.resolved

\* Nothing is pending for the option, or an admin has it before them: the split
\* that holds it back, or, when its symbol does not parse, the option itself.
SeenTo(o) ==
    \/ Pending(o) = {}
    \/ HeldBack(o) # {} /\ \A ex \in HeldBack(o) : Reported(Stock, ex)
    \/ HeldBack(o) = {} /\ CurrentOCC(opts[o]) = NoName /\ Reported(o, Max(Pending(o)))

Nameless(o) == o \in DOMAIN opts /\ InForce(opts[o]) = {} /\ HeldBack(o) = {}


(* ListPendingOptionSplits keeps an option that carries no OCC identifier, so   *)
(* that it "still reaches the pass, which reports it as an unhandled event      *)
(* rather than passing over it in silence".                                     *)
NamelessIsReported == \A o \in OptionIds : []<>(Nameless(o) => SeenTo(o))

=============================================================================
