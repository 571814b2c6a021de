------------------------------- MODULE Reports -------------------------------
(***************************************************************************)
(* What the server reports of a ledger: holdings, daily valuations, external *)
(* flows and residual balances.  Each is a query over the postings, the      *)
(* transfer matches, the stored bars and their coverage; here it is an       *)
(* operator over sets of those rows.  A day is an integer, a window the      *)
(* half-open [from, before), an absent column the empty set.                 *)
(*                                                                           *)
(* posting: [id, user, broker, account, inst, desc, type, kind, group, day,  *)
(*           qty, adj]; inst is {} or {instrument}, adj is qty converted to  *)
(*           today's share count, both counted in units of the last place.   *)
(* match:   [from, to, inst], two groups and the instrument they move.       *)
(***************************************************************************)
EXTENDS Integers, FiniteSets, FiniteSetsExt, Coverage

SumOver(S, f(_)) == MapThenSumSet(f, S)

Total(txs) == SumOver(txs, LAMBDA t : t.adj)

(* Postings whose conversion may have rounded.                              *)
Inexact(txs) == Cardinality({t \in txs : t.adj # t.qty})

QtyIsZero(q, inexact) == -inexact <= q /\ q <= inexact

(* What postings are summed under: the instrument, or what an unidentified   *)
(* one is called.                                                            *)
Commodity(t) == [inst |-> t.inst, desc |-> IF t.inst = {} THEN {t.desc} ELSE {}]

(***************************************************************************)
(* Membership.  A scope is a user, or a portfolio of a user: its filters by  *)
(* category, each a set of values.                                           *)
(***************************************************************************)
Whole(user) == [user |-> user, filters |-> {}]
Portfolio(user, filters) == [user |-> user, filters |-> {filters}]

PortfolioMatched(filters, t) ==
    /\ \E c \in DOMAIN filters : filters[c] # {}
    /\ filters.broker = {} \/ t.broker \in filters.broker
    /\ filters.account = {} \/ t.account \in filters.account
    /\ filters.instrument = {} \/ (t.inst # {} /\ t.inst \subseteq filters.instrument)

InScope(scope, t) ==
    t.user = scope.user /\ \A f \in scope.filters : PortfolioMatched(f, t)

IsClearing(t) == t.type = "TRANSFER_CLEARING"

(* The matches that name this posting's group and instrument.               *)
MatchesOf(matches, t) == {m \in matches : {m.inst} = t.inst /\ t.group \in {m.from, m.to}}

Counterpart(m, g) == IF m.from = g THEN m.to ELSE m.from

(* portfolio_in_flight_txs; for a whole user a match is the whole test.      *)
InFlight(txs, matches, scope, t) ==
    /\ IsClearing(t) /\ InScope(scope, t)
    /\ \E m \in MatchesOf(matches, t) :
          scope.filters # {} =>
              \E c \in txs : /\ c.group = Counterpart(m, t.group)
                             /\ IsClearing(c) /\ c.inst = {m.inst} /\ InScope(scope, c)

(***************************************************************************)
(* Holdings.  A request that names a broker or an account is a scope with     *)
(* that one filter value.                                                    *)
(***************************************************************************)
ComputeHoldings(txs, scope, asOf) ==
    LET own  == {t \in txs : InScope(scope, t) /\ t.type = "USER" /\ t.day <= asOf}
        Key(t) == [broker |-> t.broker, account |-> t.account, inst |-> t.inst]
        rows == {[key |-> k, txs |-> {t \in own : Key(t) = k}] : k \in {Key(t) : t \in own}}
    IN  {[key |-> r.key, qty |-> Total(r.txs)] :
            r \in {r \in rows : ~QtyIsZero(Total(r.txs), Inexact(r.txs))}}

(***************************************************************************)
(* Valuation.                                                                *)
(***************************************************************************)
PortfolioTxs(txs, matches, scope, win) ==
    {t \in txs : /\ InScope(scope, t) /\ t.day < win.before
                 /\ t.type = "USER" \/ InFlight(txs, matches, scope, t)}

(* The running position of a commodity at the end of each day that moves it. *)
Cumulative(rows) ==
    {[commodity |-> Commodity(t), day |-> t.day,
      position |-> Total({u \in rows : Commodity(u) = Commodity(t) /\ u.day <= t.day}),
      inexact |-> Inexact({u \in rows : Commodity(u) = Commodity(t) /\ u.day <= t.day})] :
        t \in rows}

(* A mutant: a position opened before the window is not carried into it.    *)
HoldingSpansInside(cumulative, win) ==
    {[row |-> c, from |-> c.day,
      before |-> Min({win.before} \cup
                     {d.day : d \in {d \in cumulative : d.commodity = c.commodity /\ d.day > c.day}})] :
        c \in {c \in cumulative : c.day >= win.from}}

(* Each position holds from its own day, or the window's first, up to the   *)
(* next day that changes it.                                                *)
HoldingSpans(cumulative, win) ==
    {[row |-> c, from |-> Max({c.day, win.from}),
      before |-> Min({win.before} \cup
                     {d.day : d \in {d \in cumulative : d.commodity = c.commodity /\ d.day > c.day}})] :
        c \in cumulative}

DailyHoldings(txs, matches, scope, win) ==
    LET spans == HoldingSpans(Cumulative(PortfolioTxs(txs, matches, scope, win)), win)
    IN  UNION {{[day |-> d, commodity |-> s.row.commodity, qty |-> s.row.position,
                 inexact |-> s.row.inexact] : d \in s.from .. (s.before - 1)} : s \in spans}

(* Prices: a bar [inst, day, close, adj]; coverage [inst, from, before] of   *)
(* whichever plugin.                                                        *)
MergedPriceCoverage(coverage, inst) ==
    RunsOf(SpanDays({Span(c.from, c.before) : c \in {c \in coverage : c.inst = inst}}))

BarsIn(bars, inst, from, before) ==
    {b \in bars : b.inst = inst /\ from <= b.day /\ b.day < before}

LatestBar(bars) == {b \in bars : \A c \in bars : c.day <= b.day}

SpanSeed(bars, inst, span, win) == LatestBar(BarsIn(bars, inst, span.from, win.from))

(* The points of a span: its seed the day before the window, then a point a *)
(* day, with the bar of that day or without one.                            *)
PricePoints(bars, inst, span, win) ==
    {[day |-> win.from - 1, bar |-> {b}] : b \in SpanSeed(bars, inst, span, win)} \cup
    {[day |-> d, bar |-> BarsIn(bars, inst, d, d + 1)] :
        d \in Max({span.from, win.from}) .. (Min({span.before, win.before}) - 1)}

(* Islands: a run starts at each point with a bar and its first point, if it *)
(* has one, speaks for all.                                                  *)
Island(points, d) == Cardinality({p \in points : p.day <= d /\ p.bar # {}})

FilledPrices(bars, coverage, inst, win) ==
    UNION {LET points == PricePoints(bars, inst, span, win)
               First(i) == CHOOSE p \in points :
                               /\ Island(points, p.day) = i
                               /\ \A q \in points : Island(points, q.day) = i => p.day <= q.day
           IN  {[day |-> p.day, bar |-> First(Island(points, p.day)).bar] :
                    p \in {p \in points : p.day >= win.from}} :
             span \in {s \in MergedPriceCoverage(coverage, inst) :
                           s.from < win.before /\ win.from < s.before}}

PriceOn(bars, coverage, inst, win, d) ==
    UNION {p.bar : p \in {p \in FilledPrices(bars, coverage, inst, win) : p.day = d}}

(* The instrument of a currency's pair with USD, if it is known.             *)
FxPair(pairs, ccy) == IF ccy \in DOMAIN pairs THEN {pairs[ccy]} ELSE {}

(* The rate from a currency to USD, {} when none is known.                   *)
RateOn(bars, coverage, pairs, ccy, win, d) ==
    UNION {{b.close : b \in PriceOn(bars, coverage, i, win, d)} : i \in FxPair(pairs, ccy)}

(* A valued holding: [num, den], or {} when unpriced.  insts gives an        *)
(* instrument's [cash, ccy], ccy a set; fr and dfr are the base and the      *)
(* display currency's rates.                                                 *)
Converted(amount, ccy, display, fr, dfr) ==
    IF ccy \in {{}, {display}} THEN {[num |-> amount, den |-> 1]}
    ELSE IF display = "USD" THEN {[num |-> amount * r, den |-> 1] : r \in fr}
    ELSE IF ccy = {"USD"} THEN {[num |-> amount, den |-> q] : q \in dfr}
    ELSE {[num |-> amount * r, den |-> q] : r \in fr, q \in dfr}

ConvertedValue(h, inst, price, display, fr, dfr) ==
    IF h.commodity.inst = {} THEN {}
    ELSE IF inst.cash THEN Converted(h.qty, inst.ccy, display, fr, dfr)
    ELSE UNION {Converted(h.qty * b.adj, inst.ccy, display, fr, dfr) : b \in price}

FxMissing(h, inst, price, display, fr, dfr) ==
    /\ h.commodity.inst # {} /\ (price # {} \/ inst.cash)
    /\ inst.ccy \notin {{}, {display}}
    /\ IF display = "USD" THEN fr = {}
       ELSE dfr = {} \/ (fr = {} /\ inst.ccy # {"USD"})

(* Whether the day names this holding among its unpriced instruments.       *)
Unpriced(h, inst, price, display, fr, dfr) ==
    \/ h.commodity.inst # {} /\ price = {} /\ ~inst.cash
    \/ h.commodity.inst = {}
    \/ FxMissing(h, inst, price, display, fr, dfr)

Unknown == [cash |-> FALSE, ccy |-> {}]

(* market: [bars, coverage, pairs, insts].  A row for each open position of  *)
(* each day: its value, and whether it is named as unpriced.  A day's total  *)
(* is the sum of its values and its list the names.                          *)
Valuation(txs, matches, scope, win, market, display) ==
    LET Row(h) ==
            LET inst  == IF h.commodity.inst = {} THEN Unknown
                         ELSE market.insts[CHOOSE i \in h.commodity.inst : TRUE]
                price == UNION {PriceOn(market.bars, market.coverage, i, win, h.day) :
                                   i \in h.commodity.inst}
                Rate(c) == RateOn(market.bars, market.coverage, market.pairs, c, win, h.day)
                fr    == UNION {Rate(c) : c \in inst.ccy \ {"USD"}}
                dfr   == Rate(display)
            IN  [holding |-> h,
                 value |-> ConvertedValue(h, inst, price, display, fr, dfr),
                 named |-> Unpriced(h, inst, price, display, fr, dfr)]
    IN  {Row(h) : h \in {h \in DailyHoldings(txs, matches, scope, win) :
                             ~QtyIsZero(h.qty, h.inexact)}}

(***************************************************************************)
(* External flows: the legs outside the scope of the groups it takes part in, *)
(* by day and commodity, with the sign turned so that positive enters.       *)
(***************************************************************************)
TouchedGroups(txs, scope) ==
    {t.group : t \in {t \in txs : InScope(scope, t) /\ t.type = "USER"}}

(* A whole user needs no touched groups: each of its groups has one.        *)
InReach(txs, scope, t) ==
    t.user = scope.user /\ (scope.filters = {} \/ t.group \in TouchedGroups(txs, scope))

(* A mutant: the account of another portfolio is taken for one's own.       *)
ExternalLegTyped(txs, matches, scope, t) ==
    InReach(txs, scope, t) /\ t.type \in {"EQUITY", "TRANSFER_CLEARING"}

ExternalLeg(txs, matches, scope, t) ==
    /\ InReach(txs, scope, t)
    /\ \/ t.type = "EQUITY"
       \/ t.type = "USER" /\ ~InScope(scope, t)
       \/ IsClearing(t) /\ ~InFlight(txs, matches, scope, t)

ExternalFlows(txs, matches, scope, win) ==
    LET legs == {t \in txs : /\ ExternalLeg(txs, matches, scope, t)
                             /\ win.from <= t.day /\ t.day < win.before}
        On(k, d) == {t \in legs : Commodity(t) = k /\ t.day = d}
    IN  {[commodity |-> f[1], day |-> f[2], amount |-> -Total(On(f[1], f[2]))] :
            f \in {f \in {<<Commodity(t), t.day>> : t \in legs} :
                       ~QtyIsZero(Total(On(f[1], f[2])), Inexact(On(f[1], f[2])))}}

(***************************************************************************)
(* Residual balances, over every user.                                       *)
(***************************************************************************)
ResidualTypes == {"IMBALANCE", "TRANSFER_CLEARING", "SOURCE_ROUNDING"}

ResidualLeg(matches, t) ==
    /\ t.type \in ResidualTypes /\ t.inst # {}
    /\ IsClearing(t) => MatchesOf(matches, t) = {}

(* types: the one type asked for, or all of them.                           *)
ListResidualBalances(txs, matches, win, types) ==
    LET legs == {t \in txs : /\ ResidualLeg(matches, t) /\ t.type \in types
                             /\ win.from <= t.day /\ t.day < win.before}
        Key(t) == [type |-> t.type, broker |-> t.broker, account |-> t.account,
                   inst |-> t.inst, kind |-> t.kind]
        Of(k)  == {t \in legs : Key(t) = k}
    IN  {[key |-> k, balance |-> Total(Of(k)), postings |-> Cardinality(Of(k)),
          oldest |-> Min({t.day : t \in Of(k)})] :
            k \in {k \in {Key(t) : t \in legs} : ~QtyIsZero(Total(Of(k)), Inexact(Of(k)))}}

(* What the dashboard counts, over all of history.                          *)
CountResidualBalances(txs, matches, staleBefore) ==
    LET rows == ListResidualBalances(txs, matches,
                                     [from |-> Min({t.day : t \in txs} \cup {0}),
                                      before |-> Max({t.day : t \in txs} \cup {0}) + 1],
                                     ResidualTypes)
    IN  [imbalances |-> Cardinality({r \in rows : r.key.type = "IMBALANCE"}),
         staleTransfers |-> Cardinality({r \in rows : r.key.type = "TRANSFER_CLEARING"
                                                        /\ r.oldest < staleBefore})]

=============================================================================
