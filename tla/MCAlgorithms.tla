---------------------------- MODULE MCAlgorithms ----------------------------
(***************************************************************************)
(* The pure functions the components are built from, over every input of a   *)
(* bounded size: ranges of days, declared type sets, postings to partition   *)
(* and to weigh, transfer sides to pair and books to report on.  A behaviour  *)
(* picks one function and one input and computes; the properties compare the *)
(* result with what it stands for.                                           *)
(***************************************************************************)
EXTENDS DateRanges, Coverage, Grouping, TransferMatch, Weights, Reports

CONSTANTS LastDay,      \* ranges lie in 1 .. LastDay
          MaxNeeded,    \* ranges in the needed list
          MaxCached,    \* ranges in the cached list
          MaxDeclared,  \* types in a declared set
          MaxPostings,  \* postings partitioned together
          MaxSides      \* sides paired together

VARIABLES step, needed, cached, gaps,   \* ranges
          declared, resolved,           \* types
          postings, partition,          \* grouping
          sides, links,                 \* transfers
          leg, weight,                  \* weights
          books, reported               \* reports

rangevars == <<needed, cached, gaps>>
typevars == <<declared, resolved>>
postingvars == <<postings, partition>>
sidevars == <<sides, links>>
weightvars == <<leg, weight>>
bookvars == <<books, reported>>
vars == <<step, rangevars, typevars, postingvars, sidevars, weightvars, bookvars>>

(***************************************************************************)
(* Inputs.                                                                   *)
(***************************************************************************)
Ranges == {DateRange(a, b) : a \in 1 .. LastDay, b \in 2 .. (LastDay + 1)}
Proper == {r \in Ranges : r.from < r.before}
Lists(S, n) == UNION {[1 .. k -> S] : k \in 0 .. n}

Corr(label, token, scope, match, ord, span) ==
    [label |-> label, token |-> token, scope |-> scope, match |-> match,
     ord |-> ord, span |-> span]

Ref(n) == Corr(1, 100 + n, "FILE", {"EXACT", "ORDINAL"}, {n}, {3})
Order(match) == Corr(2, 7, "ACCOUNT", {match}, {}, {})

Cash(day, qty, types, corr) ==
    [broker |-> 1, account |-> 1, day |-> day, qty |-> qty, price |-> {},
     settle |-> {}, declared |-> types, corr |-> corr, job |-> 1]

Asset(day, qty, price, total) ==
    [Cash(day, qty, <<"TRADE_ASSET">>, <<>>) EXCEPT !.price = {price}, !.settle = {total}]

(* A deposit over two days; two purchases that one payment might settle, at *)
(* very different prices; the charges of the day; a charge that names the   *)
(* order another day's payment carries.                                     *)
Library ==
    <<Cash(1, 10, <<"TRANSFER">>, <<Ref(5)>>),
      Cash(2, -10, <<"TRADE_CASH">>, <<Ref(6)>>),
      Cash(2, 10, <<"TRADE_CASH", "TRANSFER">>, <<Ref(7)>>),
      Asset(2, 3, 4, 15),
      Asset(2, 1, 4, 13),
      Cash(2, -12, <<"TRADE_CASH">>, <<>>),
      Cash(2, -3, <<"TRANSACTION_COST">>, <<>>),
      Cash(3, -12, <<"TRADE_CASH">>, <<Order("EXACT")>>),
      Cash(2, -1, <<"EXPENSE">>, <<Order("ATTACHES")>>)>>

(* Some rows of the library, with their ids in some order.                  *)
Postings(rows) ==
    {{[id |-> ids[r], group |-> ids[r], resolved |-> Unspecified] @@ Library[r] :
         r \in rows} :
       ids \in {f \in [rows -> 1 .. Cardinality(rows)] :
                   \A q, r \in rows : q # r => f[q] # f[r]}}

Side(group, account, amount, day, corr) ==
    [group |-> group, broker |-> 1, account |-> account, inst |-> "GBP",
     amount |-> amount, day |-> day, corr |-> corr]

Pointer(account) == Corr(3, account, "BROKER", {"ACCOUNT"}, {}, {})

SideLibrary ==
    {Side(1, 1, 10, 1, {Ref(4)}), Side(2, 1, 10, 1, {Ref(9)}),
     Side(3, 2, -10, 1, {Ref(5), Pointer(1)}), Side(4, 3, -10, 2, {Ref(4)}),
     Side(5, 2, -10, 2, {}), Side(6, 2, 10, 2, {Ref(6)}),
     Side(7, 1, -10, 3, {Ref(5), Pointer(2)}), Side(8, 3, 10, 1, {Ref(2)})}

(* A posting to weigh: any set of types, priced or not, in money, in shares,  *)
(* in contracts or unidentified.                                            *)
Stored ==
    [GBP |-> [class |-> "CASH", ccy |-> {"GBP"}, multiplier |-> 1],
     USD |-> [class |-> "CASH", ccy |-> {"USD"}, multiplier |-> 1],
     share |-> [class |-> "STOCK", ccy |-> {"USD"}, multiplier |-> 1],
     call |-> [class |-> "OPTION", ccy |-> {"USD"}, multiplier |-> 2],
     put |-> [class |-> "OPTION", ccy |-> {"USD"}, multiplier |-> 0]]

Legs ==
    [declared : {d \in Lists({"TRADE_ASSET", "TRADE_CASH", "TRADE", "DIVIDEND", "TRANSFER"},
                              MaxDeclared) \ {<<>>} : Antichain(d)},
     qty : {3}, price : {{}, {2}}, settle : {{}, {"GBP"}}, trading : {{}, {"USD"}},
     inst : {{}} \cup {{i} : i \in DOMAIN Stored}, desc : {"row"}]

(* Journals: every choice of these groups, of the matches among them and of a *)
(* scope.  A deposit; a transfer out and in; a dividend; a transfer that     *)
(* costs a fee; a move between two accounts drawn as one group; a purchase.  *)
Posting(id, group, day, account, type, inst, qty) ==
    [id |-> id, user |-> 1, broker |-> 1, account |-> account, inst |-> {inst}, desc |-> "row",
     type |-> type, kind |-> "TRANSFER", group |-> group, day |-> day, qty |-> qty,
     adj |-> qty, thirds |-> 3 * qty]

Groups ==
    <<{Posting(1, 1, 1, 1, "USER", "USD", 9), Posting(2, 1, 1, 1, "EQUITY", "USD", -9)},
      {Posting(3, 2, 2, 1, "USER", "USD", -5), Posting(4, 2, 2, 1, "TRANSFER_CLEARING", "USD", 5)},
      {Posting(5, 3, 4, 2, "USER", "USD", 5), Posting(6, 3, 4, 2, "TRANSFER_CLEARING", "USD", -5)},
      {Posting(7, 4, 3, 2, "USER", "USD", 3), Posting(8, 4, 3, 2, "INCOME", "USD", -3)},
      {Posting(9, 5, 2, 1, "USER", "share", -4), Posting(10, 5, 2, 1, "EXPENSE", "share", 1),
       Posting(11, 5, 2, 1, "TRANSFER_CLEARING", "share", 3)},
      {Posting(12, 6, 3, 2, "USER", "share", 3),
       Posting(13, 6, 3, 2, "TRANSFER_CLEARING", "share", -3)},
      {Posting(14, 7, 3, 1, "USER", "USD", -2), Posting(15, 7, 3, 2, "USER", "USD", 2)},
      {Posting(16, 8, 1, 1, "USER", "share", 7), Posting(17, 8, 1, 1, "USER", "USD", -6)}>>

Match3(from, to, inst) == [from |-> from, to |-> to, inst |-> inst]

Filters(accounts, insts) == [broker |-> {}, account |-> accounts, instrument |-> insts]

Scopes ==
    {Whole(1)} \cup
    {Portfolio(1, Filters(a, i)) : a \in {{}, {1}, {2}, {1, 2}},
                                   i \in {{}, {"USD"}, {"share"}}}

NoMarket == [bars |-> {}, coverage |-> {}, pairs |-> [c \in {} |-> 0], insts |->
                [i \in DOMAIN Stored |-> [cash |-> i \in {"USD", "GBP"}, ccy |-> Stored[i].ccy]]]

Journals ==
    {[txs |-> UNION {Groups[g] : g \in pick[1]}, matches |-> pick[2], scope |-> scope,
      win |-> DateRange(1, 6), market |-> NoMarket, display |-> "USD"] :
        scope \in Scopes,
        pick \in {p \in (SUBSET DOMAIN Groups) \X
                         (SUBSET {Match3(2, 3, "USD"), Match3(5, 6, "share")}) :
                     \A m \in p[2] : {m.from, m.to} \subseteq p[1]}}

(* Markets: a share quoted in euros with shut days, a hole or a seam in its  *)
(* coverage; foreign cash; an unidentified line; a holding bought in thirds  *)
(* of a new share and sold whole.                                            *)
Bar(inst, day, close) == [inst |-> inst, day |-> day, close |-> close, adj |-> 2 * close]
Cover(inst, from, before) == [inst |-> inst, from |-> from, before |-> before]

Old(id, day, qty) ==
    [Posting(id, id, day, 1, "USER", "new", 3 * qty) EXCEPT !.adj = qty, !.thirds = 3 * qty + 1]

Held ==
    {Posting(1, 1, 1, 1, "USER", "share", 2), Posting(2, 2, 3, 1, "USER", "share", -2),
     Posting(3, 3, 4, 1, "USER", "share", 1), Posting(4, 4, 1, 1, "USER", "GBP", 4),
     [Posting(5, 5, 2, 1, "USER", "new", 1) EXCEPT !.inst = {}],
     Old(6, 1, 3), Old(7, 1, 3), Old(8, 2, 3), Posting(9, 9, 3, 1, "USER", "new", -10)}

Quoted ==
    [share |-> [cash |-> FALSE, ccy |-> {"EUR"}], GBP |-> [cash |-> TRUE, ccy |-> {"GBP"}],
     new |-> [cash |-> FALSE, ccy |-> {"USD"}]]

Markets ==
    {[txs |-> Held, matches |-> {}, scope |-> Whole(1), win |-> win, display |-> display,
      market |-> [bars |-> bars, coverage |-> shares \cup rates,
                  pairs |-> [EUR |-> "EURUSD", GBP |-> "GBPUSD"], insts |-> Quoted]] :
        win \in {DateRange(1, 5), DateRange(2, 5), DateRange(3, 4)},
        display \in {"USD", "EUR", "GBP"},
        bars \in SUBSET {Bar("share", 1, 2), Bar("share", 3, 5), Bar("EURUSD", 1, 2),
                         Bar("EURUSD", 3, 3), Bar("GBPUSD", 2, 5)},
        shares \in {{}, {Cover("share", 1, 3), Cover("share", 3, 5)},
                    {Cover("share", 1, 2), Cover("share", 3, 5)}},
        rates \in {{Cover("EURUSD", 1, 5), Cover("GBPUSD", 1, 5)}, {Cover("EURUSD", 1, 4)}}}

(***************************************************************************)
(* Behaviours.                                                               *)
(***************************************************************************)
NoRanges == needed = <<>> /\ cached = <<>> /\ gaps = <<>>
NoTypes == declared = <<>> /\ resolved = Unspecified
NoPostings == postings = {} /\ partition = NewState({})
NoSides == sides = {} /\ links = {}
NoLeg == leg = {} /\ weight = {}
NoBooks == books = {} /\ reported = {}
Nothing == NoRanges /\ NoTypes /\ NoPostings /\ NoSides

InitRanges ==
    /\ step = "merge"
    /\ needed \in Lists(Proper, MaxNeeded) /\ cached \in Lists(Proper, MaxCached)
    /\ gaps = <<>> /\ NoTypes /\ NoPostings /\ NoSides /\ NoLeg /\ NoBooks

InitTypes ==
    /\ step = "resolve" /\ declared \in {d \in Lists(TxType, MaxDeclared) \ {<<>>} : Antichain(d)}
    /\ resolved = Unspecified /\ NoRanges /\ NoPostings /\ NoSides /\ NoLeg /\ NoBooks

InitPostings ==
    /\ step = "partition"
    /\ \E rows \in SUBSET DOMAIN Library :
          Cardinality(rows) \in 1 .. MaxPostings /\ postings \in Postings(rows)
    /\ partition = NewState({}) /\ NoRanges /\ NoTypes /\ NoSides /\ NoLeg /\ NoBooks

InitSides ==
    /\ step = "match"
    /\ sides \in {S \in SUBSET SideLibrary : Cardinality(S) <= MaxSides}
    /\ links = {} /\ NoRanges /\ NoTypes /\ NoPostings /\ NoLeg /\ NoBooks

InitLeg == step = "weigh" /\ leg \in {{l} : l \in Legs} /\ weight = {} /\ Nothing /\ NoBooks

InitBooks ==
    step = "report" /\ books \in {{b} : b \in Journals \cup Markets} /\ reported = {}
    /\ Nothing /\ NoLeg

Init == InitRanges \/ InitTypes \/ InitPostings \/ InitSides \/ InitLeg \/ InitBooks

DoMerge ==
    /\ step = "merge" /\ step' = "subtract"
    /\ needed' = MergeRanges(needed) /\ cached' = MergeRanges(cached)
    /\ UNCHANGED <<gaps, typevars, postingvars, sidevars, weightvars, bookvars>>

DoSubtract ==
    /\ step = "subtract" /\ step' = "subtracted"
    /\ gaps' = SubtractRanges(needed, cached)
    /\ UNCHANGED <<needed, cached, typevars, postingvars, sidevars, weightvars, bookvars>>

DoResolve ==
    /\ step = "resolve" /\ step' = "resolved"
    /\ resolved' = Resolve(declared)
    /\ UNCHANGED <<declared, rangevars, postingvars, sidevars, weightvars, bookvars>>

DoPartition ==
    /\ step = "partition" /\ step' = "partitioned"
    /\ partition' = Partition(postings)
    /\ UNCHANGED <<postings, rangevars, typevars, sidevars, weightvars, bookvars>>

DoMatch ==
    /\ step = "match" /\ step' = "matched"
    /\ links' = Match(sides)
    /\ UNCHANGED <<sides, rangevars, typevars, postingvars, weightvars, bookvars>>

DoWeigh ==
    /\ step = "weigh" /\ step' = "weighed"
    /\ weight' = {WeighPosting(l, Stored) : l \in leg}
    /\ UNCHANGED <<leg, rangevars, typevars, postingvars, sidevars, bookvars>>

DoReport ==
    /\ step = "report" /\ step' = "reported"
    /\ reported' = UNION {Valuation(b.txs, b.matches, b.scope, b.win, b.market, b.display) :
                             b \in books}
    /\ UNCHANGED <<books, rangevars, typevars, postingvars, sidevars, weightvars>>

Next == DoMerge \/ DoSubtract \/ DoResolve \/ DoPartition \/ DoMatch \/ DoWeigh \/ DoReport

Spec == Init /\ [][Next]_vars

(***************************************************************************)
(* Properties.                                                               *)
(***************************************************************************)
\* Ranges in order, none empty, none touching the one before it.
Canonical(rs) == /\ \A k \in DOMAIN rs : rs[k].from < rs[k].before
                 /\ \A k \in 1 .. (Len(rs) - 1) : rs[k].before < rs[k + 1].from

\* MergeRanges keeps the days of its input and returns them as sorted ranges that
\* neither overlap nor abut, whatever the order and overlap of the input.
MergeIsExact ==
    step = "merge" => \A ranges \in {needed, cached} :
                         /\ ListDays(MergeRanges(ranges)) = ListDays(ranges)
                         /\ Canonical(MergeRanges(ranges))

\* SubtractRanges of two merged lists is the difference of their days, again as
\* sorted ranges that are not empty and do not touch: no needed day is lost at the
\* cursor that the needed ranges share.
SubtractIsExact ==
    step = "subtracted" => /\ ListDays(gaps) = ListDays(needed) \ ListDays(cached)
                           /\ Canonical(gaps)

\* The spans of a merged list, and the upserts of another one into them, in order.
SpansOf(rs) == {rs[k] : k \in DOMAIN rs}
Upserts(rows, rs) ==
    FoldLeft(LAMBDA acc, r : UpsertCoverageSpan(acc, r.from, r.before), rows, rs)

\* upsertCoverageSpan, run for each range of a list against rows that are apart,
\* leaves the longest runs of all their days, whatever the order and however many
\* rows one range bridges: the closed form the price cache's model uses.
UpsertsLeaveRuns ==
    step = "subtract" =>
        Upserts(SpansOf(cached), needed) =
        RunsOf(SpanDays(SpansOf(cached)) \cup ListDays(needed))

\* Range arithmetic is exact: merging, subtracting and upserting lists of ranges does to
\* their days what union and difference do to sets.
RangesAreExact == MergeIsExact /\ SubtractIsExact /\ UpsertsLeaveRuns

\* Resolve returns the lowest type all candidates are under, whatever their order,
\* and so keeps exactly what the set must be: routing by the resolved value decides
\* as routing by the declared set would.
ResolveIsLowestCommon ==
    step = "resolved" =>
        \A x \in TxType : MustBe(declared, x) <=> Under(resolved, x)

\* A partition of what one posting's neighbourhood holds is the partition of
\* everything, restricted to it: a cycle that regroups around one seed, or an upload
\* around what it wrote, draws the groups a full recomputation would.
LocalPartitionIsGlobal ==
    step = "partitioned" =>
        \A p \in postings :
            Given(Neighbourhood(p, postings), LAMBDA near :
                Given(Partition(near), LAMBDA local :
                    \A q \in near :
                        /\ GroupIn(q, near, local) = GroupIn(q, postings, partition)
                        /\ ResolvedIn(q, local) = ResolvedIn(q, partition)))

\* A purchase is drawn with a payment its quantity and price account for and its
\* stated total covers, and with charges, unless their source named another row,
\* that make up the rest of the total: the rules that claim them in turn agree.
PurchasesReconcile ==
    step = "partitioned" =>
        \A a \in {p \in postings : ~IsMoney(p) /\ p.qty > 0} :
            LET group   == GroupIn(a, postings, partition) \ {a}
                paid    == {p \in group : IsMoney(p) /\ MayBe(p.declared, "TRADE_CASH")}
                charges == {p \in group : IsCharge(p)}
                over    == The(a.settle) - SumAbs(paid)
            IN  /\ \A p \in paid : Consistent(a, p)
                /\ over > -Money
                /\ charges # {} => Abs(over - SumAbs(charges)) < Money

\* The pairs a pass could link, and those of them that no other pair equals which
\* shares a side with it.
Best(cands) ==
    {c \in cands : \A d \in cands :
        (d.from = c.from \/ d.to = c.to) => d = c \/ (BetterPair(c, d) /\ ~Ties(c, d))}

Linked(cs) == {[from |-> c.from.group, to |-> c.to.group] : c \in cs}

\* A pair that is strictly the best choice of both its sides is linked, in the pass
\* that can tell, whatever an earlier pass could not tell apart and whatever order
\* the rest is taken in.
StrictlyBestMeet ==
    step = "matched" =>
        LET met(S) == {[from |-> l.from, to |-> l.to] : l \in S}
            named  == {l \in links : l.method = "POINTER"}
            left   == {s \in sides : \A l \in named : s.group \notin {l.from, l.to}}
        IN  /\ Linked(Best(Candidates(sides, "POINTER"))) \subseteq met(named)
            /\ Linked(Best(Candidates(left, "REFERENCE"))) \subseteq met(links)

\* What one unit of an instrument delivers, and the money leg of a trade.
Size(i) == IF Stored[i].class # "OPTION" THEN 1
           ELSE 100 * (IF Stored[i].multiplier = 0 THEN 1 ELSE Stored[i].multiplier)

Payment(l, ccy, amount) ==
    [l EXCEPT !.declared = <<"TRADE_CASH">>, !.qty = amount, !.inst = {ccy}]

\* A purchase and its payment cancel in weight, in the currency it settled in, for
\* shares, contracts of any multiplier and money bought with other money.
TradeLegsCancel ==
    step = "weighed" =>
        \A l \in leg : \A i \in l.inst, p \in l.price, ccy \in SettleCurrency(l) :
            l.declared = <<"TRADE_ASSET">> /\ i # ccy =>
                {WeighPosting(Payment(l, ccy, -(l.qty * p * Size(i))), Stored)} =
                {[w EXCEPT !.amount = -@] : w \in weight}

\* A declared set that validateWeightNeutrality lets through weighs a posting as each of
\* its candidates, and as the one type it resolves to, would.
NeutralSetsWeighAlike ==
    step = "weighed" =>
        \A l \in leg : WeightNeutral(l, Stored) =>
            \A c \in Range(l.declared) \cup {Resolve(l.declared)} :
                weight = {WeightOf(l, <<c>>, Lookup(l, Stored))}

\* What a declared set of types leaves open decides neither the routing nor the weight
\* of a posting, and the two legs of a trade weigh the same.
WeightsFollowTypes == ResolveIsLowestCommon /\ NeutralSetsWeighAlike /\ TradeLegsCancel

\* Flows in, less income and charges, plus what trades exchanged, through day d.
Explained(b, k, d) ==
    LET touched == {t \in b.txs : InReach(b.txs, b.scope, t) /\ Commodity(t) = k /\ t.day <= d}
        Of(types) == Total({t \in touched : t.type \in types})
        flows == {f \in ExternalFlows(b.txs, b.matches, b.scope, b.win) :
                     f.commodity = k /\ f.day <= d}
    IN  SumOver(flows, LAMBDA f : f.amount) - Of({"INCOME", "EXPENSE"}) + Total(touched)

\* What a scope is valued to hold of a commodity at the end of a day is what flowed in,
\* less its income and charges, plus what its trades exchanged: the valuation and the
\* external flow queries agree on what is inside a portfolio, whatever it filters by,
\* and a transfer between two of its accounts moves neither while it is in transit.
PositionsExplained ==
    step = "reported" =>
        \A b \in books : b.market = NoMarket =>
            \A k \in {Commodity(t) : t \in b.txs}, d \in RangeDays(b.win) :
                Explained(b, k, d) =
                SumOver({r \in reported : r.holding.commodity = k /\ r.holding.day = d},
                        LAMBDA r : r.holding.qty)

\* What a scope values in transit nets to nothing once both sides are in: a pair is
\* admitted whole or not at all, so no transfer out of a portfolio is held in it for ever.
PairsNetToNothing ==
    step = "reported" =>
        \A b \in books : \A k \in {Commodity(t) : t \in b.txs} :
            Total({t \in b.txs : /\ Commodity(t) = k
                                 /\ InFlight(b.txs, b.matches, b.scope, t)}) = 0

\* What a user's flows say left through clearing and came back nowhere is what the
\* residual report lists as waiting, account by account: a side is matched for both or
\* for neither, and when the dashboard counts none nothing is in transit.
InTransitIsReported ==
    step = "reported" =>
        \A b \in books : b.scope.filters = {} =>
            LET rows  == ListResidualBalances(b.txs, b.matches, b.win, {"TRANSFER_CLEARING"})
                flows == ExternalFlows(b.txs, b.matches, b.scope, b.win)
                In(k) == SumOver({f \in flows : f.commodity = k}, LAMBDA f : f.amount)
                Out(k) == {t \in b.txs : /\ ExternalLeg(b.txs, b.matches, b.scope, t)
                                         /\ Commodity(t) = k}
                Waits(k, a) == {t \in Out(k) : IsClearing(t) /\ t.account = a}
                Listed(k, a) == {r \in rows : r.key.inst = k.inst /\ r.key.account = a}
            IN  \A k \in {Commodity(t) : t \in b.txs} :
                    /\ In(k) = -Total(Out(k))
                    /\ \A a \in {1, 2} :
                          Total(Waits(k, a)) = SumOver(Listed(k, a), LAMBDA r : r.balance)
                    /\ CountResidualBalances(b.txs, b.matches, b.win.before).staleTransfers = 0 =>
                          \A a \in {1, 2} : Total(Waits(k, a)) = 0

\* The reports agree on what is inside: positions are explained by flows, what is in
\* transit is counted once, and it is what the residual report lists.
FlowsExplainPositions == PositionsExplained /\ PairsNetToNothing /\ InTransitIsReported

\* On every day of a window the valuation holds of an instrument what the holdings of
\* its accounts, asked for as of that day, add up to, plus what is in flight: spans that
\* open before the window, close inside it or never close included.
HoldingsAreValued ==
    step = "reported" =>
        \A b \in books, d \in 1 .. 5 :
            LET held == ComputeHoldings(b.txs, b.scope, d) IN
            d \in RangeDays(b.win) =>
                \A i \in {t.inst : t \in b.txs} \ {{}, {"new"}} :
                    SumOver({r \in reported : r.holding.commodity.inst = i /\ r.holding.day = d},
                            LAMBDA r : r.holding.qty) =
                    SumOver({h \in held : h.key.inst = i}, LAMBDA h : h.qty) +
                    Total({t \in b.txs : /\ InFlight(b.txs, b.matches, b.scope, t)
                                         /\ t.inst = i /\ t.day <= d})

\* A position that has been sold is reported by neither query and one that has not by
\* both, though each of its postings rounded when a split restated it.
ClosedIsAbsent ==
    step = "reported" =>
        \A b \in books, d \in 1 .. 5 :
            (d \in RangeDays(b.win) /\ b.txs = Held) =>
                LET open == SumOver({t \in Held : t.inst = {"new"} /\ t.day <= d},
                                    LAMBDA t : t.thirds) # 0
                IN  /\ open <=> \E h \in ComputeHoldings(b.txs, b.scope, d) : h.key.inst = {"new"}
                    /\ open <=> \E r \in reported : /\ r.holding.commodity.inst = {"new"}
                                                    /\ r.holding.day = d

\* A price carried over shut days is the last bar of the covered span the day lies in,
\* however the coverage rows abut and wherever the window opens, and a day outside
\* coverage has none.
CarriedPriceIsLatest ==
    step = "reported" =>
        \A b \in books : \A d \in RangeDays(b.win) :
            LET m    == b.market
                days == SpanDays({c \in m.coverage : c.inst = "share"})
            IN  PriceOn(m.bars, m.coverage, "share", b.win, d) =
                LatestBar({x \in m.bars : /\ x.inst = "share" /\ x.day <= d
                                          /\ x.day .. d \subseteq days})

\* A holding that adds nothing to the day's total is named as unpriced that day, and
\* only such a holding is: no value is missing silently, none is counted and disowned.
UnvaluedIsNamed ==
    step = "reported" => \A r \in reported : r.value = {} <=> r.named

\* The currency a valuation is shown in only scales it: where both are known, a value in
\* a currency times that currency's rate is the value in USD, for shares and for cash.
DisplayOnlyRescales ==
    step = "reported" =>
        \A b \in books : b.display \in DOMAIN b.market.pairs =>
            LET usd == Valuation(b.txs, b.matches, b.scope, b.win, b.market, "USD")
            IN  \A r \in reported, u \in usd :
                    r.holding = u.holding =>
                        \A v \in r.value, w \in u.value,
                           q \in RateOn(b.market.bars, b.market.coverage, b.market.pairs,
                                        b.display, b.win, r.holding.day) :
                            v.num * q * w.den = w.num * v.den

\* A valuation is of the holdings, at the latest covered price, in any currency: the five
\* properties above on every day of every window.
ValuationIsOfHoldings ==
    /\ HoldingsAreValued /\ ClosedIsAbsent
    /\ CarriedPriceIsLatest /\ UnvaluedIsNamed /\ DisplayOnlyRescales
=============================================================================
