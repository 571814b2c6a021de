---------------------------- MODULE OptionSplits ----------------------------
(***************************************************************************)
(* What a split does to postings and to the options on its underlying:      *)
(* split_factor_at of the schema, the pending list of                       *)
(* server/db/postgres/corporate_events.go, the names that                   *)
(* server/corporateevents/option_splits.go mints and the transaction that   *)
(* stores them.  A day is a positive integer, a strike an integer number of *)
(* the units an OCC symbol is written in, and an OCC symbol is its strike   *)
(* with the expiry of its option: the root and the right are those of the   *)
(* one family of contracts that the model holds.                            *)
(***************************************************************************)
EXTENDS Integers, Sequences, FiniteSets, FiniteSetsExt, Orders

NoDate  == 0        \* valid_from IS NULL, or no transactions
Forever == 1000     \* valid_before IS NULL
NoName  == 0        \* no OCC row, or a symbol that does not parse

Name(strike, from, before) == [strike |-> strike, from |-> from, before |-> before]
Overlap(r, s) == r.from < s.before /\ s.from < r.before
InForce(o) == {r \in o.occ : r.before = Forever}

-----------------------------------------------------------------------------
(* Ratios.  A table of splits is a function from ex dates to ratios. *)

IsWholeForwardSplit(r) == r.to % r.from = 0 /\ r.to > r.from

Times(x, y) == x * y
Product(f, S) == MapThenFoldSet(Times, 1, LAMBDA x : f[x], LAMBDA T : Min(T), S)

SplitFactorAt(splits, basis, today) ==
    LET later == {ex \in DOMAIN splits : basis < ex /\ ex <= today}
    IN  [num |-> Product([ex \in later |-> splits[ex].to], later),
         den |-> Product([ex \in later |-> splits[ex].from], later)]

DivRound(a, b) == (2 * a + b) \div (2 * b)
AdjustStrike(strike, f) == DivRound(strike * f.den, f.num)

-----------------------------------------------------------------------------
(* The work list. *)

\* From when the name in force is known to be right.
NameFloor(o) ==
    LET from == Max({r.from : r \in InForce(o)} \cup {NoDate})
    IN  IF from # NoDate THEN from ELSE o.firstTrade

PendingSplits(o, splits, today) ==
    {ex \in DOMAIN splits : ex <= today /\ ex <= o.expiry /\ NameFloor(o) < ex}

Ascending(exs) == Sorted(exs, <)

\* Each name by the factor of its own split alone.
MintsOneByOne(strike, exs, splits) ==
    LET order == Ascending(exs)
    IN  [k \in DOMAIN order |->
            Name(AdjustStrike(strike, [num |-> splits[order[k]].to, den |-> splits[order[k]].from]),
                 order[k], IF k < Len(order) THEN order[k + 1] ELSE Forever)]

\* One name per pending split, each from the strike on record by the factor of
\* the splits up to it, and correct until the next.
Mints(strike, exs, splits) ==
    LET order == Ascending(exs)
        upTo(k) == {order[j] : j \in 1 .. k}
        f(k) == [num |-> Product([ex \in upTo(k) |-> splits[ex].to], upTo(k)),
                 den |-> Product([ex \in upTo(k) |-> splits[ex].from], upTo(k))]
    IN  [k \in DOMAIN order |->
            Name(AdjustStrike(strike, f(k)), order[k],
                 IF k < Len(order) THEN order[k + 1] ELSE Forever)]

-----------------------------------------------------------------------------
(* ApplyOptionSplit.  opts is a function from the ids of the options to their *)
(* rows; an id that has been merged away is not in its domain.               *)

Holders(opts, id, m) ==
    {h \in DOMAIN opts :
        /\ opts[h].expiry = opts[id].expiry
        /\ \E r \in opts[h].occ : r.strike = m.strike /\ Overlap(r, m)}

\* The first trade date of two sets of postings.
Earliest(a, b) == IF NoDate \in {a, b} THEN a + b ELSE Min({a, b})

\* mergeInstruments, for the two rows of options.
MergeOptions(opts, survivor, mergedAway) ==
    [o \in DOMAIN opts \ {mergedAway} |->
        IF o # survivor THEN opts[o]
        ELSE [opts[o] EXCEPT
                !.occ = @ \cup opts[mergedAway].occ,
                !.contracts = @ \cup opts[mergedAway].contracts,
                !.firstTrade = Earliest(@, opts[mergedAway].firstTrade)]]

\* LIMIT 1: one holder, whichever the database returns first, which may be the
\* option itself.
AbsorbDuplicateHolder(opts, id, m) ==
    LET holders == Holders(opts, id, m)
    IN  IF holders = {} THEN {opts}
        ELSE {IF h = id THEN opts ELSE MergeOptions(opts, id, h) : h \in holders}

\* What an earlier run minted in the window stays in force.
RestateOverWindow(o, mints) ==
    [o EXCEPT !.occ = {IF r.before = Forever /\ r.from < mints[1].from
                       THEN [r EXCEPT !.before = mints[1].from] ELSE r : r \in @}
                      \cup {mints[k] : k \in DOMAIN mints},
              !.strike = mints[Len(mints)].strike]

\* Clear the restated window, close what is left in force, mint, move the strike.
Restate(o, mints) ==
    [o EXCEPT !.occ = {IF r.before = Forever THEN [r EXCEPT !.before = mints[1].from] ELSE r :
                            r \in {s \in @ : s.from < mints[1].from}}
                      \cup {mints[k] : k \in DOMAIN mints},
              !.strike = mints[Len(mints)].strike]

\* The exclusion constraint: one row has a name at any one time.
NameConflict(opts) ==
    \E i, j \in DOMAIN opts :
        /\ opts[i].expiry = opts[j].expiry
        /\ \E r \in opts[i].occ, s \in opts[j].occ :
              <<i, r>> # <<j, s>> /\ r.strike = s.strike /\ Overlap(r, s)

\* The outcomes of the transaction, a function of what the lookups return.
ApplyOptionSplit(opts, id, mints) ==
    LET absorbed == Loop(LAMBDA all, m : UNION {AbsorbDuplicateHolder(acc, id, m) : acc \in all},
                         {opts}, mints)
        restated == {[acc EXCEPT ![id] = Restate(@, mints)] : acc \in absorbed}
    IN  IF id \notin DOMAIN opts
        THEN {[ok |-> FALSE, opts |-> opts]}
        ELSE {IF NameConflict(new) THEN [ok |-> FALSE, opts |-> opts]
                                   ELSE [ok |-> TRUE, opts |-> new] : new \in restated}

=============================================================================
