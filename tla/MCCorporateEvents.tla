------------------------- MODULE MCCorporateEvents -------------------------
(* Instances of CorporateEvents for TLC. *)
EXTENDS CorporateEvents

Event(kind, ex, from, to) == [kind |-> kind, ex |-> ex, from |-> from, to |-> to]
Option(strike, expiry, from, firstTrade, c) ==
    [occ |-> {Name(strike, from, Forever)}, strike |-> strike, expiry |-> expiry,
     firstTrade |-> firstTrade, contracts |-> {c}]

World(evs, known, bad, order, options, ids, f, i, c) ==
    [events |-> evs, known |-> known, malformed |-> bad, plugins |-> order, book |-> options, trades |-> ids,
     faults |-> f, imports |-> i, crashes |-> c]

OneSplit == {Event("split", 2, 1, 2)}
SplitAndCash == OneSplit \cup {Event("cash", 2, 0, 0)}
TwoSplits == {Event("split", 2, 1, 2), Event("split", 3, 1, 2)}
Mixed == {Event("split", 2, 2, 3), Event("cash", 2, 0, 0), Event("special", 2, 0, 0)}

Awkward == {Event("split", 2, 2, 3), Event("special", 2, 0, 0)}

\* Two strikes of a ladder, the lower listed first, and one that expires between
\* the splits; the first has a symbol of no vintage.
Ladder == (1 :> Option(20, 4, NoDate, 1, 1)) @@ (2 :> Option(40, 4, 1, 1, 2))
          @@ (3 :> Option(40, 2, 1, 1, 3))
\* An option whose symbol does not parse, and one with no symbol.
Odd == (1 :> Option(NoName, 4, 1, 1, 1))
       @@ (2 :> [Option(40, 4, 1, 1, 2) EXCEPT !.occ = {}])
Single == (1 :> Option(40, 4, 1, 1, 1))

One == <<"eodhd">>
Two == <<"eodhd", "massive">>

MCWorlds == {World(TwoSplits, {}, {}, One, Ladder, {4}, 1, 0, 0),
             World(Mixed, Mixed, {}, Two, Odd, {}, 1, 0, 0),
             World(Awkward, Awkward, Splits(Awkward), One, Single, {}, 0, 1, 0),
             World(OneSplit, {}, {}, One, Odd, {}, 1, 0, 0),
             World(SplitAndCash, SplitAndCash, {}, <<>>, Single, {}, 1, 1, 1),
             World(TwoSplits, TwoSplits, {}, One, Single, {}, 0, 1, 0)}
\* An option with no symbol, and a split that could be applied.
Bare == 1 :> [Option(40, 4, 1, 1, 1) EXCEPT !.occ = {}]
NamelessWorlds == {World(OneSplit, OneSplit, {}, One, Bare, {}, 0, 0, 0)}

=============================================================================
