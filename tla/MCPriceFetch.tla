---------------------------- MODULE MCPriceFetch ----------------------------
(***************************************************************************)
(* Small price stores: stocks "s" and "t" and the currency pair "eurusd"     *)
(* that a holding in EUR or a display currency of EUR needs; the plugins     *)
(* "m" and "e", in that order of precedence.                                 *)
(***************************************************************************)
EXTENDS PriceFetch

OneStock == {"s"}

StocksAndPair == {"s", "t", "eurusd"}
EitherDay == {{1}, {2}}
TwoPlugins == <<"m", "e">>
OnePlugin == <<"e">>

InDollars == [i \in Instruments |-> "USD"]
OneInEuros == [i \in Instruments |-> IF i = "s" THEN "EUR" ELSE "USD"]
NoPairs == [c \in {} |-> "none"]
EuroPair == [c \in {"EUR"} |-> "eurusd"]

TakesAll == Instruments \X Plugins

NoLimit == [p \in Plugins |-> 0]
OneDayOfM == [p \in Plugins |-> IF p = "m" THEN 1 ELSE 0]

\* "e" has every bar, "m" lacks the first day.
MissesDayOne == {q \in Plugins \X Instruments \X Days : q[1] = "e" \/ q[3] # 1}

OpenOrClosed == {{1}, {1, 2}}

=============================================================================
