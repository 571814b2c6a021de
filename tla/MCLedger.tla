------------------------------ MODULE MCLedger ------------------------------
(***************************************************************************)
(* Ledger over small libraries of rows.  Quantities are counted in units of  *)
(* half the money tolerance.                                                 *)
(***************************************************************************)
EXTENDS Ledger

(* A numbered reference, as the Fidelity converter states it on every row.  *)
Ref(n) == [label |-> 1, token |-> 100 + n, scope |-> "FILE",
           match |-> {"EXACT", "ORDINAL"}, ord |-> {n}, span |-> {3}]

Record(n) == [label |-> 2, token |-> n, scope |-> "FILE",
              match |-> {"EXACT"}, ord |-> {}, span |-> {}]

Pointer(account) == [label |-> 3, token |-> account, scope |-> "BROKER",
                     match |-> {"ACCOUNT"}, ord |-> {}, span |-> {}]

Cash(account, day, qty, declared, corr) ==
    [broker |-> 1, account |-> account, day |-> day, qty |-> qty, price |-> {},
     settle |-> {}, declared |-> declared, corr |-> corr, weight |-> qty,
     comm |-> "GBP", rounding |-> 0, acct |-> "USER"]

Asset(account, day, qty, price, total) ==
    [Cash(account, day, qty, <<"TRADE_ASSET">>, <<>>) EXCEPT
        !.price = {price}, !.settle = {total}, !.weight = qty * price]

Replacement(from, before, rows) ==
    [broker |-> 1, from |-> from, before |-> before, rows |-> rows]

(* A deposit reported over two days, in figures the source rounded, and its *)
(* other side in another account; a dividend; a purchase with its charge.   *)
EventRows ==
    <<Cash(1, 1, 20, <<"TRANSFER">>, <<Ref(5)>>),
      Cash(1, 2, -20, <<"TRADE_CASH">>, <<Ref(6)>>),
      Cash(1, 2, 21, <<"TRADE_CASH", "TRANSFER">>, <<Ref(7)>>),
      Cash(2, 3, -21, <<"TRANSFER">>, <<Ref(4)>>),
      Cash(1, 2, 4, <<"DIVIDEND">>, <<>>),
      Asset(1, 2, 3, 4, 15),
      Cash(1, 2, -12, <<"TRADE_CASH">>, <<>>),
      Cash(1, 2, -3, <<"TRANSACTION_COST">>, <<>>)>>

EventUploads ==
    {Replacement(1, 2, {1}), Replacement(1, 2, {}), Replacement(2, 4, {2, 3, 4, 5, 6, 7})}

EventAppends == {8}

(* Two files whose first record is a purchase, told apart by nothing but    *)
(* the file: the token is the record's place in it.                         *)
Purchase(day, qty) ==
    <<[Asset(1, day, qty, 1, qty) EXCEPT !.corr = <<Record(1)>>],
      Cash(1, day, -qty, <<"TRADE_CASH">>, <<Record(1)>>)>>

FileRows == Purchase(1, 5) \o Purchase(3, 7) \o <<Cash(1, 3, 4, <<"DIVIDEND">>, <<>>)>>

FileUploads == {Replacement(1, 2, {1, 2}), Replacement(3, 4, {3, 4})}

FileAppends == {5}

(* A file-scoped token says nothing across uploads: two postings of one     *)
(* group that different uploads stated, on different days, have more than   *)
(* such tokens between them (type.proto: the scope is the one upload the    *)
(* correlation arrived in, stored as the ingestion job that supplied it).   *)
FilesStayApart ==
    \A t, u \in Stated(store) :
        t.group = u.group /\ t.job # u.job /\ Day(t) # Day(u) =>
            \E c \in Corrs(RowOf[t.row]) \cup Corrs(RowOf[u.row]) :
                c.scope # "FILE" \/ c.ord # {}

=============================================================================
