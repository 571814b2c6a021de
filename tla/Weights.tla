------------------------------- MODULE Weights -------------------------------
(***************************************************************************)
(* What a posting contributes to the balance of its group, and in which      *)
(* commodity: server/service/ingestion/balance.go.  A posting here is        *)
(* [declared, qty, price, settle, trading, inst, desc]; price, settle,       *)
(* trading and inst are sets with at most one element.  insts gives what is  *)
(* stored of an instrument: [class, ccy, multiplier].                        *)
(***************************************************************************)
EXTENDS Integers, Sequences, TxTypes

OptionContractSize == 100

(* A mutant: the multiplier replaces the size of the contract.              *)
BalanceInstrumentMultiplier(row) ==
    [isCurrency |-> row.class = "CASH",
     ccy |-> IF row.class = "CASH" THEN row.ccy ELSE {},
     size |-> IF row.class = "OPTION" THEN (IF row.multiplier > 0 THEN row.multiplier ELSE 1)
              ELSE 1]

BalanceInstrument(row) ==
    [isCurrency |-> row.class = "CASH",
     ccy |-> IF row.class = "CASH" THEN row.ccy ELSE {},
     size |-> IF row.class = "OPTION"
              THEN OptionContractSize * (IF row.multiplier > 0 THEN row.multiplier ELSE 1)
              ELSE 1]

(* What an unresolved posting finds in the map of instruments.              *)
Absent == [isCurrency |-> FALSE, ccy |-> {}, size |-> 0]

SettleCurrency(tx) == IF tx.settle # {} THEN tx.settle ELSE tx.trading

(* A commodity is its key: by currency, by instrument or by description.    *)
OwnCommodity(tx, inst) ==
    IF inst.isCurrency /\ inst.ccy # {} THEN <<"ccy", inst.ccy>>
    ELSE IF tx.inst # {} THEN <<"inst", tx.inst>>
    ELSE <<"desc", {tx.desc}>>

(* The asset leg of a trade converts, and so does money in another currency. *)
Converts(tx, types, inst) ==
    LET own == OwnCommodity(tx, inst) IN
    /\ tx.price # {}
    /\ SettleCurrency(tx) # {}
    /\ own # <<"ccy", SettleCurrency(tx)>>
    /\ MustBe(types, "TRADE_ASSET") \/ own[1] = "ccy"

WeightOf(tx, types, inst) ==
    IF Converts(tx, types, inst)
    THEN [amount |-> tx.qty * (CHOOSE p \in tx.price : TRUE)
                            * (IF inst.size > 0 THEN inst.size ELSE 1),
          commodity |-> <<"ccy", SettleCurrency(tx)>>]
    ELSE [amount |-> tx.qty, commodity |-> OwnCommodity(tx, inst)]

Lookup(tx, insts) ==
    IF tx.inst = {} THEN Absent
    ELSE BalanceInstrument(insts[CHOOSE i \in tx.inst : TRUE])

WeighPosting(tx, insts) == WeightOf(tx, tx.declared, Lookup(tx, insts))

(* No candidate weighs the posting otherwise than the first: the rows that   *)
(* validateWeightNeutrality has no error for.                                *)
WeightNeutral(tx, insts) ==
    \A k \in DOMAIN tx.declared :
        WeightOf(tx, <<tx.declared[k]>>, Lookup(tx, insts)) =
        WeightOf(tx, <<tx.declared[1]>>, Lookup(tx, insts))

=============================================================================
