------------------------------ MODULE TxTypes ------------------------------
(***************************************************************************)
(* The transaction type hierarchy of server/txtype: which type is under    *)
(* which, what a declared set of candidates means, and the one value a set *)
(* resolves to.  A declared set is a sequence, as the code ranges over it  *)
(* in order.                                                               *)
(***************************************************************************)
EXTENDS Naturals, Sequences, FiniteSets, SequencesExt

Unspecified == "UNSPECIFIED"

(* The node above each type; AMBIGUOUS is the root.                         *)
Parent ==
    [TRADE             |-> "AMBIGUOUS",
     TRADE_ASSET       |-> "TRADE",
     TRADE_CASH        |-> "TRADE",
     INCOME            |-> "AMBIGUOUS",
     DIVIDEND          |-> "INCOME",
     INTEREST          |-> "INCOME",
     RETURN_OF_CAPITAL |-> "INCOME",
     EXPENSE           |-> "AMBIGUOUS",
     TRANSACTION_COST  |-> "EXPENSE",
     HOLDING_COST      |-> "EXPENSE",
     FINANCING_COST    |-> "EXPENSE",
     TRANSFER          |-> "AMBIGUOUS",
     TRANSFER_INTERNAL |-> "TRANSFER",
     TRANSFER_EXTERNAL |-> "TRANSFER",
     AMBIGUOUS         |-> Unspecified]

TxType == DOMAIN Parent

(* t and everything above it: the values the climb of under visits.         *)
UpFrom[t \in TxType] ==
    {t} \cup IF Parent[t] = Unspecified THEN {} ELSE UpFrom[Parent[t]]

Under(t, x) == t # Unspecified /\ x \in UpFrom[t]

(* What the posting is under every reading of the declared set.             *)
MustBe(set, x) ==
    set # <<>> /\ \A i \in DOMAIN set : Under(set[i], x)

(* What it could be under some reading: an ancestor may yet narrow.         *)
MayBe(set, x) ==
    \E i \in DOMAIN set : Under(set[i], x) \/ Under(x, set[i])

ResolvedMustBe(t, x) == MustBe(<<t>>, x)

(* Climbs from the first until the second is under it.                      *)
Climb[pair \in TxType \X TxType] ==
    IF Under(pair[2], pair[1]) THEN pair[1]
    ELSE Climb[<<Parent[pair[1]], pair[2]>>]

(* The nearest common ancestor, found by climbing from the first member.    *)
Resolve(set) ==
    IF set = <<>> THEN Unspecified
    ELSE FoldLeft(LAMBDA anc, t : Climb[<<anc, t>>], Head(set), Tail(set))

(* No member is above another, or repeats it: what validation requires.     *)
Antichain(set) ==
    \A i, j \in DOMAIN set : i # j => ~Under(set[j], set[i])
============================================================================
