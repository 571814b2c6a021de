---------------------------- MODULE Instruments ----------------------------
(***************************************************************************)
(* The instrument store (server/db/postgres/instruments.go) as functions of  *)
(* its tables: looking a name up, and what EnsureInstrument reads and        *)
(* writes.  A store maps the ids given out so far, in order of creation, to  *)
(* rows [class, mic, cur, cik, names, under, strike]; names is a set of      *)
(* [ref, canon], canon FALSE for a broker's description and nothing else,    *)
(* under the id of the underlying or 0.  Lookups are by value over every     *)
(* interval of validity, so a symbol given up is a name still; no value is   *)
(* held by two instruments in turn here (CorporateEvents has the intervals). *)
(***************************************************************************)
EXTENDS Identification

CONSTANT Squeezed \* what a ticker is once the separators ./- and space are dropped

(* The refs of a row, and the ids whose row satisfies something about them. *)
Refs(row) == {n.ref : n \in row.names}
Having(st, ref) == {i \in DOMAIN st : ref \in Refs(st[i])}
TheOnly(S) == IF Cardinality(S) = 1 THEN CHOOSE i \in S : TRUE ELSE 0

FindInstrumentByIdentifier(st, ref) == TheOnly(Having(st, ref))

(* Ambiguous is nothing. *)
FindInstrumentByTypeAndValue(st, ref) ==
    TheOnly({i \in DOMAIN st : \E r \in Refs(st[i]) : r.type = ref.type /\ r.val = ref.val})

FindInstrumentByTickerIgnoringSeparators(st, ref) ==
    LET bare(v) == IF v \in DOMAIN Squeezed THEN Squeezed[v] ELSE v
    IN  TheOnly({i \in DOMAIN st : \E r \in Refs(st[i]) : r.type = "MIC_TICKER" /\ bare(r.val) = bare(ref.val)})

HoldsNoCanonicalIdentifier(st, i) == \A n \in st[i].names : ~n.canon

(* The instrument a description names, and only one it names alone. *)
FindDescribed(st, ref) == FindInstrumentByIdentifier(st, ref)
FindDescriptionOnlyInstrument(st, ref) ==
    LET i == FindInstrumentByIdentifier(st, ref)
    IN  IF i # 0 /\ HoldsNoCanonicalIdentifier(st, i) THEN i ELSE 0

(* One identifier to an instrument; a name without a domain falls back to    *)
(* any domain, a ticker without one to any spelling.                         *)
ResolveHint(st, ref) ==
    LET exact == FindInstrumentByIdentifier(st, ref)
        any == FindInstrumentByTypeAndValue(st, ref)
    IN  CASE exact # 0 \/ ref.dom # "" -> exact
          [] exact = 0 /\ ref.dom = "" /\ any # 0 -> any
          [] OTHER -> IF ref.type = "MIC_TICKER" THEN FindInstrumentByTickerIgnoringSeparators(st, ref) ELSE 0

ResolveIDsByHintsDBOnly(st, hints) == {ResolveHint(st, h) : h \in ToSet(hints)} \ {0}

-----------------------------------------------------------------------------
(* What EnsureInstrument is given: an instrument, names, an underlying and   *)
(* a strike (0 for no option terms).                                         *)
OnOperatingMIC(names) ==
    {[n EXCEPT !.ref.dom = IF n.ref.type = "MIC_TICKER" THEN NormalizeMIC(@) ELSE @] : n \in names}

(* Refused outright. *)
NotEnsurable(in) == in.names = {} \/ (in.inst.class \in {"OPTION", "FUTURE"} /\ in.under = 0)

(* Every instrument any of the names finds. *)
DistinctIDs(st, names) == {FindInstrumentByIdentifier(st, n.ref) : n \in names} \ {0}

(* Most names, then the oldest, which ids order too. *)
PickSurvivor(st, S) ==
    CHOOSE i \in S : \A j \in S \ {i} :
        \/ Cardinality(st[i].names) > Cardinality(st[j].names)
        \/ Cardinality(st[i].names) = Cardinality(st[j].names) /\ i < j

(* The names and the derivatives of the one merged away go to the survivor;  *)
(* its other columns go with it.                                             *)
MergeInstruments(st, survivor, away) ==
    [i \in DOMAIN st \ {away} |->
        [st[i] EXCEPT !.under = IF @ = away THEN survivor ELSE @,
                      !.names = IF i = survivor THEN @ \cup st[away].names ELSE @]]

MergeAll(st, survivor, S) ==
    Loop(LAMBDA s, away : MergeInstruments(s, survivor, away), st, Sorted((S \cap DOMAIN st) \ {survivor}, <))

(* The underlying where one is given, and the option terms whenever they     *)
(* are, over whatever was there.  An id that is gone is no row to update.    *)
UpdateInstrumentOnMatch(st, i, in) ==
    IF i \notin DOMAIN st THEN st
    ELSE [st EXCEPT ![i].under = IF in.under = 0 THEN @ ELSE in.under,
                    ![i].strike = IF in.strike = 0 THEN @ ELSE in.strike]

(* Only what the row lacks: names nobody holds and columns still blank. *)
MergeIntoInstrument(st, i, in) ==
    LET blank(a, b) == IF a = "" THEN b ELSE a
        new == {n \in in.names : Having(st, n.ref) = {}}
    IN  IF i \notin DOMAIN st THEN st
        ELSE [st EXCEPT ![i].names = @ \cup new,
                        ![i].class = blank(@, in.inst.class), ![i].mic = blank(@, NormalizeMIC(in.inst.mic)),
                        ![i].cur = blank(@, in.inst.cur), ![i].cik = blank(@, in.inst.cik)]

NewRow(in) ==
    [class |-> in.inst.class, mic |-> NormalizeMIC(in.inst.mic), cur |-> in.inst.cur, cik |-> in.inst.cik,
     names |-> in.names, under |-> in.under, strike |-> in.strike]

(* A new instrument, unless a name of it has found a holder meanwhile. *)
CreateInstrument(st, i, in) == [j \in DOMAIN st \cup {i} |-> IF j = i THEN NewRow(in) ELSE st[j]]

(* The transaction, given what was read before it began: several found are   *)
(* merged, one without an identity (bare) is completed, one with an identity *)
(* only matched, none is created.                                            *)
EnsureWrites(st, found, survivor, bare, new, in) ==
    CASE Cardinality(found) > 1 -> UpdateInstrumentOnMatch(MergeAll(st, survivor, found), survivor, in)
      [] Cardinality(found) = 1 ->
            IF bare
              THEN UpdateInstrumentOnMatch(MergeIntoInstrument(st, survivor, in), survivor, in)
              ELSE UpdateInstrumentOnMatch(st, survivor, in)
      [] OTHER -> CreateInstrument(st, new, in)
=============================================================================
