----------------------------- MODULE MCServices -----------------------------
(***************************************************************************)
(* Four services that share nothing but the database, side by side in one    *)
(* model: each behaviour runs one of them, from its own start.               *)
(***************************************************************************)
EXTENDS Declarations, PluginConfig, InflationFetch, Migrations

VARIABLE part

vars == <<part, dvars, pvars, ivars, mvars>>

(***************************************************************************)
(* Instances: calls on one holding while an import moves the start date or   *)
(* restores declarations and a split is found late; two builds, the second   *)
(* with two more plugins, one that gets no row; archives that name a part of *)
(* the plugins, one twice over or one nobody has; two index providers, the   *)
(* first late and short; two processes, one a version ahead.                 *)
(***************************************************************************)
Tx(h, day, qty) == [h |-> h, day |-> day, qty |-> qty, basis |-> day]
Declared(ref, asOf, qty, basis) == [ref |-> ref, asOf |-> asOf, qty |-> qty, basis |-> basis]
Asks(op, h, asOf, qty, basis) == [op |-> op, h |-> h, asOf |-> asOf, qty |-> qty, basis |-> basis]

Upload(txs) == [stores |-> TRUE, txs |-> txs, decls |-> {}, own |-> FALSE]
Archive(txs, ds) == [stores |-> TRUE, txs |-> txs, decls |-> ds, own |-> FALSE]
OnlyDeclarations(ds) == [stores |-> FALSE, txs |-> {}, decls |-> ds, own |-> FALSE]
OwnExport == [stores |-> FALSE, txs |-> {}, decls |-> {}, own |-> TRUE]

\* Histories that start on day 1, on day 2, and none.
Early == {Tx("h1", 1, 4), Tx("h1", 3, 8)}
Late == {Tx("h1", 2, 4), Tx("h2", 3, 4)}

\* Two users' tabs and an import that moves the start date.
Racing ==
    [uploads |-> {Upload(Early), Upload(Late), Upload({})}, splits |-> {}, calls |-> 3, imports |-> 2, faults |-> 0,
     asks |-> {Asks("create", "h1", 1, 10, 0), Asks("create", "h1", 3, 20, 0),
               Asks("update", "h1", 2, 16, 0), Asks("delete", "h1", 0, 0, 0)}]
\* A split of h1 on day 3, known from the start or found later.
Splitting ==
    [uploads |-> {Upload(Early)}, splits |-> {[h |-> "h1", day |-> 3, factor |-> 2]}, calls |-> 2, imports |-> 2, faults |-> 0,
     asks |-> {Asks("create", "h1", 2, 10, 0), Asks("create", "h1", 2, 20, 3), Asks("create", "h1", 3, 40, 0),
               Asks("update", "h1", 3, 24, 0), Asks("delete", "h1", 0, 0, 0)}]
\* Archives with and without postings, and faults.
Restoring ==
    [uploads |-> {Archive(Late, {Declared("isin1", 1, 6, 0), Declared("isin1", 3, 12, 2), Declared("isin2", 3, 6, 0), Declared("isin3", 3, 6, 0)}),
                  OnlyDeclarations({Declared("isin1", 2, 6, 0), Declared("isin2", 3, 2, 0)}), OwnExport, Upload(Early)},
     splits |-> {}, calls |-> 1, imports |-> 2, faults |-> 1,
     asks |-> {Asks("create", "h2", 3, 8, 2), Asks("delete", "h1", 0, 0, 0)}]

WorldsDef == [racing |-> Racing, splitting |-> Splitting, restoring |-> Restoring]
BestDef == [h \in {"h1", "h2"} |-> IF h = "h1" THEN "isin1" ELSE "isin2"]

BuildsDef == <<<<"a", "b">>, <<"a", "b", "d", "c">>>>
ChosenDef == {-20, 5}
FileRow(p, prec) == [plugin |-> p, enabled |-> TRUE, prec |-> prec]
FilesDef == {<<FileRow("b", 10), FileRow("a", 20)>>, <<FileRow("c", 1)>>,
             <<FileRow("a", 5), FileRow("b", 5)>>, <<FileRow("z", 9), FileRow("b", 2)>>}

CurrenciesDef == <<"GBP", "USD">>

ProvidersDef == <<[id |-> "late", ccys |-> {"GBP"}, from |-> 2, lag |-> 1],
                  [id |-> "wide", ccys |-> {"GBP", "USD"}, from |-> 1, lag |-> 0]>>

VersionsDef == [s \in {"old", "new"} |-> IF s = "old" THEN <<1, 2>> ELSE <<1, 2, 3>>]

Init ==
    /\ part \in {"declarations", "plugins", "inflation", "migrations"}
    /\ InitiallyDeclarations /\ (part # "declarations" => world = "racing")
    /\ Initially /\ InitiallyInflation /\ InitiallyMigrations
    /\ part # "inflation" => alike

Declaration == part = "declarations" /\ DeclarationsNext /\ UNCHANGED <<part, pvars, ivars, mvars>>
Plugin == part = "plugins" /\ PluginNext /\ UNCHANGED <<part, dvars, ivars, mvars>>
Inflation == part = "inflation" /\ InflationNext /\ UNCHANGED <<part, dvars, pvars, mvars>>
Migration == part = "migrations" /\ MigrationsNext /\ UNCHANGED <<part, dvars, pvars, ivars>>

Next == Declaration \/ Plugin \/ Inflation \/ Migration

Cycle == part = "inflation" /\ CycleStep /\ UNCHANGED <<part, dvars, pvars, mvars>>
Up(p) == part = "migrations" /\ UpStep(p) /\ UNCHANGED <<part, dvars, pvars, ivars>>

(* The worker goroutine keeps running, and so does a process that starts.    *)
Spec == Init /\ [][Next]_vars /\ WF_vars(Cycle) /\ \A p \in Procs : WF_vars(Up(p))

\* GapsAreFilled, for as long as somebody keeps asking for a cycle.
AskedGapsAreFilled == (part = "inflation" /\ []<>waiting) => GapsAreFilled

\* Inflation catches up: a cycle asks for everything missing, every request gets a cycle,
\* and with requests coming the published months are stored.
InflationCatchesUp ==
    []InflationTypeOK /\ AsksForWhatIsMissing /\ RequestsAreServed /\ AskedGapsAreFilled
=============================================================================
