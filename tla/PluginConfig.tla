---------------------------- MODULE PluginConfig ----------------------------
(***************************************************************************)
(* The plugin_config rows of one category: the rows a build creates when it  *)
(* starts, the administrator's updates and reorderings, and an archive's     *)
(* restore.  A row is a plugin's [enabled, prec]; precedence is unique, and  *)
(* checked after each statement unless a transaction defers it to its end.   *)
(* A statement that breaks the constraint undoes what its transaction did.   *)
(* Rows appear only while no request is served, so what a call read of which *)
(* rows exist still holds when its transaction runs: a call is one step.     *)
(***************************************************************************)
EXTENDS Integers, Sequences, FiniteSets, FiniteSetsExt, SequencesExt, Orders

CONSTANTS Plugins,      \* plugin ids
          Builds,       \* builds: the plugins of each in order of registration
          Bare,         \* the plugins without a default configuration
          Files,        \* archives someone wrote by hand: sequences of file rows
          Chosen,       \* precedences an administrator may type
          MaxSteps      \* bound on starts, calls and imports

VARIABLES rows,         \* plugin -> row, for the plugins that have one
          build,        \* what is running, <<>> while stopped
          archive,      \* the last export, a sequence of file rows
          last,         \* the last operation: what it was, how it ended
          steps

pvars == <<rows, build, archive, last, steps>>

Row(enabled, prec) == [enabled |-> enabled, prec |-> prec]

Distinct(r) == \A p, q \in DOMAIN r : p # q => r[p].prec # r[q].prec

(* Highest precedence first.                                                *)
InOrder(r) == Sorted(DOMAIN r, LAMBDA p, q : r[p].prec > r[q].prec)

(* A transaction in progress: [rows, ok].  A statement that leaves two rows  *)
(* with one precedence fails.                                                *)
Statement(tx, r) ==
    IF tx.ok /\ Distinct(r) THEN [rows |-> r, ok |-> TRUE] ELSE [tx EXCEPT !.ok = FALSE]

Begin == [rows |-> rows, ok |-> TRUE]

(***************************************************************************)
(* Startup.  Each insert commits on its own; a failure stops the process.    *)
(***************************************************************************)
InsertPluginConfig(tx, p, prec) ==
    Statement(tx, [q \in DOMAIN tx.rows \cup {p} |->
                      IF q = p THEN Row(FALSE, prec) ELSE tx.rows[q]])

EnsurePluginConfigs(ids) ==
    Loop(LAMBDA tx, i : IF ids[i] \in DOMAIN tx.rows \cup Bare \/ ~tx.ok THEN tx
                        ELSE InsertPluginConfig(tx, ids[i], 10 * i),
         Begin, [i \in DOMAIN ids |-> i])

(***************************************************************************)
(* The administrator.                                                        *)
(***************************************************************************)
(* enabled and prec are the fields the request sets, {} where it has none.   *)
UpdatePluginConfig(p, enabled, prec) ==
    IF p \notin DOMAIN rows THEN [rows |-> rows, ok |-> FALSE]
    ELSE Statement(Begin, [rows EXCEPT ![p] = [enabled |-> IF enabled = {} THEN @.enabled
                                                          ELSE CHOOSE e \in enabled : TRUE,
                                               prec |-> IF prec = {} THEN @.prec
                                                        ELSE CHOOSE n \in prec : TRUE]])

(* Deferred: only the rows that the whole list leaves are checked.           *)
ReorderPluginConfigs(ids) ==
    Statement(Begin, Loop(LAMBDA r, i : [r EXCEPT ![ids[i]].prec = Len(ids) - i + 1],
                          rows, [i \in DOMAIN ids |-> i]))

ReorderPlugins(ids) ==
    IF Len(ids) # Cardinality(DOMAIN rows) \/ ~(Range(ids) \subseteq DOMAIN rows)
    THEN [rows |-> rows, ok |-> FALSE]
    ELSE ReorderPluginConfigs(ids)

(***************************************************************************)
(* The archive.                                                              *)
(***************************************************************************)
ListAllPluginConfigs ==
    LET order == InOrder(rows)
    IN  [i \in DOMAIN order |-> [plugin |-> order[i]] @@ rows[order[i]]]

Negated(tx) == Statement(tx, [p \in DOMAIN tx.rows |-> [tx.rows[p] EXCEPT !.prec = -@]])

(* The plugins the file does not name, highest precedence first: once        *)
(* negated, the lowest.                                                      *)
UnnamedPluginIDs(tx, named) ==
    Reverse(SelectSeq(InOrder(tx.rows), LAMBDA p : p \notin named))

Demoted(tx, unnamed) ==
    Loop(LAMBDA t, i : Statement(t, [t.rows EXCEPT ![unnamed[i]].prec = Len(unnamed) - i + 1]),
         tx, [i \in DOMAIN unnamed |-> i])

Applied(tx, file, offset) ==
    Loop(LAMBDA t, i : Statement(t, [t.rows EXCEPT
                                        ![file[i].plugin] = Row(file[i].enabled,
                                                                file[i].prec + offset)]),
         tx, [i \in DOMAIN file |-> i])

(* A mutant: the rows are written over the ones that hold their values.     *)
RestoreInPlace(file) ==
    LET unnamed == SelectSeq(InOrder(rows), LAMBDA p : p \notin {file[i].plugin : i \in DOMAIN file})
    IN  Applied(Demoted(Begin, unnamed), file, Len(unnamed))

RestorePluginConfigs(file) ==
    IF file = <<>> THEN Begin
    ELSE LET tx      == Negated(Begin)
             unnamed == UnnamedPluginIDs(tx, {file[i].plugin : i \in DOMAIN file})
         IN  Applied(Demoted(tx, unnamed), file, Len(unnamed))

(* Rows of plugins this build has no row for are reported and left out; an   *)
(* archive with a precedence below one does not pass validation.             *)
PluginConfigPart(file) ==
    IF \E i \in DOMAIN file : file[i].prec < 1 THEN [rows |-> rows, ok |-> FALSE]
    ELSE RestorePluginConfigs(SelectSeq(file, LAMBDA f : f.plugin \in DOMAIN rows))

(***************************************************************************)
(* Steps.  A call that fails leaves the rows alone.                          *)
(***************************************************************************)
Initially ==
    /\ rows = [p \in {} |-> Row(FALSE, 0)] /\ build = <<>> /\ archive = <<>>
    /\ last = [op |-> "none", ok |-> TRUE, file |-> <<>>] /\ steps = 0

Did(op, ok, file) ==
    /\ steps < MaxSteps /\ steps' = steps + 1
    /\ last' = [op |-> op, ok |-> ok, file |-> file]

Call(op, tx, file) ==
    /\ build # <<>> /\ Did(op, tx.ok, file)
    /\ rows' = IF tx.ok THEN tx.rows ELSE rows
    /\ UNCHANGED <<build, archive>>

Start(b) ==
    /\ build = <<>>
    /\ \E tx \in {EnsurePluginConfigs(Builds[b])} :
          /\ Did("start", tx.ok, <<>>) /\ rows' = tx.rows
          /\ build' = IF tx.ok THEN Builds[b] ELSE <<>>
    /\ UNCHANGED archive

Stop == build # <<>> /\ build' = <<>> /\ Did("stop", TRUE, <<>>) /\ UNCHANGED <<rows, archive>>

Update ==
    \E p \in Plugins, e \in {{}, {TRUE}}, n \in {{}} \cup {{c} : c \in Chosen} :
        Call("update", UpdatePluginConfig(p, e, n), <<>>)

Reorder ==
    \E ids \in [1 .. Cardinality(DOMAIN rows) -> Plugins] :
        ids # <<>> /\ Call("reorder", ReorderPlugins(ids), <<>>)

Export == /\ build # <<>> /\ archive' = ListAllPluginConfigs
          /\ Did("export", TRUE, <<>>) /\ UNCHANGED <<rows, build>>

Import == \E file \in Files \cup {archive} : Call("import", PluginConfigPart(file), file)

PluginNext == Start(1) \/ Start(2) \/ Stop \/ Update \/ Reorder \/ Export \/ Import

(***************************************************************************)
(* Properties.                                                               *)
(***************************************************************************)
\* Rows are of their columns' types, and precedences are distinct (the unique key).
PluginTypeOK ==
    /\ DOMAIN rows \subseteq Plugins
    /\ \A p \in DOMAIN rows : rows[p] \in [enabled : BOOLEAN, prec : Int]
    /\ Distinct(rows)

Known(file) == SelectSeq(file, LAMBDA f : f.plugin \in DOMAIN rows)
Named(file) == {Known(file)[i].plugin : i \in DOMAIN Known(file)}

\* A restore that commits ranks the plugins the archive names as the archive does, ranks
\* each of them above every plugin it does not name, and leaves those in the order they
\* were in: RestorePluginConfigs, from any stored precedences, negative ones included.
RestoreRanks ==
    (last'.op = "import" /\ last'.ok /\ steps' # steps) =>
        LET file == Known(last'.file)
            Above(p, q) == rows'[p].prec > rows'[q].prec
            rest == DOMAIN rows \ Named(last'.file)
        IN  file # <<>> =>
            /\ \A i, j \in DOMAIN file :
                  file[i].prec > file[j].prec => Above(file[i].plugin, file[j].plugin)
            /\ \A p \in Named(last'.file), q \in rest : Above(p, q)
            /\ \A p, q \in rest : rows[p].prec > rows[q].prec => Above(p, q)

\* A restore is refused only when the archive gives two plugins one precedence, or one
\* below 1, or when a stored precedence was not positive: from positive ones no step
\* writes a value that another row still holds, whatever the two orders are.
RestoreCommits ==
    (last'.op = "import" /\ ~last'.ok /\ steps' # steps) =>
        LET file == Known(last'.file)
        IN  \/ \E i \in DOMAIN last'.file : last'.file[i].prec < 1
            \/ \E i, j \in DOMAIN file : i # j /\ file[i].prec = file[j].prec
            \/ \E p \in DOMAIN rows : rows[p].prec <= 0

\* A restore is faithful: it ranks as the archive does, and nothing but the archive or a
\* precedence that was not positive keeps it from committing.  No two rows ever tie.
RestoreIsFaithful == [][PluginTypeOK' /\ RestoreRanks /\ RestoreCommits]_pvars
=============================================================================
