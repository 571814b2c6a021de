---------------------------- MODULE Declarations ----------------------------
(***************************************************************************)
(* What a user declares to hold, and the opening balance (the pad) that      *)
(* makes the earliest declaration of a holding true: the three API calls,    *)
(* each of which reads, computes and only then opens its transaction; the    *)
(* recalculation the ingestion worker runs after it has stored postings; the *)
(* declarations a user archive restores.  One user.  The pad's EQUITY leg is *)
(* the USER leg negated on the same key, and is left out.                    *)
(***************************************************************************)
EXTENDS Integers, FiniteSets, FiniteSetsExt

CONSTANTS Holdings,   \* the (broker, account, instrument) keys
          Best,       \* the identifier an export names each holding's instrument by
          Sessions,   \* API calls that can be in flight together
          Worlds      \* name -> [uploads, asks, splits, calls, imports, faults]

VARIABLES world,      \* the name of the world this behaviour is in
          postings,   \* the user's real USER postings
          splits,     \* the stock_splits known so far
          decls,      \* holding_declarations
          pads,       \* the INITIALIZE posting of each holding
          call,       \* what each session is doing
          ingester,   \* what the ingestion worker is doing
          left,       \* the calls, imports and faults still to come; the next id
          dirty       \* holdings whose pad was last settled on stale reads

dvars == <<world, postings, splits, decls, pads, call, ingester, left, dirty>>

W == Worlds[world]
NoDate == 0
None == [day |-> NoDate, qty |-> 0, basis |-> NoDate]
Free == [at |-> "free"]

-----------------------------------------------------------------------------
(* The queries. *)

\* split_factor_at: a holding's postings of basis d, in today's shares.
FactorAt(h, d) ==
    MapThenFoldSet(LAMBDA x, y : x * y, 1, LAMBDA s : s.factor, LAMBDA S : CHOOSE s \in S : TRUE,
                   {s \in splits : s.h = h /\ s.day > d})

\* holding_qty_in_basis: over [from, before), in the share count of basis.
HoldingQty(h, from, before, basis, synthetic) ==
    LET of == {p \in postings : p.h = h} \cup
              IF synthetic /\ pads[h] # None
              THEN {[h |-> h, day |-> pads[h].day, qty |-> pads[h].qty, basis |-> pads[h].basis, pad |-> TRUE]}
              ELSE {}
    IN  MapThenSumSet(LAMBDA p : p.qty * FactorAt(h, p.basis),
                      {p \in of : p.day >= from /\ p.day < before}) \div FactorAt(h, basis)

GetPortfolioStartDate == IF postings = {} THEN NoDate ELSE Min({p.day : p \in postings})

ComputeRunningBalance(h, from, to, basis) == HoldingQty(h, from, to, basis, FALSE)

\* declarationVerify: what the holding comes to at the declaration's date.
ComputedQty(d) == HoldingQty(d.h, NoDate, d.asOf + 1, d.basis, TRUE)

-----------------------------------------------------------------------------
(* Which declaration pads, and with what. *)

\* The earliest.  A pending row (id 0) comes last in the list the code scans
\* for a strictly earlier date.
PadDeclaration(ds) ==
    CHOOSE d \in ds : \A e \in ds : d.asOf < e.asOf \/ (d.asOf = e.asOf /\ d.id >= e.id)

HoldingDeclarations(h, excluded) == {d \in decls : d.h = h /\ d.id # excluded}

\* A pad left to the trigger, which denominates it where it is dated.
InitializeAtStart(h, d, start) ==
    [day |-> start, basis |-> start,
     qty |-> d.qty - ComputeRunningBalance(h, start, d.asOf + 1, d.basis)]

ComputeInitializeValues(h, d, start) ==
    [day |-> start, basis |-> d.basis,
     qty |-> d.qty - ComputeRunningBalance(h, start, d.asOf + 1, d.basis)]

\* The declaration that pads the holding once the write has landed, if any.
PadAfterWrite(h, excluded, pending) ==
    LET ds == HoldingDeclarations(h, excluded) \cup pending
    IN  IF ds = {} THEN {} ELSE {PadDeclaration(ds)}

ShareCountBasis(stated, otherwise) == IF stated = NoDate THEN otherwise ELSE stated

UpsertInitializeTx(h, init) == [pads EXCEPT ![h] = init]
DeleteInitializeTx(h) == [pads EXCEPT ![h] = None]

-----------------------------------------------------------------------------
InitiallyDeclarations ==
    /\ world \in DOMAIN Worlds
    /\ postings = {} /\ splits = {} /\ decls = {}
    /\ pads = [h \in Holdings |-> None]
    /\ call = [s \in Sessions |-> Free]
    /\ ingester = Free
    /\ left = [calls |-> W.calls, imports |-> W.imports, faults |-> W.faults, ids |-> 1]
    /\ dirty = {}

\* dirty: a write from reads that no other write has overtaken settles the pad of
\* its holding, any other leaves it in doubt.  Everyone but `who' has now read
\* something that changes.
Overtaken(calls, who) ==
    [s \in Sessions |-> IF s # who /\ calls[s].at \in {"balance", "write"}
                          THEN [calls[s] EXCEPT !.alone = FALSE] ELSE calls[s]]
WorkerOvertaken ==
    IF ingester.at \in {"prune", "clear", "settle"} THEN [ingester EXCEPT !.alone = FALSE] ELSE ingester

-----------------------------------------------------------------------------
(* The API.  A call reads the row it is about, the start date, the           *)
(* declarations and the balance, one after another, and then writes both the *)
(* row and the pad in one transaction.                                       *)

Opens(s, ask, row, h) ==
    /\ call[s] = Free /\ left.calls > 0
    /\ left' = [left EXCEPT !.calls = @ - 1]
    /\ call' = [call EXCEPT ![s] = [at |-> "start", op |-> ask.op, h |-> h, row |-> row,
                                    start |-> NoDate, pad |-> {}, init |-> None, alone |-> TRUE]]
    /\ UNCHANGED <<world, postings, splits, decls, pads, ingester, dirty>>

CreateHoldingDeclaration(s) ==
    \E ask \in W.asks :
        /\ ask.op = "create"
        /\ Opens(s, ask, [id |-> 0, h |-> ask.h, asOf |-> ask.asOf, qty |-> ask.qty,
                        basis |-> ShareCountBasis(ask.basis, ask.asOf)], ask.h)

UpdateHoldingDeclaration(s) ==
    \E ask \in W.asks, existing \in decls :
        /\ ask.op = "update" /\ ask.h = existing.h
        /\ Opens(s, ask, [existing EXCEPT !.asOf = ask.asOf, !.qty = ask.qty,
                                        !.basis = ShareCountBasis(ask.basis, existing.basis)], existing.h)

DeleteHoldingDeclaration(s) ==
    \E ask \in W.asks, existing \in decls :
        /\ ask.op = "delete" /\ ask.h = existing.h
        /\ Opens(s, ask, existing, existing.h)

\* The start date, which refuses a declaration of a day before it.
ReadStartDate(s) ==
    /\ call[s].at = "start"
    /\ LET c == call[s]
           start == GetPortfolioStartDate
           refused == c.op # "delete" /\ (start = NoDate \/ c.row.asOf < start)
       IN  call' = [call EXCEPT ![s] = IF refused THEN Free ELSE [c EXCEPT !.at = "list", !.start = start]]
    /\ UNCHANGED <<world, postings, splits, decls, pads, ingester, left, dirty>>

\* Then the user's declarations.  A delete from a portfolio with no postings
\* settles on no pad.
ListDeclarations(s) ==
    /\ call[s].at = "list"
    /\ LET c == call[s]
           pending == IF c.op = "delete" THEN {} ELSE {[c.row EXCEPT !.id = 0]}
       IN  call' = [call EXCEPT ![s].at = "balance",
                                ![s].pad = IF c.start = NoDate THEN {} ELSE PadAfterWrite(c.h, c.row.id, pending),
                                ![s].alone = c.start = GetPortfolioStartDate]
    /\ UNCHANGED <<world, postings, splits, decls, pads, ingester, left, dirty>>

\* Then the running balance.
ComputeBalance(s) ==
    /\ call[s].at = "balance"
    /\ LET pad == CHOOSE d \in call[s].pad : TRUE
           init == IF call[s].pad = {} THEN None
                   ELSE ComputeInitializeValues(call[s].h, pad, call[s].start)
       IN  call' = [call EXCEPT ![s].at = "write", ![s].pad = {}, ![s].init = init]
    /\ UNCHANGED <<world, postings, splits, decls, pads, ingester, left, dirty>>

\* Ids are never handed out again.
NextId == left.ids

\* The rows after the write; none when the transaction is refused: the date is
\* taken, or the row is gone.
RowsAfter(c) ==
    LET others == {d \in decls : d.id # c.row.id}
        taken == \E d \in others : d.h = c.h /\ d.asOf = c.row.asOf
        there == \E d \in decls : d.id = c.row.id
    IN  CASE c.op = "create" -> IF taken THEN {} ELSE {decls \cup {[c.row EXCEPT !.id = NextId]}}
          [] c.op = "update" -> IF taken \/ ~there THEN {} ELSE {others \cup {c.row}}
          [] OTHER -> IF ~there THEN {} ELSE {others}

\* Create-, Update- and DeleteDeclarationWithInitializeTx.
WriteDeclaration(s) ==
    /\ call[s].at = "write"
    /\ LET c == call[s] IN
       \E rows \in RowsAfter(c) :
          /\ decls' = rows
          /\ pads' = IF c.init = None THEN DeleteInitializeTx(c.h) ELSE UpsertInitializeTx(c.h, c.init)
          /\ dirty' = IF c.alone /\ \A d \in rows : d.h = c.h => d.asOf >= c.start
                      THEN dirty \ {c.h} ELSE dirty \cup {c.h}
    /\ call' = [Overtaken(call, s) EXCEPT ![s] = Free]
    /\ ingester' = WorkerOvertaken
    /\ left' = IF call[s].op = "create" THEN [left EXCEPT !.ids = @ + 1] ELSE left
    /\ UNCHANGED <<world, postings, splits>>

\* AlreadyExists, or the row was not found: the transaction rolls back.
RefuseDeclaration(s) ==
    /\ call[s].at = "write" /\ RowsAfter(call[s]) = {}
    /\ call' = [call EXCEPT ![s] = Free]
    /\ UNCHANGED <<world, postings, splits, decls, pads, ingester, left, dirty>>

-----------------------------------------------------------------------------
(* The ingestion worker: it stores an upload, restores the declarations a    *)
(* user archive carries, and recalculates.  It is the only writer of         *)
(* postings, so the start date it reads stays true while it works.           *)

\* The declarations part of an export: a denomination that is the
\* declaration's own date is left unsaid.
ListHoldingDeclarationsForExport ==
    {[ref |-> Best[d.h], asOf |-> d.asOf, qty |-> d.qty,
      basis |-> IF d.basis = d.asOf THEN NoDate ELSE d.basis] : d \in decls}

\* An import commits the postings; nothing has been recalculated.
StoreUpload ==
    \E u \in W.uploads :
        /\ ingester = Free /\ left.imports > 0
        /\ left' = [left EXCEPT !.imports = @ - 1]
        /\ postings' = IF u.stores THEN u.txs ELSE postings
        /\ ingester' = [at |-> "restore", rows |-> IF u.own THEN ListHoldingDeclarationsForExport ELSE u.decls,
                      restored |-> {}, stored |-> u.stores]
        /\ call' = IF u.stores THEN Overtaken(call, "worker") ELSE call
        /\ dirty' = IF u.stores THEN dirty \cup {d.h : d \in decls} ELSE dirty
        /\ UNCHANGED <<world, splits, decls, pads>>

\* The holding a row's reference leads to, if it finds one instrument.
FindDeclaredInstrument(ref) ==
    LET found == {h \in Holdings : Best[h] = ref} IN IF Cardinality(found) = 1 THEN found ELSE {}

\* A row taken whenever its instrument is known.
RowTaken(r) == FindDeclaredInstrument(r.ref) # {}

\* The checks of a row.
RowAccepted(r) == FindDeclaredInstrument(r.ref) # {} /\ r.asOf >= GetPortfolioStartDate

\* UpsertHoldingDeclaration on (holding, as_of_date).
Upserted(r, h) ==
    LET same == {d \in decls : d.h = h /\ d.asOf = r.asOf}
        id == IF same = {} THEN NextId ELSE (CHOOSE d \in same : TRUE).id
    IN  (decls \ same) \cup {[id |-> id, h |-> h, asOf |-> r.asOf, qty |-> r.qty,
                              basis |-> ShareCountBasis(r.basis, r.asOf)]}

\* DeclarationPart, a row at a time.
RestoreDeclaration ==
    /\ ingester.at = "restore"
    /\ GetPortfolioStartDate # NoDate
    /\ \E r \in ingester.rows :
         IF RowAccepted(r)
         THEN \E h \in FindDeclaredInstrument(r.ref) :
              /\ decls' = Upserted(r, h)
              /\ ingester' = [ingester EXCEPT !.rows = @ \ {r}, !.stored = TRUE, !.restored = @ \cup {<<h, r.asOf>>}]
              /\ call' = Overtaken(call, "worker")
              /\ dirty' = dirty \cup {h}
              /\ left' = [left EXCEPT !.ids = @ + 1]
         ELSE /\ ingester' = [ingester EXCEPT !.rows = @ \ {r}]
              /\ UNCHANGED <<decls, call, dirty, left>>
    /\ UNCHANGED <<world, postings, splits, pads>>

\* The part ends: no rows left, no postings to anchor one to, or a failed
\* write.  What was stored earns a recalculation.
EndRestore ==
    /\ ingester.at = "restore"
    /\ \/ (ingester.rows = {} \/ GetPortfolioStartDate = NoDate) /\ UNCHANGED left
       \/ ingester.rows # {} /\ left.faults > 0 /\ left' = [left EXCEPT !.faults = @ - 1]
    /\ ingester' = IF ingester.stored THEN [at |-> "list", restored |-> ingester.restored] ELSE Free
    /\ UNCHANGED <<world, postings, splits, decls, pads, call, dirty>>

ByHolding(ds) == {d.h : d \in ds}

\* RecalcAllInitializeTxs reads the declarations and the start date.
RecalcList ==
    /\ ingester.at = "list"
    /\ ingester' =
         IF decls = {} THEN Free
         ELSE IF GetPortfolioStartDate = NoDate
         THEN [at |-> "clear", todo |-> ByHolding(decls), kept |-> {}, start |-> NoDate,
               of |-> ByHolding(decls), restored |-> {}, alone |-> TRUE]
         ELSE [at |-> "prune", todo |-> {d \in decls : d.asOf < GetPortfolioStartDate},
               kept |-> {d \in decls : d.asOf >= GetPortfolioStartDate},
               start |-> GetPortfolioStartDate, of |-> ByHolding(decls),
               restored |-> ingester.restored, alone |-> TRUE]
    /\ UNCHANGED <<world, postings, splits, decls, pads, call, left, dirty>>

\* pruneBeforeStart: a row the user has deleted meanwhile ends it in an error.
PruneBeforeStart ==
    /\ ingester.at = "prune" /\ ingester.todo # {}
    /\ \E d \in ingester.todo :
         IF \E e \in decls : e.id = d.id
         THEN /\ decls' = {e \in decls : e.id # d.id}
              /\ ingester' = [ingester EXCEPT !.todo = @ \ {d}]
              /\ call' = Overtaken(call, "worker")
              /\ dirty' = dirty \cup {d.h}
         ELSE ingester' = Free /\ UNCHANGED <<decls, call, dirty>>
    /\ UNCHANGED <<world, postings, splits, pads, left>>

Pruned ==
    /\ ingester.at = "prune" /\ ingester.todo = {}
    /\ ingester' = [ingester EXCEPT !.at = "clear", !.todo = ingester.of \ ByHolding(ingester.kept)]
    /\ UNCHANGED <<world, postings, splits, decls, pads, call, left, dirty>>

\* The emptied holdings lose their pads.
ClearPad ==
    /\ ingester.at = "clear" /\ ingester.todo # {}
    /\ \E h \in ingester.todo :
         /\ pads' = DeleteInitializeTx(h)
         /\ ingester' = [ingester EXCEPT !.todo = @ \ {h}]
         /\ dirty' = IF ingester.alone THEN dirty ELSE dirty \cup {h}
    /\ UNCHANGED <<world, postings, splits, decls, call, left>>

Cleared ==
    /\ ingester.at = "clear" /\ ingester.todo = {}
    /\ ingester' = [ingester EXCEPT !.at = "settle", !.todo = ByHolding(ingester.kept)]
    /\ UNCHANGED <<world, postings, splits, decls, pads, call, left, dirty>>

\* recalcHoldingPad, from the declarations as they were listed.
RecalcHoldingPad ==
    /\ ingester.at = "settle" /\ ingester.todo # {}
    /\ \E h \in ingester.todo :
         /\ LET pad == PadDeclaration({d \in ingester.kept : d.h = h})
            IN  pads' = UpsertInitializeTx(h, ComputeInitializeValues(h, pad, ingester.start))
         /\ ingester' = [ingester EXCEPT !.todo = @ \ {h}]
         /\ dirty' = IF ingester.alone THEN dirty ELSE dirty \cup {h}
    /\ UNCHANGED <<world, postings, splits, decls, call, left>>

EndRecalc ==
    /\ ingester.at = "settle" /\ ingester.todo = {}
    /\ ingester' = Free
    /\ dirty' = IF ingester.alone THEN dirty \ ingester.of ELSE dirty
    /\ UNCHANGED <<world, postings, splits, decls, pads, call, left>>

\* A database error: the recalculation is logged and abandoned.
RecalcFails ==
    /\ ingester.at \in {"list", "prune", "clear", "settle"} /\ left.faults > 0
    /\ left' = [left EXCEPT !.faults = @ - 1]
    /\ ingester' = Free
    /\ UNCHANGED <<world, postings, splits, decls, pads, call, dirty>>

-----------------------------------------------------------------------------
\* The corporate event worker stores a split; it recalculates no pad.
DiscoverSplit ==
    /\ \E s \in W.splits \ splits :
         /\ splits' = splits \cup {s}
         /\ dirty' = dirty \cup {s.h}
    /\ call' = Overtaken(call, "worker")
    /\ ingester' = WorkerOvertaken
    /\ UNCHANGED <<world, postings, decls, pads, left>>

\* The process dies: the calls and the recalculation with it.
Crash ==
    /\ left.faults > 0 /\ (ingester # Free \/ \E s \in Sessions : call[s] # Free)
    /\ left' = [left EXCEPT !.faults = @ - 1]
    /\ call' = [s \in Sessions |-> Free] /\ ingester' = Free
    /\ UNCHANGED <<world, postings, splits, decls, pads, dirty>>

Work == StoreUpload \/ RestoreDeclaration \/ EndRestore \/ RecalcList \/ PruneBeforeStart \/ Pruned
        \/ ClearPad \/ Cleared \/ RecalcHoldingPad \/ EndRecalc

Serve(s) == ReadStartDate(s) \/ ListDeclarations(s) \/ ComputeBalance(s) \/ WriteDeclaration(s) \/ RefuseDeclaration(s)

DeclarationsNext ==
    \/ \E s \in Sessions : \/ CreateHoldingDeclaration(s) \/ UpdateHoldingDeclaration(s)
                           \/ DeleteHoldingDeclaration(s) \/ Serve(s)
    \/ Work \/ RecalcFails \/ DiscoverSplit \/ Crash

-----------------------------------------------------------------------------
(* Declarations and pads are well formed; no holding is declared twice at a  *)
(* date (the unique key of holding_declarations).                            *)
DeclarationsTypeOK ==
    /\ \A p \in postings : p.h \in Holdings /\ p.day > NoDate
    /\ \A d \in decls : d.id > 0 /\ d.h \in Holdings /\ d.asOf > NoDate /\ d.basis > NoDate /\ d.qty \in Int
    /\ \A d, e \in decls : (d.id = e.id \/ (d.h = e.h /\ d.asOf = e.asOf)) => d = e
    /\ DOMAIN pads = Holdings
    /\ \A h \in Holdings : pads[h] = None \/ (pads[h].day > NoDate /\ pads[h].basis > NoDate)
    /\ dirty \subseteq Holdings
    /\ ingester.at \in {"free", "restore", "list", "prune", "clear", "settle"}
    /\ \A s \in Sessions : call[s].at \in {"free", "start", "list", "balance", "write"}

(* A holding with declarations, in a portfolio with postings, has a pad and  *)
(* comes to what its earliest declaration says at its date and in its own    *)
(* share count; any other holding has no pad.                                *)
PadTrue(h) ==
    LET mine == {d \in decls : d.h = h}
    IN  IF mine = {} \/ postings = {} THEN pads[h] = None
        ELSE pads[h] # None /\ ComputedQty(PadDeclaration(mine)) = PadDeclaration(mine).qty

(* padAfterWrite and RecalcAllInitializeTxs: whatever is in flight, and      *)
(* whichever of create, update, delete, restore, prune and recalculation     *)
(* wrote it last, the pad of a holding makes its earliest declaration true,  *)
(* unless its last writer had been overtaken between its reads and its       *)
(* write, or postings, splits or a lost recalculation have moved since.      *)
PadIsTrue == \A h \in Holdings \ dirty : PadTrue(h)

(* DeclarationPart rejects what the recalculation would take away: no        *)
(* declaration a user archive restored is pruned by the recalculation of the *)
(* same job.                                                                 *)
RestoredIsKept ==
    (ingester.at = "prune" /\ ingester' # Free /\ ingester'.todo # ingester.todo) =>
        \A d \in decls \ decls' : <<d.h, d.asOf>> \notin ingester.restored

(* A user's own export, restored into the account it came from, leaves every *)
(* declaration as it is: the denomination the export leaves unsaid is the    *)
(* one the import supplies.                                                  *)
ExportRestores ==
    \A r \in ListHoldingDeclarationsForExport :
       RowAccepted(r) => \A h \in FindDeclaredInstrument(r.ref) : Upserted(r, h) = decls

(* What an archive carries of declarations comes back: an export restores    *)
(* what it was taken from, and the job that restores it keeps it.  The       *)
(* tables stay of their types, and a holding has one row a day.              *)
ArchiveKeepsDeclarations == [][DeclarationsTypeOK' /\ ExportRestores' /\ RestoredIsKept]_dvars

=============================================================================
