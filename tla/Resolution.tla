----------------------------- MODULE Resolution -----------------------------
(***************************************************************************)
(* Resolving the rows of an import to instruments: the pre-pass of a batch,  *)
(* the resolver with its plugins and its recursion into an underlying, and   *)
(* EnsureInstrument, whose lookups are made before its transaction begins    *)
(* (server/service/ingestion, server/service/identification).  One worker    *)
(* takes imports one at a time; the option pass of the corporate event       *)
(* worker and the users act between any two of its steps.                    *)
(*                                                                           *)
(* A world fixes the imports and how often each may be made, what plugins    *)
(* may answer, what the candidate plugins may offer and what each name truly *)
(* denotes: an answer is true of the key that was put, an offer may be wrong.*)
(***************************************************************************)
EXTENDS Instruments, TLC

CONSTANTS Worlds,   \* the situations checked, by name
          MaxResolveDepth

VARIABLES world,    \* the situation, chosen once
          store,    \* the instruments
          next,     \* the id of the next instrument
          posts,    \* the stored postings: [up, row, inst, named]
          declared, \* the instruments some holding declaration names
          job,      \* the import being processed
          stack,    \* the resolutions in progress, the innermost last
          tries,    \* how often each import was made
          last      \* how the last import ended

\* The situation.
W == Worlds[world]

vars == <<world, store, next, posts, declared, job, stack, tries, last>>

Blank == [class |-> "", mic |-> "", country |-> "", cur |-> "", cik |-> ""]
Desc(d) == [type |-> "BROKER_DESCRIPTION", dom |-> "src", val |-> d]
Canonical(ids) == {[ref |-> id, canon |-> TRUE] : id \in ToSet(ids)}
Described(d) == {[ref |-> Desc(d), canon |-> FALSE]}
DescribedOnly(d) == [inst |-> Blank, names |-> Described(d), under |-> 0, strike |-> 0]

NoJob == [up |-> 0, at |-> "idle"]

(* What a batch resolves a row under: the description and the type and value *)
(* of each stated identifier, in no order.                                   *)
CacheKeyWithHints(row) == <<row.desc, {<<h.type, h.val>> : h \in ToSet(row.stated)}>>

Init ==
    /\ world \in DOMAIN Worlds
    /\ store = W.store
    /\ next = Cardinality(DOMAIN W.store) + 1
    /\ posts = {} /\ declared = {}
    /\ job = NoJob /\ stack = <<>>
    /\ tries = [u \in DOMAIN W.imports |-> 0]
    /\ last = [up |-> 0, why |-> "none"]

-----------------------------------------------------------------------------
(* Beginning and ending an import. *)
Begin(u) ==
    /\ job.at = "idle"
    /\ tries[u] < W.tries
    /\ tries' = [tries EXCEPT ![u] = @ + 1]
    /\ job' = [up |-> u,
               at |-> IF W.imports[u].kind \in {"txs", "restored"} THEN "prepass" ELSE "rows",
               ids |-> <<>>, cache |-> <<>>, conflicts |-> {}, descOnly |-> <<>>, proposed |-> <<>>,
               by |-> <<>>, fell |-> {}]
    /\ UNCHANGED <<world, store, next, posts, declared, stack, last>>

Import == W.imports[job.up]
Row == Import.rows[Len(job.ids) + 1]
Top == stack[Len(stack)]
Pop == SubSeq(stack, 1, Len(stack) - 1)
WithTop(f) == [stack EXCEPT ![Len(stack)] = f]

Ends(why) == job' = NoJob /\ stack' = <<>> /\ last' = [up |-> job.up, why |-> why]

(* The pre-pass: every key is looked up, by its identifiers or else by its   *)
(* description; the keys left open are offered to the candidate plugins.     *)
Keys == {CacheKeyWithHints(Import.rows[i]) : i \in DOMAIN Import.rows}
RowOf(k) == Import.rows[Lowest({i \in DOMAIN Import.rows : CacheKeyWithHints(Import.rows[i]) = k})]
LookedUp(k) ==
    IF RowOf(k).stated # <<>> THEN ResolveIDsByHintsDBOnly(store, RowOf(k).stated)
    ELSE {FindInstrumentByIdentifier(store, Desc(RowOf(k).desc))} \ {0}
Provisional(k) == FindDescriptionOnlyInstrument(store, Desc(RowOf(k).desc))
Asked(k) ==
    /\ LookedUp(k) = {}
    /\ RowOf(k).stated # <<>> => Import.kind = "txs" /\ ~IdentityComplete(RowOf(k).stated)
ProposeCandidates ==
    /\ job.at = "prepass"
    /\ \E offer \in [{k \in Keys : Asked(k)} -> W.offers] :
          job' = [job EXCEPT
                    !.at = "rows",
                    !.cache = [k \in {x \in Keys : Cardinality(LookedUp(x)) = 1} |-> TheOnly(LookedUp(k))],
                    !.conflicts = {k \in Keys : Cardinality(LookedUp(k)) > 1},
                    !.descOnly = [k \in {x \in Keys : /\ LookedUp(x) = {} /\ RowOf(x).stated # <<>>
                                                      /\ Provisional(x) # 0} |-> Provisional(k)],
                    !.proposed = [k \in DOMAIN offer |-> ProposalFilter(offer[k])]]
    /\ UNCHANGED <<world, store, next, posts, declared, stack, tries, last>>

-----------------------------------------------------------------------------
(* One resolution: how it is keyed, whether the description is to be bound,  *)
(* what it falls back on, and how far it has got.                            *)
Resolving(ident, bind, fb, depth, purpose) ==
    [at |-> "lookup", ident |-> ident, bind |-> bind, fb |-> fb, depth |-> depth, purpose |-> purpose,
     in |-> [inst |-> Blank, names |-> {}, under |-> 0, strike |-> 0], found |-> {}, survivor |-> 0, bare |-> FALSE,
     answers |-> <<>>]

Said(row) == [cur |-> row.cur, class |-> row.class, kind |-> row.kind]
Identity(row, ids) == [stated |-> row.stated, proposed |-> ids, said |-> Said(row)]
Ensuring(f, in) == [f EXCEPT !.at = "ensure", !.in = in]

(* What a resolution falls back on: the description alone, or the one        *)
(* identifier a price row was written with, an option's underlying looked up *)
(* by the root of its symbol.                                                *)
Fallback(f) ==
    CASE f.fb = "desc" -> DescribedOnly(Row.desc)
      [] f.fb = "supplied" ->
            LET ticker == [type |-> "MIC_TICKER", dom |-> "", val |-> Row.root]
                root == IF Row.class = "OPTION" /\ Row.root # "" THEN <<ticker>> ELSE <<>>
            IN  [inst |-> [Blank EXCEPT !.class = Row.class, !.cur = Row.cur],
                 names |-> Canonical(Row.stated),
                 under |-> TheOnly(ResolveIDsByHintsDBOnly(store, root)),
                 strike |-> OptionFields(Row.class, Row.stated)]

Proposed(k) == IF k \in DOMAIN job.proposed THEN job.proposed[k] ELSE <<>>
OfType(ids, type) == SelectSeq(ids, LAMBDA id : id.type = type)
TwoKeys(ids) == OfType(ids, "MIC_TICKER") # <<>> /\ OfType(ids, "OPENFIGI_SHARE_CLASS") # <<>>

Guess(ids, purpose) ==
    Resolving([stated |-> <<>>, proposed |-> ids, said |-> Said(Row)], TRUE, "desc", 0, purpose)

(* The next resolution a row calls for.  An offer of a ticker and of a FIGI  *)
(* is first resolved by each alone; where they part the ticker is used.      *)
NextGuess(ids) ==
    CASE ~TwoKeys(ids) -> Guess(ids, "primary")
      [] TwoKeys(ids) /\ job.by = <<>> -> Guess(OfType(ids, "MIC_TICKER"), "probe")
      [] TwoKeys(ids) /\ Len(job.by) = 1 -> Guess(OfType(ids, "OPENFIGI_SHARE_CLASS"), "probe")
      [] OTHER -> LET apart == 0 \notin ToSet(job.by) /\ job.by[1] # job.by[2]
                  IN  Guess(IF apart THEN OfType(ids, "MIC_TICKER") ELSE ids, "primary")

AtRow(kinds) ==
    /\ job.at = "rows" /\ stack = <<>>
    /\ Len(job.ids) < Len(Import.rows) /\ Import.kind \in kinds

RowFromCache ==
    /\ AtRow({"txs", "restored"})
    /\ CacheKeyWithHints(Row) \in DOMAIN job.cache
    /\ job' = [job EXCEPT !.ids = Append(@, job.cache[CacheKeyWithHints(Row)])]
    /\ UNCHANGED <<world, store, next, posts, declared, stack, tries, last>>

RowConflicting ==
    /\ AtRow({"txs", "restored"})
    /\ CacheKeyWithHints(Row) \in job.conflicts
    /\ Ends("conflict")
    /\ UNCHANGED <<world, store, next, posts, declared, tries>>

Resolve ==
    /\ AtRow({"txs", "restored"})
    /\ LET k == CacheKeyWithHints(Row)
       IN  /\ k \notin DOMAIN job.cache /\ k \notin job.conflicts
           /\ stack' = <<CASE Row.stated # <<>> ->
                                Resolving(Identity(Row, Proposed(k)), k \in DOMAIN job.descOnly,
                                          "desc", 0, "primary")
                           [] Row.stated = <<>> /\ Proposed(k) = <<>> ->
                                Ensuring(Guess(<<>>, "primary"), DescribedOnly(Row.desc))
                           [] OTHER -> NextGuess(Proposed(k))>>
    /\ UNCHANGED <<world, store, next, posts, declared, job, tries, last>>

(* A row of a price or event file names its instrument itself; without an    *)
(* asset class no plugin is asked.                                           *)
ResolveSupplied ==
    /\ AtRow({"prices"})
    /\ stack' = <<Resolving(Identity(Row, <<>>), FALSE, "supplied", 0,
                            IF Row.class = "" THEN "lookup only" ELSE "primary")>>
    /\ UNCHANGED <<world, store, next, posts, declared, job, tries, last>>

(* An instrument of an archive is ensured as the file states it, under an    *)
(* underlying ensured before it or already known, and then filled in.        *)
EnsureArchiveInstrument ==
    /\ AtRow({"archive"})
    /\ LET before == {j \in DOMAIN job.ids : /\ job.ids[j] # 0 /\ Row.ref # <<>>
                                              /\ Row.ref[1] \in ToSet(Import.rows[j].stated)}
           under == CASE Row.ref = <<>> -> 0
                      [] before # {} -> job.ids[Lowest(before)]
                      [] OTHER -> FindInstrumentByIdentifier(store, Row.ref[1])
           described == IF Row.desc = "" THEN {} ELSE Described(Row.desc)
           in == [inst |-> Row.inst, names |-> Canonical(Row.stated) \cup described,
                  under |-> under, strike |-> Row.strike]
           frame == Resolving(Identity(Row, <<>>), FALSE, "none", 0, "archive")
       IN  IF Row.ref # <<>> /\ under = 0
             THEN job' = [job EXCEPT !.ids = Append(@, 0)] /\ UNCHANGED stack
             ELSE /\ stack' = <<Ensuring(frame, in)>>
                  /\ UNCHANGED job
    /\ UNCHANGED <<world, store, next, posts, declared, tries, last>>

-----------------------------------------------------------------------------
ReturnsBelow(id) ==
    /\ stack' = [Pop EXCEPT ![Len(stack) - 1].at = "decide", ![Len(stack) - 1].in.under = id]
    /\ UNCHANGED <<job, last>>
(* A history: the keys of the batch whose resolution came down to the        *)
(* description alone, which a posting stored under one is not named by.      *)
FellBack(f) == f.in.names # {} /\ \A n \in f.in.names : ~n.canon
RowResolved(id) ==
    job' = [job EXCEPT !.ids = Append(@, id), !.by = <<>>,
              !.fell = IF FellBack(Top) THEN @ \cup {CacheKeyWithHints(Row)} ELSE @,
              !.cache = IF Import.kind \in {"txs", "restored"} THEN (CacheKeyWithHints(Row) :> id) @@ @ ELSE @]

(* A resolution's result goes to the one that asked: an underlying's to its  *)
(* derivative, the row's to the row.  An error, id 0, costs a derivative its *)
(* underlying and an archive or a price file the row; it ends a batch.       *)
Returns(id) ==
    IF Top.depth > 0
      THEN ReturnsBelow(id)
      ELSE CASE Top.purpose = "probe" ->
                  stack' = <<>> /\ job' = [job EXCEPT !.by = Append(@, id)] /\ UNCHANGED last
             [] Top.purpose # "probe" /\ (id # 0 \/ Import.kind \in {"prices", "archive"}) ->
                  stack' = <<>> /\ RowResolved(id) /\ UNCHANGED last
             [] OTHER -> Ends("refused")

Running(at) == stack # <<>> /\ Top.at = at

(* The database answers where the key finds exactly one instrument. *)
LookUp ==
    /\ Running("lookup")
    /\ \E found \in {ResolveIDsByHintsDBOnly(store, LookupIDs(Top.ident))} :
          CASE Cardinality(found) = 1 -> Returns(TheOnly(found))
            [] Top.purpose = "lookup only" /\ Cardinality(found) > 1 -> Returns(0)
            [] Top.purpose = "lookup only" /\ found = {} ->
                  stack' = WithTop(Ensuring(Top, Fallback(Top))) /\ UNCHANGED <<job, last>>
            [] OTHER -> stack' = WithTop([Top EXCEPT !.at = "plugins"]) /\ UNCHANGED <<job, last>>
    /\ UNCHANGED <<world, store, next, posts, declared, tries>>

(* What the plugins may answer a key: each something it knows of a security  *)
(* the key names, or nothing, after its retry.                               *)
Denotes(key, sec) ==
    \E r \in W.truth[sec] : /\ r.type = key.type /\ key.dom \in {"", r.dom}
                                /\ key.val \in {r.val} \cup {Squeezed[v] : v \in DOMAIN Squeezed \cap {r.val}}
MayAnswer(plugin, ident) ==
    {a \in plugin.knows : \E key \in ToSet(Keyed(ident).stated) : Denotes(key, a.sec)} \cup plugin.fails
Eligible(ident) == SelectSeq(W.plugins, LAMBDA p : ShouldAttemptPlugin(p, ident.said))
AnswersTo(ident) ==
    LET asked == Eligible(ident)
        all == UNION {MayAnswer(asked[i], ident) : i \in DOMAIN asked}
    IN  {as \in [DOMAIN asked -> all] : \A i \in DOMAIN asked : as[i] \in MayAnswer(asked[i], ident)}

Falls(f) ==
    IF f.fb = "none" THEN Returns(0)
    ELSE stack' = WithTop(Ensuring(f, Fallback(f))) /\ UNCHANGED <<job, last>>

(* The plugins have all answered.  The winner's underlying is resolved       *)
(* first, as an identity of its own with nothing to fall back on.            *)
Identify ==
    /\ Running("plugins")
    /\ \E answers \in AnswersTo(Top.ident) : \E w \in {Winner(Top.ident, answers)} :
          IF w = 0 THEN Falls([Top EXCEPT !.answers = answers])
          ELSE \E m \in {Merged(answers, w)} :
               LET under == answers[w].under
                   f == [Top EXCEPT !.at = "decide", !.answers = answers,
                           !.in = [inst |-> m.inst, under |-> 0, strike |-> OptionFields(m.inst.class, m.ids),
                                   names |-> Canonical(m.ids) \cup (IF Top.bind THEN Described(Row.desc) ELSE {})]]
                   below == Resolving([stated |-> under, proposed |-> <<>>,
                                       said |-> [cur |-> "", kind |-> "",
                                                 class |-> UnderlyingSecTypeHint(m.inst.class)]],
                                      FALSE, "none", Top.depth + 1, "underlying")
               IN  /\ stack' = IF under # <<>> /\ Top.depth < MaxResolveDepth
                                 THEN Append(WithTop([f EXCEPT !.at = "underlying"]), below)
                                 ELSE WithTop(f)
                   /\ UNCHANGED <<job, last>>
    /\ UNCHANGED <<world, store, next, posts, declared, tries>>

(* A guess that corroborated nothing is dropped for the description. *)
Unconfirmed(f) ==
    /\ f.fb # "none"
    /\ UnconfirmedGuess(f.ident, f.in.inst, SetToSeq({n.ref : n \in {x \in f.in.names : x.canon}}))
Decide ==
    /\ Running("decide")
    /\ IF Unconfirmed(Top) THEN Falls(Top)
       ELSE stack' = WithTop([Top EXCEPT !.at = "ensure"]) /\ UNCHANGED <<job, last>>
    /\ UNCHANGED <<world, store, next, posts, declared, tries>>

(* EnsureInstrument: the lookups, the survivor, and whether it has no        *)
(* identity yet, before the transaction.                                     *)
Ensure ==
    /\ Running("ensure")
    /\ IF NotEnsurable(Top.in) THEN Returns(0)
       ELSE \E names \in {OnOperatingMIC(Top.in.names)} : \E found \in {DistinctIDs(store, names)} :
            /\ stack' = WithTop([Top EXCEPT !.at = "write", !.in.names = names, !.found = found,
                                            !.survivor = IF found = {} THEN 0 ELSE PickSurvivor(store, found),
                                            !.bare = \E i \in found : HoldsNoCanonicalIdentifier(store, i)])
            /\ UNCHANGED <<job, last>>
    /\ UNCHANGED <<world, store, next, posts, declared, tries>>

(* What the foreign keys refuse: an underlying that is gone, a name or a     *)
(* posting put on an instrument that is gone, and the removal of one that a  *)
(* declaration names.                                                        *)
GoneWith(f) == (f.found \cap DOMAIN store) \ {f.survivor}
Unheld(names) == \E n \in names : Having(store, n.ref) = {}
Refused(f) ==
    \/ f.in.under # 0 /\ f.in.under \notin DOMAIN store
    \/ Cardinality(f.found) = 1 /\ f.bare /\ f.survivor \notin DOMAIN store /\ Unheld(f.in.names)
    \/ /\ Cardinality(f.found) > 1 /\ GoneWith(f) # {}
       /\ f.survivor \notin DOMAIN store \/ GoneWith(f) \cap declared # {}

MovePostings(S, away, to) == {[p EXCEPT !.inst = IF @ \in away THEN to ELSE @] : p \in S}

(* The transaction. *)
Write ==
    /\ Running("write")
    /\ LET f == Top
           held == UNION {Having(store, n.ref) : n \in f.in.names}
       IN  CASE Refused(f) -> Returns(0) /\ UNCHANGED <<store, next, posts>>
             [] ~Refused(f) /\ f.found = {} /\ held # {} ->
                  (\E i \in held : Returns(i)) /\ UNCHANGED <<store, next, posts>>
             [] OTHER ->
                  LET id == IF f.found = {} THEN next ELSE f.survivor
                  IN  /\ store' = EnsureWrites(store, f.found, f.survivor, f.bare, next, f.in)
                      /\ posts' = MovePostings(posts, GoneWith(f), f.survivor)
                      /\ next' = IF f.found = {} THEN next + 1 ELSE next
                      /\ IF f.purpose = "archive"
                           THEN /\ stack' = WithTop([f EXCEPT !.at = "merge", !.survivor = id])
                                /\ UNCHANGED <<job, last>>
                           ELSE Returns(id)
    /\ UNCHANGED <<world, declared, tries>>

MergeInstrumentFromArchive ==
    /\ Running("merge")
    /\ IF Top.survivor \in DOMAIN store
         THEN store' = MergeIntoInstrument(store, Top.survivor, Top.in) /\ Returns(Top.survivor)
         ELSE Returns(IF Unheld(Top.in.names) THEN 0 ELSE Top.survivor) /\ UNCHANGED store
    /\ UNCHANGED <<world, next, posts, declared, tries>>

-----------------------------------------------------------------------------
(* The end of an import.  A class a row stated must suit the instrument it   *)
(* resolved to, a missing instrument suiting everything; the postings then   *)
(* replace those of the import's period, unless one names an instrument that *)
(* has been merged away meanwhile.                                           *)
IsAssetClassCompatible(implied, resolved) ==
    \/ resolved \in {"", "UNKNOWN"}
    \/ implied = "UNKNOWN" /\ resolved # "CASH"
    \/ implied = resolved
    \/ {implied, resolved} \in {{"STOCK", "ETF"}, {"MUTUAL_FUND", "ETF"}}
ClassContradicted ==
    \E i \in DOMAIN job.ids :
       /\ job.ids[i] \in DOMAIN store /\ Import.rows[i].class # ""
       /\ ~IsAssetClassCompatible(Import.rows[i].class, store[job.ids[i]].class)
Stores ==
    {[up |-> job.up, row |-> i, inst |-> job.ids[i],
      named |-> CacheKeyWithHints(Import.rows[i]) \notin job.fell] : i \in DOMAIN job.ids}

Ended == job.at = "rows" /\ stack = <<>> /\ Len(job.ids) = Len(Import.rows)
StoreUnchecked ==
    /\ Ended
    /\ CASE Import.kind \in {"prices", "archive"} -> Ends("done") /\ UNCHANGED posts
         [] Import.kind \notin {"prices", "archive"} /\ ClassContradicted -> Ends("class") /\ UNCHANGED posts
         [] OTHER -> Ends("done") /\ posts' = {p \in posts : p.up # job.up} \cup Stores
    /\ UNCHANGED <<world, store, next, declared, tries>>
Store ==
    /\ Ended
    /\ CASE Import.kind \in {"prices", "archive"} -> Ends("done") /\ UNCHANGED posts
         [] Import.kind \notin {"prices", "archive"} /\ ClassContradicted -> Ends("class") /\ UNCHANGED posts
         [] /\ Import.kind \notin {"prices", "archive"} /\ ~ClassContradicted
            /\ ~(ToSet(job.ids) \subseteq DOMAIN store) -> Ends("gone") /\ UNCHANGED posts
         [] OTHER -> Ends("done") /\ posts' = {p \in posts : p.up # job.up} \cup Stores
    /\ UNCHANGED <<world, store, next, declared, tries>>

-----------------------------------------------------------------------------
(* The other actors: the option pass gives a contract its new symbol,        *)
(* absorbing the instrument that holds it already, and a user declares a     *)
(* holding in something they hold.                                           *)
OptionPass ==
    \E r \in W.restates :
       LET i == FindInstrumentByIdentifier(store, r.old)
           j == FindInstrumentByIdentifier(store, r.new)
       IN  /\ i # 0 /\ j # i /\ j \notin declared
           /\ store' = LET st == IF j = 0 THEN store ELSE MergeInstruments(store, i, j)
                       IN  [st EXCEPT ![i].names = @ \cup {[ref |-> r.new, canon |-> TRUE]},
                                      ![i].strike = OccStrike[r.new.val]]
           /\ posts' = MovePostings(posts, {j}, i)
           /\ UNCHANGED <<world, next, declared, job, stack, tries, last>>

Declare ==
    /\ Cardinality(declared) < W.declares
    /\ \E p \in posts : declared' = declared \cup {p.inst}
    /\ UNCHANGED <<world, store, next, posts, job, stack, tries, last>>

Work ==
    \/ ProposeCandidates \/ RowFromCache \/ RowConflicting
    \/ Resolve \/ ResolveSupplied \/ EnsureArchiveInstrument
    \/ LookUp \/ Identify \/ Decide \/ Ensure \/ Write \/ MergeInstrumentFromArchive \/ Store
Next == (\E u \in DOMAIN W.imports : Begin(u)) \/ Work \/ OptionPass \/ Declare

Spec == Init /\ [][Next]_vars

-----------------------------------------------------------------------------
(* The securities the canonical names of an instrument denote. *)
Denoted(i) == {sec \in DOMAIN W.truth : \E n \in store[i].names : n.canon /\ n.ref \in W.truth[sec]}

(* Rows hold one name each, underlyings and the ids of a job were given out, *)
(* and a resolution in progress belongs to an import.                        *)
TypeOK ==
    /\ world \in DOMAIN Worlds /\ next \in Nat /\ DOMAIN store \subseteq 1 .. next - 1
    /\ \A i \in DOMAIN store : store[i].names # {} /\ store[i].under \in DOMAIN store \cup {0}
    /\ declared \subseteq DOMAIN store
    /\ \A p \in posts : p.inst \in 1 .. next - 1
    /\ job.at \in {"idle", "prepass", "rows"} /\ (stack # <<>> => job.at = "rows")
    /\ \A u \in DOMAIN tries : tries[u] \in 0 .. W.tries

(* Answers are merged, names gathered and instruments merged eagerly, yet as *)
(* long as the plugins speak truly no instrument ever carries the names of   *)
(* two securities: consistentWith keeps the answers about another listing    *)
(* out, and EnsureInstrument merges only what one set of names finds.        *)
OneSecurityEach == \A i \in DOMAIN store : Cardinality(Denoted(i)) <= 1

(* A posting resolved by the identifiers its source stated is never filed on *)
(* an instrument identified as another security: the pre-pass binds a stated *)
(* key to what a description names only where that has no identity.  One     *)
(* that no plugin could place is filed under its description, wherever that  *)
(* has gone since; whether the two are one security is then anybody's guess. *)
PostingOnItsSecurity ==
    \A p \in {x \in posts : x.inst \in DOMAIN store} :
       LET row == W.imports[p.up].rows[p.row]
       IN  IF p.named THEN row.stated # <<>> => Denoted(p.inst) \subseteq {row.sec}
           ELSE Desc(row.desc) \in Refs(store[p.inst])

(* A description is bound to an identity a candidate plugin guessed only if  *)
(* that identity agrees with something the source stated of the row: a wrong *)
(* guess that agrees with nothing stays a broker description.                *)
BindingCorroborated ==
    \A i \in DOMAIN store : \A n \in store[i].names :
       n.ref.val \in DOMAIN W.wrote =>
          \A sec \in Denoted(i) : \E row \in W.wrote[n.ref.val] :
             \/ sec = row.sec
             \/ row.cur # "" /\ row.cur \in W.facts[sec].curs
             \/ row.class # "" /\ row.class = W.facts[sec].class

(* Identities are true: no instrument is two securities, and no description  *)
(* was given one on a guess alone, in tables whose references all stand.     *)
IdentitiesAreTrue == TypeOK /\ OneSecurityEach /\ BindingCorroborated

(* What a plugin proposed decides only between answers that argue with       *)
(* nothing the source stated: where it changes the winner, the winner it     *)
(* replaced had not confirmed the source, and its own contradicts nothing.   *)
ProposalsOnlyBreakTies ==
    \A k \in DOMAIN stack : stack[k].answers # <<>> =>
       LET f == stack[k]
           w == Winner(f.ident, f.answers)
           alone == [Keyed(f.ident) EXCEPT !.proposed = <<>>, !.stated = f.ident.stated]
           without == Winner(alone, f.answers)
       IN  w # without =>
             /\ CompareHints(f.ident.said, f.ident.stated, f.answers[w].inst, f.answers[w].ids) = {}
             /\ ~ResultMatchesHints(f.ident.said, f.ident.stated, f.answers[without])

(* A batch is stored whole, on instruments that exist, and a merge takes     *)
(* every posting along: instruments merged away between a row's resolution   *)
(* and the store of its batch never leave a posting behind.                  *)
PostingsFollow ==
    /\ \A p \in posts : p.inst \in DOMAIN store
    /\ \A p \in posts : \A i \in DOMAIN W.imports[p.up].rows :
          \E q \in posts : q.up = p.up /\ q.row = i

=============================================================================
