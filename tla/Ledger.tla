------------------------------- MODULE Ledger -------------------------------
(***************************************************************************)
(* The transaction store of one user (db/postgres/txs.go, grouping.go,       *)
(* grouping_apply.go, transfer_matches.go): uploads replace a period or      *)
(* append, the grouping worker repartitions what a missing leg left          *)
(* unbalanced, and the matcher links the two sides of a transfer.            *)
(*                                                                           *)
(* A transaction is an operator from store to store, composed of the         *)
(* statements the code issues in order; an action commits one, or finds it   *)
(* refused.  What a worker reads before its transaction is a local that      *)
(* other commits make stale.                                                 *)
(***************************************************************************)
EXTENDS Grouping, TransferMatch

CONSTANTS RowOf,        \* what each row a source may state says, by number
          MoneyComms,   \* the commodities that are currencies
          Uploads,      \* the replacements on offer: a broker, a period, rows
          Appends,      \* rows that may be entered by hand
          MaxWrites,    \* bound on uploads and entries
          MaxCrashes    \* bound on restarts

ASSUME BoundsAssumption == MaxWrites \in Nat /\ MaxCrashes \in Nat

VARIABLES store,        \* the tables txs, tx_groups and transfer_matches
          writes,       \* jobs run
          crashes,      \* restarts
          rejected,     \* whether an upload was refused at commit
          latest,       \* <<job, row>>: what the sources last said is there
          gpc, seeds, done, diff, gfresh,   \* the grouping worker
          mpc, links, mfresh                \* the matcher

gvars == <<gpc, seeds, done, diff, gfresh>>
mvars == <<mpc, links, mfresh>>
jobvars == <<writes, crashes, rejected, latest>>
vars == <<store, jobvars, gvars, mvars>>

NoJob == 0

(***************************************************************************)
(* Tables.  A posting names its row for the columns no statement changes.    *)
(* A routed leg has the row and the id of the posting it is built from; its  *)
(* purpose tells it apart.                                                   *)
(***************************************************************************)
Routed == {"RESIDUAL", "BOUNDARY"}
Stated(s) == {t \in s.txs : t.purpose = "none"}
Broker(t) == RowOf[t.row].broker
Day(t) == RowOf[t.row].day
GroupTxs(s, g) == {t \in s.txs : t.group = g}

(* The first leg of a group, ORDER BY order_date, id.                       *)
FirstTx(ts) == CHOOSE t \in ts : \A u \in ts :
                  Day(t) < Day(u) \/ (Day(t) = Day(u) /\ t.id <= u.id)

FirstDay(ts) == Least({Day(t) : t \in ts})

SumWeight(ts) == MapThenSumSet(LAMBDA t : t.weight, ts)

InComm(ts, c) == {t \in ts : t.comm = c}

CommsOf(ts) == {t.comm : t \in ts}

(* check_tx_group_balance, which every commit must pass.                    *)
Balanced(s) ==
    \A g \in {t.group : t \in s.txs} :
        \A c \in CommsOf(GroupTxs(s, g)) : SumWeight(InComm(GroupTxs(s, g), c)) = 0

(***************************************************************************)
(* settle: the legs the server owes a set of groups.                         *)
(***************************************************************************)
Boundary(resolved) ==
    CASE ResolvedMustBe(resolved, "INCOME")  -> {"INCOME"}
      [] ResolvedMustBe(resolved, "EXPENSE") -> {"EXPENSE"}
      [] OTHER -> {}

Family(types) ==
    IF \E t \in types : ResolvedMustBe(t, "TRANSFER")
    THEN "TRANSFER_CLEARING" ELSE "IMBALANCE"

(* The least residual that is not the source's own rounding.                *)
Tolerance(comm, rounding) == IF comm \in MoneyComms THEN Money + rounding ELSE 1

(* What the prices of the group's converted legs could be out by.           *)
PriceRounding(ts) ==
    MapThenSumSet(LAMBDA t : RowOf[t.row].rounding, {t \in ts : t.purpose = "none"})

(* Of a group that lost legs a small residual is small by coincidence.      *)
ResidualAccount(ts, comm, amount, lost) ==
    IF ~lost /\ Abs(amount) < Tolerance(comm, PriceRounding(ts))
    THEN "SOURCE_ROUNDING"
    ELSE Family({t.resolved : t \in ts})

(* The other side of every posting whose own type names one.                *)
RouteBoundaries(s, gs) ==
    [s EXCEPT !.txs = @ \cup
        UNION {{[t EXCEPT !.purpose = "BOUNDARY", !.acct = a, !.weight = -t.weight] :
                   a \in Boundary(t.resolved)} :
                 t \in {t \in Stated(s) : /\ t.group \in gs
                                          /\ t.acct = "USER" /\ t.weight # 0}}]

(* The counterparty of what a group still has left in one commodity.        *)
Residual(s, g, comm, lost) ==
    LET ts  == GroupTxs(s, g)
        sum == SumWeight(InComm(ts, comm))
    IN  IF sum = 0 THEN {}
        ELSE {[FirstTx(ts) EXCEPT !.purpose = "RESIDUAL", !.weight = -sum,
                                  !.comm = comm,
                                  !.acct = ResidualAccount(ts, comm, sum, lost)]}

RouteResiduals(s, touched) ==
    [s EXCEPT !.txs = @ \cup
        UNION {UNION {Residual(s, g, c, g \in touched.lost) :
                         c \in CommsOf(GroupTxs(s, g))} : g \in touched.all}]

(* A bug: what is left over is routed before the sides the data names.      *)
SettleResidualsFirst(s, touched) ==
    Given(RouteResiduals(s, touched), LAMBDA t : RouteBoundaries(t, touched.all))

(* Boundary legs first: a residual is what is left after every named side.  *)
Settle(s, touched) ==
    Given(RouteBoundaries(s, touched.all), LAMBDA t : RouteResiduals(t, touched))

(***************************************************************************)
(* Statements that both a replace and a regroup issue on the groups they     *)
(* touched: delete the emptied ones (their matches cascade), drop the        *)
(* matches, re-date the rest.                                                *)
(***************************************************************************)
LiveGroups(s, gs) ==
    {g \in DOMAIN s.groups : g \notin gs \/ GroupTxs(s, g) # {}}

(* A bug: the matches of a group that survives the cut are kept.            *)
TidyKeepingMatches(s, gs) ==
    LET live == LiveGroups(s, gs)
    IN  [s EXCEPT
            !.groups = [g \in live |->
                IF g \in gs THEN [@[g] EXCEPT !.day = FirstDay(GroupTxs(s, g))]
                ELSE @[g]],
            !.matches = {m \in @ : {m.from, m.to} \subseteq live}]

Tidy(s, gs) ==
    [s EXCEPT
        !.groups = [g \in LiveGroups(s, gs) |->
            IF g \in gs THEN [@[g] EXCEPT !.day = FirstDay(GroupTxs(s, g))]
            ELSE @[g]],
        !.matches = {m \in @ : {m.from, m.to} \cap gs = {}}]

(***************************************************************************)
(* Grouping inside the transaction.                                          *)
(***************************************************************************)
GroupingPosting(s, t) ==
    LET r == RowOf[t.row]
    IN  [id |-> t.id, broker |-> r.broker, account |-> r.account, day |-> r.day,
         qty |-> r.qty, price |-> r.price, settle |-> r.settle,
         declared |-> r.declared, corr |-> r.corr,
         job |-> s.groups[t.group].job, group |-> t.group, resolved |-> t.resolved]

Transcribed(s) == {GroupingPosting(s, t) : t \in Stated(s)}

(* Engine.Settle: the changes of each seed's neighbourhood, none of which   *)
(* is applied before the next is read.                                      *)
SettleChanges(s, ids) ==
    LET Around(all, acc, p) ==
            IF p.id \in acc.done THEN acc
            ELSE Given(Neighbourhood(p, all), LAMBDA ps :
                       [done |-> acc.done \cup {q.id : q \in ps},
                        out  |-> acc.out \o Disagreements(ps)])
    IN  Given(Transcribed(s), LAMBDA all :
              Loop(LAMBDA acc, p : Around(all, acc, p), [done |-> {}, out |-> <<>>],
                   Sorted({p \in all : p.id \in ids}, ById)).out)

(* One change: postings retyped where they stand, or moved to a new group.  *)
(* The new group has no job and the earliest date; of no posting, none.     *)
ApplyChange(acc, c) ==
    LET ids     == {m.id : m \in c}
        hit     == {t \in Stated(acc.s) : t.id \in ids}
        typed(t) == (CHOOSE m \in c : m.id = t.id).resolved
        moving  == \A m \in c : m.moving
        new     == acc.s.nextGroup
        put(t)  == [t EXCEPT !.resolved = typed(t),
                             !.group = IF moving THEN new ELSE @]
        s       == [acc.s EXCEPT !.txs = (@ \ hit) \cup {put(t) : t \in hit}]
    IN  IF ~moving THEN [acc EXCEPT !.s = s]
        ELSE IF hit = {} THEN [acc EXCEPT !.ok = FALSE]
        ELSE [acc EXCEPT
                !.s = [s EXCEPT !.nextGroup = @ + 1,
                                !.groups = (new :> [day |-> FirstDay(hit),
                                                    job |-> NoJob]) @@ @],
                !.all = @ \cup {new}]

(* applyChanges: groups postings leave are touched as short of legs.        *)
ApplyChanges(s, changes, touched) ==
    LET left == UNION {UNION {m.from : m \in changes[i]} : i \in DOMAIN changes}
        bare(acc) == [acc.s EXCEPT !.txs = {t \in @ : ~(/\ t.group \in acc.all
                                                        /\ t.purpose \in Routed)}]
    IN  Given(Loop(ApplyChange,
                   [s |-> s, ok |-> TRUE, all |-> touched.all \cup left,
                    lost |-> touched.lost \cup left],
                   changes),
              LAMBDA acc : [acc EXCEPT !.s = Tidy(bare(acc), acc.all)])

(* Settles what was touched and commits, if every group then balances.      *)
Commit(acc) ==
    Given(Settle(acc.s, acc), LAMBDA s : [s |-> s, ok |-> acc.ok /\ Balanced(s)])

(***************************************************************************)
(* The transactions of an upload.                                            *)
(***************************************************************************)
InPeriod(t, u) == Broker(t) = u.broker /\ u.from <= Day(t) /\ Day(t) < u.before

(* A bug: whole groups are deleted, legs outside the period with them.      *)
ClearPeriodByGroup(s, u) ==
    LET cut == {t.group : t \in {t \in Stated(s) : InPeriod(t, u)}}
    IN  [s |-> Tidy([s EXCEPT !.txs = {t \in @ : t.group \notin cut}], cut),
         ok |-> TRUE, all |-> cut, lost |-> cut]

(* A bug: the routed legs of the groups cut survive.                        *)
ClearPeriodKeepsRouted(s, u) ==
    LET cut  == {t.group : t \in {t \in Stated(s) : InPeriod(t, u)}}
        kept(t) == t.purpose # "none" \/ ~InPeriod(t, u)
    IN  [s |-> Tidy([s EXCEPT !.txs = {t \in @ : kept(t)}], cut),
         ok |-> TRUE, all |-> cut, lost |-> cut]

(* Deletes postings, not groups: what a group has outside stays with it.    *)
ClearPeriod(s, u) ==
    LET cut  == {t.group : t \in {t \in Stated(s) : InPeriod(t, u)}}
        kept(t) == \/ t.group \notin cut
                   \/ t.purpose \notin Routed /\ ~InPeriod(t, u)
    IN  [s |-> Tidy([s EXCEPT !.txs = {t \in @ : kept(t)}], cut),
         ok |-> TRUE, all |-> cut, lost |-> cut]

(* Each posting a group of its own, in the order of the rows.               *)
InsertPostings(acc, rows, job) ==
    LET Put(a, r) ==
            LET t == [id |-> a.s.nextTx, row |-> r, group |-> a.s.nextGroup,
                      job |-> job, purpose |-> "none", acct |-> RowOf[r].acct,
                      resolved |-> Resolve(RowOf[r].declared),
                      weight |-> RowOf[r].weight, comm |-> RowOf[r].comm]
            IN  [a EXCEPT
                    !.s = [@ EXCEPT
                        !.txs = @ \cup {t},
                        !.groups = (t.group :> [day |-> RowOf[r].day, job |-> job]) @@ @,
                        !.nextTx = @ + 1, !.nextGroup = @ + 1],
                    !.all = @ \cup {t.group}]
    IN  Loop(Put, acc, Sorted(rows, <))

(* groupWritten: the partition of what was written, with what it reaches.   *)
GroupWritten(acc, ids) ==
    Given(SettleChanges(acc.s, ids), LAMBDA changes :
          IF changes = <<>> THEN acc ELSE ApplyChanges(acc.s, changes, acc))

Written(acc, rows, job) ==
    LET ids(a) == acc.s.nextTx .. a.s.nextTx - 1
    IN  Given(Given(InsertPostings(acc, rows, job),
                    LAMBDA a : GroupWritten(a, ids(a))), Commit)

ReplaceTxsInPeriod(s, u, job) ==
    Given(ClearPeriod(s, u), LAMBDA acc : Written(acc, u.rows, job))

CreateTxGroup(s, r, job) ==
    Written([s |-> s, ok |-> TRUE, all |-> {}, lost |-> {}], {r}, job)

(***************************************************************************)
(* Actions.                                                                  *)
(***************************************************************************)
Init ==
    /\ store = [txs |-> {}, groups |-> [g \in {} |-> {}], matches |-> {},
                nextTx |-> 1, nextGroup |-> 1]
    /\ writes = 0 /\ crashes = 0 /\ rejected = FALSE /\ latest = {}
    /\ gpc = "idle" /\ seeds = {} /\ done = {} /\ diff = <<>> /\ gfresh = TRUE
    /\ mpc = "idle" /\ links = {} /\ mfresh = TRUE

(* The worker of the ingestion queue is alone, so uploads are one by one.   *)
Upload(result, said) ==
    /\ writes < MaxWrites
    /\ writes' = writes + 1
    /\ store' = IF result.ok THEN result.s ELSE store
    /\ rejected' = (rejected \/ ~result.ok)
    /\ latest' = IF result.ok THEN said ELSE latest
    /\ gfresh' = (gpc = "idle") /\ mfresh' = (mpc = "idle")
    /\ UNCHANGED <<crashes, gpc, seeds, done, diff, mpc, links>>

Replace(u) ==
    \E result \in {ReplaceTxsInPeriod(store, u, writes + 1)} :
        Upload(result, {e \in latest : ~InPeriod([row |-> e[2]], u)}
                         \cup ({writes + 1} \X u.rows))

Enter(r) ==
    \E result \in {CreateTxGroup(store, r, writes + 1)} :
        Upload(result, latest \cup {<<writes + 1, r>>})

(* ListGroupingSeeds: the stated postings of groups short of a leg.         *)
Short(s, g) == \E t \in GroupTxs(s, g) : t.acct \in {"IMBALANCE", "TRANSFER_CLEARING"}

GroupingSeeds(s) == {p \in Transcribed(s) : Short(s, p.group)}

ListGroupingSeeds ==
    /\ gpc = "idle" /\ GroupingSeeds(store) # {}
    /\ gpc' = "cycle" /\ seeds' = GroupingSeeds(store)
    /\ done' = {} /\ gfresh' = TRUE
    /\ UNCHANGED <<store, jobvars, diff, mvars>>

(* The next seed nothing has reached: read around it, partition, compare.   *)
DeriveGroups ==
    LET left == {p \in seeds : p.id \notin done}
        seed == CHOOSE p \in left : \A q \in left : p.id <= q.id
    IN  /\ gpc = "cycle" /\ left # {}
        /\ \E ps \in {Neighbourhood(seed, Transcribed(store))} :
              /\ done' = done \cup {p.id : p \in ps}
              /\ diff' = Disagreements(ps)
        /\ gpc' = IF diff' = <<>> THEN "cycle" ELSE "apply"
        /\ UNCHANGED <<store, jobvars, seeds, gfresh, mvars>>

ApplyResult == Commit(ApplyChanges(store, diff, [all |-> {}, lost |-> {}]))

(* A transaction that fails ends the user's part of the cycle.              *)
ApplyGrouping ==
    /\ gpc = "apply"
    /\ diff' = <<>>
    /\ \E result \in {ApplyResult} :
          \/ /\ result.ok
             /\ store' = result.s /\ mfresh' = (mpc = "idle")
             /\ gpc' = "cycle"
             /\ UNCHANGED <<seeds, done, gfresh>>
          \/ /\ ~result.ok
             /\ gpc' = "idle" /\ seeds' = {} /\ done' = {} /\ gfresh' = TRUE
             /\ UNCHANGED <<store, mfresh>>
    /\ UNCHANGED <<jobvars, mpc, links>>

EndCycle ==
    /\ gpc = "cycle" /\ \A p \in seeds : p.id \in done
    /\ gpc' = "idle" /\ seeds' = {} /\ done' = {} /\ gfresh' = TRUE
    /\ UNCHANGED <<store, jobvars, diff, mvars>>

(* The unmatched TRANSFER_CLEARING legs, with the evidence of their groups. *)
Evidence(s, g) == UNION {Corrs(RowOf[t.row]) : t \in {t \in Stated(s) : t.group = g}}

TransferSides(s) ==
    {[group |-> t.group, broker |-> Broker(t), account |-> RowOf[t.row].account,
      inst |-> t.comm, amount |-> t.weight, day |-> Day(t),
      corr |-> Evidence(s, t.group)] :
        t \in {t \in s.txs : /\ t.acct = "TRANSFER_CLEARING"
                             /\ \A m \in s.matches : \/ m.inst # t.comm
                                                     \/ t.group \notin {m.from, m.to}}}

ListUnmatched ==
    /\ mpc = "idle" /\ mpc' = "write"
    /\ links' = Match(TransferSides(store)) /\ links' # {}
    /\ mfresh' = TRUE
    /\ UNCHANGED <<store, jobvars, gvars>>

(* Each insert is guarded: neither side is linked yet in the commodity.     *)
Linkable(s) ==
    {l \in links : \A m \in s.matches :
        m.inst # l.inst \/ {m.from, m.to} \cap {l.from, l.to} = {}}

(* A foreign key to a group that is gone aborts them all.                   *)
CreateTransferMatches ==
    /\ mpc = "write" /\ mpc' = "idle" /\ links' = {} /\ mfresh' = TRUE
    /\ store' = IF \A l \in Linkable(store) : {l.from, l.to} \subseteq DOMAIN store.groups
                THEN [store EXCEPT !.matches = @ \cup
                         {[from |-> l.from, to |-> l.to, inst |-> l.inst,
                           method |-> l.method, fresh |-> mfresh] :
                             l \in Linkable(store)}]
                ELSE store
    /\ UNCHANGED <<jobvars, gvars>>

(* What the workers hold is lost; transactions are whole.                   *)
Crash ==
    /\ crashes < MaxCrashes /\ crashes' = crashes + 1
    /\ gpc # "idle" \/ mpc # "idle"
    /\ gpc' = "idle" /\ seeds' = {} /\ done' = {} /\ diff' = <<>>
    /\ mpc' = "idle" /\ links' = {}
    /\ gfresh' = TRUE /\ mfresh' = TRUE
    /\ UNCHANGED <<store, writes, rejected, latest>>

Grouper == ListGroupingSeeds \/ DeriveGroups \/ ApplyGrouping \/ EndCycle
Matcher == ListUnmatched \/ CreateTransferMatches

Next ==
    \/ \E u \in Uploads : Replace(u)
    \/ \E r \in Appends : Enter(r)
    \/ Grouper \/ Matcher \/ Crash

Spec == Init /\ [][Next]_vars

(* The grouping worker goes on, and an external cron job calls the          *)
(* TriggerGrouping RPC; nobody is obliged to upload, or to crash.           *)
FairSpec == Spec /\ WF_vars(Grouper)

(***************************************************************************)
(* Properties.                                                               *)
(***************************************************************************)
(* The tables and the locals of the workers are well formed.                *)
TypeOK ==
    /\ \A t \in store.txs :
         /\ t.group \in DOMAIN store.groups /\ t.id \in 1 .. store.nextTx - 1
         /\ t.purpose \in Routed \cup {"none"} /\ t.resolved \in TxType
         /\ t.row \in DOMAIN RowOf
    /\ DOMAIN store.groups \subseteq 1 .. store.nextGroup - 1
    /\ \A m \in store.matches : {m.from, m.to} \subseteq DOMAIN store.groups
    /\ writes \in 0 .. MaxWrites /\ rejected \in BOOLEAN
    /\ gpc \in {"idle", "cycle", "apply"} /\ mpc \in {"idle", "write"}
    /\ (gpc = "apply") = (diff # <<>>)

(* No sequence of uploads and regroupings leaves the store in a state from  *)
(* which an upload fails the deferred balance check: whatever a replace cut *)
(* and the engine moved, settle finds every group it has to balance.        *)
UploadsCommit == ~rejected

(* A regrouping whose reads nothing has overtaken commits: it touches every *)
(* group it unbalances, and each new group has a posting to take its date   *)
(* from.  Only a cycle that an upload overtook can be refused.              *)
FreshCyclesCommit == gpc = "apply" /\ gfresh => ApplyResult.ok

(* The deferred constraint refuses no upload and no regrouping that was not *)
(* overtaken: settle and ApplyChanges leave balanced whatever they touch.   *)
TransactionsCommit == UploadsCommit /\ FreshCyclesCommit

(* A group holds one residual for a commodity however many replaces reached *)
(* it, and every boundary leg mirrors a posting of its own group, once.     *)
RoutedOnce ==
    \A t, u \in store.txs :
        /\ t.group = u.group /\ t.purpose = "RESIDUAL" /\ u.purpose = "RESIDUAL"
             /\ t.comm = u.comm => t = u
        /\ t.purpose = "BOUNDARY" =>
             /\ \E p \in Stated(store) : /\ p.id = t.id /\ p.group = t.group
                                         /\ p.weight + t.weight = 0
             /\ u.purpose = "BOUNDARY" /\ u.id = t.id => t = u

(* Every group is dated by its earliest leg and none outlives its postings, *)
(* whichever of the three writers last changed it.                          *)
GroupsDated ==
    \A g \in DOMAIN store.groups :
        /\ GroupTxs(store, g) # {}
        /\ store.groups[g].day = FirstDay(GroupTxs(store, g))

(* What settle and tidy derive from the postings, routed legs and dates, is *)
(* current after every commit, and every row is of its type.                *)
DerivedIsCurrent == TypeOK /\ RoutedOnce /\ GroupsDated

(* A link written from what the store still held has its evidence for as    *)
(* long as it stands: its two groups still owe each other the same amount.  *)
LinkedSidesCancel ==
    \A m \in {m \in store.matches : m.fresh} :
        \E t \in GroupTxs(store, m.from), u \in GroupTxs(store, m.to) :
            /\ t.acct = "TRANSFER_CLEARING" /\ u.acct = "TRANSFER_CLEARING"
            /\ t.comm = m.inst /\ u.comm = m.inst
            /\ t.weight > 0 /\ t.weight + u.weight = 0

(* The postings stored are what the sources last said, each once: a replace *)
(* takes its broker's postings of its period and no other leg of the groups *)
(* it cuts, and no regrouping adds, drops or restates one.                  *)
StoredIsLatest ==
    /\ {<<t.job, t.row>> : t \in Stated(store)} = latest
    /\ \A t \in Stated(store) : /\ t.weight = RowOf[t.row].weight
                                /\ t.comm = RowOf[t.row].comm
    /\ Cardinality(Stated(store)) = Cardinality(latest)

(* Once the uploads stop, the cycles reach groups that stand: whatever the  *)
(* uploads and their cycles left, regrouping around one posting does not    *)
(* undo what regrouping around another did.                                 *)
GroupingSettles == <>[](diff = <<>>)
=============================================================================
