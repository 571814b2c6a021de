------------------------------ MODULE Grouping ------------------------------
(***************************************************************************)
(* The grouping engine of server/grouping: which postings are legs of one   *)
(* event.  Partition is a pure function of a set of postings; rules run in  *)
(* the order of their precedence and a claim is irrevocable.  A posting is  *)
(* the record db.GroupingPosting holds, with an optional field a set of at  *)
(* most one value.  Ids, labels and tokens are numbers, because the code    *)
(* sorts by them.                                                           *)
(***************************************************************************)
EXTENDS TxTypes, Orders, Integers

CONSTANTS Money,        \* Opts.Money, in the unit quantities are counted in
          BandNum,      \* Opts.ConsiderationBand is BandNum / BandDen
          BandDen

MaxChargeSubset == 3

(* Greater than any distance two references of a model can have.            *)
NoOrdinal == 1000000

The(opt) == CHOOSE x \in opt : TRUE
Abs(n) == IF n < 0 THEN -n ELSE n
Least(S) == CHOOSE x \in S : \A y \in S : x <= y

Corrs(p) == {p.corr[i] : i \in DOMAIN p.corr}
Declares(c, match) == match \in c.match
IsMoney(p) == ~MayBe(p.declared, "TRADE_ASSET")
Bucket(p) == <<p.account, p.day>>
SameAccount(p, q) == p.broker = q.broker /\ p.account = q.account

(***************************************************************************)
(* The partition under construction: the root of each posting's group (its  *)
(* lowest id) and what each claimed posting was resolved to.                *)
(***************************************************************************)
NewState(ps) == [root |-> [i \in {p.id : p \in ps} |-> i],
                 resolved |-> [i \in {} |-> Unspecified]]

Taken(st, id) == id \in DOMAIN st.resolved

Free(ps, st) == {p \in ps : ~Taken(st, p.id)}

Member(p, type) == [id |-> p.id, resolved |-> type]

(* Unites the groups of ids, under the lowest of their names.               *)
Union(st, ids) ==
    LET roots == {st.root[i] : i \in ids}
    IN  [i \in DOMAIN st.root |->
            IF st.root[i] \in roots THEN Least(roots) ELSE st.root[i]]

(* Gives every member its role and puts them in the group of ids.           *)
Join(st, ids, ms) ==
    [root |-> Union(st, ids \cup {m.id : m \in ms}),
     resolved |-> [i \in DOMAIN st.resolved \cup {m.id : m \in ms} |->
                      IF i \in DOMAIN st.resolved THEN st.resolved[i]
                      ELSE (CHOOSE m \in ms : m.id = i).resolved]]

(* All or nothing: a claim naming a posting that has gone is refused.       *)
Claim(st, ms) ==
    IF Cardinality(ms) < 2 \/ \E m \in ms : Taken(st, m.id) THEN st
    ELSE Join(st, {}, ms)

(* The anchor is read and never written; the contributors must be free.     *)
Attach(st, anchor, ms) ==
    IF ms = {} \/ \E m \in ms : m.id = anchor \/ Taken(st, m.id) THEN st
    ELSE Join(st, {anchor}, ms)

(***************************************************************************)
(* Exact: postings that carry the same token in the same partition.         *)
(***************************************************************************)
KeyFor(p, c) ==
    [label |-> c.label, token |-> c.token, scope |-> c.scope,
     within |-> CASE c.scope = "FILE"    -> <<p.job>>
                  [] c.scope = "ACCOUNT" -> <<p.broker, p.account>>
                  [] c.scope = "BROKER"  -> <<p.broker>>]

ExactKeys(p) == {KeyFor(p, c) : c \in {c \in Corrs(p) : Declares(c, "EXACT")}}

ScopeRank == [ACCOUNT |-> 1, BROKER |-> 2, FILE |-> 3]

(* The fields of a key in the order tokenKey.less compares them.            *)
KeyFields(k) == <<k.label, k.token, ScopeRank[k.scope]>> \o k.within

KeyLess(k, l) ==
    LET kf == KeyFields(k)
        lf == KeyFields(l)
    IN  \E i \in DOMAIN kf \cap DOMAIN lf :
            kf[i] < lf[i] /\ \A j \in 1 .. i - 1 : kf[j] = lf[j]

ApplyExact(ps, st) ==
    LET free == Free(ps, st)
        keys == Sorted(UNION {ExactKeys(p) : p \in free}, KeyLess)
    IN  Loop(LAMBDA s, k :
                 Claim(s, {Member(p, Resolve(p.declared)) :
                              p \in {p \in free : k \in ExactKeys(p)}}),
             st, keys)

(***************************************************************************)
(* The trade rules: an asset and the money that settles it, in one account   *)
(* on one day, nearest references first.                                     *)
(***************************************************************************)
OrdinalCorrs(p) == {c \in Corrs(p) : Declares(c, "ORDINAL") /\ c.ord # {}}

OrdinalDistance(p, q) ==
    LET gaps == {Abs(The(c.ord) - The(d.ord)) :
                    <<c, d>> \in {<<c, d>> \in OrdinalCorrs(p) \X OrdinalCorrs(q) :
                                     c.label = d.label}}
    IN  IF gaps = {} THEN NoOrdinal ELSE Least(gaps)

BetterThan(c, d) ==
    \/ c.distance < d.distance
    \/ c.distance = d.distance /\ c.asset.id < d.asset.id
    \/ c.distance = d.distance /\ c.asset.id = d.asset.id /\ c.cash.id < d.cash.id

(* Claims the candidate pairs best first, each leg with its own type.       *)
ClaimPairs(st, pairs, assetType, cashType) ==
    LET cands == {[asset |-> pr[1], cash |-> pr[2],
                   distance |-> OrdinalDistance(pr[1], pr[2])] : pr \in pairs}
    IN  Loop(LAMBDA s, c : Claim(s, {Member(c.asset, assetType),
                                     Member(c.cash, cashType)}),
             st, Sorted(cands, BetterThan))

IsAssetLeg(p, acquiring) ==
    /\ ~IsMoney(p) /\ p.settle # {}
    /\ MayBe(p.declared, "TRADE_ASSET")
    /\ p.qty # 0 /\ (p.qty > 0) = acquiring

IsCashLeg(p, acquiring) ==
    /\ IsMoney(p)
    /\ MayBe(p.declared, "TRADE_CASH")
    /\ p.qty # 0 /\ (p.qty < 0) = acquiring

AmountsAgree(asset, cash, acquiring) ==
    LET over == Abs(The(asset.settle)) - Abs(cash.qty)
    IN  IF acquiring THEN over > -Money ELSE Abs(over) < Money

Consistent(asset, cash) ==
    \/ asset.price = {}
    \/ LET expected == Abs(asset.qty * The(asset.price))
       IN  \/ expected = 0
           \/ Abs(Abs(cash.qty) - expected) * BandDen <= BandNum * expected

(* A bug: the independent check against quantity and price is left out.     *)
TradePairsUnchecked(ps, st, acquiring) ==
    {<<a, c>> \in Free(ps, st) \X Free(ps, st) :
        /\ IsAssetLeg(a, acquiring) /\ IsCashLeg(c, acquiring)
        /\ Bucket(a) = Bucket(c)
        /\ AmountsAgree(a, c, acquiring)}

TradePairs(ps, st, acquiring) ==
    {<<a, c>> \in Free(ps, st) \X Free(ps, st) :
        /\ IsAssetLeg(a, acquiring) /\ IsCashLeg(c, acquiring)
        /\ Bucket(a) = Bucket(c)
        /\ AmountsAgree(a, c, acquiring)
        /\ Consistent(a, c)}

ApplyTrade(ps, st, acquiring) ==
    ClaimPairs(st, TradePairs(ps, st, acquiring), "TRADE_ASSET", "TRADE_CASH")

(* Two statements of one movement of the account's own cash.                *)
ApplyCashTrade(ps, st) ==
    LET halves == {p \in Free(ps, st) :
                     /\ IsMoney(p) /\ p.qty # 0
                     /\ MustBe(p.declared, "TRADE_CASH")}
    IN  ClaimPairs(st, {<<a, b>> \in halves \X halves :
                           /\ a.qty < 0 /\ b.qty > 0
                           /\ Bucket(a) = Bucket(b)
                           /\ a.qty + b.qty = 0},
                   "TRADE_CASH", "TRADE_CASH")

(***************************************************************************)
(* Deposit: the run of money rows a deposit is reported through.             *)
(***************************************************************************)
OrdinalSeq(p) == SelectSeq(p.corr, LAMBDA c : Declares(c, "ORDINAL") /\ c.ord # {})

FirstOrdinal(p) == IF OrdinalSeq(p) = <<>> THEN {} ELSE Head(OrdinalSeq(p)).ord

OrdinalSpan(p) ==
    LET spans == SelectSeq(OrdinalSeq(p), LAMBDA c : c.span # {})
    IN  IF spans = <<>> THEN {} ELSE Head(spans).span

(* How far q's reference is after p's, in the first series both carry.      *)
ForwardGap(p, q) ==
    LET ps == OrdinalSeq(p)
        qs == OrdinalSeq(q)
        hits == {<<i, j>> \in (DOMAIN ps) \X (DOMAIN qs) : ps[i].label = qs[j].label}
        i == Least({h[1] : h \in hits})
        j == Least({h[2] : h \in {h \in hits : h[1] = i}})
    IN  IF hits = {} THEN {} ELSE {The(qs[j].ord) - The(ps[i].ord)}

ByOrdinal(p, q) ==
    LET o == FirstOrdinal(p)
        n == FirstOrdinal(q)
    IN  \/ o # {} /\ n = {}
        \/ o # {} /\ n # {} /\ The(o) < The(n)
        \/ (o = n) /\ p.id < q.id

IsOpener(p) == p.qty > 0 /\ MustBe(p.declared, "TRANSFER")

IsStep(p) == /\ ~IsOpener(p)
             /\ MayBe(p.declared, "TRADE_CASH") \/ MayBe(p.declared, "TRANSFER")

(* The rows an opener could have moved in one direction.                    *)
Steps(o, ps, st, spending) ==
    {m \in Free(ps, st) :
        /\ IsMoney(m) /\ m.qty # 0 /\ IsStep(m)
        /\ SameAccount(m, o) /\ (m.qty < 0) = spending
        /\ \E gap \in ForwardGap(o, m), span \in OrdinalSpan(o) :
              0 < gap /\ gap <= span
        /\ Abs(Abs(m.qty) - Abs(o.qty)) < Money}

(* At most one: the nearest.                                                *)
Nearest(o, ps, st, spending) ==
    {m \in Steps(o, ps, st, spending) :
        \A n \in Steps(o, ps, st, spending) : n = m \/ ByOrdinal(m, n)}

StepType(m) == IF MayBe(m.declared, "TRANSFER") THEN "TRANSFER" ELSE Resolve(m.declared)

ApplyDeposit(ps, st) ==
    LET openers == {p \in Free(ps, st) : IsMoney(p) /\ IsOpener(p)}
        Run(s, o) ==
            {Member(o, "TRANSFER")}
              \cup {Member(m, StepType(m)) :
                       m \in Nearest(o, ps, s, TRUE) \cup Nearest(o, ps, s, FALSE)}
    IN  Loop(LAMBDA s, o : IF Taken(s, o.id) THEN s
                           ELSE Given(Run(s, o), LAMBDA run : Claim(s, run)),
             st, Sorted(openers, ByOrdinal))

(***************************************************************************)
(* Attaches: a posting joins the group of the posting its source named.      *)
(***************************************************************************)
(* The lowest carrier of the token, when all carriers are of one group.     *)
AnchorOf(p, c, ps, st) ==
    LET carriers == {q.id : q \in {q \in ps : KeyFor(p, c) \in ExactKeys(q)}} \ {p.id}
    IN  IF Cardinality({st.root[i] : i \in carriers}) # 1 THEN {}
        ELSE {Least(carriers)}

AttachBearer(p, ps, st) ==
    Loop(LAMBDA s, c :
             LET anchor == AnchorOf(p, c, ps, s)
             IN  IF ~Declares(c, "ATTACHES") \/ anchor = {} THEN s
                 ELSE Attach(s, The(anchor), {Member(p, Resolve(p.declared))}),
         st, p.corr)

ById(p, q) == p.id < q.id

ApplyAttaches(ps, st) ==
    Loop(LAMBDA s, p : AttachBearer(p, ps, s), st, Sorted(Free(ps, st), ById))

(***************************************************************************)
(* Charge: the charges that account for what a purchase cost beyond its cash *)
(***************************************************************************)
IsCharge(p) == IsMoney(p) /\ p.qty # 0 /\ MustBe(p.declared, "EXPENSE")

SumAbs(ps) == MapThenSumSet(LAMBDA p : Abs(p.qty), ps)

(* The stated total, less the cash and the charges the group already holds. *)
Unexplained(asset, group) ==
    Abs(The(asset.settle))
      - SumAbs({m \in group \ {asset} :
                   \/ IsCharge(m)
                   \/ IsMoney(m) /\ MayBe(m.declared, "TRADE_CASH")})

(* Smaller first, then the lowest ids: at the first difference, the lower.  *)
Before(S, T) ==
    \/ Cardinality(S) < Cardinality(T)
    \/ /\ Cardinality(S) = Cardinality(T) /\ S # T
       /\ Least({p.id : p \in S \ T}) < Least({p.id : p \in T \ S})

(* The charges, at most three, whose sum is the gap; no set if none.        *)
SubsetSumming(charges, gap) ==
    LET sums == {S \in SUBSET charges :
                    /\ Cardinality(S) \in 1 .. MaxChargeSubset
                    /\ Abs(gap - SumAbs(S)) < Money}
    IN  {S \in sums : \A T \in sums : T = S \/ Before(S, T)}

ApplyCharge(ps, st) ==
    LET free == {p \in Free(ps, st) : IsCharge(p)}
        group(a) == {p \in ps : st.root[p.id] = st.root[a.id]}
        gap(a) == Unexplained(a, group(a))
        assets == {a \in ps : /\ ~IsMoney(a) /\ a.settle # {} /\ a.qty > 0
                              /\ gap(a) > 0}
        cands == UNION {{[anchor |-> a.id, charges |-> S] :
                            S \in SubsetSumming({c \in free : Bucket(c) = Bucket(a)},
                                                gap(a))} : a \in assets}
        Better(c, d) ==
            \/ Cardinality(c.charges) < Cardinality(d.charges)
            \/ Cardinality(c.charges) = Cardinality(d.charges) /\ c.anchor < d.anchor
    IN  Loop(LAMBDA s, c : Attach(s, c.anchor,
                                  {Member(p, Resolve(p.declared)) : p \in c.charges}),
             st, Sorted(cands, Better))

(***************************************************************************)
(* The partition, and what it changes about the groups stored.               *)
(***************************************************************************)
DefaultRules == <<"exact", "disposal", "acquisition", "cash trade", "deposit",
                  "attaches", "charge">>

Apply(rule, ps, st) ==
    CASE rule = "exact"       -> ApplyExact(ps, st)
      [] rule = "disposal"    -> ApplyTrade(ps, st, FALSE)
      [] rule = "acquisition" -> ApplyTrade(ps, st, TRUE)
      [] rule = "cash trade"  -> ApplyCashTrade(ps, st)
      [] rule = "deposit"     -> ApplyDeposit(ps, st)
      [] rule = "attaches"    -> ApplyAttaches(ps, st)
      [] rule = "charge"      -> ApplyCharge(ps, st)

Partition(ps) ==
    Loop(LAMBDA st, rule : Apply(rule, ps, st), NewState(ps), DefaultRules)

(* What no rule claimed resolves to the common ancestor of its set.         *)
ResolvedIn(p, st) ==
    IF Taken(st, p.id) THEN st.resolved[p.id] ELSE Resolve(p.declared)

GroupIn(p, ps, st) == {q \in ps : st.root[q.id] = st.root[p.id]}

GroupsOf(ps, st) == {GroupIn(p, ps, st) : p \in ps}

(* A bug: a group drawn as stored is a change, whether or not a type is.    *)
ChangeAlways(group, ps, st) ==
    LET first == CHOOSE p \in group : \A q \in group : p.id <= q.id
        same  == group = {q \in ps : q.group = first.group}
    IN  {[id |-> p.id, resolved |-> ResolvedIn(p, st), moving |-> ~same,
          from |-> IF same THEN {} ELSE {p.group}] : p \in group}

(* A group drawn as stored is only retyped; any other moves as a whole.     *)
Change(group, ps, st) ==
    LET first == CHOOSE p \in group : \A q \in group : p.id <= q.id
        same  == group = {q \in ps : q.group = first.group}
        retyped == {p \in group : p.resolved # ResolvedIn(p, st)}
    IN  {[id |-> p.id, resolved |-> ResolvedIn(p, st), moving |-> ~same,
          from |-> IF same THEN {} ELSE {p.group}] :
            p \in IF same THEN retyped ELSE group}

(* In the order of the groups, because each that moves takes a new id.      *)
Diff(ps, st) ==
    LET lowest(ms) == Least({m.id : m \in ms})
    IN  Sorted({Change(g, ps, st) : g \in GroupsOf(ps, st)} \ {{}},
               LAMBDA c, d : lowest(c) < lowest(d))

(* What partitioning ps would change.                                       *)
Disagreements(ps) == Given(Partition(ps), LAMBDA st : Diff(ps, st))

(***************************************************************************)
(* The neighbourhood a partition is computed over.                           *)
(***************************************************************************)
(* A bug: a run is looked for after a posting and never before it.          *)
ReachesForward(p, q) ==
    \/ SameAccount(p, q) /\ p.day = q.day
    \/ \E c \in OrdinalCorrs(p), d \in Corrs(q) :
          /\ SameAccount(p, q) /\ c.label = d.label
          /\ \E n \in c.ord, s \in c.span, m \in d.ord : n <= m /\ m <= n + s

(* What the reads of the rules return for p: by token, by day, by ordinal.  *)
Reaches(p, q) ==
    \/ \E c \in Corrs(p), d \in Corrs(q) :
          /\ Declares(c, "EXACT") \/ Declares(c, "ATTACHES")
          /\ c.label = d.label /\ c.token = d.token
          /\ p.broker = q.broker
          /\ c.scope # "ACCOUNT" \/ p.account = q.account
    \/ SameAccount(p, q) /\ p.day = q.day
    \/ \E c \in OrdinalCorrs(p), d \in Corrs(q) :
          /\ SameAccount(p, q) /\ c.label = d.label
          /\ \E n \in c.ord, s \in c.span, m \in d.ord : n - s <= m /\ m <= n + s

(* Grown until no rule reaches anything new.  A posting held is not read    *)
(* again, so a seed keeps what it held when it was listed.                  *)
Neighbourhood(seed, stored) ==
    LET Round(acc, i) ==
            Given({q \in acc.rest : \E p \in acc.frontier : Reaches(p, q)},
                  LAMBDA fresh : [held |-> acc.held \cup fresh, frontier |-> fresh,
                                  rest |-> acc.rest \ fresh])
    IN  Loop(Round, [held |-> {seed}, frontier |-> {seed},
                     rest |-> {q \in stored : q.id # seed.id}],
             [i \in 1 .. Cardinality(stored) |-> i]).held
=============================================================================
