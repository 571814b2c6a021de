--------------------------- MODULE TransferMatch ---------------------------
(***************************************************************************)
(* The pairing of server/transfermatch: which departure and which arrival    *)
(* are the two sides of one transfer.  Match is a pure function of the       *)
(* unmatched TRANSFER_CLEARING legs of one user.  A side is the record       *)
(* db.TransferSide holds.  Accounts and tokens are numbers: the names of a   *)
(* model differ in more than case and spaces.                                *)
(***************************************************************************)
EXTENDS Integers, Orders, SequencesExt

CONSTANTS Window,       \* Opts.Window, in days
          RefSpan       \* Opts.RefSpan

LOCAL Gap(m, n) == IF m < n THEN n - m ELSE m - n
LOCAL Nearer(S) == CHOOSE x \in S : \A y \in S : x <= y

Pairable(a, b) ==
    /\ a.amount + b.amount = 0
    /\ a.broker # b.broker \/ a.account # b.account
    /\ Gap(a.day, b.day) <= Window

Names(side, account) ==
    \E c \in side.corr : "ACCOUNT" \in c.match /\ c.token = account

(* One side names the other's account outright.  A feasibility test returns *)
(* the distance it ranks by, or nothing.                                    *)
PointerFeasible(a, b) ==
    IF a.broker = b.broker /\ (Names(a, b.account) \/ Names(b, a.account))
    THEN {0} ELSE {}

Ordinals(side) == UNION {c.ord : c \in {c \in side.corr : "ORDINAL" \in c.match}}

(* The two sides' references are near: the nearest gap over both sets.      *)
ReferenceFeasible(a, b) ==
    LET gaps == {Gap(x, y) : x \in Ordinals(a), y \in Ordinals(b)}
    IN  IF a.broker # b.broker \/ gaps = {} THEN {}
        ELSE {Nearer(gaps)} \cap (0 .. RefSpan)

(* What each pass asks of a pair besides being pairable.                    *)
Feasible(method, a, b) ==
    IF method = "POINTER" THEN PointerFeasible(a, b) ELSE ReferenceFeasible(a, b)

Ties(c, d) == c.distance = d.distance /\ c.gap = d.gap

BetterPair(c, d) ==
    \/ c.distance < d.distance
    \/ c.distance = d.distance /\ c.gap < d.gap
    \/ Ties(c, d) /\ c.from.group < d.from.group
    \/ Ties(c, d) /\ c.from.group = d.from.group /\ c.to.group < d.to.group

Candidates(sides, method) ==
    UNION {{[from |-> a, to |-> b, distance |-> d, gap |-> Gap(a.day, b.day)] :
               d \in Feasible(method, a, b)} :
             <<a, b>> \in {<<a, b>> \in sides \X sides :
                 /\ a.inst = b.inst
                 /\ a.amount > 0 /\ b.amount < 0
                 /\ Pairable(a, b)}}

(* Another candidate still available ties this one and shares a side.       *)
Ambiguous(c, cands, gone) ==
    \E d \in cands :
        /\ d # c /\ Ties(c, d) /\ BetterPair(c, d)
        /\ {d.from, d.to} \cap gone = {}
        /\ d.from = c.from \/ d.to = c.to

(* A bug: what one pass could not tell apart sits out the next as well.     *)
StillBlocked(acc) == acc

Unblocked(acc) == [acc EXCEPT !.blocked = {}]

(* One pass, best first: a candidate is taken, or blocks its two sides.     *)
RunPass(acc, sides, method) ==
    LET Step(cands, s, c) ==
            LET gone == s.taken \cup s.blocked
            IN  IF {c.from, c.to} \cap gone # {} THEN s
                ELSE IF Ambiguous(c, cands, gone)
                THEN [s EXCEPT !.blocked = @ \cup {c.from, c.to}]
                ELSE [s EXCEPT !.taken = @ \cup {c.from, c.to},
                               !.out = @ \cup {[from |-> c.from.group,
                                                to |-> c.to.group,
                                                inst |-> c.from.inst,
                                                method |-> method]}]
    IN  Given(Candidates(sides \ acc.taken, method),
              LAMBDA cands : Loop(LAMBDA s, c : Step(cands, s, c),
                                  Unblocked(acc),
                                  Sorted(cands, BetterPair)))

(* The pointer pass first: a side it takes is gone for the other.           *)
Match(sides) ==
    LET none == [taken |-> {}, blocked |-> {}, out |-> {}]
    IN  Given(RunPass(none, sides, "POINTER"),
              LAMBDA acc : RunPass(acc, sides, "REFERENCE").out)
=============================================================================
