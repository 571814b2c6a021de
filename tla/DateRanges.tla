----------------------------- MODULE DateRanges -----------------------------
(***************************************************************************)
(* Half-open date ranges: the list algorithms of server/db/daterange.go,   *)
(* and the held ranges that HeldRanges reads off the transactions.  A day   *)
(* is an integer, a range a record [from, before).                          *)
(***************************************************************************)
EXTENDS Integers, Sequences, SequencesExt, FiniteSetsExt

DateRange(from, before) == [from |-> from, before |-> before]

RangeDays(r) == r.from .. (r.before - 1)

\* The days that a list of ranges covers.
ListDays(rs) == UNION {RangeDays(rs[k]) : k \in DOMAIN rs}

MergeRange(merged, r) ==
    LET last == Last(merged)
    IN  IF r.from > last.before
        THEN Append(merged, r)
        ELSE Append(Front(merged), [last EXCEPT !.before = Max({@, r.before})])

MergeRanges(rs) ==
    IF Len(rs) <= 1
    THEN rs
    ELSE LET sorted == SortSeq(rs, LAMBDA a, b : a.from < b.from)
         IN  FoldLeft(MergeRange, <<Head(sorted)>>, Tail(sorted))

\* The two loops of SubtractRanges over the cached list for one needed range n:
\* drop what ends before n, then walk what starts inside it.
SkipTo(cached, ci, n) ==
    Min({k \in ci .. Len(cached) : cached[k].before > n.from} \cup {Len(cached) + 1})

CutOut(acc, c) ==
    [cur  |-> Max({acc.cur, c.before}),
     gaps |-> IF c.from > acc.cur
              THEN Append(acc.gaps, DateRange(acc.cur, c.from))
              ELSE acc.gaps]

\* The cached range at the cursor is dropped once the needed one is done, though
\* it may reach into the next.
SubtractFromOnce(cached, acc, n) ==
    LET ci     == SkipTo(cached, acc.ci, n)
        within == SelectSeq(SubSeq(cached, ci, Len(cached)), LAMBDA c : c.from < n.before)
        walk   == FoldLeft(CutOut, [cur |-> n.from, gaps |-> acc.gaps], within)
    IN  [ci   |-> ci + Len(within),
         gaps |-> IF walk.cur < n.before
                  THEN Append(walk.gaps, DateRange(walk.cur, n.before))
                  ELSE walk.gaps]

SubtractFrom(cached, acc, n) ==
    LET ci     == SkipTo(cached, acc.ci, n)
        within == SelectSeq(SubSeq(cached, ci, Len(cached)), LAMBDA c : c.from < n.before)
        walk   == FoldLeft(CutOut, [cur |-> n.from, gaps |-> acc.gaps], within)
    IN  [ci   |-> ci,
         gaps |-> IF walk.cur < n.before
                  THEN Append(walk.gaps, DateRange(walk.cur, n.before))
                  ELSE walk.gaps]

SubtractRanges(needed, cached) ==
    IF cached = <<>>
    THEN needed
    ELSE FoldLeft(LAMBDA acc, n : SubtractFrom(cached, acc, n),
                  [ci |-> 1, gaps |-> <<>>], needed).gaps

\* flips are the days on which the end-of-day position becomes non-zero or zero,
\* in turn; a position still open is held to today.
HeldRanges(flips, today) ==
    LET days == SetToSortSeq(flips, <)
    IN  [k \in 1 .. ((Len(days) + 1) \div 2) |->
            DateRange(days[2*k - 1], IF 2*k <= Len(days) THEN days[2*k] ELSE today + 1)]

=============================================================================
