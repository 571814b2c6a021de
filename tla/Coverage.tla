------------------------------ MODULE Coverage ------------------------------
(***************************************************************************)
(* The rows that a coverage table holds for one (instrument, plugin): a set *)
(* of half-open spans, and the merge of server/db/postgres/coverage.go that  *)
(* price_coverage and corporate_event_coverage share.                        *)
(***************************************************************************)
EXTENDS Integers, FiniteSetsExt

Span(from, before) == [from |-> from, before |-> before]

\* Overlapping only: a span that ends where the new one starts is left alone.
TouchingOverlaps(spans, from, before) ==
    {s \in spans : s.from < before /\ s.before > from}

\* Overlapping or abutting [from, before).
Touching(spans, from, before) ==
    {s \in spans : s.from <= before /\ s.before >= from}

\* The touching rows are deleted and the new one is stored as it came.
UpsertCoverageSpanAlone(spans, from, before) ==
    (spans \ Touching(spans, from, before)) \cup {Span(from, before)}

UpsertCoverageSpan(spans, from, before) ==
    LET touching == Touching(spans, from, before)
    IN  (spans \ touching) \cup
        {Span(Min({from} \cup {s.from : s \in touching}),
              Max({before} \cup {s.before : s \in touching}))}

SpanDays(spans) == UNION {s.from .. (s.before - 1) : s \in spans}

\* The longest runs of consecutive days in a set.
RunsOf(days) ==
    {r \in {Span(a, b + 1) : a, b \in days} :
        /\ r.from .. (r.before - 1) \subseteq days
        /\ r.from < r.before
        /\ r.from - 1 \notin days
        /\ r.before \notin days}

\* No two spans overlap or abut, and none is empty.
Separated(spans) ==
    /\ \A s \in spans : s.from < s.before
    /\ \A s, t \in spans : s # t => s.before < t.from \/ t.before < s.from

=============================================================================
