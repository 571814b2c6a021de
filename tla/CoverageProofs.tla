--------------------------- MODULE CoverageProofs ---------------------------
(***************************************************************************)
(* What merging a span into a coverage table does, for every set of spans:  *)
(* the days are those of the rows and of the span, and no two rows overlap   *)
(* or abut.                                                                  *)
(***************************************************************************)
EXTENDS Coverage, WellFoundedInduction, TLAPS

\* A set of natural numbers that is not empty has a least element, and Min is it.
LEMMA LeastNat ==
    ASSUME NEW S \in SUBSET Nat, S # {}
    PROVE  Min(S) \in S /\ \A y \in S : Min(S) <= y
<1>1. \E x \in S : \A y \in S : ~ (<<y, x>> \in OpToRel(<, Nat))
  BY NatLessThanWellFounded, WFMin, Zenon
<1>2. PICK x \in S : \A y \in S : ~ (<<y, x>> \in OpToRel(<, Nat))
  BY <1>1
<1>3. ASSUME NEW y \in S PROVE x <= y
  <2>1. ~ (<<y, x>> \in OpToRel(<, Nat))
    BY <1>2
  <2>2. ~ (y < x)
    <3> SUFFICES ASSUME y < x PROVE <<y, x>> \in OpToRel(<, Nat)
      BY <2>1
    <3> QED
      BY DEF OpToRel
  <2> QED
    BY <2>2
<1> QED
  BY <1>3 DEF Min

\* A set of natural numbers up to a bound that is not empty has a greatest element,
\* and Max is it.
LEMMA GreatestNat ==
    ASSUME NEW H \in Nat, NEW S \in SUBSET (0 .. H), S # {}
    PROVE  Max(S) \in S /\ \A y \in S : y <= Max(S)
<1> DEFINE T == {n \in 0 .. H : H - n \in S}
<1>1. T \in SUBSET Nat
  OBVIOUS
<1>2. PICK s : s \in S
  OBVIOUS
<1>3. H - s \in T
  BY <1>2
<1>4. Min(T) \in T /\ \A y \in T : Min(T) <= y
  BY <1>1, <1>3, LeastNat
<1> HIDE DEF T
<1> DEFINE m == H - Min(T)
<1>5. m \in S
  BY <1>4 DEF T
<1>6. \A y \in S : y <= m
  <2> TAKE y \in S
  <2>1. H - y \in T
    BY DEF T
  <2>2. Min(T) \in 0 .. H
    BY <1>4 DEF T
  <2> QED
    BY <1>4, <2>1, <2>2
<1> HIDE DEF m
<1> QED
  BY <1>5, <1>6 DEF Max

\* upsertCoverageSpan: rows that are apart stay apart, and the days covered are the
\* old ones and the new span's, neither more nor fewer.
THEOREM UpsertTheorem ==
    ASSUME NEW L \in Nat, NEW H \in Nat,
           NEW spans \in SUBSET [from : L .. H, before : L .. H],
           Separated(spans),
           NEW from \in L .. H, NEW before \in L .. H, from < before
    PROVE  LET new == UpsertCoverageSpan(spans, from, before)
           IN  /\ new \in SUBSET [from : L .. H, before : L .. H]
               /\ Separated(new)
               /\ SpanDays(new) = SpanDays(spans) \cup (from .. (before - 1))
<1> DEFINE touching == Touching(spans, from, before)
           froms == {from} \cup {s.from : s \in touching}
           befores == {before} \cup {s.before : s \in touching}
           a == Min(froms)
           b == Max(befores)
           u == Span(a, b)
           new == UpsertCoverageSpan(spans, from, before)
<1>1. touching \subseteq spans /\ \A s \in touching : s.from <= before /\ s.before >= from
  BY DEF Touching
<1>2. \A s \in spans \ touching : s.from > before \/ s.before < from
  BY DEF Touching
<1>3. new = (spans \ touching) \cup {u}
  BY DEF UpsertCoverageSpan
<1>4. froms \in SUBSET (L .. H) /\ befores \in SUBSET (L .. H) /\ from \in froms /\ before \in befores
  BY <1>1
<1> HIDE DEF touching
<1> HIDE DEF froms, befores
<1>5. a \in froms /\ \A y \in froms : a <= y
  <2>1. froms \in SUBSET Nat
    BY <1>4
  <2> QED
    BY <1>4, <2>1, LeastNat
<1>6. b \in befores /\ \A y \in befores : y <= b
  <2>1. befores \in SUBSET (0 .. H)
    BY <1>4
  <2> QED
    BY <1>4, <2>1, GreatestNat
<1> HIDE DEF a, b
<1> USE DEF froms, befores
<1>7. \A s \in touching : a <= s.from /\ s.before <= b
  BY <1>5, <1>6
<1>8. a <= from /\ before <= b /\ a \in L .. H /\ b \in L .. H
  BY <1>4, <1>5, <1>6
<1>9. a = from \/ \E s \in touching : a = s.from
  BY <1>5
<1>10. b = before \/ \E s \in touching : b = s.before
  BY <1>6
<1> HIDE DEF froms, befores
<1>11. u.from = a /\ u.before = b /\ u \in [from : L .. H, before : L .. H]
  BY <1>8 DEF Span
<1> HIDE DEF u, new
<1>12. new \in SUBSET [from : L .. H, before : L .. H]
  BY <1>3, <1>11
<1>13. \A s \in spans : s.from \in L .. H /\ s.before \in L .. H /\ s.from < s.before
  BY DEF Separated
<1>14. \A s \in spans \ touching : s.before < a \/ b < s.from
  <2> SUFFICES ASSUME NEW s \in spans, s \notin touching PROVE s.before < a \/ b < s.from
    OBVIOUS
  <2>1. s.from > before \/ s.before < from
    BY <1>2
  <2>2. \A t \in touching : s.before < t.from \/ t.before < s.from
    BY <1>1 DEF Separated
  <2>3. CASE s.from > before
    <3>1. \A t \in touching : t.before < s.from
      BY <2>2, <2>3, <1>1, <1>13
    <3> QED
      BY <3>1, <2>3, <1>10
  <2>4. CASE s.before < from
    <3>1. \A t \in touching : s.before < t.from
      BY <2>2, <2>4, <1>1, <1>13
    <3> QED
      BY <3>1, <2>4, <1>9
  <2> QED
    BY <2>1, <2>3, <2>4
<1>15. Separated(new)
  <2>1. \A s \in new : s.from < s.before
    BY <1>3, <1>8, <1>11, <1>13
  <2>2. ASSUME NEW s \in new, NEW t \in new, s # t
        PROVE  s.before < t.from \/ t.before < s.from
    <3>1. CASE s \in spans /\ t \in spans /\ s # u /\ t # u
      BY <2>2, <3>1 DEF Separated
    <3>2. CASE s = u
      BY <2>2, <3>2, <1>3, <1>11, <1>14
    <3>3. CASE t = u
      BY <2>2, <3>3, <1>3, <1>11, <1>14
    <3> QED
      BY <1>3, <3>1, <3>2, <3>3
  <2> QED
    BY <2>1, <2>2 DEF Separated
<1>16. ASSUME NEW d \in a .. (b - 1), d \notin from .. (before - 1)
       PROVE  \E s \in touching : d \in s.from .. (s.before - 1)
  <2>1. CASE d < from
    <3>1. PICK s \in touching : a = s.from
      BY <2>1, <1>8, <1>9
    <3> QED
      BY <2>1, <3>1, <1>1, <1>8, <1>13
  <2>2. CASE d >= before
    <3>1. PICK s \in touching : b = s.before
      BY <2>2, <1>8, <1>10
    <3> QED
      BY <2>2, <3>1, <1>1, <1>8, <1>13
  <2> QED
    BY <2>1, <2>2, <1>8, <1>16
<1>17. SpanDays(new) = SpanDays(spans) \cup (from .. (before - 1))
  <2>1. ASSUME NEW d \in SpanDays(new) PROVE d \in SpanDays(spans) \cup (from .. (before - 1))
    <3>1. PICK s \in new : d \in s.from .. (s.before - 1)
      BY <2>1 DEF SpanDays
    <3>2. CASE s \in spans
      BY <3>1, <3>2 DEF SpanDays
    <3>3. CASE s = u /\ d \notin from .. (before - 1)
      <4>1. \E t \in touching : d \in t.from .. (t.before - 1)
        BY <3>1, <3>3, <1>11, <1>16
      <4> QED
        BY <4>1, <1>1 DEF SpanDays
    <3> QED
      BY <3>2, <3>3, <1>3
  <2>2. ASSUME NEW d \in SpanDays(spans) PROVE d \in SpanDays(new)
    <3>1. PICK s \in spans : d \in s.from .. (s.before - 1)
      BY <2>2 DEF SpanDays
    <3>2. CASE s \notin touching
      BY <3>1, <3>2, <1>3 DEF SpanDays
    <3>3. CASE s \in touching
      <4>1. d \in u.from .. (u.before - 1)
        BY <3>1, <3>3, <1>7, <1>8, <1>11, <1>13
      <4> QED
        BY <4>1, <1>3 DEF SpanDays
    <3> QED
      BY <3>2, <3>3
  <2>3. ASSUME NEW d \in from .. (before - 1) PROVE d \in SpanDays(new)
    <3>1. d \in u.from .. (u.before - 1)
      BY <1>8, <1>11
    <3> QED
      BY <3>1, <1>3 DEF SpanDays
  <2> QED
    BY <2>1, <2>2, <2>3
<1> QED
  BY <1>12, <1>15, <1>17 DEF new

\* The runs of a set of days are apart and cover exactly that set: what the rows
\* are after UpsertPrices.
THEOREM RunsTheorem ==
    ASSUME NEW L \in Nat, NEW H \in Nat, NEW days \in SUBSET (L .. (H - 1))
    PROVE  /\ RunsOf(days) \in SUBSET [from : L .. H, before : L .. H]
           /\ Separated(RunsOf(days))
           /\ SpanDays(RunsOf(days)) = days
<1>1. ASSUME NEW r \in RunsOf(days)
      PROVE  /\ r \in [from : L .. H, before : L .. H]
             /\ \A d \in r.from .. (r.before - 1) : d \in days
             /\ r.from < r.before
             /\ r.from - 1 \notin days
             /\ r.before \notin days
  <2>1. PICK a \in days, b \in days : r = Span(a, b + 1)
    BY <1>1 DEF RunsOf
  <2>2. r \in [from : L .. H, before : L .. H]
    BY <2>1 DEF Span
  <2> QED
    BY <1>1, <2>2 DEF RunsOf
<1>2. ASSUME NEW s \in RunsOf(days), NEW t \in RunsOf(days),
             ~ (s.before < t.from), ~ (t.before < s.from)
      PROVE  s = t
  <2> DEFINE R == [from : L .. H, before : L .. H]
  <2>1. s \in R /\ t \in R
    BY <1>1
  <2>2. s.from = t.from
    <3>1. CASE s.from < t.from
      <4>1. t.from - 1 \in s.from .. (s.before - 1)
        BY <2>1, <1>2, <3>1
      <4> QED
        BY <4>1, <1>1
    <3>2. CASE t.from < s.from
      <4>1. s.from - 1 \in t.from .. (t.before - 1)
        BY <2>1, <1>2, <3>2
      <4> QED
        BY <4>1, <1>1
    <3> QED
      BY <3>1, <3>2, <2>1
  <2>3. s.before = t.before
    <3>1. CASE s.before < t.before
      <4>1. s.before \in t.from .. (t.before - 1)
        BY <2>1, <1>1, <2>2, <3>1
      <4> QED
        BY <4>1, <1>1
    <3>2. CASE t.before < s.before
      <4>1. t.before \in s.from .. (s.before - 1)
        BY <2>1, <1>1, <2>2, <3>2
      <4> QED
        BY <4>1, <1>1
    <3> QED
      BY <3>1, <3>2, <2>1
  <2> QED
    BY <2>1, <2>2, <2>3
<1>3. ASSUME NEW d \in days
      PROVE  \E r \in RunsOf(days) : d \in r.from .. (r.before - 1)
  <2> DEFINE starts == {x \in 0 .. d : \A y \in x .. d : y \in days}
             ends == {x \in 0 .. (H - 1) : x >= d /\ \A y \in d .. x : y \in days}
             a == Min(starts)
             b == Max(ends)
  <2>1. d \in starts /\ d \in ends
    OBVIOUS
  <2>2. starts \in SUBSET Nat /\ ends \in SUBSET (0 .. H)
    OBVIOUS
  <2>3. a \in starts /\ \A y \in starts : a <= y
    BY <2>1, <2>2, LeastNat
  <2>4. b \in ends /\ \A y \in ends : y <= b
    BY <2>1, <2>2, GreatestNat
  <2> HIDE DEF a, b
  <2>5. a \in 0 .. d /\ (\A y \in a .. d : y \in days) /\ b \in d .. (H - 1) /\ (\A y \in d .. b : y \in days)
    BY <2>3, <2>4
  <2>6. \A y \in a .. b : y \in days
    BY <2>5
  <2>7. a - 1 \notin days
    <3> SUFFICES ASSUME a - 1 \in days PROVE FALSE
      OBVIOUS
    <3>1. a - 1 \in starts
      BY <2>5
    <3> QED
      BY <3>1, <2>3, <2>5
  <2>8. b + 1 \notin days
    <3> SUFFICES ASSUME b + 1 \in days PROVE FALSE
      OBVIOUS
    <3>1. b + 1 \in ends
      BY <2>5
    <3> QED
      BY <3>1, <2>4, <2>5
  <2> HIDE DEF starts, ends
  <2>9. a \in days /\ b \in days
    BY <2>5
  <2> DEFINE r == Span(a, b + 1)
  <2>10. r.from = a /\ r.before = b + 1
    BY DEF Span
  <2>11. r \in {Span(x, y + 1) : x, y \in days}
    BY <2>9
  <2> HIDE DEF r
  <2>12. r \in RunsOf(days)
    <3>1. r.from .. (r.before - 1) \subseteq days /\ r.from < r.before
      BY <2>5, <2>6, <2>10
    <3> QED
      BY <2>7, <2>8, <2>10, <2>11, <3>1 DEF RunsOf
  <2> QED
    BY <2>5, <2>10, <2>12
<1>4. RunsOf(days) \in SUBSET [from : L .. H, before : L .. H]
  BY <1>1
<1>5. Separated(RunsOf(days))
  BY <1>1, <1>2 DEF Separated
<1>6. SpanDays(RunsOf(days)) = days
  <2>1. \A d \in SpanDays(RunsOf(days)) : d \in days
    BY <1>1 DEF SpanDays
  <2>2. \A d \in days : d \in SpanDays(RunsOf(days))
    BY <1>3 DEF SpanDays
  <2> QED
    BY <2>1, <2>2
<1> QED
  BY <1>4, <1>5, <1>6

=============================================================================
