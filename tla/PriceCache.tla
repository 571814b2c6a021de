----------------------------- MODULE PriceCache -----------------------------
(***************************************************************************)
(* What the price cache promises its readers, without spans, cycles or       *)
(* workers: for each instrument and provider the days the provider has       *)
(* answered for, and the days there is a bar of.  An answer is about a       *)
(* stretch of days and may hold bars of some of them; bars that come without *)
(* a stretch answer for their own days and no other; nothing that was        *)
(* answered is forgotten, unless the instrument goes.                        *)
(***************************************************************************)
EXTENDS Integers

CONSTANTS Instruments, Providers, LastDay

VARIABLES answered,     \* [Instruments -> [Providers -> SUBSET Days]]
          stored,       \* [Instruments -> SUBSET Days]: the days of the bars
          present       \* the instruments there are

cache == <<answered, stored, present>>

CalendarDays == 1 .. LastDay

CacheInitially ==
    /\ answered = [i \in Instruments |-> [p \in Providers |-> {}]]
    /\ stored = [i \in Instruments |-> {}]
    /\ present = Instruments

Record(i, p, days, found) ==
    /\ i \in present
    /\ answered' = [answered EXCEPT ![i][p] = @ \cup days]
    /\ stored' = [stored EXCEPT ![i] = @ \cup found]
    /\ UNCHANGED present

\* A provider answers for the days from a up to b, with bars of some of them.
AnswerFor(i, p) ==
    \E a, b \in CalendarDays :
        a <= b /\ \E found \in SUBSET (a .. b) : Record(i, p, a .. b, found)

\* Bars with no word on the days between them.
Supply(i, p) == \E days \in (SUBSET CalendarDays) \ {{}} : Record(i, p, days, days)

\* The instrument was another one all along.
Forget(i) ==
    /\ i \in present /\ present' = present \ {i}
    /\ answered' = [answered EXCEPT ![i] = [p \in Providers |-> {}]]
    /\ stored' = [stored EXCEPT ![i] = {}]

CacheStep ==
    \E i \in Instruments : Forget(i) \/ \E p \in Providers : AnswerFor(i, p) \/ Supply(i, p)

CacheSpec == CacheInitially /\ [][CacheStep]_cache
=============================================================================
