--------------------------- MODULE InflationFetch ---------------------------
(***************************************************************************)
(* The inflation fetcher: a trigger channel with room for one signal, a      *)
(* worker that runs a cycle for each signal, and the index rows it fills,    *)
(* which an archive import writes too.  Months are integers from GapStart;   *)
(* the current one is never asked for.                                       *)
(***************************************************************************)
EXTENDS Integers, Sequences, FiniteSets, FiniteSetsExt, SequencesExt

CONSTANTS Providers,    \* enabled plugins in order of precedence: [id, ccys, from, lag]
                        \* publishes months from .. now - lag of the currencies ccys
          Currencies,   \* display currencies in order
          GapStart,     \* the first month wanted
          LastMonth,    \* bound on the clock
          MaxFaults,    \* bound on failed calls and writes
          MaxImports    \* bound on imported months

VARIABLES now,          \* the current month
          index,        \* currency -> month -> who supplied it
          signalled,    \* the trigger channel holds a signal
          waiting,      \* somebody asked for a cycle since the last one began
          worker,       \* Idle, or the cycle: [todo, end, plugin, ask]
          calls,        \* what plugins were last asked
          alike,        \* a date the driver returns is the map key that the worker makes of it
          faults, imports

ivars == <<now, index, signalled, waiting, worker, calls, alike, faults, imports>>

Idle == [todo |-> <<>>, end |-> 0, plugin |-> 0, ask |-> {}]

(* The months looked up in: a time.Time is a key with its location, which    *)
(* the driver chooses, and where that is not UTC's no month is found covered.*)
InflationCoverage(ccy) == IF alike THEN DOMAIN index[ccy] ELSE {}

(* The first missing month up to the end, or nothing.                       *)
ComputeGapRange(coverage, end) ==
    [from |-> Min({m \in GapStart .. (end - 1) : m \notin coverage} \cup {end}), before |-> end]

PluginAcceptsCurrency(p, ccy) == ccy \in Providers[p].ccys

(* The next plugin that accepts the currency, or past the last.             *)
NextPlugin(p, ccy) ==
    Min({q \in p .. Len(Providers) : PluginAcceptsCurrency(q, ccy)} \cup {Len(Providers) + 1})

Upsert(ccy, months, who) ==
    index' = [index EXCEPT ![ccy] = [m \in DOMAIN @ \cup months |->
                                        IF m \in months THEN who ELSE @[m]]]

(* A mutant: the month before the last is the last one asked for.           *)
PublishedShort(p, range) ==
    {m \in range.from .. (range.before - 2) :
        Providers[p].from <= m /\ m <= now - Providers[p].lag}

Published(p, range) ==
    {m \in range.from .. (range.before - 1) :
        Providers[p].from <= m /\ m <= now - Providers[p].lag}

(***************************************************************************)
(* The cycle.                                                                *)
(***************************************************************************)
InitiallyInflation ==
    /\ now = GapStart + 1 /\ index = [c \in Range(Currencies) |-> [m \in {} |-> "none"]]
    /\ signalled = FALSE /\ waiting = FALSE /\ worker = Idle
    /\ calls = {} /\ alike \in BOOLEAN /\ faults = 0 /\ imports = 0

(* A signal that finds the channel full is dropped: the one there serves it. *)
Trigger == signalled' = TRUE /\ waiting' = TRUE
           /\ UNCHANGED <<now, index, worker, calls, faults, imports>>

(* runCycle reads the currencies and the month it stops at.                  *)
BeginCycle ==
    /\ worker = Idle /\ signalled
    /\ signalled' = FALSE /\ waiting' = FALSE
    /\ worker' = [todo |-> Currencies, end |-> now,
                  plugin |-> NextPlugin(1, Head(Currencies)), ask |-> {}]
    /\ UNCHANGED <<now, index, calls, faults, imports>>

(* A read of the cycle's own that fails ends it, its signal spent.           *)
CycleFails ==
    /\ worker = Idle /\ signalled /\ faults < MaxFaults /\ faults' = faults + 1
    /\ signalled' = FALSE /\ waiting' = FALSE
    /\ UNCHANGED <<now, index, worker, calls, imports>>

Currency == Head(worker.todo)

(* On to the next currency, or back to waiting.                             *)
Done ==
    worker' = IF Len(worker.todo) = 1 THEN Idle
              ELSE [worker EXCEPT !.todo = Tail(@), !.ask = {},
                                  !.plugin = NextPlugin(1, worker.todo[2])]

NextPlease == worker' = [worker EXCEPT !.plugin = NextPlugin(@ + 1, Currency), !.ask = {}]

Working(asked) == worker # Idle /\ (worker.ask # {}) = asked

NoPluginLeft ==
    /\ Working(FALSE) /\ worker.plugin > Len(Providers)
    /\ Done /\ UNCHANGED <<now, index, signalled, waiting, calls, faults, imports>>

(* Reads the coverage, and calls the plugin if a month is missing.           *)
Ask ==
    /\ Working(FALSE) /\ worker.plugin <= Len(Providers)
    /\ LET range == ComputeGapRange(InflationCoverage(Currency), worker.end)
       IN  IF range.from < range.before
           THEN /\ worker' = [worker EXCEPT !.ask = {range}]
                /\ calls' = {[ccy |-> Currency, range |-> range]}
           ELSE Done /\ UNCHANGED calls
    /\ UNCHANGED <<now, index, signalled, waiting, faults, imports>>

(* The answer: an error or no data tries the next plugin; rows are stored and *)
(* end the currency.                                                         *)
Answer ==
    /\ Working(TRUE)
    /\ \E range \in worker.ask :
          \E months \in {Published(worker.plugin, range)} :
              IF months = {} THEN NextPlease /\ UNCHANGED index
              ELSE Upsert(Currency, months, Providers[worker.plugin].id) /\ Done
    /\ UNCHANGED <<now, signalled, waiting, calls, faults, imports>>

CallFails ==
    /\ Working(TRUE) /\ faults < MaxFaults /\ faults' = faults + 1
    /\ NextPlease /\ UNCHANGED <<now, index, signalled, waiting, calls, imports>>

(* A read of the coverage or a write that fails gives the currency up.      *)
StoreFails ==
    /\ worker # Idle /\ faults < MaxFaults /\ faults' = faults + 1
    /\ Done /\ UNCHANGED <<now, index, signalled, waiting, calls, imports>>

(* The process stops and starts: the signal and the cycle are gone.          *)
Restart ==
    /\ faults < MaxFaults /\ faults' = faults + 1
    /\ worker' = Idle /\ signalled' = FALSE /\ waiting' = FALSE
    /\ UNCHANGED <<now, index, calls, imports>>

(***************************************************************************)
(* The rest of the system.                                                   *)
(***************************************************************************)
InflationPart(ccy, month) ==
    /\ imports < MaxImports /\ imports' = imports + 1
    /\ Upsert(ccy, {month}, "import")
    /\ UNCHANGED <<now, signalled, waiting, worker, calls, faults>>

MonthPasses == now < LastMonth /\ now' = now + 1
               /\ UNCHANGED <<index, signalled, waiting, worker, calls, faults, imports>>

CycleStep == (BeginCycle \/ NoPluginLeft \/ Ask \/ Answer) /\ UNCHANGED alike

Imports == \E c \in Range(Currencies), m \in (GapStart - 1) .. now : InflationPart(c, m)

InflationNext ==
    \/ CycleStep
    \/ /\ Trigger \/ CycleFails \/ CallFails \/ StoreFails \/ Restart \/ Imports \/ MonthPasses
       /\ UNCHANGED alike

(***************************************************************************)
(* Properties.                                                               *)
(***************************************************************************)
\* Indices are of months, and a cycle in progress has a currency left.
InflationTypeOK ==
    /\ now \in GapStart .. LastMonth
    /\ \A c \in DOMAIN index : DOMAIN index[c] \subseteq (GapStart - 1) .. LastMonth
    /\ worker = Idle \/ worker.todo # <<>>

(* The plugin that answers first for a currency.                            *)
First(c) == NextPlugin(1, c)

\* What a plugin is asked for reaches over every month that was missing when the coverage
\* was read, before the month the cycle began in and never into it, and from a missing
\* one where a stored month is recognised, while months are imported and the month
\* changes under the cycle.
AsksForWhatIsMissing ==
    [][calls' # calls =>
        \A c \in calls' :
            /\ c.range.before <= now
            /\ alike => c.range.from \in (GapStart .. (now - 1)) \ DOMAIN index[c.ccy]
            /\ \A m \in (GapStart .. (worker.end - 1)) \ DOMAIN index[c.ccy] :
                  c.range.from <= m /\ m < c.range.before]_ivars

\* Once somebody keeps asking, every month the plugin first in line for a currency has
\* published is stored: a month is not passed over because later ones are there,
\* whatever was imported, failed or restarted before.
GapsAreFilled ==
    \A i \in DOMAIN Currencies :
        LET c == Currencies[i] IN
        First(c) <= Len(Providers) =>
            <>[](\A m \in Max({GapStart, Providers[First(c)].from}) .. (now - 1) :
                    m <= now - Providers[First(c)].lag => m \in DOMAIN index[c])

\* A request is served by a cycle that starts after it, though the channel holds one
\* signal and a cycle may be running; or the process restarted and forgot it.
RequestsAreServed == waiting ~> ~waiting
=============================================================================
