--------------------------- MODULE IngestionJobs ---------------------------
(***************************************************************************)
(* The asynchronous ingestion pipeline of the PortfolioDB server.          *)
(*                                                                         *)
(* A gRPC handler writes a job row with its payload, then offers the job   *)
(* to a bounded channel without blocking.  One worker goroutine takes jobs *)
(* off the channel and applies them.  Nothing but the database survives a  *)
(* crash: at startup the server stamps the telemetry runs the dead process *)
(* left open, re-enqueues every job that is not terminal, and only then    *)
(* serves requests.                                                        *)
(*                                                                         *)
(* Every statement the code commits on its own is a step of its own, so a  *)
(* crash can fall between any two of them.  A statement whose error the    *)
(* code drops ("_ = db...") may fail and leave the row as it was.          *)
(***************************************************************************)
EXTENDS Integers, Sequences, FiniteSetsExt

CONSTANTS
    MaxJobs,        \* job rows ever created (a bound on the handlers)
    QueueCap,       \* capacity of the job channel
    Units,          \* rows (windows, for TXS) an archive part holds
    FlushEvery,     \* progressFlushEvery
    JobKinds,       \* the kinds of job the handlers create
    ArchiveMenus,   \* the sets of parts an imported archive may carry
    MaxCrashes,     \* bound on crashes, beyond which only a panic counts
    MaxFaults       \* bound on statements that fail

ASSUME MaxJobsAssumption    == MaxJobs \in Nat
ASSUME QueueCapAssumption   == QueueCap \in Nat \ {0}
ASSUME UnitsAssumption      == Units \in Nat \ {0}
ASSUME FlushEveryAssumption == FlushEvery \in Nat \ {0}
ASSUME BoundsAssumption     == MaxCrashes \in Nat /\ MaxFaults \in Nat

Jobs == 1..MaxJobs

(* JobTypeTx comes in two shapes: a window with both period bounds          *)
(* (UpsertTxs) replaces, one with none (CreateTx) appends.  "unknown" is a  *)
(* row a later build left behind.                                           *)
TxKinds      == {"append", "replace"}
ArchiveKinds == {"system_archive", "user_archive"}
Kinds        == TxKinds \cup ArchiveKinds \cup {"unknown"}

ASSUME JobKindsAssumption == JobKinds \subseteq TxKinds \cup ArchiveKinds

(* The ArchivePart enum, in restore order.                                  *)
RestoreOrder ==
    << "INSTRUMENTS", "PRICES", "CORPORATE_EVENTS", "INFLATION_INDICES",
       "FETCH_BLOCKS", "UNHANDLED_EVENTS", "PLUGIN_CONFIG",
       "PREFERENCES", "TXS", "DECLARATIONS" >>

Parts       == {RestoreOrder[i] : i \in 1..10}
UserParts   == {"PREFERENCES", "TXS", "DECLARATIONS"}
SystemParts == Parts \ UserParts

ASSUME ArchiveMenusAssumption ==
    ArchiveMenus \subseteq ((SUBSET UserParts) \cup (SUBSET SystemParts)) \ {{}}

Rank(p) == CHOOSE i \in 1..10 : RestoreOrder[i] = p

Unfinished == {"PENDING", "RUNNING"}
Terminal   == {"SUCCESS", "FAILED"}
Statuses   == Unfinished \cup Terminal

(* What committed data earns: recomputed split adjustments, recomputed     *)
(* opening-balance pads, and a nudge to each background worker.            *)
FollowUps == {"adjust", "recalc", "recalcCleared",
              "price", "match", "group", "events"}

VARIABLES
    \* ---- rows, which survive a crash
    created,     \* job rows 1..created exist, numbered in created_at order
    kind,        \* job_type, with the two tx shapes told apart
    status,      \* ingestion_jobs.status
    payload,     \* whether ingestion_jobs.payload is non-NULL
    menu,        \* the parts the job has rows for
    partRow,     \* ingestion_job_parts: status, processed_count, message
    problems,    \* validation_errors: how often each row of each part (or
                 \* of the job itself, "none") is in the table
    progress,    \* ingestion_jobs.processed_count
    runs,        \* telemetry.run, oldest first
    copies,      \* times the postings of a tx job are in the store
    applied,     \* rows of each part whose effect is in the store
    owes,        \* follow-ups the committed data of a job has earned
    did,         \* follow-ups done on behalf of a job
    \* ---- the process
    phase,       \* "down", "sweep", "list", "requeue" or "serving"
    backlog,     \* jobs ListPendingJobs returned that are not yet offered
    queue,       \* the job channel
    unqueued,    \* jobs whose handler has not reached its enqueue
    accepted,    \* jobs whose handler returned the job id to its caller
    pc,          \* the next step of the worker
    cur,         \* the job the worker holds, 0 for none
    curRun,      \* its run, 0 when there is none
    w,           \* the other locals of the worker
    \* ---- bounds
    crashes, faults

jobRows == << created, kind, status, payload, menu >>
partRows == << partRow, problems, progress >>
store   == << copies, applied, owes, did >>
boot    == << phase, backlog >>
channel == << queue, unqueued, accepted >>
worker  == << pc, cur, curRun, w >>
vars    == << jobRows, partRows, runs, store, boot, channel, worker,
              crashes, faults >>

PCs == {"idle", "running", "start", "load", "resolve", "ingest", "adjust",
        "readParts", "nextPart", "partRunning", "part", "partAdjust",
        "flush", "flushErrs", "partEnd",
        "finish", "clear", "after", "endRun"}

Outcomes == {"open", "SUCCESS", "FAILED", "INCOMPLETE"}
PartRow  == [status : Statuses, processed : Nat, message : BOOLEAN]
NewPart  == [status |-> "PENDING", processed |-> 0, message |-> FALSE]

Locals ==
    [ doc       : BOOLEAN,          \* whether the payload held the document
      owner     : BOOLEAN,          \* whether GetJob said whose job it is
      todo      : SUBSET Parts,     \* parts the loop has not reached
      part      : Parts \cup {"none"},
      unit      : Nat,              \* rows of the part already handled
      pending   : Nat,              \* reporter: progress not yet written
      errs      : SUBSET (0..Units),\* reporter: problems not yet written,
                                    \* 0 for one that is about no row
      gain      : SUBSET FollowUps, \* what the part's landed rows earn
      partErr   : BOOLEAN,
      anyFailed : BOOLEAN,
      earned    : SUBSET FollowUps, \* what the result flags ask for
      verdict   : Terminal ]

NoLocals ==
    [ doc |-> FALSE, owner |-> FALSE, todo |-> {}, part |-> "none",
      unit |-> 0, pending |-> 0, errs |-> {}, gain |-> {},
      partErr |-> FALSE, anyFailed |-> FALSE, earned |-> {}, verdict |-> "FAILED" ]

RowsTyped ==
    /\ created \in 0..MaxJobs
    /\ kind \in [Jobs -> Kinds \cup {"none"}]
    /\ status \in [Jobs -> Statuses \cup {"none"}]
    /\ payload \in [Jobs -> BOOLEAN]
    /\ menu \in [Jobs -> SUBSET Parts]

PartsTyped ==
    /\ partRow \in [Jobs -> [Parts -> PartRow]]
    /\ problems \in [Jobs -> [Parts \cup {"none"} -> [0..Units -> Nat]]]
    /\ DOMAIN progress = Jobs

RunsTyped ==
    /\ runs \in Seq([job : Jobs, outcome : Outcomes])
    /\ curRun \in Nat

StoreTyped ==
    /\ copies \in [Jobs -> Nat]
    /\ applied \in [Jobs -> [Parts -> SUBSET (1..Units)]]
    /\ owes \in [Jobs -> SUBSET FollowUps]
    /\ did \in [Jobs -> SUBSET FollowUps]

ProcessTyped ==
    /\ phase \in {"down", "sweep", "list", "requeue", "serving"}
    /\ backlog \subseteq Jobs
    /\ queue \in Seq(Jobs)
    /\ unqueued \subseteq Jobs
    /\ accepted \subseteq Jobs
    /\ pc \in PCs
    /\ cur \in Jobs \cup {0}

BoundsTyped ==
    /\ crashes \in 0..MaxCrashes + 1
    /\ faults \in 0..MaxFaults

(* Every row, part, in-memory list and counter of the pipeline has its shape:  *)
(* the statuses are those the code writes and the worker holds a known job.    *)
TypeOK ==
    /\ RowsTyped
    /\ PartsTyped
    /\ RunsTyped
    /\ StoreTyped
    /\ ProcessTyped
    /\ BoundsTyped
    /\ w \in Locals

-------------------------------------------------------------------------
(* A single statement that sets variable v.  An error the caller drops      *)
(* leaves the row as it was, and is counted.                                *)
Fault   == faults < MaxFaults /\ faults' = faults + 1
NoFault == UNCHANGED faults

Write(v, new) == \/ v' = new /\ NoFault
                 \/ v' = v /\ Fault

Init ==
    \* a row a later build left behind, or none
    /\ created \in {0, 1} \cap 0..MaxJobs
    /\ kind = [j \in Jobs |-> IF j <= created THEN "unknown" ELSE "none"]
    /\ status = [j \in Jobs |-> IF j <= created THEN "PENDING" ELSE "none"]
    /\ payload = [j \in Jobs |-> j <= created]
    /\ menu = [j \in Jobs |-> {}]
    /\ partRow = [j \in Jobs |-> [p \in Parts |-> NewPart]]
    /\ problems = [j \in Jobs |-> [p \in Parts \cup {"none"} |->
                                     [r \in 0..Units |-> 0]]]
    /\ progress = [j \in Jobs |-> 0]
    /\ runs = << >>
    /\ copies = [j \in Jobs |-> 0]
    /\ applied = [j \in Jobs |-> [p \in Parts |-> {}]]
    /\ owes = [j \in Jobs |-> {}]
    /\ did = [j \in Jobs |-> {}]
    /\ phase = "down" /\ backlog = {}
    /\ queue = << >> /\ unqueued = {} /\ accepted = {}
    /\ pc = "idle" /\ cur = 0 /\ curRun = 0 /\ w = NoLocals
    /\ crashes = 0 /\ faults = 0

-----------------------------------------------------------------------------
(* Startup and crash.  The worker goroutine is started first, so it takes   *)
(* jobs while the backlog is still being offered.                           *)

Boot ==
    /\ phase = "down"
    /\ phase' = "sweep"
    /\ UNCHANGED << jobRows, partRows, runs, store, backlog, channel, worker,
                    crashes, faults >>

Stamp(run) == IF run.outcome = "open"
              THEN [run EXCEPT !.outcome = "INCOMPLETE"] ELSE run

Sweep ==
    /\ phase = "sweep"
    /\ Write(runs, [i \in DOMAIN runs |-> Stamp(runs[i])])
    /\ phase' = "list"
    /\ UNCHANGED << jobRows, partRows, store, backlog, channel, worker,
                    crashes >>

(* Mutants: recovery re-reads every row, or only rows never started.        *)
IsAnyJob(j)       == TRUE
IsUntouchedJob(j) == status[j] = "PENDING"

IsPending(j) == status[j] \in Unfinished

ListPendingJobs ==
    /\ phase = "list"
    /\ Write(backlog, {j \in 1..created : IsPending(j)})
    /\ phase' = "requeue"
    /\ UNCHANGED << jobRows, partRows, runs, store, channel, worker, crashes >>

(* ORDER BY created_at; a full channel skips the job until the next start.  *)
Requeue ==
    /\ phase = "requeue"
    /\ \E j \in backlog :
         /\ \A k \in backlog : j <= k
         /\ backlog' = backlog \ {j}
         /\ queue' = IF Len(queue) < QueueCap THEN Append(queue, j) ELSE queue
    /\ UNCHANGED << jobRows, partRows, runs, store, phase, unqueued, accepted,
                    worker, crashes, faults >>

Serve ==
    /\ phase = "requeue" /\ backlog = {}
    /\ phase' = "serving"
    /\ UNCHANGED << jobRows, partRows, runs, store, backlog, channel, worker,
                    crashes, faults >>

(* Everything the process held is gone.  A shutdown is the same: the        *)
(* cancelled context makes every later statement of the worker fail.        *)
Lost ==
    /\ phase' = "down" /\ backlog' = {}
    /\ queue' = << >> /\ unqueued' = {}
    /\ pc' = "idle" /\ cur' = 0 /\ curRun' = 0 /\ w' = NoLocals

Crash ==
    /\ phase # "down"
    /\ crashes < MaxCrashes
    /\ crashes' = crashes + 1
    /\ Lost
    /\ UNCHANGED << jobRows, partRows, runs, store, accepted, faults >>

-----------------------------------------------------------------------------
(* The handlers: UpsertTxs, CreateTx, ImportSystemArchive and               *)
(* ImportUserArchive.  The job row and its part rows are one transaction.   *)

(* Mutant: requests are served while the backlog is still being offered.    *)
ServingEarly == phase # "down"

Serving == phase = "serving"

CreateJob(k, m) ==
    LET j == created + 1 IN
    /\ Serving
    /\ created < MaxJobs
    /\ created' = j
    /\ kind' = [kind EXCEPT ![j] = k]
    /\ status' = [status EXCEPT ![j] = "PENDING"]
    /\ payload' = [payload EXCEPT ![j] = TRUE]
    /\ menu' = [menu EXCEPT ![j] = m]
    /\ unqueued' = unqueued \cup {j}
    /\ UNCHANGED << partRows, runs, store, boot, queue, accepted, worker,
                    crashes, faults >>

UpsertTxs == "replace" \in JobKinds /\ CreateJob("replace", {})
CreateTx  == "append" \in JobKinds /\ CreateJob("append", {})

ImportSystemArchive ==
    /\ "system_archive" \in JobKinds
    /\ \E m \in ArchiveMenus \cap SUBSET SystemParts :
         CreateJob("system_archive", m)

ImportUserArchive ==
    /\ "user_archive" \in JobKinds
    /\ \E m \in ArchiveMenus \cap SUBSET UserParts :
         CreateJob("user_archive", m)

(* select { case queue <- job: default: Unavailable }                       *)
Enqueue ==
    \E j \in unqueued :
      /\ unqueued' = unqueued \ {j}
      /\ \/ /\ Len(queue) < QueueCap
            /\ queue' = Append(queue, j)
            /\ accepted' = accepted \cup {j}
         \/ /\ Len(queue) >= QueueCap
            /\ UNCHANGED << queue, accepted >>
      /\ UNCHANGED << jobRows, partRows, runs, store, boot, worker,
                      crashes, faults >>

-----------------------------------------------------------------------------
(* processJob, up to its switch on the job type.                            *)

idleRest == << boot, unqueued, accepted, crashes >>
workerRest == << boot, channel, cur, crashes >>

TakeJob ==
    /\ pc = "idle" /\ queue # << >>
    /\ cur' = Head(queue) /\ queue' = Tail(queue)
    /\ pc' = "running"
    /\ UNCHANGED << jobRows, partRows, runs, store, idleRest, curRun, w,
                    faults >>

MarkRunning ==
    /\ pc = "running"
    /\ Write(status, [status EXCEPT ![cur] = "RUNNING"])
    /\ pc' = "start"
    /\ UNCHANGED << created, kind, payload, menu, partRows, runs, store,
                    workerRest, curRun, w >>

(* GetJob for the owner, then StartRun.  A read that fails leaves the owner *)
(* blank; a run that cannot be written leaves the job without one.          *)
StartRun ==
    /\ pc = "start"
    /\ IF kind[cur] = "unknown"
       THEN UNCHANGED << runs, curRun, w, faults >>
       ELSE \/ /\ w' = [w EXCEPT !.owner = TRUE]
               /\ Write(runs, Append(runs, [job |-> cur, outcome |-> "open"]))
               /\ curRun' = IF runs' = runs THEN 0 ELSE Len(runs) + 1
            \/ /\ Fault
               /\ w' = [w EXCEPT !.owner = FALSE]
               /\ runs' = Append(runs, [job |-> cur, outcome |-> "open"])
               /\ curRun' = Len(runs) + 1
    /\ pc' = "load"
    /\ UNCHANGED << jobRows, partRows, store, workerRest >>

UnknownJobType ==
    /\ pc = "load" /\ kind[cur] = "unknown"
    /\ Write(status, [status EXCEPT ![cur] = "FAILED"])
    /\ pc' = "endRun"
    /\ UNCHANGED << created, kind, payload, menu, partRows, runs, store,
                    workerRest, curRun, w >>

(* Mutant: a rejected batch is reported as stored.                          *)
RejectQuietly ==
    /\ w' = [w EXCEPT !.verdict = "SUCCESS"]
    /\ pc' = "finish"

(* The job fails as a whole, with a problem that is about no part: what     *)
(* processTx does with a rejected batch, and failWholeJob.                  *)
RejectBatch ==
    /\ w' = [w EXCEPT !.verdict = "FAILED", !.errs = {0}]
    /\ pc' = "flushErrs"

(* A NULL payload loads without an error and unmarshals as an empty         *)
(* request.  A read that fails fails the whole job.                         *)
LoadJobPayload ==
    /\ pc = "load" /\ kind[cur] # "unknown"
    /\ \/ /\ w' = [w EXCEPT !.doc = payload[cur]]
          /\ pc' = IF kind[cur] \in TxKinds THEN "resolve" ELSE "readParts"
          /\ NoFault
       \/ /\ Fault
          /\ IF kind[cur] \in TxKinds
             THEN w' = [w EXCEPT !.verdict = "FAILED"] /\ pc' = "finish"
             ELSE RejectBatch
    /\ UNCHANGED << jobRows, partRows, runs, store, workerRest, curRun >>

-----------------------------------------------------------------------------
(* processTx and ingestBatch.                                               *)

TxFollowUps == {"recalc", "recalcCleared", "price", "match", "group"}

(* Validation and resolution, which count the job's progress row by row     *)
(* until one fails.  No postings and no period is a batch with nothing to   *)
(* do.                                                                      *)
ResolveBatch ==
    /\ pc = "resolve"
    /\ \/ /\ w.doc
          /\ \E n \in 0..Units :
               progress' = [progress EXCEPT ![cur] = @ + n]
          /\ RejectBatch
       \/ /\ w.doc
          /\ progress' = [progress EXCEPT ![cur] = @ + Units]
          /\ pc' = "ingest"
          /\ UNCHANGED w
       \/ /\ ~w.doc
          /\ w' = [w EXCEPT !.verdict = "SUCCESS", !.earned = TxFollowUps]
          /\ pc' = "finish"
          /\ UNCHANGED progress
    /\ UNCHANGED << jobRows, partRow, problems, runs, store, workerRest,
                    curRun, faults >>

(* Mutant: a store whose reply is lost is tried again.                      *)
StoreBatchRetried ==
    /\ pc = "ingest" /\ w.owner
    /\ copies' = [copies EXCEPT ![cur] = @ + 1]
    /\ w' = [w EXCEPT !.verdict = "SUCCESS", !.earned = TxFollowUps]
    /\ pc' \in {"ingest", "adjust"}
    /\ UNCHANGED << jobRows, partRows, runs, applied, owes, did, workerRest,
                    curRun, faults >>

(* ReplaceTxsInPeriod clears what any upload left in the period and stores  *)
(* this one's postings; CreateTxGroup adds a posting.  Each is one          *)
(* transaction, and neither can name a user the job row did not give.       *)
StoreBatch ==
    /\ pc = "ingest"
    /\ \/ RejectBatch /\ UNCHANGED store
       \/ /\ w.owner
          /\ copies' = IF kind[cur] = "append"
                       THEN [copies EXCEPT ![cur] = @ + 1]
                       ELSE [j \in Jobs |->
                               CASE j = cur -> 1
                                 [] j # cur /\ kind[j] = "replace" -> 0
                                 [] OTHER -> copies[j]]
          /\ owes' = [owes EXCEPT ![cur] = @ \cup TxFollowUps \cup {"adjust"}]
          /\ w' = [w EXCEPT !.verdict = "SUCCESS", !.earned = TxFollowUps]
          /\ pc' = "adjust"
          /\ UNCHANGED << applied, did >>
    /\ UNCHANGED << jobRows, partRows, runs, workerRest, curRun, faults >>

(* recomputeSplitAdjustedTxs, whose errors are only logged.                 *)
AdjustTxs ==
    /\ pc \in {"adjust", "partAdjust"}
    /\ Write(did, [did EXCEPT ![cur] = @ \cup {"adjust"}])
    /\ pc' = IF pc = "adjust" THEN "finish" ELSE "flush"
    /\ UNCHANGED << jobRows, partRows, runs, copies, applied, owes,
                    workerRest, curRun, w >>

-----------------------------------------------------------------------------
(* processSystemImport and processUserImport: the loop over the part rows.  *)

(* The part row the loop is at, and an update of it.                        *)
PartAt(p)     == partRow[cur][p]
SetPart(p, r) == [partRow EXCEPT ![cur][p] = r]

(* Mutant: a resumed import applies every part again.                       *)
ToApplyAll(p) == TRUE

ToApply(p) == PartAt(p).status # "SUCCESS"

ReadParts ==
    /\ pc = "readParts"
    /\ \/ /\ w' = [w EXCEPT !.todo = {p \in menu[cur] : ToApply(p)}]
          /\ pc' = "nextPart"
          /\ NoFault
       \/ /\ Fault
          /\ RejectBatch
    /\ UNCHANGED << jobRows, partRows, runs, store, workerRest, curRun >>

(* Parts run in restore order.  One that ran before starts its progress     *)
(* over; its validation errors stay.                                        *)
ResetPart(p) ==
    IF PartAt(p).processed > 0 \/ PartAt(p).message
    THEN Write(partRow, SetPart(p, [PartAt(p) EXCEPT !.processed = 0,
                                                     !.message = FALSE]))
    ELSE UNCHANGED << partRow, faults >>

NextPart ==
    /\ pc = "nextPart"
    /\ \E p \in w.todo :
         /\ \A q \in w.todo : Rank(p) <= Rank(q)
         /\ ResetPart(p)
         /\ w' = [w EXCEPT !.part = p, !.unit = 0, !.pending = 0, !.errs = {},
                           !.gain = {}, !.partErr = FALSE]
    /\ pc' = "partRunning"
    /\ UNCHANGED << jobRows, problems, progress, runs, store, workerRest,
                    curRun >>

MarkPartRunning ==
    /\ pc = "partRunning"
    /\ Write(partRow, SetPart(w.part, [PartAt(w.part) EXCEPT
                                         !.status = "RUNNING"]))
    /\ pc' = "part"
    /\ UNCHANGED << jobRows, problems, progress, runs, store, workerRest,
                    curRun, w >>

(* What a row of the part earns when it lands.                              *)
Earns(p) ==
    CASE p = "TXS"              -> {"recalc", "price", "match", "group"}
      [] p = "PREFERENCES"      -> {"price"}
      [] p = "DECLARATIONS"     -> {"recalc", "price"}
      [] p = "PRICES"           -> {"price"}
      [] p = "CORPORATE_EVENTS" -> {"events"}
      [] OTHER                  -> {}

(* The price and event parts report what they persisted only when they did  *)
(* not fail; the user parts report it either way.                           *)
ReportsAtEnd == {"PRICES", "CORPORATE_EVENTS"}

(* Advance writes the counter through once FlushEvery rows have gathered.   *)
Advance(locals) ==
    LET n == w.pending + 1 IN
    IF n >= FlushEvery
    THEN /\ Write(partRow, SetPart(w.part, [PartAt(w.part) EXCEPT
                                              !.processed = @ + n]))
         /\ w' = [locals EXCEPT !.pending = 0]
    ELSE /\ UNCHANGED << partRow, faults >>
         /\ w' = [locals EXCEPT !.pending = n]

(* The preferences part holds one setting.                                  *)
Size(p) == IF p = "PREFERENCES" THEN 1 ELSE Units

AtRow == pc = "part" /\ w.doc /\ w.unit < Size(w.part)

(* A row's own transaction commits: an upsert, or for TXS one window        *)
(* replaced.  Landing twice is landing once.                                *)
LandRow(gain) ==
    /\ applied' = [applied EXCEPT ![cur][w.part] = @ \cup {w.unit + 1}]
    /\ owes' = [owes EXCEPT ![cur] = @ \cup gain]
    /\ UNCHANGED << copies, did >>

ApplyRow ==
    /\ AtRow
    /\ LandRow(Earns(w.part) \cup IF w.part = "TXS" THEN {"adjust"} ELSE {})
    /\ Advance([w EXCEPT !.unit = @ + 1, !.gain = @ \cup Earns(w.part)])
    /\ UNCHANGED << jobRows, problems, progress, runs, workerRest, curRun, pc >>

(* A window with no postings clears its period.  ingestBatch reports        *)
(* nothing stored.                                                          *)
ClearWindow ==
    /\ AtRow /\ w.part = "TXS"
    /\ LandRow({"recalcCleared"})
    /\ w' = [w EXCEPT !.unit = @ + 1]
    /\ UNCHANGED << jobRows, partRows, runs, workerRest, curRun, pc, faults >>

(* A row the part cannot use is a validation error on a part that goes on.  *)
RejectRow ==
    /\ AtRow /\ w.part # "TXS"
    /\ Advance([w EXCEPT !.unit = @ + 1, !.errs = @ \cup {w.unit + 1}])
    /\ UNCHANGED << jobRows, problems, progress, runs, store, workerRest,
                    curRun, pc >>

(* A hard failure ends the part; rows already landed stay.                  *)
FailPart ==
    /\ AtRow
    /\ w' = [w EXCEPT !.partErr = TRUE, !.errs = @ \cup {0},
                      !.earned = @ \cup IF w.part \in ReportsAtEnd
                                        THEN {} ELSE w.gain]
    /\ pc' = "flush"
    /\ UNCHANGED << jobRows, partRows, runs, store, workerRest, curRun,
                    faults >>

(* Mutant: the flags of a part that ended are not reported.                 *)
ReportNothing == w.earned

(* The result flags after a part that ended.                                *)
Reported == w.earned \cup w.gain

(* The part has no rows left, or the document was empty.                    *)
EndPart ==
    /\ pc = "part"
    /\ \/ w.doc /\ w.unit = Size(w.part)
       \/ ~w.doc /\ w.part # "PREFERENCES"
    /\ w' = [w EXCEPT !.earned = Reported]
    /\ pc' = IF w.part = "TXS" THEN "partAdjust" ELSE "flush"
    /\ UNCHANGED << jobRows, partRows, runs, store, workerRest, curRun,
                    faults >>

(* PreferencePart reads a field of a section an empty document lacks: the   *)
(* nil dereference takes the process down.                                  *)
PreferencesPanic ==
    /\ pc = "part" /\ ~w.doc /\ w.part = "PREFERENCES"
    /\ crashes <= MaxCrashes
    /\ crashes' = crashes + 1
    /\ Lost
    /\ UNCHANGED << jobRows, partRows, runs, store, accepted, faults >>

FlushProgress ==
    /\ pc = "flush"
    /\ IF w.pending = 0
       THEN UNCHANGED << partRow, faults >>
       ELSE Write(partRow, SetPart(w.part, [PartAt(w.part) EXCEPT
                                              !.processed = @ + w.pending]))
    /\ w' = [w EXCEPT !.pending = 0]
    /\ pc' = "flushErrs"
    /\ UNCHANGED << jobRows, problems, progress, runs, store, workerRest,
                    curRun >>

FlushProblems ==
    /\ pc = "flushErrs"
    /\ IF w.errs = {}
       THEN UNCHANGED << problems, faults >>
       ELSE Write(problems, [problems EXCEPT ![cur][w.part] =
                               [r \in 0..Units |->
                                  IF r \in w.errs THEN @[r] + 1 ELSE @[r]]])
    /\ w' = [w EXCEPT !.errs = {}]
    /\ pc' = IF w.part = "none" THEN "finish" ELSE "partEnd"
    /\ UNCHANGED << jobRows, partRow, progress, runs, store, workerRest,
                    curRun >>

MarkPartEnded ==
    /\ pc = "partEnd"
    /\ Write(partRow,
             SetPart(w.part,
               IF w.partErr
               THEN [PartAt(w.part) EXCEPT !.status = "FAILED",
                                           !.message = TRUE]
               ELSE [PartAt(w.part) EXCEPT !.status = "SUCCESS"]))
    /\ w' = [w EXCEPT !.todo = @ \ {w.part}, !.part = "none",
                      !.anyFailed = @ \/ w.partErr]
    /\ pc' = "nextPart"
    /\ UNCHANGED << jobRows, problems, progress, runs, store, workerRest,
                    curRun >>

(* Mutant: a failed part is forgotten.                                      *)
VerdictLenient == "SUCCESS"
Verdict == IF w.anyFailed THEN "FAILED" ELSE "SUCCESS"

(* The job's own counter is the sum over its parts.                         *)
EndParts ==
    /\ pc = "nextPart" /\ w.todo = {}
    /\ Write(progress, [progress EXCEPT ![cur] =
               MapThenSumSet(LAMBDA p : PartAt(p).processed, menu[cur])])
    /\ w' = [w EXCEPT !.verdict = Verdict]
    /\ pc' = "finish"
    /\ UNCHANGED << jobRows, partRow, problems, runs, store, workerRest,
                    curRun >>

-----------------------------------------------------------------------------
(* finishJob: the terminal status first, the payload only then.             *)

SetTerminalStatus ==
    /\ pc = "finish"
    /\ Write(status, [status EXCEPT ![cur] = w.verdict])
    /\ pc' = "clear"
    /\ UNCHANGED << created, kind, payload, menu, partRows, runs, store,
                    workerRest, curRun, w >>

ClearJobPayload ==
    /\ pc = "clear"
    /\ Write(payload, [payload EXCEPT ![cur] = FALSE])
    /\ pc' = "after"
    /\ UNCHANGED << created, kind, status, menu, partRows, runs, store,
                    workerRest, curRun, w >>

(* The recalculation and the nudges.  One recalculation serves every        *)
(* posting stored or cleared; one that fails is only logged.                *)
FollowUp ==
    /\ pc = "after"
    /\ LET recalcs == IF "recalc" \in w.earned
                      THEN {"recalc", "recalcCleared"} ELSE {}
           nudges  == w.earned \ {"recalc", "recalcCleared"}
       IN  \/ /\ did' = [did EXCEPT ![cur] = @ \cup nudges \cup recalcs]
              /\ NoFault
           \/ /\ did' = [did EXCEPT ![cur] = @ \cup nudges]
              /\ Fault
    /\ pc' = "endRun"
    /\ UNCHANGED << jobRows, partRows, runs, copies, applied, owes,
                    workerRest, curRun, w >>

(* The deferred EndRun, and the worker waits for its next job.              *)
EndRun ==
    /\ pc = "endRun"
    /\ IF curRun = 0
       THEN UNCHANGED << runs, faults >>
       ELSE Write(runs, [runs EXCEPT ![curRun].outcome = w.verdict])
    /\ pc' = "idle" /\ cur' = 0 /\ curRun' = 0 /\ w' = NoLocals
    /\ UNCHANGED << jobRows, partRows, store, boot, channel, crashes >>

-----------------------------------------------------------------------------
Startup == Boot \/ Sweep \/ ListPendingJobs \/ Requeue \/ Serve

Handlers == \/ UpsertTxs \/ CreateTx
            \/ ImportSystemArchive \/ ImportUserArchive

Worker ==
    \/ TakeJob \/ MarkRunning \/ StartRun \/ UnknownJobType \/ LoadJobPayload
    \/ ResolveBatch \/ StoreBatch \/ AdjustTxs
    \/ ReadParts \/ NextPart \/ MarkPartRunning
    \/ ApplyRow \/ ClearWindow \/ RejectRow \/ FailPart \/ EndPart
    \/ FlushProgress \/ FlushProblems \/ MarkPartEnded \/ EndParts
    \/ SetTerminalStatus \/ ClearJobPayload \/ FollowUp \/ EndRun

Next == Startup \/ Handlers \/ Enqueue \/ Worker \/ PreferencesPanic \/ Crash

Spec == Init /\ [][Next]_vars

(* The process is restarted when it dies, a handler that began finishes,    *)
(* and the worker goroutine keeps running.  Nobody has to upload anything,  *)
(* and nothing has to fail.                                                 *)
FairSpec == Spec /\ WF_vars(Startup) /\ WF_vars(Enqueue) /\ WF_vars(Worker)

-----------------------------------------------------------------------------
(* Properties.                                                              *)

Finished(j) == j \in 1..created /\ status[j] \in Terminal
AtWork(j)   == pc # "idle" /\ cur = j

(* In one life of the process a job is handed out once: it is in at most    *)
(* one of the backlog, the hands of its handler, the channel and the        *)
(* worker, and at most once in the channel.  This is what the startup order *)
(* of main.go is for -- the backlog is offered before the server serves --  *)
(* and an append job handed out twice would store its posting twice.        *)
HandedOutOnce ==
    /\ \A a, b \in 1..Len(queue) : queue[a] = queue[b] => a = b
    /\ \A a \in 1..Len(queue) :
         queue[a] \notin backlog \cup unqueued \cup {cur}
    /\ cur \notin backlog \cup unqueued
    /\ backlog \cap unqueued = {}

(* A job that the startup recovery may run again still has its payload, as  *)
(* long as no statement failed: finishJob clears it only after the status   *)
(* is terminal, whatever step a crash falls on.                             *)
PayloadKept ==
    faults = 0 => \A j \in 1..created : status[j] \in Unfinished => payload[j]

(* The queue is sound: no job is in it twice, and a job that may still be   *)
(* run has what it is to be run on.                                         *)
QueueIsSound == HandedOutOnce /\ PayloadKept

(* One life of the process stores a posting entered by hand once: only a    *)
(* crash between the commit of StoreBatch and the terminal status makes the *)
(* recovery append it again, whatever was queued, skipped or handed out.    *)
StoredOncePerLife == \A j \in Jobs : copies[j] <= 1 + crashes

(* A job reported SUCCESS has done its work, as long as no statement        *)
(* failed: a tx job's store committed in some life of the process, and      *)
(* every part row of an archive is SUCCESS with each of its rows landed or  *)
(* reported.                                                                *)
SuccessMeansApplied ==
    faults = 0 =>
      \A j \in 1..created : status[j] = "SUCCESS" =>
        /\ kind[j] = "append" => copies[j] >= 1
        /\ kind[j] = "replace" => "recalc" \in owes[j]
        /\ \A p \in menu[j] :
             /\ partRow[j][p].status = "SUCCESS"
             /\ \A r \in 1..Size(p) :
                  r \in applied[j][p] \/ problems[j][p][r] > 0

(* A finished archive job is FAILED exactly when one of its parts is, so a  *)
(* part that failed in an earlier life and was run again counts by its last *)
(* result (processSystemImport, processUserImport).                         *)
VerdictMatchesParts ==
    faults = 0 =>
      \A j \in 1..created :
        Finished(j) /\ kind[j] \in ArchiveKinds =>
          (status[j] = "FAILED" <=>
             \E p \in menu[j] : partRow[j][p].status = "FAILED")

(* A part row never counts more rows than the part has, and a part that     *)
(* succeeded carries no failure message: a part run again starts over       *)
(* (ResetJobPartProgress).                                                  *)
PartRowsSane ==
    faults = 0 =>
      \A j \in Jobs, p \in Parts :
        /\ partRow[j][p].processed <= Size(p)
        /\ partRow[j][p].message => partRow[j][p].status = "FAILED"

(* Once the sweep has run, a telemetry run without an outcome is the one    *)
(* the worker is in, and the run the worker is in has none: the sweep       *)
(* stamps what a dead process left and never a live run (main.go,           *)
(* SweepIncompleteRuns).                                                    *)
OpenRunsAreLive ==
    faults = 0 =>
      /\ curRun # 0 => runs[curRun].outcome = "open"
      /\ phase \notin {"down", "sweep"} =>
           \A i \in DOMAIN runs : runs[i].outcome = "open" => i = curRun

(* What the tables say of a job is true, in every life of the process and   *)
(* between any two statements: the rows are of their types, and the four    *)
(* properties above hold.                                                   *)
RecordsAreTrue ==
    TypeOK /\ SuccessMeansApplied /\ VerdictMatchesParts /\ PartRowsSane /\ OpenRunsAreLive

(* When no statement failed and no process died, a job that succeeded and   *)
(* was left by the worker got every follow-up its data earned: nothing the  *)
(* worker stores is left without its split adjustment, its recalculated     *)
(* pads or its nudge.  A restored window without postings is the exception: *)
(* it clears its period and sets no flag, so no recalculation follows.      *)
FollowUpsDone ==
    faults = 0 /\ crashes = 0 =>
      \A j \in 1..created :
        status[j] = "SUCCESS" /\ ~AtWork(j) =>
          owes[j] \ {"recalcCleared"} \subseteq did[j]

(* A terminal status is never changed, across restarts and failed           *)
(* statements: a client that polled SUCCESS or FAILED was told the truth    *)
(* for good.                                                                *)
TerminalIsFinal ==
    [][\A j \in Jobs : status[j] \in Terminal => status'[j] = status[j]]_vars

(* A part that is SUCCESS is never touched again: a resumed import skips    *)
(* what an earlier life applied.                                            *)
SucceededPartStays ==
    [][\A j \in Jobs, p \in Parts :
         partRow[j][p].status = "SUCCESS" =>
           /\ partRow'[j][p] = partRow[j][p]
           /\ applied'[j][p] = applied[j][p]]_vars

Open == {j \in 1..created : status[j] \in Unfinished}

(* A job whose id was returned to its caller reaches a terminal status,     *)
(* whatever crashes, as long as the channel can hold every unfinished job   *)
(* at once (the recovery leaves what does not fit) and no statement fails.  *)
AcceptedJobsFinish ==
    [](Cardinality(Open) <= QueueCap) =>
        \A j \in Jobs : (j \in accepted) ~> (status[j] \in Terminal \/ faults > 0)

=============================================================================
