------------------------ MODULE IngestionJobsProofs ------------------------
(***************************************************************************)
(* Proofs about IngestionJobs, for any number of jobs, any channel         *)
(* capacity, any part size and any number of crashes and failed            *)
(* statements: type correctness, that a job is handed out once per life of *)
(* the process and stored at most once in it, that a job the recovery may  *)
(* run again has its payload, and that a terminal status is final.         *)
(***************************************************************************)
EXTENDS IngestionJobs, TLAPS

-----------------------------------------------------------------------------
(* The inductive invariant.  HandedOutOnce alone is not inductive: that a   *)
(* new row or a re-read backlog does not repeat a job already handed out    *)
(* follows from where a job can be in each phase of startup.                *)

(* Rows that do not exist yet have no status.                               *)
NoRowNoStatus == \A j \in Jobs : j > created => status[j] = "none"

(* Every job on its way to the worker is an unfinished row.                 *)
OnItsWay(j) == j \in 1..created /\ status[j] \in Unfinished

HandedOutAreUnfinished ==
    /\ \A j \in backlog \cup unqueued : OnItsWay(j)
    /\ \A a \in 1..Len(queue) : OnItsWay(queue[a])

(* Steps of the worker before and after the terminal status is written.     *)
Settled   == {"clear", "after", "endRun"}
Unsettled == PCs \ (Settled \cup {"idle"})

WorkerHolds ==
    /\ pc = "idle" <=> cur = 0
    /\ pc \in Unsettled => OnItsWay(cur)
    /\ pc \in Settled => cur \in 1..created

(* What the process can hold in each phase of startup.                      *)
PhaseHolds ==
    /\ phase \in {"down", "sweep", "list"} =>
         queue = << >> /\ cur = 0 /\ backlog = {}
    /\ phase # "serving" => unqueued = {}
    /\ phase = "serving" => backlog = {}

(* When no statement has failed, the payload is cleared under a terminal    *)
(* status.                                                                  *)
ClearsTerminal == pc = "clear" /\ faults = 0 => status[cur] \in Terminal

Core ==
    /\ NoRowNoStatus
    /\ HandedOutAreUnfinished
    /\ WorkerHolds
    /\ PhaseHolds
    /\ HandedOutOnce
    /\ PayloadKept
    /\ ClearsTerminal

-----------------------------------------------------------------------------
(* Type correctness.                                                        *)

(* The worker is busy only with a job, and inside the loop over the parts   *)
(* only with a part.                                                        *)
Busy == pc # "idle" => cur \in Jobs

InPart ==
    pc \in {"partRunning", "part", "partAdjust", "flush", "partEnd"} => w.part \in Parts

TypeInv == TypeOK /\ Busy /\ InPart

(* A statement that succeeds or fails stays within the bound on failures.   *)
LEMMA FaultTyped ==
    ASSUME BoundsTyped, UNCHANGED crashes, Fault \/ NoFault
    PROVE  BoundsTyped'
  BY BoundsAssumption DEF BoundsTyped, Fault, NoFault

(* Updating a part row keeps the rows typed.                                *)
LEMMA SetPartTyped ==
    ASSUME PartsTyped, NEW p, NEW r \in PartRow
    PROVE  SetPart(p, r) \in [Jobs -> [Parts -> PartRow]]
  <1>1. partRow \in [Jobs -> [Parts -> PartRow]]
    BY DEF PartsTyped
  <1> QED
    BY <1>1 DEF SetPart

(* The part rows are typed.                                                *)
LEMMA RowsKept ==
    ASSUME PartsTyped
    PROVE  partRow \in [Jobs -> [Parts -> PartRow]]
  BY DEF PartsTyped

(* The locals of a job that fails as a whole.                               *)
LEMMA RejectTyped ==
    ASSUME w \in Locals
    PROVE  [w EXCEPT !.verdict = "FAILED", !.errs = {0}] \in Locals
  <1>1. {0} \subseteq 0..Units
    BY UnitsAssumption
  <1> QED
    BY <1>1 DEF Locals, Terminal

(* Stamping a run keeps it a run.                                           *)
LEMMA RunTyped ==
    ASSUME NEW r \in [job : Jobs, outcome : Outcomes], NEW o \in Outcomes
    PROVE  [r EXCEPT !.outcome = o] \in [job : Jobs, outcome : Outcomes]
  OBVIOUS

(* Every follow-up the import can earn is one of the follow-ups.            *)
LEMMA FollowUpTyped ==
    /\ TxFollowUps \subseteq FollowUps
    /\ \A p : Earns(p) \subseteq FollowUps
    /\ {"adjust", "recalc", "recalcCleared"} \subseteq FollowUps
  BY DEF TxFollowUps, Earns, FollowUps

(* The initial state is well typed.                                         *)
LEMMA TypeInit == Init => TypeInv
  BY MaxJobsAssumption, UnitsAssumption, BoundsAssumption DEF Init, TypeInv,
      Busy, InPart, TypeOK, RowsTyped, PartsTyped, RunsTyped, StoreTyped,
      ProcessTyped, BoundsTyped, Jobs, Kinds, Statuses, Unfinished, Terminal,
      PartRow, NewPart, Locals, NoLocals, PCs, FollowUps

(* Every step keeps the types.  Under each action: the groups of variables  *)
(* it changes, then the groups it leaves alone.                             *)
LEMMA TypeStep == TypeInv /\ [Next]_vars => TypeInv'
  <1> SUFFICES ASSUME TypeInv, [Next]_vars PROVE TypeInv'
    OBVIOUS
  <1> USE MaxJobsAssumption, UnitsAssumption, FlushEveryAssumption,
          BoundsAssumption DEF TypeInv, TypeOK
  <1>1. CASE Boot
    <2>1. ProcessTyped'
      BY <1>1 DEF Boot, ProcessTyped, boot, channel, worker, idleRest,
          workerRest
    <2>2. RowsTyped' /\ PartsTyped' /\ RunsTyped' /\ StoreTyped' /\ BoundsTyped' /\ w' \in Locals
      BY <1>1 DEF Boot, RowsTyped, PartsTyped, RunsTyped, StoreTyped,
          BoundsTyped, jobRows, partRows, worker, store, workerRest, idleRest
    <2>3. Busy' /\ InPart'
      BY <1>1 DEF Boot, Busy, InPart, ProcessTyped, RowsTyped, Lost,
          CreateJob, worker, workerRest, idleRest
    <2> QED
      BY <2>1, <2>2, <2>3
  <1>2. CASE Sweep
    <2>1. RunsTyped'
      <3> DEFINE T == [job : Jobs, outcome : Outcomes]
                 swept == [i \in DOMAIN runs |-> Stamp(runs[i])]
      <3>1. runs \in Seq(T)
        BY DEF RunsTyped
      <3>2. DOMAIN runs = 1..Len(runs) /\ Len(runs) \in Nat
        BY <3>1
      <3>3. \A i \in 1..Len(runs) : swept[i] \in T
        <4> SUFFICES ASSUME NEW i \in 1..Len(runs) PROVE swept[i] \in T
          OBVIOUS
        <4>1. runs[i] \in T
          <5> HIDE DEF T
          <5> QED BY <3>1, <3>2
        <4>2. [runs[i] EXCEPT !.outcome = "INCOMPLETE"] \in T
          BY <4>1, RunTyped DEF Outcomes
        <4> QED
          BY <3>2, <4>1, <4>2 DEF Stamp
      <3>4. swept \in Seq(T)
        BY <3>2, <3>3
      <3> QED
        BY <1>2, <3>4 DEF Sweep, Write, RunsTyped, worker
    <2>2. ProcessTyped'
      BY <1>2 DEF Sweep, ProcessTyped, boot, channel, worker, idleRest,
          workerRest
    <2>3. BoundsTyped'
      BY <1>2, FaultTyped DEF Sweep, Write, NoFault, workerRest
    <2>4. RowsTyped' /\ PartsTyped' /\ StoreTyped' /\ w' \in Locals
      BY <1>2 DEF Sweep, RowsTyped, PartsTyped, StoreTyped, jobRows,
          partRows, store, worker, workerRest, idleRest
    <2>5. Busy' /\ InPart'
      BY <1>2 DEF Sweep, Busy, InPart, ProcessTyped, RowsTyped, Lost,
          CreateJob, worker, workerRest, idleRest
    <2> QED
      BY <2>1, <2>2, <2>3, <2>4, <2>5
  <1>3. CASE ListPendingJobs
    <2>1. ProcessTyped'
      <3>1. {j \in 1..created : IsPending(j)} \subseteq Jobs
        BY DEF RowsTyped, Jobs
      <3> QED
        BY <1>3, <3>1 DEF ListPendingJobs, ProcessTyped, Write, channel, worker
    <2>2. BoundsTyped'
      BY <1>3, FaultTyped DEF ListPendingJobs, Write, NoFault, workerRest
    <2>3. RowsTyped' /\ PartsTyped' /\ RunsTyped' /\ StoreTyped' /\ w' \in Locals
      BY <1>3 DEF ListPendingJobs, RowsTyped, PartsTyped, RunsTyped,
          StoreTyped, jobRows, partRows, worker, store, workerRest, idleRest
    <2>4. Busy' /\ InPart'
      BY <1>3 DEF ListPendingJobs, Busy, InPart, ProcessTyped, RowsTyped,
          Lost, CreateJob, worker, workerRest, idleRest
    <2> QED
      BY <2>1, <2>2, <2>3, <2>4
  <1>4. CASE Requeue
    <2>1. ProcessTyped'
      BY <1>4 DEF Requeue, ProcessTyped, boot, channel, worker, idleRest,
          workerRest
    <2>2. RowsTyped' /\ PartsTyped' /\ RunsTyped' /\ StoreTyped' /\ BoundsTyped' /\ w' \in Locals
      BY <1>4 DEF Requeue, RowsTyped, PartsTyped, RunsTyped, StoreTyped,
          BoundsTyped, jobRows, partRows, worker, store, workerRest, idleRest
    <2>3. Busy' /\ InPart'
      BY <1>4 DEF Requeue, Busy, InPart, ProcessTyped, RowsTyped, Lost,
          CreateJob, worker, workerRest, idleRest
    <2> QED
      BY <2>1, <2>2, <2>3
  <1>5. CASE Serve
    <2>1. ProcessTyped'
      BY <1>5 DEF Serve, ProcessTyped, boot, channel, worker, idleRest,
          workerRest
    <2>2. RowsTyped' /\ PartsTyped' /\ RunsTyped' /\ StoreTyped' /\ BoundsTyped' /\ w' \in Locals
      BY <1>5 DEF Serve, RowsTyped, PartsTyped, RunsTyped, StoreTyped,
          BoundsTyped, jobRows, partRows, worker, store, workerRest, idleRest
    <2>3. Busy' /\ InPart'
      BY <1>5 DEF Serve, Busy, InPart, ProcessTyped, RowsTyped, Lost,
          CreateJob, worker, workerRest, idleRest
    <2> QED
      BY <2>1, <2>2, <2>3
  <1>6. CASE Crash
    <2>1. RunsTyped'
      BY <1>6 DEF Crash, RunsTyped, Lost, worker
    <2>2. ProcessTyped'
      BY <1>6 DEF Crash, ProcessTyped, Lost, PCs, boot, channel, worker,
          idleRest, workerRest
    <2>3. BoundsTyped'
      BY <1>6 DEF Crash, BoundsTyped, workerRest
    <2>4. w' \in Locals
      BY <1>6 DEF Crash, Lost, NoLocals, Locals, Terminal, worker
    <2>5. RowsTyped' /\ PartsTyped' /\ StoreTyped'
      BY <1>6 DEF Crash, RowsTyped, PartsTyped, StoreTyped, jobRows,
          partRows, store, workerRest, idleRest, Lost
    <2>6. Busy' /\ InPart'
      BY <1>6 DEF Crash, Busy, InPart, ProcessTyped, RowsTyped, Lost,
          CreateJob, worker, workerRest, idleRest
    <2> QED
      BY <2>1, <2>2, <2>3, <2>4, <2>5, <2>6
  <1>7. CASE UpsertTxs
    <2>1. RowsTyped'
      BY <1>7 DEF UpsertTxs, RowsTyped, CreateJob, Jobs, Kinds, TxKinds,
          Statuses, Unfinished, Terminal
    <2>2. ProcessTyped'
      BY <1>7 DEF UpsertTxs, ProcessTyped, CreateJob, Jobs, RowsTyped, boot,
          channel, worker, idleRest, workerRest
    <2>3. PartsTyped' /\ RunsTyped' /\ StoreTyped' /\ BoundsTyped' /\ w' \in Locals
      BY <1>7 DEF UpsertTxs, PartsTyped, RunsTyped, StoreTyped, BoundsTyped,
          partRows, worker, store, workerRest, idleRest, CreateJob
    <2>4. Busy' /\ InPart'
      BY <1>7 DEF UpsertTxs, Busy, InPart, ProcessTyped, RowsTyped, Lost,
          CreateJob, worker, workerRest, idleRest
    <2> QED
      BY <2>1, <2>2, <2>3, <2>4
  <1>8. CASE CreateTx
    <2>1. RowsTyped'
      BY <1>8 DEF CreateTx, RowsTyped, CreateJob, Jobs, Kinds, TxKinds,
          Statuses, Unfinished, Terminal
    <2>2. ProcessTyped'
      BY <1>8 DEF CreateTx, ProcessTyped, CreateJob, Jobs, RowsTyped, boot,
          channel, worker, idleRest, workerRest
    <2>3. PartsTyped' /\ RunsTyped' /\ StoreTyped' /\ BoundsTyped' /\ w' \in Locals
      BY <1>8 DEF CreateTx, PartsTyped, RunsTyped, StoreTyped, BoundsTyped,
          partRows, worker, store, workerRest, idleRest, CreateJob
    <2>4. Busy' /\ InPart'
      BY <1>8 DEF CreateTx, Busy, InPart, ProcessTyped, RowsTyped, Lost,
          CreateJob, worker, workerRest, idleRest
    <2> QED
      BY <2>1, <2>2, <2>3, <2>4
  <1>9. CASE ImportSystemArchive
    <2>1. RowsTyped'
      BY <1>9 DEF ImportSystemArchive, RowsTyped, CreateJob, Jobs, Kinds,
          ArchiveKinds, SystemParts, Statuses, Unfinished, Terminal
    <2>2. ProcessTyped'
      BY <1>9 DEF ImportSystemArchive, ProcessTyped, CreateJob, Jobs,
          RowsTyped, boot, channel, worker, idleRest, workerRest
    <2>3. PartsTyped' /\ RunsTyped' /\ StoreTyped' /\ BoundsTyped' /\ w' \in Locals
      BY <1>9 DEF ImportSystemArchive, PartsTyped, RunsTyped, StoreTyped,
          BoundsTyped, partRows, worker, store, workerRest, idleRest, CreateJob
    <2>4. Busy' /\ InPart'
      BY <1>9 DEF ImportSystemArchive, Busy, InPart, ProcessTyped,
          RowsTyped, Lost, CreateJob, worker, workerRest, idleRest
    <2> QED
      BY <2>1, <2>2, <2>3, <2>4
  <1>10. CASE ImportUserArchive
    <2>1. RowsTyped'
      BY <1>10 DEF ImportUserArchive, RowsTyped, CreateJob, Jobs, Kinds,
          ArchiveKinds, UserParts, Parts, RestoreOrder, Statuses, Unfinished,
          Terminal
    <2>2. ProcessTyped'
      BY <1>10 DEF ImportUserArchive, ProcessTyped, CreateJob, Jobs,
          RowsTyped, boot, channel, worker, idleRest, workerRest
    <2>3. PartsTyped' /\ RunsTyped' /\ StoreTyped' /\ BoundsTyped' /\ w' \in Locals
      BY <1>10 DEF ImportUserArchive, PartsTyped, RunsTyped, StoreTyped,
          BoundsTyped, partRows, worker, store, workerRest, idleRest, CreateJob
    <2>4. Busy' /\ InPart'
      BY <1>10 DEF ImportUserArchive, Busy, InPart, ProcessTyped, RowsTyped,
          Lost, CreateJob, worker, workerRest, idleRest
    <2> QED
      BY <2>1, <2>2, <2>3, <2>4
  <1>11. CASE Enqueue
    <2>1. ProcessTyped'
      BY <1>11 DEF Enqueue, ProcessTyped, boot, channel, worker, idleRest,
          workerRest
    <2>2. RowsTyped' /\ PartsTyped' /\ RunsTyped' /\ StoreTyped' /\ BoundsTyped' /\ w' \in Locals
      BY <1>11 DEF Enqueue, RowsTyped, PartsTyped, RunsTyped, StoreTyped,
          BoundsTyped, jobRows, partRows, worker, store, workerRest, idleRest
    <2>3. Busy' /\ InPart'
      BY <1>11 DEF Enqueue, Busy, InPart, ProcessTyped, RowsTyped, Lost,
          CreateJob, worker, workerRest, idleRest
    <2> QED
      BY <2>1, <2>2, <2>3
  <1>12. CASE TakeJob
    <2>1. ProcessTyped'
      BY <1>12 DEF TakeJob, ProcessTyped, PCs, boot, channel, worker,
          idleRest, workerRest
    <2>2. RowsTyped' /\ PartsTyped' /\ RunsTyped' /\ StoreTyped' /\ BoundsTyped' /\ w' \in Locals
      BY <1>12 DEF TakeJob, RowsTyped, PartsTyped, RunsTyped, StoreTyped,
          BoundsTyped, jobRows, partRows, worker, store, workerRest, idleRest
    <2>3. Busy' /\ InPart'
      BY <1>12 DEF TakeJob, Busy, InPart, ProcessTyped, RowsTyped, Lost,
          CreateJob, worker, workerRest, idleRest
    <2> QED
      BY <2>1, <2>2, <2>3
  <1>13. CASE MarkRunning
    <2>1. RowsTyped'
      BY <1>13 DEF MarkRunning, RowsTyped, Write, Statuses, Unfinished,
          Terminal
    <2>2. ProcessTyped'
      BY <1>13 DEF MarkRunning, ProcessTyped, PCs, boot, channel, worker,
          idleRest, workerRest
    <2>3. BoundsTyped'
      BY <1>13, FaultTyped DEF MarkRunning, Write, NoFault, workerRest
    <2>4. PartsTyped' /\ RunsTyped' /\ StoreTyped' /\ w' \in Locals
      BY <1>13 DEF MarkRunning, PartsTyped, RunsTyped, StoreTyped, partRows,
          worker, store, workerRest, idleRest
    <2>5. Busy' /\ InPart'
      BY <1>13 DEF MarkRunning, Busy, InPart, ProcessTyped, RowsTyped, Lost,
          CreateJob, worker, workerRest, idleRest
    <2> QED
      BY <2>1, <2>2, <2>3, <2>4, <2>5
  <1>14. CASE StartRun
    <2>1. RunsTyped'
      <3> DEFINE T == [job : Jobs, outcome : Outcomes]
                 row == [job |-> cur, outcome |-> "open"]
      <3>1. cur \in Jobs
        BY <1>14 DEF StartRun, Busy
      <3>2. /\ runs \in Seq(T) /\ Append(runs, row) \in Seq(T)
            /\ curRun \in Nat /\ Len(runs) + 1 \in Nat
        BY <3>1 DEF RunsTyped, Outcomes
      <3>3. runs' \in {runs, Append(runs, row)}
        BY <1>14 DEF StartRun, Write
      <3>4. curRun' \in {curRun, 0, Len(runs) + 1}
        BY <1>14 DEF StartRun
      <3>5. runs' \in Seq(T) /\ curRun' \in Nat
        <4> HIDE DEF row, T
        <4> QED BY <3>2, <3>3, <3>4
      <3> QED
        BY <3>5 DEF RunsTyped
    <2>2. ProcessTyped'
      BY <1>14 DEF StartRun, ProcessTyped, PCs, boot, channel, worker,
          idleRest, workerRest
    <2>3. BoundsTyped'
      BY <1>14, FaultTyped DEF StartRun, Write, NoFault, workerRest
    <2>4. w' \in Locals
      <3>1. w' \in {w, [w EXCEPT !.owner = TRUE], [w EXCEPT !.owner = FALSE]}
        BY <1>14 DEF StartRun
      <3> QED
        BY <3>1 DEF Locals
    <2>5. RowsTyped' /\ PartsTyped' /\ StoreTyped'
      BY <1>14 DEF StartRun, RowsTyped, PartsTyped, StoreTyped, jobRows,
          partRows, store, workerRest, idleRest
    <2>6. Busy' /\ InPart'
      BY <1>14 DEF StartRun, Busy, InPart, ProcessTyped, RowsTyped, Lost,
          CreateJob, worker, workerRest, idleRest
    <2> QED
      BY <2>1, <2>2, <2>3, <2>4, <2>5, <2>6
  <1>15. CASE UnknownJobType
    <2>1. RowsTyped'
      BY <1>15 DEF UnknownJobType, RowsTyped, Write, Statuses, Unfinished,
          Terminal
    <2>2. ProcessTyped'
      BY <1>15 DEF UnknownJobType, ProcessTyped, PCs, boot, channel, worker,
          idleRest, workerRest
    <2>3. BoundsTyped'
      BY <1>15, FaultTyped DEF UnknownJobType, Write, NoFault, workerRest
    <2>4. PartsTyped' /\ RunsTyped' /\ StoreTyped' /\ w' \in Locals
      BY <1>15 DEF UnknownJobType, PartsTyped, RunsTyped, StoreTyped,
          partRows, worker, store, workerRest, idleRest
    <2>5. Busy' /\ InPart'
      BY <1>15 DEF UnknownJobType, Busy, InPart, ProcessTyped, RowsTyped,
          Lost, CreateJob, worker, workerRest, idleRest
    <2> QED
      BY <2>1, <2>2, <2>3, <2>4, <2>5
  <1>16. CASE LoadJobPayload
    <2>1. ProcessTyped'
      BY <1>16 DEF LoadJobPayload, ProcessTyped, PCs, RejectBatch, boot,
          channel, worker, idleRest, workerRest
    <2>2. BoundsTyped'
      BY <1>16, FaultTyped DEF LoadJobPayload, NoFault, workerRest
    <2>3. w' \in Locals
      <3>1. \/ w' = [w EXCEPT !.doc = payload[cur]]
            \/ w' = [w EXCEPT !.verdict = "FAILED"]
            \/ w' = [w EXCEPT !.verdict = "FAILED", !.errs = {0}]
        BY <1>16 DEF LoadJobPayload, RejectBatch
      <3>2. payload[cur] \in BOOLEAN
        BY <1>16 DEF LoadJobPayload, Busy, RowsTyped
      <3>3. /\ [w EXCEPT !.doc = payload[cur]] \in Locals
            /\ [w EXCEPT !.verdict = "FAILED"] \in Locals
        BY <3>2 DEF Locals, Terminal
      <3> QED
        BY <3>1, <3>3, RejectTyped
    <2>4. RowsTyped' /\ PartsTyped' /\ RunsTyped' /\ StoreTyped'
      BY <1>16 DEF LoadJobPayload, RowsTyped, PartsTyped, RunsTyped,
          StoreTyped, jobRows, partRows, worker, store, workerRest, idleRest
    <2>5. Busy' /\ InPart'
      BY <1>16 DEF LoadJobPayload, Busy, InPart, ProcessTyped, RowsTyped,
          Lost, CreateJob, worker, workerRest, idleRest, RejectBatch
    <2> QED
      BY <2>1, <2>2, <2>3, <2>4, <2>5
  <1>17. CASE ResolveBatch
    <2>1. PartsTyped'
      BY <1>17 DEF ResolveBatch, PartsTyped
    <2>2. ProcessTyped'
      BY <1>17 DEF ResolveBatch, ProcessTyped, PCs, RejectBatch, boot,
          channel, worker, idleRest, workerRest
    <2>3. w' \in Locals
      <3>1. w' \in {w, [w EXCEPT !.verdict = "FAILED", !.errs = {0}],
                     [w EXCEPT !.verdict = "SUCCESS", !.earned = TxFollowUps]}
        BY <1>17 DEF ResolveBatch, RejectBatch
      <3>2. [w EXCEPT !.verdict = "SUCCESS", !.earned = TxFollowUps] \in Locals
        BY FollowUpTyped DEF Locals, Terminal
      <3> QED
        BY <3>1, <3>2, RejectTyped
    <2>4. RowsTyped' /\ RunsTyped' /\ StoreTyped' /\ BoundsTyped'
      BY <1>17 DEF ResolveBatch, RowsTyped, RunsTyped, StoreTyped,
          BoundsTyped, jobRows, worker, store, workerRest, idleRest
    <2>5. Busy' /\ InPart'
      BY <1>17 DEF ResolveBatch, Busy, InPart, ProcessTyped, RowsTyped,
          Lost, CreateJob, worker, workerRest, idleRest, RejectBatch
    <2> QED
      BY <2>1, <2>2, <2>3, <2>4, <2>5
  <1>18. CASE StoreBatch
    <2>1. StoreTyped'
      <3>1. CASE UNCHANGED store
        BY <3>1 DEF StoreTyped, store
      <3>2. CASE ~ UNCHANGED store
        <4>1. /\ copies' = IF kind[cur] = "append"
                           THEN [copies EXCEPT ![cur] = @ + 1]
                           ELSE [j \in Jobs |->
                                   CASE j = cur -> 1
                                     [] j # cur /\ kind[j] = "replace" -> 0
                                     [] OTHER -> copies[j]]
              /\ owes' = [owes EXCEPT ![cur] =
                            @ \cup TxFollowUps \cup {"adjust"}]
              /\ UNCHANGED << applied, did >>
          BY <1>18, <3>2 DEF StoreBatch
        <4>2. copies' \in [Jobs -> Nat]
          <5>1. CASE kind[cur] = "append"
            <6>1. copies' = [copies EXCEPT ![cur] = @ + 1]
              BY <4>1, <5>1
            <6>2. cur \in Jobs
              BY <1>18 DEF StoreBatch, Busy
            <6>3. copies \in [Jobs -> Nat] /\ copies[cur] + 1 \in Nat
              BY <6>2 DEF StoreTyped
            <6> QED
              BY <6>1, <6>2, <6>3
          <5>2. CASE kind[cur] # "append"
            <6>1. \A j \in Jobs : (CASE j = cur -> 1
                                    [] j # cur /\ kind[j] = "replace" -> 0
                                    [] OTHER -> copies[j]) \in Nat
              BY DEF StoreTyped
            <6> QED
              BY <4>1, <5>2, <6>1
          <5> QED
            BY <5>1, <5>2
        <4>3. owes' \in [Jobs -> SUBSET FollowUps]
          BY <4>1, FollowUpTyped DEF StoreTyped
        <4> QED
          BY <4>1, <4>2, <4>3 DEF StoreTyped
      <3> QED
        BY <3>1, <3>2
    <2>2. ProcessTyped'
      BY <1>18 DEF StoreBatch, ProcessTyped, PCs, RejectBatch, boot,
          channel, worker, idleRest, workerRest
    <2>3. w' \in Locals
      <3>1. w' \in {[w EXCEPT !.verdict = "FAILED", !.errs = {0}],
                     [w EXCEPT !.verdict = "SUCCESS", !.earned = TxFollowUps]}
        BY <1>18 DEF StoreBatch, RejectBatch
      <3>2. [w EXCEPT !.verdict = "SUCCESS", !.earned = TxFollowUps] \in Locals
        BY FollowUpTyped DEF Locals, Terminal
      <3> QED
        BY <3>1, <3>2, RejectTyped
    <2>4. RowsTyped' /\ PartsTyped' /\ RunsTyped' /\ BoundsTyped'
      BY <1>18 DEF StoreBatch, RowsTyped, PartsTyped, RunsTyped,
          BoundsTyped, jobRows, partRows, worker, workerRest, idleRest
    <2>5. Busy' /\ InPart'
      BY <1>18 DEF StoreBatch, Busy, InPart, ProcessTyped, RowsTyped, Lost,
          CreateJob, worker, workerRest, idleRest, RejectBatch
    <2> QED
      BY <2>1, <2>2, <2>3, <2>4, <2>5
  <1>19. CASE AdjustTxs
    <2>1. StoreTyped'
      BY <1>19, FollowUpTyped DEF AdjustTxs, StoreTyped, Write
    <2>2. ProcessTyped'
      BY <1>19 DEF AdjustTxs, ProcessTyped, PCs, boot, channel, worker,
          idleRest, workerRest
    <2>3. BoundsTyped'
      BY <1>19, FaultTyped DEF AdjustTxs, Write, NoFault, workerRest
    <2>4. RowsTyped' /\ PartsTyped' /\ RunsTyped' /\ w' \in Locals
      BY <1>19 DEF AdjustTxs, RowsTyped, PartsTyped, RunsTyped, jobRows,
          partRows, worker, workerRest, idleRest
    <2>5. Busy' /\ InPart'
      BY <1>19 DEF AdjustTxs, Busy, InPart, ProcessTyped, RowsTyped, Lost,
          CreateJob, worker, workerRest, idleRest
    <2> QED
      BY <2>1, <2>2, <2>3, <2>4, <2>5
  <1>20. CASE ReadParts
    <2>1. ProcessTyped'
      BY <1>20 DEF ReadParts, ProcessTyped, PCs, RejectBatch, boot, channel,
          worker, idleRest, workerRest
    <2>2. BoundsTyped'
      BY <1>20, FaultTyped DEF ReadParts, NoFault, workerRest
    <2>3. w' \in Locals
      <3> DEFINE left == {p \in menu[cur] : ToApply(p)}
      <3>1. left \subseteq Parts
        BY <1>20 DEF ReadParts, Busy, RowsTyped
      <3>2. w' = [w EXCEPT !.todo = left]
            \/ w' = [w EXCEPT !.verdict = "FAILED", !.errs = {0}]
        BY <1>20 DEF ReadParts, RejectBatch
      <3> HIDE DEF left
      <3>3. [w EXCEPT !.todo = left] \in Locals
        BY <3>1 DEF Locals
      <3> QED
        BY <3>2, <3>3, RejectTyped
    <2>4. RowsTyped' /\ PartsTyped' /\ RunsTyped' /\ StoreTyped'
      BY <1>20 DEF ReadParts, RowsTyped, PartsTyped, RunsTyped, StoreTyped,
          jobRows, partRows, worker, store, workerRest, idleRest
    <2>5. Busy' /\ InPart'
      BY <1>20 DEF ReadParts, Busy, InPart, ProcessTyped, RowsTyped, Lost,
          CreateJob, worker, workerRest, idleRest, RejectBatch
    <2> QED
      BY <2>1, <2>2, <2>3, <2>4, <2>5
  <1>21. CASE NextPart
    <2>1. PartsTyped'
      <3>1. PICK p \in w.todo : ResetPart(p)
        BY <1>21 DEF NextPart
      <3>2. p \in Parts /\ cur \in Jobs
        BY <1>21, <3>1 DEF Locals, NextPart, Busy
      <3>3. PartAt(p) \in PartRow
        BY <3>2 DEF PartsTyped, PartAt
      <3>4. [PartAt(p) EXCEPT !.processed = 0, !.message = FALSE] \in PartRow
        BY <3>3 DEF PartRow
      <3>5. partRow' \in [Jobs -> [Parts -> PartRow]]
        BY <3>1, <3>4, SetPartTyped, RowsKept DEF ResetPart, Write
      <3> QED
        BY <1>21, <3>5 DEF NextPart, PartsTyped
    <2>2. ProcessTyped'
      BY <1>21 DEF NextPart, ProcessTyped, PCs, boot, channel, worker,
          idleRest, workerRest
    <2>3. BoundsTyped'
      BY <1>21, FaultTyped DEF NextPart, ResetPart, Write, NoFault,
          workerRest
    <2>4. w' \in Locals
      <3>1. PICK p \in w.todo :
              w' = [w EXCEPT !.part = p, !.unit = 0, !.pending = 0,
                             !.errs = {}, !.gain = {}, !.partErr = FALSE]
        BY <1>21 DEF NextPart
      <3>2. p \in Parts
        BY <3>1 DEF Locals
      <3> QED
        BY <3>1, <3>2 DEF Locals
    <2>5. RowsTyped' /\ RunsTyped' /\ StoreTyped'
      BY <1>21 DEF NextPart, RowsTyped, RunsTyped, StoreTyped, jobRows,
          worker, store, workerRest, idleRest
    <2>6. Busy' /\ InPart'
      BY <1>21 DEF NextPart, Busy, InPart, ProcessTyped, RowsTyped, Lost,
          CreateJob, worker, workerRest, idleRest, Locals
    <2> QED
      BY <2>1, <2>2, <2>3, <2>4, <2>5, <2>6
  <1>22. CASE MarkPartRunning
    <2>1. PartsTyped'
      <3>1. w.part \in Parts /\ cur \in Jobs
        BY <1>22 DEF MarkPartRunning, InPart, Busy
      <3>2. PartAt(w.part) \in PartRow
        BY <3>1 DEF PartsTyped, PartAt
      <3>3. [PartAt(w.part) EXCEPT !.status = "RUNNING"] \in PartRow
        BY <3>2 DEF PartRow, Statuses, Unfinished
      <3>4. partRow' \in [Jobs -> [Parts -> PartRow]]
        BY <1>22, <3>3, SetPartTyped, RowsKept DEF MarkPartRunning, Write
      <3> QED
        BY <1>22, <3>4 DEF MarkPartRunning, PartsTyped
    <2>2. ProcessTyped'
      BY <1>22 DEF MarkPartRunning, ProcessTyped, PCs, boot, channel,
          worker, idleRest, workerRest
    <2>3. BoundsTyped'
      BY <1>22, FaultTyped DEF MarkPartRunning, Write, NoFault, workerRest
    <2>4. RowsTyped' /\ RunsTyped' /\ StoreTyped' /\ w' \in Locals
      BY <1>22 DEF MarkPartRunning, RowsTyped, RunsTyped, StoreTyped,
          jobRows, worker, store, workerRest, idleRest
    <2>5. Busy' /\ InPart'
      BY <1>22 DEF MarkPartRunning, Busy, InPart, ProcessTyped, RowsTyped,
          Lost, CreateJob, worker, workerRest, idleRest
    <2> QED
      BY <2>1, <2>2, <2>3, <2>4, <2>5
  <1>23. CASE ApplyRow
    <2>1. PartsTyped'
      <3>1. w.part \in Parts /\ cur \in Jobs
        BY <1>23 DEF ApplyRow, InPart, Busy, AtRow
      <3>2. PartAt(w.part) \in PartRow
        BY <3>1 DEF PartsTyped, PartAt
      <3>3. [PartAt(w.part) EXCEPT !.processed = @ + (w.pending + 1)] \in PartRow
        BY <3>2 DEF PartRow, Locals
      <3>4. partRow' \in [Jobs -> [Parts -> PartRow]]
        BY <1>23, <3>3, SetPartTyped, RowsKept DEF ApplyRow, Write, Advance
      <3> QED
        BY <1>23, <3>4 DEF ApplyRow, PartsTyped
    <2>2. StoreTyped'
      <3> DEFINE row == w.unit + 1
                 gain == Earns(w.part)
                           \cup IF w.part = "TXS" THEN {"adjust"} ELSE {}
      <3>1. row \in 1..Units
        BY <1>23 DEF ApplyRow, AtRow, Size, Locals
      <3>2. gain \subseteq FollowUps
        BY FollowUpTyped
      <3>3. /\ applied' = [applied EXCEPT ![cur][w.part] = @ \cup {row}]
            /\ owes' = [owes EXCEPT ![cur] = @ \cup gain]
            /\ UNCHANGED << copies, did >>
        BY <1>23 DEF ApplyRow, LandRow
      <3> HIDE DEF row, gain
      <3>4. applied' \in [Jobs -> [Parts -> SUBSET (1..Units)]]
        BY <3>1, <3>3 DEF StoreTyped
      <3>5. owes' \in [Jobs -> SUBSET FollowUps]
        BY <3>2, <3>3 DEF StoreTyped
      <3> QED
        BY <3>3, <3>4, <3>5 DEF StoreTyped
    <2>3. ProcessTyped'
      BY <1>23 DEF ApplyRow, ProcessTyped, PCs, boot, channel, worker,
          idleRest, workerRest
    <2>4. BoundsTyped'
      BY <1>23, FaultTyped DEF ApplyRow, Advance, Write, NoFault, workerRest
    <2>5. w' \in Locals
      <3> DEFINE v == [w EXCEPT !.unit = @ + 1, !.gain = @ \cup Earns(w.part)]
      <3>1. w.unit + 1 \in Nat /\ w.unit + 1 \in 0..Units /\ w.pending + 1 \in Nat
        BY <1>23 DEF ApplyRow, AtRow, Size, Locals
      <3>2. v \in Locals
        BY <3>1, FollowUpTyped DEF Locals
      <3>3. w' \in {[v EXCEPT !.pending = 0],
                     [v EXCEPT !.pending = w.pending + 1]}
        BY <1>23 DEF ApplyRow, Advance
      <3> HIDE DEF v
      <3> QED
        BY <3>1, <3>2, <3>3 DEF Locals
    <2>6. RowsTyped' /\ RunsTyped'
      BY <1>23 DEF ApplyRow, RowsTyped, RunsTyped, jobRows, worker,
          workerRest, idleRest, LandRow
    <2>7. Busy' /\ InPart'
      BY <1>23 DEF ApplyRow, Busy, InPart, ProcessTyped, RowsTyped, Lost,
          CreateJob, worker, workerRest, idleRest, Advance, AtRow, Locals
    <2> QED
      BY <2>1, <2>2, <2>3, <2>4, <2>5, <2>6, <2>7
  <1>24. CASE ClearWindow
    <2>1. StoreTyped'
      <3> DEFINE row == w.unit + 1
                 gain == {"recalcCleared"}
      <3>1. row \in 1..Units
        BY <1>24 DEF ClearWindow, AtRow, Size, Locals
      <3>2. gain \subseteq FollowUps
        BY FollowUpTyped
      <3>3. /\ applied' = [applied EXCEPT ![cur][w.part] = @ \cup {row}]
            /\ owes' = [owes EXCEPT ![cur] = @ \cup gain]
            /\ UNCHANGED << copies, did >>
        BY <1>24 DEF ClearWindow, LandRow
      <3> HIDE DEF row, gain
      <3>4. applied' \in [Jobs -> [Parts -> SUBSET (1..Units)]]
        BY <3>1, <3>3 DEF StoreTyped
      <3>5. owes' \in [Jobs -> SUBSET FollowUps]
        BY <3>2, <3>3 DEF StoreTyped
      <3> QED
        BY <3>3, <3>4, <3>5 DEF StoreTyped
    <2>2. ProcessTyped'
      BY <1>24 DEF ClearWindow, ProcessTyped, PCs, boot, channel, worker,
          idleRest, workerRest
    <2>3. w' \in Locals
      BY <1>24 DEF ClearWindow, Locals, worker
    <2>4. RowsTyped' /\ PartsTyped' /\ RunsTyped' /\ BoundsTyped'
      BY <1>24 DEF ClearWindow, RowsTyped, PartsTyped, RunsTyped,
          BoundsTyped, jobRows, partRows, worker, workerRest, idleRest, LandRow
    <2>5. Busy' /\ InPart'
      BY <1>24 DEF ClearWindow, Busy, InPart, ProcessTyped, RowsTyped, Lost,
          CreateJob, worker, workerRest, idleRest, Locals, AtRow
    <2> QED
      BY <2>1, <2>2, <2>3, <2>4, <2>5
  <1>25. CASE RejectRow
    <2>1. PartsTyped'
      <3>1. w.part \in Parts /\ cur \in Jobs
        BY <1>25 DEF RejectRow, InPart, Busy, AtRow
      <3>2. PartAt(w.part) \in PartRow
        BY <3>1 DEF PartsTyped, PartAt
      <3>3. [PartAt(w.part) EXCEPT !.processed = @ + (w.pending + 1)] \in PartRow
        BY <3>2 DEF PartRow, Locals
      <3>4. partRow' \in [Jobs -> [Parts -> PartRow]]
        BY <1>25, <3>3, SetPartTyped, RowsKept DEF RejectRow, Write, Advance
      <3> QED
        BY <1>25, <3>4 DEF RejectRow, PartsTyped
    <2>2. ProcessTyped'
      BY <1>25 DEF RejectRow, ProcessTyped, PCs, boot, channel, worker,
          idleRest, workerRest
    <2>3. BoundsTyped'
      BY <1>25, FaultTyped DEF RejectRow, Advance, Write, NoFault,
          workerRest
    <2>4. w' \in Locals
      <3> DEFINE v == [w EXCEPT !.unit = @ + 1, !.errs = @ \cup {w.unit + 1}]
      <3>1. w.unit + 1 \in Nat /\ w.unit + 1 \in 0..Units /\ w.pending + 1 \in Nat
        BY <1>25 DEF RejectRow, AtRow, Size, Locals
      <3>2. v \in Locals
        BY <3>1 DEF Locals
      <3>3. w' \in {[v EXCEPT !.pending = 0],
                     [v EXCEPT !.pending = w.pending + 1]}
        BY <1>25 DEF RejectRow, Advance
      <3> HIDE DEF v
      <3> QED
        BY <3>1, <3>2, <3>3 DEF Locals
    <2>5. RowsTyped' /\ RunsTyped' /\ StoreTyped'
      BY <1>25 DEF RejectRow, RowsTyped, RunsTyped, StoreTyped, jobRows,
          worker, store, workerRest, idleRest
    <2>6. Busy' /\ InPart'
      BY <1>25 DEF RejectRow, Busy, InPart, ProcessTyped, RowsTyped, Lost,
          CreateJob, worker, workerRest, idleRest, Advance, AtRow, Locals
    <2> QED
      BY <2>1, <2>2, <2>3, <2>4, <2>5, <2>6
  <1>26. CASE FailPart
    <2>1. ProcessTyped'
      BY <1>26 DEF FailPart, ProcessTyped, PCs, boot, channel, worker,
          idleRest, workerRest
    <2>2. w' \in Locals
      <3> DEFINE kept == IF w.part \in ReportsAtEnd THEN {} ELSE w.gain
      <3>1. kept \subseteq FollowUps /\ 0 \in 0..Units
        BY DEF Locals
      <3>2. w' = [w EXCEPT !.partErr = TRUE, !.errs = @ \cup {0},
                           !.earned = @ \cup kept]
        BY <1>26 DEF FailPart
      <3> HIDE DEF kept
      <3> QED
        BY <3>1, <3>2 DEF Locals
    <2>3. RowsTyped' /\ PartsTyped' /\ RunsTyped' /\ StoreTyped' /\ BoundsTyped'
      BY <1>26 DEF FailPart, RowsTyped, PartsTyped, RunsTyped, StoreTyped,
          BoundsTyped, jobRows, partRows, worker, store, workerRest, idleRest
    <2>4. Busy' /\ InPart'
      BY <1>26 DEF FailPart, Busy, InPart, ProcessTyped, RowsTyped, Lost,
          CreateJob, worker, workerRest, idleRest, Locals, AtRow
    <2> QED
      BY <2>1, <2>2, <2>3, <2>4
  <1>27. CASE EndPart
    <2>1. ProcessTyped'
      BY <1>27 DEF EndPart, ProcessTyped, PCs, boot, channel, worker,
          idleRest, workerRest
    <2>2. w' \in Locals
      BY <1>27 DEF EndPart, Reported, Locals, worker
    <2>3. RowsTyped' /\ PartsTyped' /\ RunsTyped' /\ StoreTyped' /\ BoundsTyped'
      BY <1>27 DEF EndPart, RowsTyped, PartsTyped, RunsTyped, StoreTyped,
          BoundsTyped, jobRows, partRows, worker, store, workerRest, idleRest
    <2>4. Busy' /\ InPart'
      BY <1>27 DEF EndPart, Busy, InPart, ProcessTyped, RowsTyped, Lost,
          CreateJob, worker, workerRest, idleRest, Locals
    <2> QED
      BY <2>1, <2>2, <2>3, <2>4
  <1>28. CASE PreferencesPanic
    <2>1. RunsTyped'
      BY <1>28 DEF PreferencesPanic, RunsTyped, Lost, worker
    <2>2. ProcessTyped'
      BY <1>28 DEF PreferencesPanic, ProcessTyped, Lost, PCs, boot, channel,
          worker, idleRest, workerRest
    <2>3. BoundsTyped'
      BY <1>28 DEF PreferencesPanic, BoundsTyped, workerRest
    <2>4. w' \in Locals
      BY <1>28 DEF PreferencesPanic, Lost, NoLocals, Locals, Terminal,
          worker
    <2>5. RowsTyped' /\ PartsTyped' /\ StoreTyped'
      BY <1>28 DEF PreferencesPanic, RowsTyped, PartsTyped, StoreTyped,
          jobRows, partRows, store, workerRest, idleRest, Lost
    <2>6. Busy' /\ InPart'
      BY <1>28 DEF PreferencesPanic, Busy, InPart, ProcessTyped, RowsTyped,
          Lost, CreateJob, worker, workerRest, idleRest
    <2> QED
      BY <2>1, <2>2, <2>3, <2>4, <2>5, <2>6
  <1>29. CASE FlushProgress
    <2>1. PartsTyped'
      <3>1. w.part \in Parts /\ cur \in Jobs
        BY <1>29 DEF FlushProgress, InPart, Busy
      <3>2. PartAt(w.part) \in PartRow
        BY <3>1 DEF PartsTyped, PartAt
      <3>3. [PartAt(w.part) EXCEPT !.processed = @ + w.pending] \in PartRow
        BY <3>2 DEF PartRow, Locals
      <3>4. partRow' \in [Jobs -> [Parts -> PartRow]]
        BY <1>29, <3>3, SetPartTyped, RowsKept DEF FlushProgress, Write
      <3> QED
        BY <1>29, <3>4 DEF FlushProgress, PartsTyped
    <2>2. ProcessTyped'
      BY <1>29 DEF FlushProgress, ProcessTyped, PCs, boot, channel, worker,
          idleRest, workerRest
    <2>3. BoundsTyped'
      BY <1>29, FaultTyped DEF FlushProgress, Write, NoFault, workerRest
    <2>4. w' \in Locals
      BY <1>29 DEF FlushProgress, Locals, worker
    <2>5. RowsTyped' /\ RunsTyped' /\ StoreTyped'
      BY <1>29 DEF FlushProgress, RowsTyped, RunsTyped, StoreTyped, jobRows,
          worker, store, workerRest, idleRest
    <2>6. Busy' /\ InPart'
      BY <1>29 DEF FlushProgress, Busy, InPart, ProcessTyped, RowsTyped,
          Lost, CreateJob, worker, workerRest, idleRest, Locals
    <2> QED
      BY <2>1, <2>2, <2>3, <2>4, <2>5, <2>6
  <1>30. CASE FlushProblems
    <2>1. PartsTyped'
      <3> DEFINE Keys == Parts \cup {"none"}
                 counted == [r \in 0..Units |->
                               IF r \in w.errs
                               THEN problems[cur][w.part][r] + 1
                               ELSE problems[cur][w.part][r]]
      <3>1. w.part \in Keys /\ cur \in Jobs
        BY <1>30 DEF FlushProblems, Locals, Busy
      <3>2. problems \in [Jobs -> [Keys -> [0..Units -> Nat]]]
        BY DEF PartsTyped
      <3>3. problems' \in {problems, [problems EXCEPT ![cur][w.part] = counted]}
        BY <1>30 DEF FlushProblems, Write
      <3> HIDE DEF Keys
      <3>4. counted \in [0..Units -> Nat]
        BY <3>1, <3>2
      <3>5. problems' \in [Jobs -> [Keys -> [0..Units -> Nat]]]
        <4> HIDE DEF counted
        <4>1. [problems[cur] EXCEPT ![w.part] = counted]
                \in [Keys -> [0..Units -> Nat]]
          BY <3>1, <3>2, <3>4
        <4>2. [problems EXCEPT ![cur][w.part] = counted]
              = [problems EXCEPT ![cur] =
                   [problems[cur] EXCEPT ![w.part] = counted]]
          BY <3>1, <3>2
        <4> QED
          BY <3>1, <3>2, <3>3, <4>1, <4>2
      <3> QED
        BY <1>30, <3>5 DEF FlushProblems, PartsTyped, Keys
    <2>2. ProcessTyped'
      BY <1>30 DEF FlushProblems, ProcessTyped, PCs, boot, channel, worker,
          idleRest, workerRest
    <2>3. BoundsTyped'
      BY <1>30, FaultTyped DEF FlushProblems, Write, NoFault, workerRest
    <2>4. w' \in Locals
      BY <1>30 DEF FlushProblems, Locals, worker
    <2>5. RowsTyped' /\ RunsTyped' /\ StoreTyped'
      BY <1>30 DEF FlushProblems, RowsTyped, RunsTyped, StoreTyped, jobRows,
          worker, store, workerRest, idleRest
    <2>6. Busy' /\ InPart'
      BY <1>30 DEF FlushProblems, Busy, InPart, ProcessTyped, RowsTyped,
          Lost, CreateJob, worker, workerRest, idleRest, Locals
    <2> QED
      BY <2>1, <2>2, <2>3, <2>4, <2>5, <2>6
  <1>31. CASE MarkPartEnded
    <2>1. PartsTyped'
      <3>1. w.part \in Parts /\ cur \in Jobs
        BY <1>31 DEF MarkPartEnded, InPart, Busy
      <3>2. PartAt(w.part) \in PartRow
        BY <3>1 DEF PartsTyped, PartAt
      <3>3. /\ [PartAt(w.part) EXCEPT !.status = "FAILED",
                                       !.message = TRUE] \in PartRow
            /\ [PartAt(w.part) EXCEPT !.status = "SUCCESS"] \in PartRow
        BY <3>2 DEF PartRow, Statuses, Terminal
      <3>4. partRow' \in [Jobs -> [Parts -> PartRow]]
        BY <1>31, <3>3, SetPartTyped, RowsKept DEF MarkPartEnded, Write
      <3> QED
        BY <1>31, <3>4 DEF MarkPartEnded, PartsTyped
    <2>2. ProcessTyped'
      BY <1>31 DEF MarkPartEnded, ProcessTyped, PCs, boot, channel, worker,
          idleRest, workerRest
    <2>3. BoundsTyped'
      BY <1>31, FaultTyped DEF MarkPartEnded, Write, NoFault, workerRest
    <2>4. w' \in Locals
      BY <1>31 DEF MarkPartEnded, Locals, worker
    <2>5. RowsTyped' /\ RunsTyped' /\ StoreTyped'
      BY <1>31 DEF MarkPartEnded, RowsTyped, RunsTyped, StoreTyped, jobRows,
          worker, store, workerRest, idleRest
    <2>6. Busy' /\ InPart'
      BY <1>31 DEF MarkPartEnded, Busy, InPart, ProcessTyped, RowsTyped,
          Lost, CreateJob, worker, workerRest, idleRest
    <2> QED
      BY <2>1, <2>2, <2>3, <2>4, <2>5, <2>6
  <1>32. CASE EndParts
    <2>1. PartsTyped'
      BY <1>32 DEF EndParts, PartsTyped, Write
    <2>2. ProcessTyped'
      BY <1>32 DEF EndParts, ProcessTyped, PCs, boot, channel, worker,
          idleRest, workerRest
    <2>3. BoundsTyped'
      BY <1>32, FaultTyped DEF EndParts, Write, NoFault, workerRest
    <2>4. w' \in Locals
      BY <1>32 DEF EndParts, Verdict, Locals, Terminal, worker
    <2>5. RowsTyped' /\ RunsTyped' /\ StoreTyped'
      BY <1>32 DEF EndParts, RowsTyped, RunsTyped, StoreTyped, jobRows,
          worker, store, workerRest, idleRest
    <2>6. Busy' /\ InPart'
      BY <1>32 DEF EndParts, Busy, InPart, ProcessTyped, RowsTyped, Lost,
          CreateJob, worker, workerRest, idleRest
    <2> QED
      BY <2>1, <2>2, <2>3, <2>4, <2>5, <2>6
  <1>33. CASE SetTerminalStatus
    <2>1. RowsTyped'
      BY <1>33 DEF SetTerminalStatus, RowsTyped, Write, Locals, Statuses
    <2>2. ProcessTyped'
      BY <1>33 DEF SetTerminalStatus, ProcessTyped, PCs, boot, channel,
          worker, idleRest, workerRest
    <2>3. BoundsTyped'
      BY <1>33, FaultTyped DEF SetTerminalStatus, Write, NoFault, workerRest
    <2>4. PartsTyped' /\ RunsTyped' /\ StoreTyped' /\ w' \in Locals
      BY <1>33 DEF SetTerminalStatus, PartsTyped, RunsTyped, StoreTyped,
          partRows, worker, store, workerRest, idleRest
    <2>5. Busy' /\ InPart'
      BY <1>33 DEF SetTerminalStatus, Busy, InPart, ProcessTyped, RowsTyped,
          Lost, CreateJob, worker, workerRest, idleRest
    <2> QED
      BY <2>1, <2>2, <2>3, <2>4, <2>5
  <1>34. CASE ClearJobPayload
    <2>1. RowsTyped'
      BY <1>34 DEF ClearJobPayload, RowsTyped, Write
    <2>2. ProcessTyped'
      BY <1>34 DEF ClearJobPayload, ProcessTyped, PCs, boot, channel,
          worker, idleRest, workerRest
    <2>3. BoundsTyped'
      BY <1>34, FaultTyped DEF ClearJobPayload, Write, NoFault, workerRest
    <2>4. PartsTyped' /\ RunsTyped' /\ StoreTyped' /\ w' \in Locals
      BY <1>34 DEF ClearJobPayload, PartsTyped, RunsTyped, StoreTyped,
          partRows, worker, store, workerRest, idleRest
    <2>5. Busy' /\ InPart'
      BY <1>34 DEF ClearJobPayload, Busy, InPart, ProcessTyped, RowsTyped,
          Lost, CreateJob, worker, workerRest, idleRest
    <2> QED
      BY <2>1, <2>2, <2>3, <2>4, <2>5
  <1>35. CASE FollowUp
    <2>1. StoreTyped'
      <3>1. PICK done \in SUBSET FollowUps :
              did' = [did EXCEPT ![cur] = @ \cup done]
        <4> DEFINE recalcs == IF "recalc" \in w.earned
                              THEN {"recalc", "recalcCleared"} ELSE {}
                   nudges  == w.earned \ {"recalc", "recalcCleared"}
        <4>1. nudges \subseteq FollowUps /\ recalcs \subseteq FollowUps
          BY FollowUpTyped DEF Locals
        <4>2. \/ did' = [did EXCEPT ![cur] = @ \cup nudges \cup recalcs]
              \/ did' = [did EXCEPT ![cur] = @ \cup nudges]
          BY <1>35 DEF FollowUp
        <4> HIDE DEF nudges, recalcs
        <4>3. [did EXCEPT ![cur] = @ \cup nudges \cup recalcs]
              = [did EXCEPT ![cur] = @ \cup (nudges \cup recalcs)]
          BY Zenon
        <4> QED
          BY <4>1, <4>2, <4>3
      <3> QED
        BY <1>35, <3>1 DEF FollowUp, StoreTyped
    <2>2. ProcessTyped'
      BY <1>35 DEF FollowUp, ProcessTyped, PCs, boot, channel, worker,
          idleRest, workerRest
    <2>3. BoundsTyped'
      BY <1>35, FaultTyped DEF FollowUp, NoFault, workerRest
    <2>4. RowsTyped' /\ PartsTyped' /\ RunsTyped' /\ w' \in Locals
      BY <1>35 DEF FollowUp, RowsTyped, PartsTyped, RunsTyped, jobRows,
          partRows, worker, workerRest, idleRest
    <2>5. Busy' /\ InPart'
      BY <1>35 DEF FollowUp, Busy, InPart, ProcessTyped, RowsTyped, Lost,
          CreateJob, worker, workerRest, idleRest
    <2> QED
      BY <2>1, <2>2, <2>3, <2>4, <2>5
  <1>36. CASE EndRun
    <2>1. RunsTyped'
      <3> DEFINE T == [job : Jobs, outcome : Outcomes]
                 ended == [runs EXCEPT ![curRun].outcome = w.verdict]
      <3>1. runs \in Seq(T) /\ w.verdict \in Outcomes
        BY DEF RunsTyped, Locals, Terminal, Outcomes
      <3>2. DOMAIN runs = 1..Len(runs) /\ Len(runs) \in Nat
        BY <3>1
      <3>3. DOMAIN ended = 1..Len(runs)
        BY <3>2
      <3>4. \A i \in 1..Len(runs) : ended[i] \in T
        <4> SUFFICES ASSUME NEW i \in 1..Len(runs) PROVE ended[i] \in T
          OBVIOUS
        <4>1. runs[i] \in T
          <5> HIDE DEF T
          <5> QED BY <3>1, <3>2
        <4>2. [runs[i] EXCEPT !.outcome = w.verdict] \in T
          BY <3>1, <4>1, RunTyped
        <4> QED
          BY <3>2, <4>1, <4>2
      <3>5. ended = [i \in 1..Len(runs) |-> ended[i]]
        BY <3>3
      <3> HIDE DEF ended, T
      <3>6. ended \in Seq(T)
        BY <3>2, <3>4, <3>5
      <3> USE DEF ended, T
      <3> QED
        BY <1>36, <3>6 DEF EndRun, Write, RunsTyped
    <2>2. ProcessTyped'
      BY <1>36 DEF EndRun, ProcessTyped, PCs, boot, channel, worker,
          idleRest, workerRest
    <2>3. BoundsTyped'
      BY <1>36, FaultTyped DEF EndRun, Write, NoFault, workerRest
    <2>4. w' \in Locals
      BY <1>36 DEF EndRun, NoLocals, Locals, Terminal, worker
    <2>5. RowsTyped' /\ PartsTyped' /\ StoreTyped'
      BY <1>36 DEF EndRun, RowsTyped, PartsTyped, StoreTyped, jobRows,
          partRows, store, workerRest, idleRest
    <2>6. Busy' /\ InPart'
      BY <1>36 DEF EndRun, Busy, InPart, ProcessTyped, RowsTyped, Lost,
          CreateJob, worker, workerRest, idleRest
    <2> QED
      BY <2>1, <2>2, <2>3, <2>4, <2>5, <2>6
  <1>37. CASE UNCHANGED vars
    BY <1>37 DEF vars, jobRows, partRows, store, boot, channel, worker,
        Busy, InPart, RowsTyped, PartsTyped, RunsTyped, StoreTyped,
        ProcessTyped, BoundsTyped
  <1> QED
    BY <1>1, <1>2, <1>3, <1>4, <1>5, <1>6, <1>7, <1>8, <1>9, <1>10, <1>11,
        <1>12, <1>13, <1>14, <1>15, <1>16, <1>17, <1>18, <1>19, <1>20, <1>21,
        <1>22, <1>23, <1>24, <1>25, <1>26, <1>27, <1>28, <1>29, <1>30, <1>31,
        <1>32, <1>33, <1>34, <1>35, <1>36, <1>37 DEF Next, Startup, Handlers,
        Worker
-----------------------------------------------------------------------------
(* The core invariant.                                                      *)

held == << created, status, payload, queue, backlog, unqueued, cur, phase >>

Counted == faults' = faults \/ faults' = faults + 1

(* A statement that succeeds or fails counts at most one failure.           *)
LEMMA FaultCounted == Fault \/ NoFault => Counted
  BY DEF Fault, NoFault, Counted

(* A step that leaves every row and everything the process holds alone      *)
(* keeps the invariant if the worker's own conjuncts are kept.              *)
LEMMA HeldStep ==
    ASSUME TypeInv, Core, UNCHANGED held, Counted, WorkerHolds', ClearsTerminal'
    PROVE  Core'
  <1>1. faults' = 0 => faults = 0
    BY BoundsAssumption DEF Counted, TypeInv, TypeOK, BoundsTyped
  <1>2. NoRowNoStatus' /\ PhaseHolds'
    BY DEF Core, held, NoRowNoStatus, PhaseHolds
  <1>3. HandedOutAreUnfinished' /\ HandedOutOnce'
    BY DEF Core, held, HandedOutAreUnfinished, OnItsWay, HandedOutOnce
  <1>4. PayloadKept'
    BY <1>1 DEF Core, held, PayloadKept
  <1> QED
    BY <1>2, <1>3, <1>4 DEF Core

(* The steps of the worker between marking the job running and finishing.   *)
LEMMA QuietStep ==
    ASSUME TypeInv, Core, UNCHANGED held, Counted,
           pc \in Unsettled, pc' \in Unsettled
    PROVE  Core'
  <1>1. WorkerHolds'
    BY DEF Core, WorkerHolds, OnItsWay, held, Unsettled, Settled
  <1>2. ClearsTerminal'
    BY DEF ClearsTerminal, Unsettled, Settled
  <1> QED
    BY <1>1, <1>2, HeldStep

(* The steps in which the worker writes the status of the job it holds.     *)
LEMMA StatusStep ==
    ASSUME TypeInv, Core, pc \in Unsettled, NEW s \in Statuses,
           Write(status, [status EXCEPT ![cur] = s]),
           UNCHANGED << created, payload, queue, backlog, unqueued, cur, phase >>,
           \/ pc' \in Unsettled /\ s \in Unfinished
           \/ pc' \in Settled /\ (pc' = "clear" => s \in Terminal)
    PROVE  Core'
  <1>1. /\ cur \in 1..created /\ cur \in Jobs /\ status[cur] \in Unfinished
        /\ cur # 0
    BY DEF Core, WorkerHolds, OnItsWay, TypeInv, Busy, Unsettled, Settled,
        Jobs
  <1>2. \A j \in Jobs : j # cur => status'[j] = status[j]
    BY DEF Write, TypeInv, TypeOK, RowsTyped
  <1>3. status'[cur] \in {s, status[cur]} /\ (faults' = 0 => status'[cur] = s)
    BY <1>1, BoundsAssumption DEF Write, Fault, TypeInv, TypeOK, RowsTyped,
        BoundsTyped
  <1>4. faults' = 0 => faults = 0
    BY BoundsAssumption DEF Write, Fault, NoFault, TypeInv, TypeOK, BoundsTyped
  <1>5. /\ backlog \subseteq Jobs /\ unqueued \subseteq Jobs
        /\ \A a \in 1..Len(queue) : queue[a] \in Jobs
        /\ created \in 0..MaxJobs
    BY DEF TypeInv, TypeOK, ProcessTyped, RowsTyped
  <1>6. NoRowNoStatus'
    BY <1>1, <1>2, <1>5, MaxJobsAssumption DEF Core, NoRowNoStatus, Jobs
  <1>7. HandedOutAreUnfinished'
    BY <1>1, <1>2, <1>5 DEF Core, HandedOutAreUnfinished, OnItsWay, HandedOutOnce
  <1>8. WorkerHolds'
    BY <1>1, <1>3 DEF WorkerHolds, OnItsWay, Unsettled, Settled
  <1>9. PhaseHolds' /\ HandedOutOnce'
    BY DEF Core, PhaseHolds, HandedOutOnce
  <1>10. PayloadKept'
    <2> SUFFICES ASSUME faults' = 0, NEW j \in 1..created,
                        status'[j] \in Unfinished
                 PROVE  payload[j]
      BY DEF PayloadKept
    <2>1. j \in Jobs
      BY <1>5, MaxJobsAssumption DEF Jobs
    <2>2. status[j] \in Unfinished
      BY <1>1, <1>2, <2>1
    <2> QED
      BY <1>4, <2>2 DEF Core, PayloadKept
  <1>11. ClearsTerminal'
    BY <1>3 DEF ClearsTerminal, Unsettled, Settled
  <1> QED
    BY <1>6, <1>7, <1>8, <1>9, <1>10, <1>11 DEF Core

(* A process that dies holds nothing, and no row changes.                   *)
LEMMA LostStep ==
    ASSUME TypeInv, Core, Lost, UNCHANGED << jobRows, faults >>
    PROVE  Core'
  <1>1. NoRowNoStatus' /\ PayloadKept'
    BY DEF Core, NoRowNoStatus, PayloadKept, jobRows
  <1>2. HandedOutAreUnfinished' /\ HandedOutOnce'
    BY DEF Lost, HandedOutAreUnfinished, HandedOutOnce
  <1>3. WorkerHolds' /\ PhaseHolds' /\ ClearsTerminal'
    BY DEF Lost, WorkerHolds, PhaseHolds, ClearsTerminal, Unsettled, Settled
  <1> QED
    BY <1>1, <1>2, <1>3 DEF Core

(* A handler's new row repeats no job that is on its way: those are older.  *)
LEMMA CreateStep ==
    ASSUME TypeInv, Core, NEW k, NEW m, CreateJob(k, m)
    PROVE  Core'
  <1> DEFINE j == created + 1
  <1>1. /\ created \in 0..MaxJobs /\ j \in Jobs /\ j \notin 1..created
        /\ j \in 1..created' /\ created' = j /\ phase = "serving"
        /\ 1..created' = 1..created \cup {j} /\ faults' = faults
    BY MaxJobsAssumption DEF CreateJob, Serving, TypeInv, TypeOK, RowsTyped,
        Jobs
  <1>2. /\ status'[j] = "PENDING" /\ payload'[j]
        /\ \A i \in Jobs : i # j => status'[i] = status[i]
                                    /\ payload'[i] = payload[i]
    BY <1>1 DEF CreateJob, TypeInv, TypeOK, RowsTyped
  <1>3. /\ unqueued' = unqueued \cup {j}
        /\ UNCHANGED << queue, backlog, phase, pc, cur >>
    BY DEF CreateJob, boot, worker
  <1>4. /\ backlog \subseteq Jobs /\ unqueued \subseteq Jobs
        /\ \A a \in 1..Len(queue) : queue[a] \in Jobs
        /\ cur \in Jobs \cup {0} /\ pc \in PCs
    BY DEF TypeInv, TypeOK, ProcessTyped
  <1>5. \A i \in 1..created : i \in Jobs /\ i # j
    BY <1>1, MaxJobsAssumption DEF Jobs
  <1>6. \A i : OnItsWay(i) => i # j /\ OnItsWay(i)'
    BY <1>1, <1>2, <1>5 DEF OnItsWay
  <1>7. j \in 1..created' /\ status'[j] \in Unfinished
    BY <1>1, <1>2 DEF Unfinished
  <1>8. cur # j
    <2>1. cur = 0 \/ cur \in 1..created
      BY <1>4 DEF Core, WorkerHolds, OnItsWay, Unsettled, Settled
    <2> QED
      BY <1>1, <2>1
  <1> HIDE DEF j
  <1>9. NoRowNoStatus'
    BY <1>1, <1>2 DEF Core, NoRowNoStatus, Jobs
  <1>10. HandedOutAreUnfinished'
    BY <1>3, <1>6, <1>7 DEF Core, HandedOutAreUnfinished, OnItsWay
  <1>11. WorkerHolds'
    BY <1>1, <1>3, <1>6 DEF Core, WorkerHolds
  <1>12. PhaseHolds'
    BY <1>1, <1>3 DEF Core, PhaseHolds
  <1>13. HandedOutOnce'
    BY <1>3, <1>6, <1>8 DEF Core, HandedOutOnce, HandedOutAreUnfinished
  <1>14. PayloadKept'
    BY <1>1, <1>2, <1>5 DEF Core, PayloadKept
  <1>15. ClearsTerminal'
    <2> SUFFICES ASSUME pc = "clear", faults = 0
                 PROVE  status'[cur] \in Terminal
      BY <1>1, <1>3 DEF ClearsTerminal
    <2>1. cur \in Jobs
      BY DEF TypeInv, Busy
    <2> QED
      BY <1>2, <1>8, <2>1 DEF Core, ClearsTerminal
  <1> QED
    BY <1>9, <1>10, <1>11, <1>12, <1>13, <1>14, <1>15 DEF Core

(* Appending a job that is nowhere on its way keeps the channel free of     *)
(* repeats; it is the step both the recovery and a handler take.            *)
LEMMA AppendOnce ==
    ASSUME NEW q \in Seq(Jobs), NEW j \in Jobs,
           \A a, b \in 1..Len(q) : q[a] = q[b] => a = b,
           \A a \in 1..Len(q) : q[a] # j
    PROVE  /\ Len(Append(q, j)) = Len(q) + 1
           /\ \A a \in 1..(Len(q) + 1) :
                Append(q, j)[a] = IF a = Len(q) + 1 THEN j ELSE q[a]
           /\ \A a, b \in 1..(Len(q) + 1) :
                Append(q, j)[a] = Append(q, j)[b] => a = b
  <1>1. Len(Append(q, j)) = Len(q) + 1 /\ Len(q) \in Nat
    OBVIOUS
  <1>2. \A a \in 1..(Len(q) + 1) :
          Append(q, j)[a] = IF a = Len(q) + 1 THEN j ELSE q[a]
    OBVIOUS
  <1>3. \A a \in 1..(Len(q) + 1) : a # Len(q) + 1 => a \in 1..Len(q)
    BY <1>1
  <1> QED
    BY <1>1, <1>2, <1>3

(* The initial state satisfies the core invariant.                          *)
LEMMA CoreInit == Init => Core
  <1> SUFFICES ASSUME Init PROVE Core
    OBVIOUS
  <1>1. NoRowNoStatus /\ PayloadKept
    <2>1. created \in 0..MaxJobs
      BY DEF Init
    <2>2. \A j \in 1..created : j \in Jobs /\ j <= created
      BY <2>1, MaxJobsAssumption DEF Jobs
    <2>3. \A j \in Jobs : j > created => ~(j <= created)
      BY <2>1, MaxJobsAssumption DEF Jobs
    <2>4. /\ \A j \in Jobs : status[j] = IF j <= created THEN "PENDING" ELSE "none"
          /\ \A j \in Jobs : payload[j] = (j <= created)
      BY DEF Init
    <2>5. NoRowNoStatus
      BY <2>3, <2>4 DEF NoRowNoStatus
    <2>6. PayloadKept
      BY <2>2, <2>4 DEF PayloadKept
    <2> QED
      BY <2>5, <2>6
  <1>2. HandedOutAreUnfinished /\ HandedOutOnce
    BY DEF Init, HandedOutAreUnfinished, HandedOutOnce
  <1>3. WorkerHolds /\ PhaseHolds /\ ClearsTerminal
    BY DEF Init, WorkerHolds, PhaseHolds, ClearsTerminal, Unsettled, Settled
  <1> QED
    BY <1>1, <1>2, <1>3 DEF Core

(* Every step keeps the core invariant.                                     *)
LEMMA CoreStep == TypeInv /\ Core /\ [Next]_vars => Core'
  <1> SUFFICES ASSUME TypeInv, Core, [Next]_vars PROVE Core'
    OBVIOUS
  <1> USE DEF boot, channel, worker, jobRows, workerRest, idleRest
  <1>1. CASE Boot
    <2>1. HandedOutAreUnfinished' /\ HandedOutOnce'
      BY <1>1 DEF Boot, Core, HandedOutAreUnfinished, OnItsWay, HandedOutOnce
    <2>2. PhaseHolds'
      BY <1>1 DEF Boot, Core, PhaseHolds
    <2> QED
      BY <1>1, <2>1, <2>2 DEF Boot, Core, NoRowNoStatus, OnItsWay, WorkerHolds,
          PayloadKept, ClearsTerminal
  <1>2. CASE Sweep
    <2>1. HandedOutAreUnfinished' /\ HandedOutOnce'
      BY <1>2 DEF Sweep, Core, HandedOutAreUnfinished, OnItsWay, HandedOutOnce
    <2>2. PhaseHolds' /\ WorkerHolds'
      BY <1>2 DEF Sweep, Core, PhaseHolds, WorkerHolds, OnItsWay
    <2>3. faults' = 0 => faults = 0
      BY <1>2, BoundsAssumption DEF Sweep, Write, Fault, NoFault, TypeInv,
          TypeOK, BoundsTyped
    <2>4. NoRowNoStatus' /\ PayloadKept' /\ ClearsTerminal'
      BY <1>2, <2>3 DEF Sweep, Core, NoRowNoStatus, PayloadKept, ClearsTerminal
    <2> QED
      BY <2>1, <2>2, <2>4 DEF Core
  <1>3. CASE ListPendingJobs
    <2>1. queue = << >> /\ cur = 0 /\ backlog = {} /\ unqueued = {}
      BY <1>3 DEF ListPendingJobs, Core, PhaseHolds
    <2>2. \A j \in backlog' : j \in 1..created /\ status[j] \in Unfinished
      BY <1>3, <2>1 DEF ListPendingJobs, Write, IsPending
    <2>3. faults' = 0 => faults = 0
      BY <1>3, BoundsAssumption DEF ListPendingJobs, Write, Fault, NoFault,
          TypeInv, TypeOK, BoundsTyped
    <2>4. HandedOutAreUnfinished' /\ HandedOutOnce'
      <3>1. 0 \notin backlog'
        BY <2>2 DEF TypeInv, TypeOK, RowsTyped
      <3> QED
        BY <1>3, <2>1, <2>2, <3>1 DEF ListPendingJobs, HandedOutAreUnfinished,
            OnItsWay, HandedOutOnce
    <2>5. PhaseHolds' /\ WorkerHolds'
      BY <1>3, <2>1 DEF ListPendingJobs, Core, PhaseHolds, WorkerHolds, OnItsWay
    <2>6. NoRowNoStatus' /\ PayloadKept' /\ ClearsTerminal'
      BY <1>3, <2>3 DEF ListPendingJobs, Core, NoRowNoStatus, PayloadKept,
          ClearsTerminal
    <2> QED
      BY <2>4, <2>5, <2>6 DEF Core
  <1>4. CASE Requeue
    <2>1. PICK j \in backlog :
            /\ backlog' = backlog \ {j}
            /\ queue' = IF Len(queue) < QueueCap THEN Append(queue, j) ELSE queue
      BY <1>4 DEF Requeue
    <2>2. /\ unqueued' = unqueued /\ cur' = cur /\ pc' = pc /\ phase' = phase
          /\ phase = "requeue" /\ faults' = faults
          /\ created' = created /\ status' = status /\ payload' = payload
      BY <1>4 DEF Requeue
    <2>3. queue \in Seq(Jobs) /\ j \in Jobs /\ OnItsWay(j)
      BY DEF TypeInv, TypeOK, ProcessTyped, Core, HandedOutAreUnfinished
    <2>4. HandedOutAreUnfinished' /\ HandedOutOnce'
      <3>1. CASE queue' = queue
        BY <2>1, <2>2, <3>1 DEF Core, HandedOutAreUnfinished, OnItsWay,
            HandedOutOnce
      <3>2. CASE queue' = Append(queue, j)
        <4>1. /\ Len(queue') = Len(queue) + 1
              /\ \A a \in 1..(Len(queue) + 1) :
                   queue'[a] = IF a = Len(queue) + 1 THEN j ELSE queue[a]
              /\ \A a, b \in 1..(Len(queue) + 1) :
                   queue'[a] = queue'[b] => a = b
          BY <2>3, <3>2, AppendOnce DEF Core, HandedOutOnce
        <4>2. \A a \in 1..Len(queue') :
                queue'[a] = j \/ \E b \in 1..Len(queue) : queue'[a] = queue[b]
          BY <2>3, <4>1
        <4>3. HandedOutAreUnfinished'
          BY <2>1, <2>2, <2>3, <4>2 DEF Core, HandedOutAreUnfinished, OnItsWay
        <4>4. HandedOutOnce'
          BY <2>1, <2>2, <4>1, <4>2 DEF Core, HandedOutOnce
        <4> QED
          BY <4>3, <4>4
      <3> QED
        BY <2>1, <3>1, <3>2
    <2>5. PhaseHolds' /\ WorkerHolds'
      BY <2>1, <2>2 DEF Core, PhaseHolds, WorkerHolds, OnItsWay
    <2>6. NoRowNoStatus' /\ PayloadKept' /\ ClearsTerminal'
      BY <2>2 DEF Core, NoRowNoStatus, PayloadKept, ClearsTerminal
    <2> QED
      BY <2>4, <2>5, <2>6 DEF Core
  <1>5. CASE Serve
    <2>1. HandedOutAreUnfinished' /\ HandedOutOnce'
      BY <1>5 DEF Serve, Core, HandedOutAreUnfinished, OnItsWay, HandedOutOnce
    <2>2. PhaseHolds' /\ WorkerHolds'
      BY <1>5 DEF Serve, Core, PhaseHolds, WorkerHolds, OnItsWay
    <2> QED
      BY <1>5, <2>1, <2>2 DEF Serve, Core, NoRowNoStatus, PayloadKept,
          ClearsTerminal
  <1>6. CASE Crash
    BY <1>6, LostStep DEF Crash
  <1>7. CASE PreferencesPanic
    BY <1>7, LostStep DEF PreferencesPanic
  <1>8. CASE Handlers
    BY <1>8, CreateStep DEF Handlers, UpsertTxs, CreateTx, ImportSystemArchive,
        ImportUserArchive
  <1>9. CASE Enqueue
    <2>1. PICK j \in unqueued :
            /\ unqueued' = unqueued \ {j}
            /\ queue' = queue \/ queue' = Append(queue, j)
      BY <1>9 DEF Enqueue
    <2>2. /\ backlog' = backlog /\ cur' = cur /\ pc' = pc /\ phase' = phase
          /\ faults' = faults
          /\ created' = created /\ status' = status /\ payload' = payload
      BY <1>9 DEF Enqueue
    <2>3. queue \in Seq(Jobs) /\ j \in Jobs /\ OnItsWay(j)
      BY DEF TypeInv, TypeOK, ProcessTyped, Core, HandedOutAreUnfinished
    <2>4. HandedOutAreUnfinished' /\ HandedOutOnce'
      <3>1. CASE queue' = queue
        BY <2>1, <2>2, <3>1 DEF Core, HandedOutAreUnfinished, OnItsWay,
            HandedOutOnce
      <3>2. CASE queue' = Append(queue, j)
        <4>1. /\ Len(queue') = Len(queue) + 1
              /\ \A a \in 1..(Len(queue) + 1) :
                   queue'[a] = IF a = Len(queue) + 1 THEN j ELSE queue[a]
              /\ \A a, b \in 1..(Len(queue) + 1) :
                   queue'[a] = queue'[b] => a = b
          BY <2>3, <3>2, AppendOnce DEF Core, HandedOutOnce
        <4>2. \A a \in 1..Len(queue') :
                queue'[a] = j \/ \E b \in 1..Len(queue) : queue'[a] = queue[b]
          BY <2>3, <4>1
        <4>3. HandedOutAreUnfinished'
          BY <2>1, <2>2, <2>3, <4>2 DEF Core, HandedOutAreUnfinished, OnItsWay
        <4>4. HandedOutOnce'
          BY <2>1, <2>2, <4>1, <4>2 DEF Core, HandedOutOnce
        <4> QED
          BY <4>3, <4>4
      <3> QED
        BY <2>1, <3>1, <3>2
    <2>5. PhaseHolds' /\ WorkerHolds'
      BY <2>1, <2>2 DEF Core, PhaseHolds, WorkerHolds, OnItsWay
    <2>6. NoRowNoStatus' /\ PayloadKept' /\ ClearsTerminal'
      BY <2>2 DEF Core, NoRowNoStatus, PayloadKept, ClearsTerminal
    <2> QED
      BY <2>4, <2>5, <2>6 DEF Core
  <1>10. CASE TakeJob
    <2>1. /\ queue \in Seq(Jobs) /\ queue # << >>
          /\ cur' = Head(queue) /\ queue' = Tail(queue)
          /\ pc = "idle" /\ pc' = "running"
      BY <1>10 DEF TakeJob, TypeInv, TypeOK, ProcessTyped
    <2>2. /\ Len(queue) \in Nat /\ 1 \in 1..Len(queue) /\ cur' = queue[1]
          /\ Len(queue') = Len(queue) - 1 /\ cur' \in Jobs
          /\ \A a \in 1..Len(queue') : queue'[a] = queue[a + 1]
                                       /\ a + 1 \in 1..Len(queue) /\ a + 1 # 1
      BY <2>1
    <2>3. /\ unqueued' = unqueued /\ backlog' = backlog /\ phase' = phase
          /\ faults' = faults
          /\ created' = created /\ status' = status /\ payload' = payload
      BY <1>10 DEF TakeJob
    <2>4. cur' # 0 /\ OnItsWay(cur')
      BY <2>2, MaxJobsAssumption DEF Core, HandedOutAreUnfinished, Jobs
    <2>5. HandedOutAreUnfinished'
      BY <2>2, <2>3 DEF Core, HandedOutAreUnfinished, OnItsWay
    <2>6. HandedOutOnce'
      <3>1. \A a \in 1..Len(queue') : queue'[a] # cur'
        BY <2>2 DEF Core, HandedOutOnce
      <3>2. \A a, b \in 1..Len(queue') : queue'[a] = queue'[b] => a = b
        BY <2>2 DEF Core, HandedOutOnce
      <3> QED
        BY <2>2, <2>3, <3>1, <3>2 DEF Core, HandedOutOnce
    <2>7. WorkerHolds'
      BY <2>1, <2>3, <2>4 DEF WorkerHolds, OnItsWay, Settled
    <2>8. PhaseHolds'
      BY <2>1, <2>3 DEF Core, PhaseHolds
    <2>9. NoRowNoStatus' /\ PayloadKept' /\ ClearsTerminal'
      BY <2>1, <2>3 DEF Core, NoRowNoStatus, PayloadKept, ClearsTerminal
    <2> QED
      BY <2>5, <2>6, <2>7, <2>8, <2>9 DEF Core
  <1>11. CASE MarkRunning
    BY <1>11, StatusStep DEF MarkRunning, Unsettled, Settled, PCs, Statuses,
        Unfinished
  <1>12. CASE UnknownJobType
    BY <1>12, StatusStep DEF UnknownJobType, Unsettled, Settled, PCs, Statuses,
        Terminal
  <1>13. CASE SetTerminalStatus
    <2>1. w.verdict \in Terminal
      BY DEF TypeInv, TypeOK, Locals
    <2> QED
      BY <1>13, <2>1, StatusStep DEF SetTerminalStatus, Unsettled, Settled, PCs,
          Statuses
  <1>14. CASE ClearJobPayload
    <2>1. /\ pc = "clear" /\ pc' = "after"
          /\ UNCHANGED << created, status, queue, backlog, unqueued, cur, phase >>
          /\ Write(payload, [payload EXCEPT ![cur] = FALSE])
      BY <1>14 DEF ClearJobPayload
    <2>2. faults' = 0 => faults = 0
      BY <2>1, BoundsAssumption DEF Write, Fault, NoFault, TypeInv, TypeOK,
          BoundsTyped
    <2>3. \A j \in Jobs : j # cur => payload'[j] = payload[j]
      BY <2>1 DEF Write, TypeInv, TypeOK, RowsTyped
    <2>4. PayloadKept'
      <3> SUFFICES ASSUME faults' = 0, NEW j \in 1..created,
                          status[j] \in Unfinished
                   PROVE  payload'[j]
        BY <2>1 DEF PayloadKept
      <3>1. j \in Jobs
        BY MaxJobsAssumption DEF Jobs, TypeInv, TypeOK, RowsTyped
      <3>2. j # cur
        BY <2>1, <2>2 DEF Core, ClearsTerminal, Terminal, Unfinished
      <3> QED
        BY <2>2, <2>3, <3>1, <3>2 DEF Core, PayloadKept
    <2>5. WorkerHolds' /\ ClearsTerminal'
      BY <2>1 DEF Core, WorkerHolds, OnItsWay, ClearsTerminal, Settled,
          Unsettled
    <2>6. NoRowNoStatus' /\ HandedOutAreUnfinished' /\ PhaseHolds'
          /\ HandedOutOnce'
      BY <2>1 DEF Core, NoRowNoStatus, HandedOutAreUnfinished, OnItsWay,
          PhaseHolds, HandedOutOnce
    <2> QED
      BY <2>4, <2>5, <2>6 DEF Core
  <1>15. CASE FollowUp
    <2>1. WorkerHolds' /\ ClearsTerminal'
      BY <1>15 DEF FollowUp, Core, WorkerHolds, OnItsWay, ClearsTerminal,
          Settled, Unsettled
    <2>2. Counted
      BY <1>15, FaultCounted DEF FollowUp
    <2> QED
      BY <1>15, <2>1, <2>2, HeldStep DEF FollowUp, held
  <1>16. CASE EndRun
    <2>1. /\ pc = "endRun" /\ pc' = "idle" /\ cur' = 0
          /\ Fault \/ NoFault
          /\ UNCHANGED << created, status, payload, queue, backlog, unqueued,
                          phase >>
      BY <1>16 DEF EndRun, Write, NoFault
    <2>2. faults' = 0 => faults = 0
      BY <2>1, BoundsAssumption DEF Fault, NoFault, TypeInv, TypeOK, BoundsTyped
    <2>3. HandedOutAreUnfinished'
      BY <2>1 DEF Core, HandedOutAreUnfinished, OnItsWay
    <2>4. HandedOutOnce'
      <3>1. 0 \notin backlog /\ 0 \notin unqueued
            /\ \A a \in 1..Len(queue) : queue[a] # 0
        BY MaxJobsAssumption DEF TypeInv, TypeOK, ProcessTyped, Jobs
      <3> QED
        BY <2>1, <3>1 DEF Core, HandedOutOnce
    <2>5. WorkerHolds' /\ PhaseHolds' /\ ClearsTerminal'
      BY <2>1 DEF Core, WorkerHolds, PhaseHolds, ClearsTerminal, Unsettled,
          Settled
    <2>6. NoRowNoStatus' /\ PayloadKept'
      BY <2>1, <2>2 DEF Core, NoRowNoStatus, PayloadKept
    <2> QED
      BY <2>3, <2>4, <2>5, <2>6 DEF Core
  <1>17. CASE StartRun
    <2>1. Fault \/ NoFault
      BY <1>17 DEF StartRun, Write, NoFault
    <2>2. UNCHANGED held
      BY <1>17 DEF StartRun, held
    <2>3. pc \in Unsettled /\ pc' \in Unsettled
      BY <1>17 DEF StartRun, Unsettled, Settled, PCs
    <2> QED
      BY <2>1, <2>2, <2>3, FaultCounted, QuietStep
  <1>18. CASE LoadJobPayload
    <2>1. Fault \/ NoFault
      BY <1>18 DEF LoadJobPayload, NoFault
    <2>2. UNCHANGED held
      BY <1>18 DEF LoadJobPayload, held
    <2>3. pc \in Unsettled /\ pc' \in Unsettled
      BY <1>18 DEF LoadJobPayload, RejectBatch, Unsettled, Settled, PCs
    <2> QED
      BY <2>1, <2>2, <2>3, FaultCounted, QuietStep
  <1>19. CASE ResolveBatch
    <2>1. Fault \/ NoFault
      BY <1>19 DEF ResolveBatch, NoFault
    <2>2. UNCHANGED held
      BY <1>19 DEF ResolveBatch, held
    <2>3. pc \in Unsettled /\ pc' \in Unsettled
      BY <1>19 DEF ResolveBatch, RejectBatch, Unsettled, Settled, PCs
    <2> QED
      BY <2>1, <2>2, <2>3, FaultCounted, QuietStep
  <1>20. CASE StoreBatch
    <2>1. Fault \/ NoFault
      BY <1>20 DEF StoreBatch, NoFault
    <2>2. UNCHANGED held
      BY <1>20 DEF StoreBatch, held
    <2>3. pc \in Unsettled /\ pc' \in Unsettled
      BY <1>20 DEF StoreBatch, RejectBatch, Unsettled, Settled, PCs
    <2> QED
      BY <2>1, <2>2, <2>3, FaultCounted, QuietStep
  <1>21. CASE AdjustTxs
    <2>1. Fault \/ NoFault
      BY <1>21 DEF AdjustTxs, Write
    <2>2. UNCHANGED held
      BY <1>21 DEF AdjustTxs, held
    <2>3. pc \in Unsettled /\ pc' \in Unsettled
      BY <1>21 DEF AdjustTxs, Unsettled, Settled, PCs
    <2> QED
      BY <2>1, <2>2, <2>3, FaultCounted, QuietStep
  <1>22. CASE ReadParts
    <2>1. Fault \/ NoFault
      BY <1>22 DEF ReadParts, NoFault
    <2>2. UNCHANGED held
      BY <1>22 DEF ReadParts, held
    <2>3. pc \in Unsettled /\ pc' \in Unsettled
      BY <1>22 DEF ReadParts, RejectBatch, Unsettled, Settled, PCs
    <2> QED
      BY <2>1, <2>2, <2>3, FaultCounted, QuietStep
  <1>23. CASE NextPart
    <2>1. Fault \/ NoFault
      BY <1>23 DEF NextPart, ResetPart, Write, NoFault
    <2>2. UNCHANGED held
      BY <1>23 DEF NextPart, held
    <2>3. pc \in Unsettled /\ pc' \in Unsettled
      BY <1>23 DEF NextPart, Unsettled, Settled, PCs
    <2> QED
      BY <2>1, <2>2, <2>3, FaultCounted, QuietStep
  <1>24. CASE MarkPartRunning
    <2>1. Fault \/ NoFault
      BY <1>24 DEF MarkPartRunning, Write
    <2>2. UNCHANGED held
      BY <1>24 DEF MarkPartRunning, held
    <2>3. pc \in Unsettled /\ pc' \in Unsettled
      BY <1>24 DEF MarkPartRunning, Unsettled, Settled, PCs
    <2> QED
      BY <2>1, <2>2, <2>3, FaultCounted, QuietStep
  <1>25. CASE ApplyRow
    <2>1. Fault \/ NoFault
      BY <1>25 DEF ApplyRow, Advance, Write, NoFault
    <2>2. UNCHANGED held
      BY <1>25 DEF ApplyRow, held
    <2>3. pc \in Unsettled /\ pc' \in Unsettled
      BY <1>25 DEF ApplyRow, AtRow, Unsettled, Settled, PCs
    <2> QED
      BY <2>1, <2>2, <2>3, FaultCounted, QuietStep
  <1>26. CASE ClearWindow
    <2>1. Fault \/ NoFault
      BY <1>26 DEF ClearWindow, NoFault
    <2>2. UNCHANGED held
      BY <1>26 DEF ClearWindow, held
    <2>3. pc \in Unsettled /\ pc' \in Unsettled
      BY <1>26 DEF ClearWindow, AtRow, Unsettled, Settled, PCs
    <2> QED
      BY <2>1, <2>2, <2>3, FaultCounted, QuietStep
  <1>27. CASE RejectRow
    <2>1. Fault \/ NoFault
      BY <1>27 DEF RejectRow, Advance, Write, NoFault
    <2>2. UNCHANGED held
      BY <1>27 DEF RejectRow, held
    <2>3. pc \in Unsettled /\ pc' \in Unsettled
      BY <1>27 DEF RejectRow, AtRow, Unsettled, Settled, PCs
    <2> QED
      BY <2>1, <2>2, <2>3, FaultCounted, QuietStep
  <1>28. CASE FailPart
    <2>1. Fault \/ NoFault
      BY <1>28 DEF FailPart, NoFault
    <2>2. UNCHANGED held
      BY <1>28 DEF FailPart, held
    <2>3. pc \in Unsettled /\ pc' \in Unsettled
      BY <1>28 DEF FailPart, AtRow, Unsettled, Settled, PCs
    <2> QED
      BY <2>1, <2>2, <2>3, FaultCounted, QuietStep
  <1>29. CASE EndPart
    <2>1. Fault \/ NoFault
      BY <1>29 DEF EndPart, NoFault
    <2>2. UNCHANGED held
      BY <1>29 DEF EndPart, held
    <2>3. pc \in Unsettled /\ pc' \in Unsettled
      BY <1>29 DEF EndPart, Unsettled, Settled, PCs
    <2> QED
      BY <2>1, <2>2, <2>3, FaultCounted, QuietStep
  <1>30. CASE FlushProgress
    <2>1. Fault \/ NoFault
      BY <1>30 DEF FlushProgress, Write, NoFault
    <2>2. UNCHANGED held
      BY <1>30 DEF FlushProgress, held
    <2>3. pc \in Unsettled /\ pc' \in Unsettled
      BY <1>30 DEF FlushProgress, Unsettled, Settled, PCs
    <2> QED
      BY <2>1, <2>2, <2>3, FaultCounted, QuietStep
  <1>31. CASE FlushProblems
    <2>1. Fault \/ NoFault
      BY <1>31 DEF FlushProblems, Write, NoFault
    <2>2. UNCHANGED held
      BY <1>31 DEF FlushProblems, held
    <2>3. pc \in Unsettled /\ pc' \in Unsettled
      BY <1>31 DEF FlushProblems, Unsettled, Settled, PCs
    <2> QED
      BY <2>1, <2>2, <2>3, FaultCounted, QuietStep
  <1>32. CASE MarkPartEnded
    <2>1. Fault \/ NoFault
      BY <1>32 DEF MarkPartEnded, Write
    <2>2. UNCHANGED held
      BY <1>32 DEF MarkPartEnded, held
    <2>3. pc \in Unsettled /\ pc' \in Unsettled
      BY <1>32 DEF MarkPartEnded, Unsettled, Settled, PCs
    <2> QED
      BY <2>1, <2>2, <2>3, FaultCounted, QuietStep
  <1>33. CASE EndParts
    <2>1. Fault \/ NoFault
      BY <1>33 DEF EndParts, Write
    <2>2. UNCHANGED held
      BY <1>33 DEF EndParts, held
    <2>3. pc \in Unsettled /\ pc' \in Unsettled
      BY <1>33 DEF EndParts, Unsettled, Settled, PCs
    <2> QED
      BY <2>1, <2>2, <2>3, FaultCounted, QuietStep
  <1>34. CASE UNCHANGED vars
    <2>1. UNCHANGED held /\ Counted /\ pc' = pc /\ faults' = faults
      BY <1>34 DEF vars, held, Counted
    <2>2. WorkerHolds' /\ ClearsTerminal'
      BY <2>1 DEF Core, held, WorkerHolds, OnItsWay, ClearsTerminal
    <2> QED
      BY <2>1, <2>2, HeldStep
  <1> QED
    BY <1>1, <1>2, <1>3, <1>4, <1>5, <1>6, <1>7, <1>8, <1>9, <1>10, <1>11,
        <1>12, <1>13, <1>14, <1>15, <1>16, <1>17, <1>18, <1>19, <1>20, <1>21,
        <1>22, <1>23, <1>24, <1>25, <1>26, <1>27, <1>28, <1>29, <1>30, <1>31,
        <1>32, <1>33, <1>34 DEF Next, Startup, Worker

-----------------------------------------------------------------------------
(* Stored once per life.  A job that this life of the process has yet to    *)
(* store was stored at most once by each earlier one, so that the one store *)
(* it comes to, HandedOutOnce, adds this life's.                            *)

BeforeStore == {"running", "start", "load", "resolve", "ingest"}

Due(j) ==
    \/ phase \in {"down", "sweep", "list"}
    \/ j > created
    \/ j \in backlog \cup unqueued
    \/ \E a \in 1..Len(queue) : queue[a] = j
    \/ j = cur /\ pc \in BeforeStore

LifeInv ==
    \A j \in Jobs : copies[j] <= 1 + crashes /\ (Due(j) => copies[j] <= crashes)

(* A step that stores nothing keeps the invariant if it makes no job due    *)
(* that was not.                                                            *)
LEMMA DueStep ==
    ASSUME LifeInv, UNCHANGED << copies, crashes >>,
           \A j \in Jobs : Due(j)' => Due(j)
    PROVE  LifeInv'
  BY DEF LifeInv

(* The steps of the worker that leave the channel and the backlog alone and *)
(* do not go back to before the store.                                      *)
LEMMA WorkerDueStep ==
    ASSUME LifeInv,
           UNCHANGED << copies, crashes, created, queue, backlog, unqueued, phase >>,
           \/ pc' \notin BeforeStore
           \/ pc \in BeforeStore /\ cur' = cur
    PROVE  LifeInv'
  <1>1. \A j \in Jobs : Due(j)' => Due(j)
    BY DEF Due
  <1> QED
    BY <1>1, DueStep

(* Nothing is stored at first.                                              *)
LEMMA LifeInit == Init => LifeInv
  BY DEF Init, LifeInv

(* Every step keeps the invariant.                                          *)
LEMMA LifeStep == TypeInv /\ Core /\ LifeInv /\ [Next]_vars => LifeInv'
  <1> SUFFICES ASSUME TypeInv, Core, LifeInv, [Next]_vars PROVE LifeInv'
    OBVIOUS
  <1> USE DEF boot, channel, worker, jobRows, store, workerRest, idleRest
  <1>0. /\ copies \in [Jobs -> Nat] /\ crashes \in Nat /\ created \in 0..MaxJobs
        /\ queue \in Seq(Jobs)
    BY BoundsAssumption DEF TypeInv, TypeOK, StoreTyped, BoundsTyped, RowsTyped,
        ProcessTyped
  <1>1. CASE Boot \/ Sweep \/ ListPendingJobs
    <2>1. \A j \in Jobs : Due(j)
      BY <1>1 DEF Boot, Sweep, ListPendingJobs, Due
    <2>2. UNCHANGED << copies, crashes >>
      BY <1>1 DEF Boot, Sweep, ListPendingJobs
    <2> QED
      BY <2>1, <2>2, DueStep
  <1>2. CASE Serve
    <2>1. \A j \in Jobs : Due(j)' => Due(j)
      BY <1>2 DEF Serve, Due
    <2>2. UNCHANGED << copies, crashes >>
      BY <1>2 DEF Serve
    <2> QED
      BY <2>1, <2>2, DueStep
  <1>3. CASE Requeue \/ Enqueue
    <2>1. PICK i \in backlog \cup unqueued :
            /\ backlog' \cup unqueued' \subseteq backlog \cup unqueued
            /\ queue' = queue \/ queue' = Append(queue, i)
      BY <1>3 DEF Requeue, Enqueue
    <2>2. UNCHANGED << copies, crashes, created, phase, cur, pc >>
      BY <1>3 DEF Requeue, Enqueue
    <2>3. i \in Jobs
      BY DEF TypeInv, TypeOK, ProcessTyped
    <2>4. \A a \in 1..Len(queue') :
            queue'[a] = i \/ \E b \in 1..Len(queue) : queue'[a] = queue[b]
      <3>1. CASE queue' = queue
        BY <3>1
      <3>2. CASE queue' = Append(queue, i)
        BY <1>0, <2>3, <3>2
      <3> QED
        BY <2>1, <3>1, <3>2
    <2>5. \A j \in Jobs : Due(j)' => Due(j)
      BY <2>1, <2>2, <2>4 DEF Due
    <2> QED
      BY <2>2, <2>5, DueStep
  <1>4. CASE Handlers
    <2>1. PICK k, m : CreateJob(k, m)
      BY <1>4 DEF Handlers, UpsertTxs, CreateTx, ImportSystemArchive,
          ImportUserArchive
    <2>2. /\ created' = created + 1 /\ unqueued' = unqueued \cup {created + 1}
          /\ UNCHANGED << copies, crashes, phase, backlog, queue, cur, pc >>
      BY <2>1 DEF CreateJob
    <2>3. \A j \in Jobs : Due(j)' => Due(j)
      BY <1>0, <2>2, MaxJobsAssumption DEF Due, Jobs
    <2> QED
      BY <2>2, <2>3, DueStep
  <1>5. CASE TakeJob
    <2>1. /\ cur' = queue[1] /\ 1 \in 1..Len(queue)
          /\ \A a \in 1..Len(queue') : a + 1 \in 1..Len(queue) /\ queue'[a] = queue[a + 1]
      BY <1>0, <1>5 DEF TakeJob
    <2>2. UNCHANGED << copies, crashes, created, phase, backlog, unqueued >>
      BY <1>5 DEF TakeJob
    <2>3. \A j \in Jobs : Due(j)' => Due(j)
      BY <2>1, <2>2 DEF Due
    <2> QED
      BY <2>2, <2>3, DueStep
  <1>6. CASE MarkRunning \/ StartRun \/ LoadJobPayload \/ ResolveBatch
    BY <1>6, WorkerDueStep DEF MarkRunning, StartRun, LoadJobPayload, ResolveBatch,
        BeforeStore
  <1>7. CASE StoreBatch
    <2>1. CASE UNCHANGED store
      BY <1>7, <2>1, WorkerDueStep DEF StoreBatch, BeforeStore, RejectBatch
    <2>2. CASE ~ UNCHANGED store
      <3>1. /\ pc = "ingest" /\ pc' = "adjust"
            /\ UNCHANGED << crashes, created, queue, backlog, unqueued, phase, cur >>
            /\ \A j \in Jobs \ {cur} : copies'[j] \in {0, copies[j]}
            /\ copies'[cur] \in {1, copies[cur] + 1}
        <4>1. /\ pc = "ingest" /\ pc' = "adjust"
              /\ copies' = IF kind[cur] = "append"
                           THEN [copies EXCEPT ![cur] = @ + 1]
                           ELSE [j \in Jobs |->
                                   CASE j = cur -> 1
                                     [] j # cur /\ kind[j] = "replace" -> 0
                                     [] OTHER -> copies[j]]
          BY <1>7, <2>2 DEF StoreBatch
        <4>2. cur \in Jobs
          BY <4>1 DEF TypeInv, Busy
        <4>3. CASE kind[cur] = "append"
          BY <1>0, <1>7, <4>1, <4>2, <4>3 DEF StoreBatch
        <4>4. CASE kind[cur] # "append"
          <5>1. \A j \in Jobs : copies'[j] = CASE j = cur -> 1
                                               [] j # cur /\ kind[j] = "replace" -> 0
                                               [] OTHER -> copies[j]
            BY <4>1, <4>4
          <5>2. \A j \in Jobs \ {cur} : copies'[j] \in {0, copies[j]}
            BY <5>1
          <5>3. copies'[cur] = 1
            BY <4>2, <5>1
          <5>4. UNCHANGED << crashes, created, queue, backlog, unqueued, phase, cur >>
            BY <1>7 DEF StoreBatch
          <5> QED
            BY <4>1, <5>2, <5>3, <5>4
        <4> QED
          BY <4>3, <4>4
      <3>2. cur \in Jobs /\ Due(cur)
        BY <3>1 DEF TypeInv, Busy, Due, BeforeStore
      <3>3. ~ Due(cur)'
        <4>1. cur \in 1..created /\ cur # 0
          BY <3>1 DEF Core, WorkerHolds, OnItsWay, Unsettled, Settled, PCs
        <4>2. phase \notin {"down", "sweep", "list"}
          BY <4>1 DEF Core, PhaseHolds
        <4>3. /\ cur \notin backlog \cup unqueued
              /\ \A a \in 1..Len(queue) : queue[a] # cur
          BY DEF Core, HandedOutOnce
        <4>4. ~ (cur > created)
          BY <1>0, <4>1
        <4> QED
          BY <3>1, <4>2, <4>3, <4>4 DEF Due, BeforeStore
      <3>4. \A j \in Jobs : Due(j)' => Due(j)
        BY <3>1 DEF Due, BeforeStore
      <3>5. copies'[cur] <= 1 + crashes
        BY <1>0, <3>1, <3>2 DEF LifeInv
      <3>6. \A j \in Jobs \ {cur} :
              copies'[j] <= 1 + crashes /\ (Due(j)' => copies'[j] <= crashes)
        BY <1>0, <3>1, <3>4 DEF LifeInv
      <3> QED
        BY <3>1, <3>3, <3>5, <3>6 DEF LifeInv
    <2> QED
      BY <2>1, <2>2
  <1>8. CASE Crash \/ PreferencesPanic
    <2>1. crashes' = crashes + 1 /\ copies' = copies
      BY <1>8 DEF Crash, PreferencesPanic
    <2> QED
      BY <1>0, <2>1 DEF LifeInv
  <1>9. CASE UNCHANGED vars
    <2>1. UNCHANGED << copies, crashes, created, phase, backlog, unqueued, queue, cur, pc >>
      BY <1>9 DEF vars
    <2>2. \A j \in Jobs : Due(j)' => Due(j)
      BY <2>1 DEF Due
    <2> QED
      BY <2>1, <2>2, DueStep
  <1>10. CASE \/ UnknownJobType \/ AdjustTxs \/ ReadParts \/ NextPart \/ MarkPartRunning
              \/ FlushProgress \/ FlushProblems \/ MarkPartEnded \/ EndParts
              \/ SetTerminalStatus \/ ClearJobPayload \/ FollowUp \/ EndRun
    BY <1>10, WorkerDueStep DEF UnknownJobType, AdjustTxs, ReadParts, NextPart,
        MarkPartRunning, FlushProgress, FlushProblems, MarkPartEnded, EndParts,
        SetTerminalStatus, ClearJobPayload, FollowUp, EndRun, BeforeStore, RejectBatch
  <1>11. CASE ApplyRow \/ ClearWindow \/ RejectRow \/ FailPart \/ EndPart
    BY <1>11, WorkerDueStep DEF ApplyRow, ClearWindow, RejectRow, FailPart, EndPart,
        BeforeStore, LandRow
  <1> QED
    BY <1>1, <1>2, <1>3, <1>4, <1>5, <1>6, <1>7, <1>8, <1>9, <1>10, <1>11
    DEF Next, Startup, Worker

-----------------------------------------------------------------------------
(* Everything the pipeline does keeps its rows, its channel and the         *)
(* worker's locals well typed.                                              *)
THEOREM TypeCorrect == Spec => []TypeOK
  <1>1. TypeInv => TypeOK
    BY DEF TypeInv
  <1> QED
    BY TypeInit, TypeStep, <1>1, PTL DEF Spec

(* The two invariants together are inductive.                               *)
THEOREM CoreCorrect == Spec => [](TypeInv /\ Core)
  BY TypeInit, TypeStep, CoreInit, CoreStep, PTL DEF Spec

(* In one life of the process no job is handed to the worker twice,         *)
(* whatever the handlers, the recovery and the channel do.                  *)
THEOREM HandOutTheorem == Spec => []HandedOutOnce
  <1>1. Core => HandedOutOnce
    BY DEF Core
  <1> QED
    BY CoreCorrect, <1>1, PTL

(* Whatever step a crash falls on, a job the recovery will run again still  *)
(* has its payload, unless a statement failed.                              *)
THEOREM PayloadTheorem == Spec => []PayloadKept
  <1>1. Core => PayloadKept
    BY DEF Core
  <1> QED
    BY CoreCorrect, <1>1, PTL

(* The queue is sound, for any number of jobs, any channel capacity and      *)
(* wherever the crashes and the failed statements fall.                     *)
THEOREM QueueTheorem == Spec => []QueueIsSound
  BY HandOutTheorem, PayloadTheorem, PTL DEF QueueIsSound

(* A life of the process stores a posting entered by hand at most once:     *)
(* what the store holds of it is bounded by the crashes, for any number of  *)
(* jobs, any channel capacity and wherever the crashes fall.                *)
THEOREM OncePerLifeTheorem == Spec => []StoredOncePerLife
  <1>1. LifeInv => StoredOncePerLife
    BY DEF LifeInv, StoredOncePerLife
  <1> QED
    BY CoreCorrect, LifeInit, LifeStep, <1>1, PTL DEF Spec

(* A terminal job status is final, across crashes, restarts and failed      *)
(* statements.                                                              *)
THEOREM TerminalTheorem == Spec => TerminalIsFinal
  <1> DEFINE Final == \A j \in Jobs : status[j] \in Terminal
                                        => status'[j] = status[j]
  <1>1. TypeInv /\ Core /\ [Next]_vars => [Final]_vars
    <2> SUFFICES ASSUME TypeInv, Core, Next PROVE Final
      OBVIOUS
    <2>1. CASE status' = status
      BY <2>1
    <2>2. CASE \E k, m : CreateJob(k, m)
      <3>1. \A j \in Jobs : j # created + 1 => status'[j] = status[j]
        BY <2>2 DEF CreateJob, TypeInv, TypeOK, RowsTyped
      <3>2. created + 1 \in Jobs => status[created + 1] = "none"
        BY DEF Core, NoRowNoStatus, TypeInv, TypeOK, RowsTyped
      <3> QED
        BY <3>1, <3>2 DEF Terminal
    <2>3. CASE MarkRunning \/ UnknownJobType \/ SetTerminalStatus
      <3>1. status[cur] \in Unfinished
        BY <2>3 DEF MarkRunning, UnknownJobType, SetTerminalStatus, Core,
            WorkerHolds, OnItsWay, Unsettled, Settled, PCs
      <3>2. \A j \in Jobs : j # cur => status'[j] = status[j]
        BY <2>3 DEF MarkRunning, UnknownJobType, SetTerminalStatus, Write,
            TypeInv, TypeOK, RowsTyped
      <3> QED
        BY <3>1, <3>2 DEF Terminal, Unfinished
    <2>4. CASE Handlers
      BY <2>2, <2>4 DEF Handlers, UpsertTxs, CreateTx, ImportSystemArchive,
          ImportUserArchive
    <2> QED
      BY <2>1, <2>3, <2>4 DEF Next, Startup, Worker, jobRows, Boot, Sweep,
          ListPendingJobs, Requeue, Serve, Crash, Enqueue, TakeJob, StartRun,
          LoadJobPayload, ResolveBatch, StoreBatch, AdjustTxs, ReadParts,
          NextPart, MarkPartRunning, ApplyRow, ClearWindow, RejectRow, FailPart,
          EndPart, PreferencesPanic, FlushProgress, FlushProblems,
          MarkPartEnded, EndParts, ClearJobPayload, FollowUp, EndRun
  <1> QED
    BY CoreCorrect, <1>1, PTL DEF Spec, TerminalIsFinal
=============================================================================
