----------------------------- MODULE Migrations -----------------------------
(***************************************************************************)
(* migrate.Up, run by every server process as it starts: it takes an         *)
(* advisory lock, applies what is pending in order, one transaction each,    *)
(* and unlocks.  The lock belongs to the database session it was taken on;   *)
(* a session may be lost between two statements, and the pool then opens     *)
(* another without a word, so that Up goes on without the lock.              *)
(***************************************************************************)
EXTENDS Integers, Sequences, SequencesExt

CONSTANTS Procs,        \* server processes
          Versions,     \* process -> the versions its build carries, in order
          MaxLost       \* bound on lost sessions, failures and restarts

(* A build carries each version once, and a later build adds to the end.    *)
ASSUME VersionsAssumption ==
    /\ Versions \in [Procs -> Seq(Nat)]
    /\ \A p \in Procs : \A i, j \in 1 .. Len(Versions[p]) :
          Versions[p][i] = Versions[p][j] => i = j
    /\ \A p, q \in Procs :
          IsPrefix(Versions[p], Versions[q]) \/ IsPrefix(Versions[q], Versions[p])

VARIABLES pc,           \* process -> where it is in Up
          next,         \* process -> the index of the migration it looks at
          lock,         \* the process whose session holds the lock, or {}
          recorded,     \* schema_migrations
          schema,       \* the bodies the schema has had, in order
          lost

mvars == <<pc, next, lock, recorded, schema, lost>>

Version(p) == Versions[p][next[p]]

InitiallyMigrations ==
    /\ pc = [p \in Procs |-> "off"] /\ next = [p \in Procs |-> 1]
    /\ lock = {} /\ recorded = {} /\ schema = <<>> /\ lost = 0

Goes(p, from, to) == pc[p] = from /\ pc' = [pc EXCEPT ![p] = to]

(* createSchemaMigrations, then the first try for the lock.                 *)
CreateSchemaMigrations(p) ==
    Goes(p, "off", "lock") /\ next' = [next EXCEPT ![p] = 1]
    /\ UNCHANGED <<lock, recorded, schema, lost>>

(* pg_try_advisory_lock, tried until it is granted ...                      *)
TryAdvisoryLock(p) ==
    /\ lock = {} /\ Goes(p, "lock", "check") /\ lock' = {p}
    /\ UNCHANGED <<next, recorded, schema, lost>>

(* ... or for thirty seconds.                                               *)
LockTimesOut(p) ==
    /\ lock # {} /\ Goes(p, "lock", "failed")
    /\ UNCHANGED <<next, lock, recorded, schema, lost>>

(* isApplied, for the next migration of the list.                           *)
IsApplied(p) ==
    /\ next[p] <= Len(Versions[p])
    /\ IF Version(p) \in recorded
       THEN pc[p] = "check" /\ next' = [next EXCEPT ![p] = @ + 1] /\ UNCHANGED pc
       ELSE Goes(p, "check", "apply") /\ UNCHANGED next
    /\ UNCHANGED <<lock, recorded, schema, lost>>

(* A mutant: a version that is recorded already is no reason to roll back.   *)
ApplyMigrationAnyway(p) ==
    /\ Goes(p, "apply", "check") /\ next' = [next EXCEPT ![p] = @ + 1]
    /\ recorded' = recorded \cup {Version(p)}
    /\ schema' = Append(schema, Version(p))
    /\ UNCHANGED <<lock, lost>>

(* A mutant: a migration that could not be applied is tried again.           *)
ApplyMigrationRetries(p) ==
    /\ pc[p] = "apply" /\ Version(p) \notin recorded
    /\ Goes(p, "apply", "check") /\ next' = [next EXCEPT ![p] = @ + 1]
    /\ recorded' = recorded \cup {Version(p)}
    /\ schema' = Append(schema, Version(p))
    /\ UNCHANGED <<lock, lost>>

(* One transaction: the body, and the row whose key refuses a second one.    *)
ApplyMigration(p) ==
    /\ pc[p] = "apply"
    /\ IF Version(p) \in recorded
       THEN Goes(p, "apply", "release") /\ UNCHANGED <<next, recorded, schema>>
       ELSE /\ Goes(p, "apply", "check") /\ next' = [next EXCEPT ![p] = @ + 1]
            /\ recorded' = recorded \cup {Version(p)}
            /\ schema' = Append(schema, Version(p))
    /\ UNCHANGED <<lock, lost>>

(* A statement fails, or the session is lost in the transaction, which is    *)
(* rolled back; before the lock is held there is nothing to release.         *)
MigrationFails(p) ==
    /\ lost < MaxLost /\ lost' = lost + 1
    /\ \/ Goes(p, "off", "failed") \/ Goes(p, "lock", "failed")
       \/ Goes(p, "check", "release") \/ Goes(p, "apply", "release")
    /\ UNCHANGED <<next, lock, recorded, schema>>

(* The deferred unlock: on another session than the lock's it does nothing.  *)
ReleaseAdvisoryLock(p) ==
    /\ \/ pc[p] = "check" /\ next[p] > Len(Versions[p]) /\ pc' = [pc EXCEPT ![p] = "up"]
       \/ Goes(p, "release", "failed")
    /\ lock' = lock \ {p}
    /\ UNCHANGED <<next, recorded, schema, lost>>

SessionLost(p) ==
    /\ lost < MaxLost /\ lost' = lost + 1
    /\ lock = {p} /\ lock' = {}
    /\ UNCHANGED <<pc, next, recorded, schema>>

(* The process ends, its sessions with it; somebody starts it again.         *)
ProcessEnds(p) ==
    /\ lost < MaxLost /\ lost' = lost + 1 /\ pc[p] # "off"
    /\ pc' = [pc EXCEPT ![p] = "off"] /\ lock' = lock \ {p}
    /\ UNCHANGED <<next, recorded, schema>>

UpStep(p) ==
    \/ CreateSchemaMigrations(p) \/ TryAdvisoryLock(p) \/ LockTimesOut(p)
    \/ IsApplied(p) \/ ApplyMigration(p) \/ ReleaseAdvisoryLock(p)

MigrationsNext ==
    \E p \in Procs : UpStep(p) \/ MigrationFails(p) \/ SessionLost(p) \/ ProcessEnds(p)

MigrationsSpec == InitiallyMigrations /\ [][MigrationsNext]_mvars

(***************************************************************************)
(* Properties.                                                               *)
(***************************************************************************)
\* The schema has had each recorded migration's body exactly once and in order, though
\* two processes may migrate at once after the session of one was lost with its lock.
SchemaIsRecorded ==
    /\ \A p \in Procs : IsPrefix(schema, Versions[p]) \/ IsPrefix(Versions[p], schema)
    /\ recorded = Range(schema)

\* A process that serves has every migration of its build under it: none comes up on a
\* schema older than its code, and none is undone while it runs.
UpIsCurrent ==
    \A p \in Procs : pc[p] = "up" => Range(Versions[p]) \subseteq recorded

\* The schema is sound: it is what is recorded, and it is current under whoever serves.
SchemaIsSound == SchemaIsRecorded /\ UpIsCurrent

\* A process that starts comes up or reports that it cannot: no two wait for each other,
\* and one that ended without unlocking keeps nobody waiting.
StartupEnds ==
    \A p \in Procs : pc[p] = "lock" ~> pc[p] \in {"up", "failed", "off"}
=============================================================================
