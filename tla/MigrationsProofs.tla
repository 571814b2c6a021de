-------------------------- MODULE MigrationsProofs --------------------------
(***************************************************************************)
(* Proofs about Migrations, for any number of server processes, any builds   *)
(* of which one continues another, and any number of lost sessions: the      *)
(* schema has had exactly the recorded migrations, in order, and a process   *)
(* that serves has every migration of its build under it.                    *)
(***************************************************************************)
EXTENDS Migrations, SequenceTheorems, TLAPS

(* Prefixes, element by element. *)
Begins(s, t) == Len(s) <= Len(t) /\ \A i \in 1 .. Len(s) : s[i] = t[i]

(* IsPrefix of the library compares subsequences.                            *)
LEMMA PrefixBegins ==
    ASSUME NEW s \in Seq(Nat), NEW t \in Seq(Nat)
    PROVE  IsPrefix(s, t) <=> Begins(s, t)
  <1>1. CASE Len(s) > Len(t)
    BY <1>1 DEF IsPrefix, Begins
  <1>2. CASE Len(s) <= Len(t)
    <2> DEFINE a == SubSeq(s, 1, Len(s))
               b == SubSeq(t, 1, Len(s))
    <2>1. /\ a \in Seq(Nat) /\ b \in Seq(Nat)
          /\ Len(a) = Len(s) /\ Len(b) = Len(s)
          /\ \A i \in 1 .. Len(s) : a[i] = s[i] /\ b[i] = t[i]
      BY <1>2
    <2>2. a = b <=> \A i \in 1 .. Len(s) : a[i] = b[i]
      <3> HIDE DEF a, b
      <3> QED
        BY <2>1, SeqEqual
    <2> QED
      BY <1>2, <2>1, <2>2 DEF IsPrefix, Begins
  <1> QED
    BY <1>1, <1>2

(* A version that one build carries after a schema that it continues makes    *)
(* of the schema a longer beginning of the same build.                       *)
LEMMA AppendBegins ==
    ASSUME NEW s \in Seq(Nat), NEW t \in Seq(Nat), Begins(s, t), Len(s) + 1 <= Len(t)
    PROVE  Begins(Append(s, t[Len(s) + 1]), t) /\ Append(s, t[Len(s) + 1]) \in Seq(Nat)
  BY DEF Begins

(* Beginnings of one sequence are beginnings of each other, and a beginning   *)
(* of a sequence that another continues or begins is comparable to that.     *)
LEMMA BeginsComparable ==
    ASSUME NEW s \in Seq(Nat), NEW t \in Seq(Nat), NEW u \in Seq(Nat),
           Begins(s, t), Begins(t, u) \/ Begins(u, t)
    PROVE  Begins(s, u) \/ Begins(u, s)
  <1>1. Len(s) \in Nat /\ Len(t) \in Nat /\ Len(u) \in Nat
    OBVIOUS
  <1>2. \A i \in 1 .. Len(s) : i \in 1 .. Len(t) /\ s[i] = t[i]
    BY <1>1 DEF Begins
  <1>3. CASE Begins(t, u)
    <2>1. \A i \in 1 .. Len(t) : t[i] = u[i]
      BY <1>3 DEF Begins
    <2> QED
      BY <1>1, <1>2, <1>3, <2>1 DEF Begins
  <1>4. CASE Begins(u, t)
    <2>1. \A i \in 1 .. Len(u) : u[i] = t[i]
      BY <1>4 DEF Begins
    <2>2. CASE Len(s) <= Len(u)
      BY <1>1, <1>2, <2>1, <2>2 DEF Begins
    <2>3. CASE Len(u) <= Len(s)
      BY <1>1, <1>2, <2>1, <2>3 DEF Begins
    <2> QED
      BY <1>1, <2>2, <2>3
  <1> QED
    BY <1>3, <1>4

-----------------------------------------------------------------------------
(* The inductive invariant.  What a process has looked at stays recorded,    *)
(* whoever recorded it and whether or not the lock is still held.            *)
LookedAtBy(p) ==
    /\ pc[p] = "lock" => next[p] = 1
    /\ pc[p] = "apply" => next[p] <= Len(Versions[p])
    /\ pc[p] \in {"check", "apply"} =>
         \A i \in 1 .. (next[p] - 1) : i <= Len(Versions[p]) /\ Versions[p][i] \in recorded

LookedAt == \A p \in Procs : LookedAtBy(p)

Shapes ==
    /\ pc \in [Procs -> {"off", "lock", "check", "apply", "release", "up", "failed"}]
    /\ next \in [Procs -> Nat \ {0}]
    /\ schema \in Seq(Nat)

Ordered ==
    /\ \A p \in Procs : Begins(schema, Versions[p]) \/ Begins(Versions[p], schema)
    /\ recorded = Range(schema)

MigrationsInv == Shapes /\ LookedAt /\ Ordered /\ UpIsCurrent

(* Nothing is recorded at first. *)
LEMMA MigrationsInit == InitiallyMigrations => MigrationsInv
  <1> SUFFICES ASSUME InitiallyMigrations PROVE MigrationsInv
    OBVIOUS
  <1>1. Shapes /\ LookedAt /\ UpIsCurrent
    BY DEF InitiallyMigrations, Shapes, LookedAt, LookedAtBy, UpIsCurrent
  <1>2. Ordered
    BY VersionsAssumption DEF InitiallyMigrations, Ordered, Begins, Range
  <1> QED
    BY <1>1, <1>2 DEF MigrationsInv

(* The transaction that applies a migration finds the schema ending exactly  *)
(* before it, even when another process has migrated meanwhile.              *)
LEMMA SchemaEndsBefore ==
    ASSUME MigrationsInv, NEW p \in Procs, pc[p] = "apply", Version(p) \notin recorded
    PROVE  /\ Begins(schema, Versions[p]) /\ next[p] = Len(schema) + 1
           /\ next[p] <= Len(Versions[p])
  <1> DEFINE v == Versions[p]
             n == next[p]
  <1>1. /\ v \in Seq(Nat) /\ schema \in Seq(Nat) /\ n \in Nat \ {0} /\ n <= Len(v)
        /\ \A i, j \in 1 .. Len(v) : v[i] = v[j] => i = j
    BY VersionsAssumption DEF MigrationsInv, Shapes, LookedAt, LookedAtBy
  <1>2. /\ \A i \in 1 .. (n - 1) : \E k \in 1 .. Len(schema) : schema[k] = v[i]
        /\ \A k \in 1 .. Len(schema) : schema[k] # v[n]
    <2>1. \A x : x \in recorded <=> \E k \in 1 .. Len(schema) : schema[k] = x
      BY <1>1 DEF MigrationsInv, Ordered, Range
    <2>2. /\ \A i \in 1 .. (n - 1) : v[i] \in recorded
          /\ v[n] \notin recorded
      BY DEF MigrationsInv, LookedAt, LookedAtBy, Version
    <2> QED
      BY <2>1, <2>2
  <1>3. Begins(schema, v) \/ Begins(v, schema)
    BY DEF MigrationsInv, Ordered
  <1> HIDE DEF v, n
  <1>4. Begins(schema, v)
    BY <1>1, <1>2, <1>3 DEF Begins
  <1>5. Len(schema) < n
    BY <1>1, <1>2, <1>4 DEF Begins
  <1>6. n - 1 <= Len(schema)
    <2>1. CASE n = 1
      BY <1>1, <2>1
    <2>2. CASE n # 1
      <3>1. PICK k \in 1 .. Len(schema) : schema[k] = v[n - 1]
        BY <1>1, <1>2, <2>2
      <3>2. k = n - 1
        <4>1. k \in 1 .. Len(v) /\ n - 1 \in 1 .. Len(v) /\ v[k] = schema[k]
          BY <1>1, <1>4, <2>2 DEF Begins
        <4> QED
          BY <1>1, <3>1, <4>1
      <3> QED
        BY <1>1, <3>2
    <2> QED
      BY <2>1, <2>2
  <1> QED
    BY <1>1, <1>4, <1>5, <1>6 DEF v, n

(* Every step keeps the invariant. *)
LEMMA MigrationsStep == MigrationsInv /\ [MigrationsNext]_mvars => MigrationsInv'
  <1> SUFFICES ASSUME MigrationsInv, [MigrationsNext]_mvars PROVE MigrationsInv'
    OBVIOUS
  <1> USE DEF MigrationsInv
  <1>1. CASE UNCHANGED mvars
    BY <1>1 DEF mvars, Shapes, LookedAt, LookedAtBy, Ordered, UpIsCurrent
  <1>2. ASSUME NEW p \in Procs, ApplyMigration(p), Version(p) \notin recorded
        PROVE  MigrationsInv'
    <2>1. /\ Begins(schema, Versions[p]) /\ next[p] = Len(schema) + 1
          /\ next[p] <= Len(Versions[p])
      BY <1>2, SchemaEndsBefore DEF ApplyMigration
    <2>2. /\ pc' = [pc EXCEPT ![p] = "check"] /\ next' = [next EXCEPT ![p] = @ + 1]
          /\ recorded' = recorded \cup {Version(p)}
          /\ schema' = Append(schema, Versions[p][Len(schema) + 1])
      BY <1>2, <2>1 DEF ApplyMigration, Goes, Version
    <2>3. /\ schema \in Seq(Nat) /\ \A q \in Procs : Versions[q] \in Seq(Nat)
      BY VersionsAssumption DEF Shapes
    <2>4. Begins(schema', Versions[p]) /\ schema' \in Seq(Nat)
      BY <2>1, <2>2, <2>3, AppendBegins
    <2>5. Shapes'
      BY <2>2, <2>4 DEF Shapes
    <2>6. LookedAt'
      <3>1. \A q \in Procs \ {p} : pc'[q] = pc[q] /\ next'[q] = next[q]
        BY <2>2 DEF Shapes
      <3>2. next'[p] = next[p] + 1 /\ pc'[p] = "check"
        BY <2>2 DEF Shapes
      <3>3. \A i \in 1 .. next[p] :
              i <= Len(Versions[p]) /\ Versions[p][i] \in recorded'
        BY <1>2, <2>1, <2>2 DEF LookedAt, LookedAtBy, Version, ApplyMigration, Shapes
      <3>4. LookedAtBy(p)'
        <4>1. next'[p] - 1 = next[p]
          BY <1>2, <3>2 DEF Shapes
        <4> QED
          BY <3>2, <3>3, <4>1 DEF LookedAtBy
      <3>5. \A q \in Procs \ {p} : LookedAtBy(q)'
        BY <2>2, <3>1 DEF LookedAt, LookedAtBy
      <3> QED
        BY <3>4, <3>5 DEF LookedAt
    <2>7. Ordered'
      <3>1. \A q \in Procs : Begins(Versions[p], Versions[q]) \/ Begins(Versions[q], Versions[p])
        BY <1>2, <2>3, VersionsAssumption, PrefixBegins
      <3>2. \A q \in Procs : Begins(schema', Versions[q]) \/ Begins(Versions[q], schema')
        BY <1>2, <2>3, <2>4, <3>1, BeginsComparable
      <3>3. recorded' = Range(schema')
        <4>1. /\ Len(schema') = Len(schema) + 1 /\ Len(schema) \in Nat
              /\ schema'[Len(schema) + 1] = Version(p)
              /\ \A i \in 1 .. Len(schema) : schema'[i] = schema[i]
          BY <2>1, <2>2, <2>3 DEF Version
        <4>2. recorded = {schema[i] : i \in 1 .. Len(schema)}
          BY <2>3 DEF Ordered, Range
        <4>3. Range(schema') = {schema'[i] : i \in 1 .. (Len(schema) + 1)}
          BY <2>4, <4>1 DEF Range
        <4>4. 1 .. (Len(schema) + 1) = 1 .. Len(schema) \cup {Len(schema) + 1}
          BY <4>1
        <4> QED
          BY <2>2, <4>1, <4>2, <4>3, <4>4
      <3> QED
        BY <3>2, <3>3 DEF Ordered
    <2>8. UpIsCurrent'
      BY <1>2, <2>2 DEF UpIsCurrent, Shapes
    <2> QED
      BY <2>5, <2>6, <2>7, <2>8
  <1>3. ASSUME NEW p \in Procs, IsApplied(p)
        PROVE  MigrationsInv'
    <2>1. UNCHANGED <<recorded, schema>>
      BY <1>3 DEF IsApplied
    <2>2. Shapes' /\ Ordered' /\ UpIsCurrent'
      BY <1>3, <2>1 DEF IsApplied, Goes, Shapes, Ordered, UpIsCurrent
    <2>3. LookedAt'
      <3>1. \A q \in Procs \ {p} : pc'[q] = pc[q] /\ next'[q] = next[q]
        BY <1>3 DEF IsApplied, Goes, Shapes
      <3>2. \A q \in Procs \ {p} : LookedAtBy(q)'
        BY <2>1, <3>1 DEF LookedAt, LookedAtBy
      <3>3. CASE Version(p) \in recorded
        <4>1. pc[p] = "check" /\ pc' = pc /\ next'[p] = next[p] + 1 /\ next[p] <= Len(Versions[p])
          BY <1>3, <3>3 DEF IsApplied, Shapes
        <4>2. \A i \in 1 .. next[p] :
                i <= Len(Versions[p]) /\ Versions[p][i] \in recorded
          BY <1>3, <3>3, <4>1 DEF LookedAt, LookedAtBy, Version, Shapes
        <4>3. LookedAtBy(p)'
          <5>1. next'[p] - 1 = next[p] /\ pc'[p] = "check"
            BY <1>3, <4>1 DEF Shapes
          <5> QED
            BY <2>1, <4>2, <5>1 DEF LookedAtBy
        <4> QED
          BY <3>2, <4>3 DEF LookedAt
      <3>4. CASE Version(p) \notin recorded
        <4>1. pc[p] = "check" /\ pc'[p] = "apply" /\ next' = next /\ next[p] <= Len(Versions[p])
          BY <1>3, <3>4 DEF IsApplied, Goes, Shapes
        <4>2. LookedAtBy(p)'
          BY <1>3, <2>1, <4>1 DEF LookedAt, LookedAtBy
        <4> QED
          BY <3>2, <4>2 DEF LookedAt
      <3> QED
        BY <3>3, <3>4
    <2> QED
      BY <2>2, <2>3
  <1>4. ASSUME NEW p \in Procs,
               \/ CreateSchemaMigrations(p) \/ TryAdvisoryLock(p) \/ LockTimesOut(p)
               \/ ApplyMigration(p) /\ Version(p) \in recorded
               \/ ReleaseAdvisoryLock(p) \/ MigrationFails(p) \/ SessionLost(p)
               \/ ProcessEnds(p)
        PROVE  MigrationsInv'
    <2>1. UNCHANGED <<recorded, schema>>
      BY <1>4 DEF CreateSchemaMigrations, TryAdvisoryLock, LockTimesOut, ApplyMigration,
          ReleaseAdvisoryLock, MigrationFails, SessionLost, ProcessEnds
    <2>2. /\ \E x \in {"off", "lock", "check", "apply", "release", "up", "failed"} :
               pc' = [pc EXCEPT ![p] = x]
          /\ next' = next \/ next' = [next EXCEPT ![p] = 1]
      BY <1>4 DEF CreateSchemaMigrations, TryAdvisoryLock, LockTimesOut, ApplyMigration,
          ReleaseAdvisoryLock, MigrationFails, SessionLost, ProcessEnds,
          Goes, Shapes
    <2>3. /\ \A q \in Procs \ {p} : pc'[q] = pc[q] /\ next'[q] = next[q]
          /\ next' \in [Procs -> Nat \ {0}]
          /\ pc' \in [Procs -> {"off", "lock", "check", "apply", "release", "up", "failed"}]
      BY <1>4, <2>2 DEF Shapes
    <2>4. \/ pc'[p] = pc[p] /\ next'[p] = next[p]
          \/ pc[p] = "lock" /\ pc'[p] = "check" /\ next'[p] = next[p]
          \/ pc[p] = "check" /\ pc'[p] = "up" /\ next[p] > Len(Versions[p])
          \/ pc'[p] = "lock" /\ next'[p] = 1
          \/ pc'[p] \in {"off", "release", "failed"}
      BY <1>4 DEF CreateSchemaMigrations, TryAdvisoryLock, LockTimesOut, ApplyMigration,
          ReleaseAdvisoryLock, MigrationFails, SessionLost, ProcessEnds, Goes, Shapes
    <2>5. Shapes' /\ Ordered'
      BY <2>1, <2>3 DEF Shapes, Ordered
    <2>6. UpIsCurrent'
      <3>1. CASE pc[p] = "check" /\ pc'[p] = "up" /\ next[p] > Len(Versions[p])
        <4>1. \A i \in 1 .. Len(Versions[p]) : Versions[p][i] \in recorded
          BY <1>4, <3>1, VersionsAssumption DEF LookedAt, LookedAtBy, Shapes
        <4>2. Range(Versions[p]) \subseteq recorded
          BY <1>4, <4>1, VersionsAssumption DEF Range
        <4> QED
          BY <2>1, <2>3, <4>2 DEF UpIsCurrent
      <3> QED
        BY <1>4, <2>1, <2>3, <2>4, <3>1 DEF UpIsCurrent
    <2>7. LookedAt'
      <3>1. LookedAtBy(p)'
        BY <1>4, <2>1, <2>4 DEF LookedAt, LookedAtBy
      <3>2. \A q \in Procs \ {p} : LookedAtBy(q)'
        BY <2>1, <2>3 DEF LookedAt, LookedAtBy
      <3> QED
        BY <3>1, <3>2 DEF LookedAt
    <2> QED
      BY <2>5, <2>6, <2>7
  <1> QED
    BY <1>1, <1>2, <1>3, <1>4 DEF MigrationsNext, UpStep

(* No two processes, with or without the lock, leave the schema with a        *)
(* migration that is not recorded, recorded twice over or out of order.       *)
THEOREM SchemaTheorem == MigrationsSpec => []SchemaIsRecorded
  <1>1. MigrationsInv => SchemaIsRecorded
    BY VersionsAssumption, PrefixBegins DEF MigrationsInv, Shapes, Ordered, SchemaIsRecorded
  <1> QED
    BY MigrationsInit, MigrationsStep, <1>1, PTL DEF MigrationsSpec

(* A process that serves has the whole of its build's schema under it.        *)
THEOREM UpTheorem == MigrationsSpec => []UpIsCurrent
  <1>1. MigrationsInv => UpIsCurrent
    BY DEF MigrationsInv
  <1> QED
    BY MigrationsInit, MigrationsStep, <1>1, PTL DEF MigrationsSpec

(* The schema is sound whatever processes start, end or lose their sessions   *)
(* (migrate.go).                                                              *)
THEOREM SoundTheorem == MigrationsSpec => []SchemaIsSound
  BY SchemaTheorem, UpTheorem, PTL DEF SchemaIsSound
=============================================================================
