--------------------------- MODULE MigrateProofs ----------------------------
(***************************************************************************)
(* Proofs about Migrate, for any number of migrators, any releases and any *)
(* number of faults: the history tells the truth about the schema, and an  *)
(* instance that has started finds the schema of its release.              *)
(***************************************************************************)
EXTENDS Migrate, FiniteSetTheorems, TLAPS

USE MigrateAssumption DEF Statements, Verified
-----------------------------------------------------------------------------
(* The history and what its files leave behind                             *)

\* The number of rows is a number, and counts the versions from 1.
LEMMA RecordedVersions ==
  ASSUME TypeOK, ReadyRecorded, HistoryTruthful
  PROVE  Recorded \in Nat /\ DOMAIN history = 1 .. Recorded
<1>1. Recorded \in Nat
  BY FS_CardinalityType DEF TypeOK, Recorded
<1>2. CASE created
  BY <1>1, <1>2 DEF HistoryTruthful, Recorded
<1>3. CASE ~created
  <2>1. DOMAIN history = {} /\ Recorded = 0
    BY <1>3, FS_EmptySet DEF ReadyRecorded, Recorded
  <2> QED BY <2>1
<1> QED BY <1>1, <1>2, <1>3

\* What files leave behind is a sequence.
LEMMA InstalledTypes ==
  ASSUME NEW n \in Nat, NEW b, \A v \in 1 .. n : b[v] \in Files
  PROVE  /\ Installed(b, n) \in Seq(Nat \X Files)
         /\ Len(Installed(b, n)) = IF n < NonTransactional THEN n ELSE n - 1
<1> DEFINE L == IF n < NonTransactional THEN n ELSE n - 1
           version(k) == IF k < NonTransactional THEN k ELSE k + 1
<1>1. L \in Nat /\ \A k \in 1 .. L : version(k) \in 1 .. n
  OBVIOUS
<1>2. \A k \in 1 .. L : <<version(k), b[version(k)]>> \in Nat \X Files
  BY <1>1
<1>3. Installed(b, n) = [k \in 1 .. L |-> <<version(k), b[version(k)]>>]
  BY DEF Installed
<1> HIDE DEF L, version
<1>4. [k \in 1 .. L |-> <<version(k), b[version(k)]>>] \in [1 .. L -> Nat \X Files]
  BY <1>2
<1>5. Installed(b, n) \in Seq(Nat \X Files) /\ Len(Installed(b, n)) = L
  BY <1>1, <1>3, <1>4
<1> QED BY <1>5 DEF L

\* One more file is one more transaction, or none for the other migration.
LEMMA InstalledNext ==
  ASSUME NEW n \in Nat, NEW b, NEW c, NEW f, \A v \in 1 .. n : b[v] \in Files,
         \A v \in 1 .. n : c[v] = b[v], c[n + 1] = f
  PROVE  Installed(c, n + 1) = IF n + 1 = NonTransactional THEN Installed(b, n)
                               ELSE Append(Installed(b, n), <<n + 1, f>>)
<1>1. CASE n + 1 = NonTransactional
  BY <1>1 DEF Installed
<1>2. CASE n + 1 # NonTransactional
  <2> DEFINE L == IF n < NonTransactional THEN n ELSE n - 1
             s == Installed(b, n)
             t == Installed(c, n + 1)
  <2>0. L \in Nat
    OBVIOUS
  <2>1. s \in Seq(Nat \X Files) /\ Len(s) = L
    BY InstalledTypes, Zenon
  <2>2. t = [k \in 1 .. L + 1 |-> t[k]]
    BY <1>2 DEF Installed
  <2>3. t[L + 1] = <<n + 1, f>>
    BY <1>2 DEF Installed
  <2>4. \A k \in 1 .. L : t[k] = s[k]
    BY <1>2 DEF Installed
  <2>5. Append(s, <<n + 1, f>>) =
          [k \in 1 .. L + 1 |-> IF k = L + 1 THEN <<n + 1, f>> ELSE s[k]]
    BY <2>1
  <2> HIDE DEF s, t, L
  <2>6. \A k \in 1 .. L + 1 : t[k] = IF k = L + 1 THEN <<n + 1, f>> ELSE s[k]
    BY <2>0, <2>3, <2>4
  <2>7. t = Append(s, <<n + 1, f>>)
    BY <2>2, <2>5, <2>6, Zenon
  <2> QED BY <1>2, <2>7 DEF s, t
<1> QED BY <1>1, <1>2

\* The history does not depend on what follows.
LEMMA InstalledPrefix ==
  ASSUME NEW n \in Nat, NEW b, NEW c, \A v \in 1 .. n : c[v] = b[v]
  PROVE  Installed(c, n) = Installed(b, n)
  BY DEF Installed

\* Every file of the history but the other migration's has left its transaction.
LEMMA InstalledHas ==
  ASSUME NEW n \in Nat, NEW b, NEW v \in 1 .. n, v # NonTransactional
  PROVE  \E k \in DOMAIN Installed(b, n) : Installed(b, n)[k] = <<v, b[v]>>
<1>1. CASE v < NonTransactional
  <2>1. v \in DOMAIN Installed(b, n) /\ Installed(b, n)[v] = <<v, b[v]>>
    BY <1>1 DEF Installed
  <2> QED BY <2>1
<1>2. CASE v > NonTransactional
  <2>1. v - 1 \in DOMAIN Installed(b, n) /\ Installed(b, n)[v - 1] = <<v, b[v]>>
    BY <1>2 DEF Installed
  <2> QED BY <2>1
<1> QED BY <1>1, <1>2

\* recordMigration adds one row.
LEMMA RecordAdds ==
  ASSUME TypeOK, ReadyRecorded, HistoryTruthful, NEW f \in Files,
         recordMigration(Recorded + 1, f)
  PROVE  /\ Recorded' = Recorded + 1 /\ DOMAIN history' = 1 .. Recorded + 1
         /\ IsFiniteSet(DOMAIN history')
         /\ history'[Recorded + 1] = f
         /\ \A v \in 1 .. Recorded : history'[v] = history[v]
<1>1. Recorded \in Nat /\ DOMAIN history = 1 .. Recorded
  BY RecordedVersions
<1>2. DOMAIN history' = 1 .. Recorded + 1
  BY <1>1 DEF recordMigration
<1>3. PICK n \in Nat : n = Recorded
  BY <1>1
<1>4. Cardinality(1 .. n + 1) = n + 1 /\ IsFiniteSet(1 .. n + 1)
  BY <1>3, FS_Interval
<1>5. Recorded' = Recorded + 1 /\ IsFiniteSet(DOMAIN history')
  BY <1>2, <1>3, <1>4 DEF Recorded
<1> QED BY <1>1, <1>2, <1>5 DEF recordMigration
-----------------------------------------------------------------------------
(* Steps                                                                   *)

\* What the invariant says of one migrator.
InOrder(m) ==
    /\ migrator[m].step \notin {"idle", "lock"} => lock = m
    /\ migrator[m].step # "idle" =>
           /\ migrator[m].release \in Releases
           /\ migrator[m].target <= Len(migrator[m].release)
    /\ migrator[m].step \in Applying \cup {"load", "orphanBuilding"} => created
    /\ migrator[m].step \in Applying =>
           /\ validateApplied(migrator[m].release)
           /\ migrator[m].next = Recorded + 1
    /\ migrator[m].step \in OneByOne \cup {"apply"} =>
           migrator[m].next <= Len(migrator[m].release)
    /\ migrator[m].step = "apply" => migrator[m].next # NonTransactional
    /\ migrator[m].step \in OneByOne => migrator[m].next = NonTransactional
    /\ migrator[m].step = "orphanBuilding" => Recorded + 1 = NonTransactional
    /\ migrator[m].step = "record" => Complete

\* The invariant speaks of one migrator at a time.
LEMMA AllInOrder ==
  LockHeld /\ ReleaseChosen /\ GoesOn <=> \A m \in Migrators : InOrder(m)
  BY DEF LockHeld, ReleaseChosen, GoesOn, InOrder

\* The same in the next state.
LEMMA AllInOrderAfter ==
  (LockHeld /\ ReleaseChosen /\ GoesOn)' <=> \A m \in Migrators : InOrder(m)'
  BY DEF LockHeld, ReleaseChosen, GoesOn, InOrder, Recorded, Complete, validateApplied

\* A step of one migrator disturbs no other: it leaves the database alone, or
\* has the lock, and then nobody else is at work.
LEMMA OneMigrator ==
  ASSUME MigrateInv, NEW m \in Migrators,
         \A k \in Migrators : k # m => migrator'[k] = migrator[k],
         lock = m \/ (UNCHANGED database /\ (lock' = lock \/ lock = None)),
         TypeOK', InOrder(m)', ReadyRecorded', HistoryTruthful'
  PROVE  MigrateInv'
<1>1. ASSUME NEW k \in Migrators, k # m PROVE InOrder(k)'
  <2>0. InOrder(k) /\ migrator'[k] = migrator[k]
    BY <1>1, AllInOrder DEF MigrateInv
  <2>1. CASE migrator[k].step \in {"idle", "lock"}
    BY <2>0, <2>1 DEF InOrder, Applying, OneByOne
  <2>2. CASE migrator[k].step \notin {"idle", "lock"}
    <3>1. lock = k
      BY <2>0, <2>2 DEF InOrder
    <3>2. UNCHANGED database /\ lock' = lock
      BY <1>1, <3>1
    <3>3. UNCHANGED <<created, history, executed, invalid, lock>>
      BY <3>2 DEF database
    <3> QED BY <2>0, <3>3 DEF InOrder, Recorded, validateApplied, Complete
  <2> QED BY <2>1, <2>2
<1>2. \A k \in Migrators : InOrder(k)'
  BY <1>1
<1> QED BY <1>2, AllInOrderAfter DEF MigrateInv

\* Only the step of the migrator changes.
LEMMA GotoWrites ==
  ASSUME TypeOK, NEW m \in Migrators, NEW label \in Steps, Goto(m, label)
  PROVE  /\ migrator' \in [Migrators -> Migrator]
         /\ migrator'[m].step = label
         /\ migrator'[m].release = migrator[m].release
         /\ migrator'[m].target = migrator[m].target
         /\ migrator'[m].next = migrator[m].next
         /\ \A k \in Migrators : k # m => migrator'[k] = migrator[k]
<1>1. migrator \in [Migrators -> Migrator] /\ migrator[m] \in Migrator
  BY DEF TypeOK
<1>2. migrator'[m] = [migrator[m] EXCEPT !.step = label]
  BY <1>1 DEF Goto
<1>3. /\ [migrator[m] EXCEPT !.step = label] \in Migrator
      /\ [migrator[m] EXCEPT !.step = label].step = label
      /\ [migrator[m] EXCEPT !.step = label].release = migrator[m].release
      /\ [migrator[m] EXCEPT !.step = label].target = migrator[m].target
      /\ [migrator[m] EXCEPT !.step = label].next = migrator[m].next
  BY <1>1 DEF Migrator
<1>4. migrator' \in [Migrators -> Migrator] /\ \A k \in Migrators : k # m => migrator'[k] = migrator[k]
  BY <1>1, <1>2, <1>3 DEF Goto
<1> QED BY <1>2, <1>3, <1>4

\* A migrator goes on and leaves the database alone.
LEMMA GotoKeeps ==
  ASSUME MigrateInv, NEW m \in Migrators, NEW label \in Steps, Goto(m, label),
         UNCHANGED <<database, application>>, faults' \in 0 .. MaxFaults,
         lock' \in Migrators \cup {None}, lock' = lock \/ lock = None,
         label \notin {"idle", "lock"} => lock' = m,
         migrator[m].step # "idle",
         label \in Applying \cup {"load", "orphanBuilding"} => created,
         label \in Applying => migrator[m].step \in Applying,
         label \in OneByOne \cup {"apply"} => migrator[m].next <= Len(migrator[m].release),
         label = "apply" => migrator[m].next # NonTransactional,
         label \in OneByOne => migrator[m].next = NonTransactional,
         label = "orphanBuilding" => migrator[m].step = "building",
         label = "record" => Complete
  PROVE  MigrateInv'
<1>0. TypeOK /\ InOrder(m)
  BY AllInOrder DEF MigrateInv
<1>1. UNCHANGED <<created, history, schema, executed, invalid, messages, checking, ready>>
  BY DEF database, application
<1>2. /\ migrator' \in [Migrators -> Migrator]
      /\ migrator'[m].step = label
      /\ migrator'[m].release = migrator[m].release
      /\ migrator'[m].target = migrator[m].target
      /\ migrator'[m].next = migrator[m].next
      /\ \A k \in Migrators : k # m => migrator'[k] = migrator[k]
  BY <1>0, GotoWrites
<1>3. TypeOK'
  BY <1>0, <1>1, <1>2 DEF TypeOK
<1>4. ReadyRecorded'
  BY <1>1 DEF MigrateInv, ReadyRecorded
<1>5. HistoryTruthful'
  BY <1>1 DEF MigrateInv, HistoryTruthful, Complete
<1>6. InOrder(m)'
  <2>1. (migrator[m].step \notin {"idle", "lock"} => lock = m)'
    BY <1>2
  <2>2. /\ migrator'[m].release \in Releases
        /\ migrator'[m].target <= Len(migrator'[m].release)
    BY <1>0, <1>2 DEF InOrder
  <2>3. (migrator[m].step \in Applying \cup {"load", "orphanBuilding"} => created)'
    BY <1>1, <1>2
  <2>4. (migrator[m].step \in Applying => /\ validateApplied(migrator[m].release)
                                          /\ migrator[m].next = Recorded + 1)'
    BY <1>0, <1>1, <1>2 DEF InOrder, validateApplied, Recorded
  <2>5. (migrator[m].step = "orphanBuilding" => Recorded + 1 = NonTransactional)'
    BY <1>0, <1>1, <1>2 DEF InOrder, Applying, OneByOne, Recorded
  <2>6. (migrator[m].step = "record" => Complete)'
    BY <1>1, <1>2 DEF Complete
  <2> QED BY <1>2, <2>1, <2>2, <2>3, <2>4, <2>5, <2>6 DEF InOrder
<1> QED BY <1>2, <1>3, <1>4, <1>5, <1>6, OneMigrator

\* A migrator begins, waiting for the lock, or ends.
LEMMA ReplaceKeeps ==
  ASSUME MigrateInv, NEW m \in Migrators, NEW x \in Migrator,
         migrator' = [migrator EXCEPT ![m] = x],
         x.step = "idle" \/ (x.step = "lock" /\ x.release \in Releases
                                             /\ x.target <= Len(x.release)),
         UNCHANGED <<database, application, faults>>,
         lock' = lock \/ (lock = m /\ lock' = None)
  PROVE  MigrateInv'
<1>0. TypeOK
  BY DEF MigrateInv
<1>1. UNCHANGED <<created, history, schema, executed, invalid, messages, checking, ready>>
  BY DEF database, application
<1>2. /\ migrator' \in [Migrators -> Migrator] /\ migrator'[m] = x
      /\ \A k \in Migrators : k # m => migrator'[k] = migrator[k]
  BY <1>0 DEF TypeOK
<1>3. TypeOK'
  BY <1>0, <1>1, <1>2 DEF TypeOK
<1>4. ReadyRecorded'
  BY <1>1 DEF MigrateInv, ReadyRecorded
<1>5. HistoryTruthful'
  BY <1>1 DEF MigrateInv, HistoryTruthful, Complete
<1>6. InOrder(m)'
  BY <1>2 DEF InOrder, Applying, OneByOne
<1> QED BY <1>2, <1>3, <1>4, <1>5, <1>6, OneMigrator

\* Starting Up or Baseline with a release.
LEMMA StartKeeps ==
  ASSUME MigrateInv, NEW m \in Migrators, NEW b \in Releases,
         \/ \E allow \in BOOLEAN : StartUp(m, b, allow)
         \/ \E n \in Baselines : StartBaseline(m, b, n)
  PROVE  MigrateInv'
<1>0. b \in Seq(Files) /\ Len(b) \in Nat
  OBVIOUS
<1>1. ASSUME NEW allow \in BOOLEAN, StartUp(m, b, allow) PROVE MigrateInv'
  <2> DEFINE x == [NotRunning EXCEPT !.step = "lock", !.release = b, !.allow = allow]
  <2>1. x \in Migrator /\ x.step = "lock" /\ x.release = b /\ x.target = 0
    BY DEF NotRunning, Migrator, Steps
  <2>2. x.target <= Len(x.release)
    BY <1>0, <2>1
  <2>3. /\ migrator' = [migrator EXCEPT ![m] = x]
        /\ UNCHANGED <<database, application, faults>> /\ lock' = lock
    BY <1>1 DEF StartUp
  <2> HIDE DEF x
  <2> QED BY <2>1, <2>2, <2>3, ReplaceKeeps
<1>2. ASSUME NEW n \in Baselines, StartBaseline(m, b, n) PROVE MigrateInv'
  <2> DEFINE x == [NotRunning EXCEPT !.step = "lock", !.release = b, !.target = n]
  <2>1. x \in Migrator /\ x.step = "lock" /\ x.release = b /\ x.target = n
    BY DEF NotRunning, Migrator, Steps
  <2>2. x.target <= Len(x.release)
    BY <1>2, <2>1 DEF StartBaseline
  <2>3. /\ migrator' = [migrator EXCEPT ![m] = x]
        /\ UNCHANGED <<database, application, faults>> /\ lock' = lock
    BY <1>2 DEF StartBaseline
  <2> HIDE DEF x
  <2> QED BY <2>1, <2>2, <2>3, ReplaceKeeps
<1> QED BY <1>1, <1>2

\* Steps that only move a migrator.
LEMMA MoveKeeps ==
  ASSUME MigrateInv, NEW m \in Migrators,
         \/ acquireLock(m) \/ NextMigration(m) \/ Verify(m) \/ Recheck(m)
         \/ StatementFails(m) \/ Interrupt(m)
  PROVE  MigrateInv'
<1>0. InOrder(m) /\ TypeOK
  BY AllInOrder DEF MigrateInv
<1>1. CASE acquireLock(m)
  <2>1. PICK label \in {"ensure", "baseline"} : Goto(m, label)
    BY <1>1 DEF acquireLock
  <2> QED BY <1>0, <1>1, <2>1, GotoKeeps
          DEF acquireLock, Steps, Applying, OneByOne, TypeOK
<1>2. CASE NextMigration(m)
  <2>1. /\ migrator[m].step = "next" /\ lock = m /\ created
        /\ UNCHANGED <<database, application, lock, faults>>
    BY <1>0, <1>2 DEF NextMigration, InOrder, Applying
  <2>2. CASE Goto(m, "unlock")
    BY <1>0, <2>1, <2>2, GotoKeeps DEF Steps, Applying, OneByOne, TypeOK
  <2>3. CASE /\ migrator[m].next <= Len(migrator[m].release)
             /\ \/ migrator[m].next = NonTransactional /\ Goto(m, "verify")
                \/ migrator[m].next # NonTransactional /\ Goto(m, "apply")
    BY <1>0, <2>1, <2>3, GotoKeeps DEF Steps, Applying, OneByOne, TypeOK
  <2>4. migrator[m].next \in Nat /\ Len(migrator[m].release) \in Nat
    BY <1>0, <2>1 DEF TypeOK, Migrator, InOrder
  <2> QED BY <1>2, <2>2, <2>3, <2>4 DEF NextMigration
<1>3. CASE Verify(m) \/ Recheck(m)
  <2>1. /\ migrator[m].step \in OneByOne /\ lock = m /\ created
        /\ migrator[m].next = NonTransactional
        /\ migrator[m].next <= Len(migrator[m].release)
        /\ UNCHANGED <<database, application, lock, faults>>
    BY <1>0, <1>3 DEF Verify, Recheck, InOrder, Applying, OneByOne
  <2>2. CASE Goto(m, "unlock")
    BY <1>0, <2>1, <2>2, GotoKeeps DEF Steps, Applying, OneByOne, TypeOK
  <2>3. CASE Goto(m, "run") \/ (Complete /\ Goto(m, "record"))
    BY <1>0, <2>1, <2>3, GotoKeeps DEF Steps, Applying, OneByOne, TypeOK
  <2> QED BY <1>3, <2>2, <2>3 DEF Verify, Recheck
<1>4. CASE StatementFails(m) \/ Interrupt(m)
  <2>1. /\ migrator[m].step \notin Inactive /\ lock = m
        /\ UNCHANGED <<database, application, lock>> /\ faults' \in 0 .. MaxFaults
    BY <1>0, <1>4 DEF StatementFails, Interrupt, Inactive, InOrder, Fault, TypeOK
  <2>2. CASE Goto(m, "unlock") \/ Goto(m, "orphan")
    BY <1>0, <2>1, <2>2, GotoKeeps DEF Steps, Applying, OneByOne, Inactive, TypeOK
  <2>3. CASE migrator[m].step = "building" /\ Goto(m, "orphanBuilding")
    BY <1>0, <2>1, <2>3, GotoKeeps
    DEF Steps, Applying, OneByOne, Inactive, TypeOK, InOrder
  <2> QED BY <1>4, <2>2, <2>3 DEF StatementFails, Interrupt
<1> QED BY <1>1, <1>2, <1>3, <1>4

\* Objects of the migration that is not recorded yet come and go.
LEMMA ObjectsKeep ==
  ASSUME MigrateInv, NEW m \in Migrators, NEW label \in Steps, lock = m,
         migrator[m].step \in {"run", "building"},
         label \in OneByOne \ {"record"},
         Goto(m, label), UNCHANGED <<created, history, schema, application, lock, faults>>,
         executed' \in 0 .. Statements, invalid' \in BOOLEAN
  PROVE  MigrateInv'
<1>0. TypeOK /\ InOrder(m) /\ HistoryTruthful /\ ReadyRecorded
  BY AllInOrder DEF MigrateInv
<1>1. UNCHANGED <<messages, checking, ready>>
  BY DEF application
<1>2. /\ migrator' \in [Migrators -> Migrator]
      /\ migrator'[m].step = label
      /\ migrator'[m].release = migrator[m].release
      /\ migrator'[m].target = migrator[m].target
      /\ migrator'[m].next = migrator[m].next
      /\ \A k \in Migrators : k # m => migrator'[k] = migrator[k]
  BY <1>0, GotoWrites
<1>3. TypeOK'
  BY <1>0, <1>1, <1>2 DEF TypeOK
<1>4. ReadyRecorded'
  BY <1>0, <1>1 DEF ReadyRecorded
<1>5. created /\ Recorded + 1 = NonTransactional
  BY <1>0 DEF InOrder, Applying, OneByOne
<1>6. NonTransactional \notin DOMAIN history
  BY <1>0, <1>5, RecordedVersions
<1>7. HistoryTruthful'
  BY <1>0, <1>6 DEF HistoryTruthful
<1>8. InOrder(m)'
  BY <1>0, <1>2 DEF InOrder, Applying, OneByOne, Recorded, validateApplied
<1> QED BY <1>2, <1>3, <1>4, <1>7, <1>8, OneMigrator

\* The statements of the migration that runs outside a transaction.
LEMMA StatementKeeps ==
  ASSUME MigrateInv, NEW m \in Migrators,
         StartIndex(m) \/ FinishIndex(m) \/ RunStatement(m)
  PROVE  MigrateInv'
<1>0. InOrder(m) /\ TypeOK
  BY AllInOrder DEF MigrateInv
<1>1. /\ lock = m /\ migrator[m].step \in {"run", "building"}
      /\ UNCHANGED <<created, history, schema, application, lock, faults>>
  BY <1>0 DEF InOrder, StartIndex, FinishIndex, RunStatement
<1>2. executed' \in 0 .. Statements
  BY <1>0 DEF StartIndex, FinishIndex, RunStatement, TypeOK
<1>3. invalid' \in BOOLEAN
  BY <1>0 DEF StartIndex, FinishIndex, RunStatement, TypeOK
<1>4. PICK label \in {"building", "run", "recheck"} : Goto(m, label)
  BY DEF StartIndex, FinishIndex, RunStatement
<1> QED BY <1>1, <1>2, <1>3, <1>4, ObjectsKeep DEF Steps, OneByOne

\* The lock is given up.
LEMMA EndKeeps ==
  ASSUME MigrateInv, NEW m \in Migrators, releaseLock(m) \/ EndSession(m)
  PROVE  MigrateInv'
<1>0. InOrder(m) /\ TypeOK /\ HistoryTruthful /\ ReadyRecorded
  BY AllInOrder DEF MigrateInv
<1>1. /\ lock = m /\ lock' = None /\ migrator' = [migrator EXCEPT ![m] = NotRunning]
      /\ UNCHANGED <<created, history, schema, application, faults>>
  BY <1>0 DEF InOrder, releaseLock, EndSession, database
<1>2. NotRunning \in Migrator /\ NotRunning.step = "idle"
  BY DEF NotRunning, Migrator, Steps
<1>3. CASE UNCHANGED <<executed, invalid>>
  <2>1. UNCHANGED <<database, application, faults>>
    BY <1>1, <1>3 DEF database
  <2> QED BY <1>1, <1>2, <2>1, ReplaceKeeps
<1>4. CASE migrator[m].step = "orphanBuilding" /\ invalid' = FALSE /\ executed' = 1
  <2>1. /\ migrator' \in [Migrators -> Migrator] /\ migrator'[m] = NotRunning
        /\ \A k \in Migrators : k # m => migrator'[k] = migrator[k]
    BY <1>0, <1>1, <1>2 DEF TypeOK
  <2>2. executed' \in 0 .. Statements /\ UNCHANGED <<messages, checking, ready>>
    BY <1>1, <1>4 DEF application
  <2>3. invalid' \in BOOLEAN
    BY <1>4
  <2>4. TypeOK'
    BY <1>0, <1>1, <2>1, <2>2, <2>3 DEF TypeOK
  <2>5. ReadyRecorded'
    BY <1>0, <1>1, <2>2 DEF ReadyRecorded
  <2>6. NonTransactional \notin DOMAIN history
    BY <1>0, <1>4, RecordedVersions DEF InOrder
  <2>7. HistoryTruthful'
    BY <1>0, <1>1, <2>6 DEF HistoryTruthful
  <2>8. InOrder(m)'
    BY <1>2, <2>1 DEF InOrder, Applying, OneByOne
  <2> QED BY <1>1, <2>1, <2>4, <2>5, <2>7, <2>8, OneMigrator
<1> QED BY <1>3, <1>4 DEF releaseLock, EndSession, database

\* A baseline writes the history of what is there.
LEMMA BaselineKeeps ==
  ASSUME MigrateInv, NEW m \in Migrators, Baseline(m) PROVE MigrateInv'
<1> DEFINE b == migrator[m].release
           n == migrator[m].target
<1>0. InOrder(m) /\ TypeOK /\ HistoryTruthful /\ ReadyRecorded
  BY AllInOrder DEF MigrateInv
<1>1. /\ lock = m /\ migrator[m].step = "baseline" /\ Goto(m, "unlock")
      /\ UNCHANGED <<schema, executed, invalid, application, lock, faults>>
  BY <1>0 DEF Baseline, InOrder
<1>2. CASE UNCHANGED <<created, history>>
  <2>1. UNCHANGED <<database, application>>
    BY <1>1, <1>2 DEF database
  <2> QED BY <1>0, <1>1, <2>1, GotoKeeps DEF Steps, Applying, OneByOne, TypeOK
<1>3. CASE /\ ~created /\ created' = TRUE /\ history' = SubSeq(b, 1, n)
           /\ schema = Installed(b, n) /\ ~invalid /\ executed = Objects(n)
  <2>1. b \in Seq(Files) /\ n \in Nat /\ n <= Len(b)
    BY <1>0, <1>1 DEF InOrder, TypeOK, Migrator
  <2>2. /\ DOMAIN history' = 1 .. n /\ \A v \in 1 .. n : history'[v] = b[v] /\ b[v] \in Files
    BY <1>3, <2>1
  <2>3. Recorded' = n /\ IsFiniteSet(DOMAIN history')
    <3>1. PICK k \in Nat : k = n
      BY <2>1
    <3>2. Cardinality(1 .. k) = k /\ IsFiniteSet(1 .. k)
      BY FS_Interval
    <3> QED BY <2>2, <3>1, <3>2 DEF Recorded
  <2>4. schema' = Installed(history', n)
    BY <1>1, <1>3, <2>1, <2>2, InstalledPrefix
  <2>5. /\ migrator' \in [Migrators -> Migrator] /\ migrator'[m].step = "unlock"
        /\ migrator'[m].release = migrator[m].release
        /\ migrator'[m].target = migrator[m].target
        /\ \A k \in Migrators : k # m => migrator'[k] = migrator[k]
    BY <1>0, <1>1, GotoWrites DEF Steps
  <2>6. UNCHANGED <<messages, checking, ready>>
    BY <1>1 DEF application
  <2>7. TypeOK'
    <3>1. created' \in BOOLEAN
      BY <1>3
    <3>2. DOMAIN history' \subseteq Nat /\ \A v \in DOMAIN history' : history'[v] \in Files
      BY <2>1, <2>2
    <3> QED BY <1>0, <1>1, <2>3, <2>5, <2>6, <3>1, <3>2 DEF TypeOK
  <2>8. ReadyRecorded'
    <3>1. ready' = {} /\ created'
      BY <1>0, <1>3, <2>6 DEF ReadyRecorded
    <3> QED BY <3>1 DEF ReadyRecorded
  <2>9. NonTransactional \in DOMAIN history' =>
          IF Dropping \in DOMAIN history' THEN executed = 0 ELSE executed >= Verified
    BY <1>3, <2>1, <2>2 DEF Objects
  <2>10. HistoryTruthful'
    BY <1>1, <1>3, <2>2, <2>3, <2>4, <2>9 DEF HistoryTruthful, Complete, Recorded
  <2>11. InOrder(m)'
    BY <1>0, <1>1, <2>5 DEF InOrder, Applying, OneByOne
  <2> QED BY <1>1, <2>5, <2>7, <2>8, <2>10, <2>11, OneMigrator
<1> QED BY <1>2, <1>3 DEF Baseline

\* The table is created in an empty database.
LEMMA EnsureKeeps ==
  ASSUME MigrateInv, NEW m \in Migrators, ensureHistory(m) PROVE MigrateInv'
<1>0. InOrder(m) /\ TypeOK /\ HistoryTruthful /\ ReadyRecorded
  BY AllInOrder DEF MigrateInv
<1>1. /\ lock = m /\ migrator[m].step = "ensure"
      /\ UNCHANGED <<history, schema, executed, invalid, application, lock, faults>>
  BY <1>0 DEF ensureHistory, InOrder
<1>2. CASE UNCHANGED created /\ Goto(m, "unlock")
  <2>1. UNCHANGED <<database, application>>
    BY <1>1, <1>2 DEF database
  <2> QED BY <1>0, <1>1, <1>2, <2>1, GotoKeeps DEF Steps, Applying, OneByOne, TypeOK
<1>3. CASE (created \/ schema = <<>>) /\ created' = TRUE /\ Goto(m, "load")
  <2>1. /\ migrator' \in [Migrators -> Migrator] /\ migrator'[m].step = "load"
        /\ migrator'[m].release = migrator[m].release
        /\ migrator'[m].target = migrator[m].target
        /\ \A k \in Migrators : k # m => migrator'[k] = migrator[k]
    BY <1>0, <1>3, GotoWrites DEF Steps
  <2>2. UNCHANGED <<messages, checking, ready>>
    BY <1>1 DEF application
  <2>3. created' \in BOOLEAN /\ created'
    BY <1>3
  <2>4. TypeOK'
    BY <1>0, <1>1, <2>1, <2>2, <2>3 DEF TypeOK
  <2>5. ReadyRecorded'
    BY <1>0, <1>1, <2>2, <2>3 DEF ReadyRecorded
  <2>6. HistoryTruthful'
    <3>1. CASE created
      BY <1>0, <1>1, <3>1 DEF HistoryTruthful, Complete
    <3>2. CASE ~created
      <4>1. DOMAIN history = {} /\ Cardinality(DOMAIN history) = 0
        BY <1>0, <3>2, FS_EmptySet DEF ReadyRecorded
      <4>2. Installed(history, 0) = <<>>
        BY DEF Installed
      <4>3. DOMAIN history = 1 .. 0 /\ NonTransactional \notin DOMAIN history
        BY <4>1
      <4> QED BY <1>1, <1>3, <3>2, <4>1, <4>2, <4>3 DEF HistoryTruthful
    <3> QED BY <3>1, <3>2
  <2>7. InOrder(m)'
    BY <1>0, <1>1, <2>1, <2>3 DEF InOrder, Applying, OneByOne
  <2> QED BY <1>1, <2>1, <2>4, <2>5, <2>6, <2>7, OneMigrator
<1> QED BY <1>2, <1>3 DEF ensureHistory

\* The migrator sees what is recorded.
LEMMA LoadKeeps ==
  ASSUME MigrateInv, NEW m \in Migrators, loadApplied(m) PROVE MigrateInv'
<1> DEFINE label == IF validateApplied(migrator[m].release) THEN "next" ELSE "unlock"
<1>0. InOrder(m) /\ TypeOK /\ HistoryTruthful /\ ReadyRecorded
  BY AllInOrder DEF MigrateInv
<1>1. /\ lock = m /\ migrator[m].step = "load" /\ created
      /\ UNCHANGED <<database, application, lock, faults>>
  BY <1>0 DEF loadApplied, InOrder
<1>2. UNCHANGED <<created, history, schema, executed, invalid, messages, checking, ready>>
  BY <1>1 DEF database, application
<1>3. Recorded + 1 \in Nat
  BY <1>0, RecordedVersions
<1>4. migrator[m] \in Migrator /\ label \in Steps
  BY <1>0 DEF TypeOK, Steps
<1>5. migrator'[m] = [migrator[m] EXCEPT !.step = label, !.next = Recorded + 1]
  BY <1>0 DEF TypeOK, loadApplied, Recorded
<1> HIDE DEF label
<1>6. /\ migrator'[m] \in Migrator /\ migrator'[m].step = label
      /\ migrator'[m].next = Recorded + 1
      /\ migrator'[m].release = migrator[m].release
      /\ migrator'[m].target = migrator[m].target
  BY <1>3, <1>4, <1>5 DEF Migrator
<1>7. /\ migrator' \in [Migrators -> Migrator]
      /\ \A k \in Migrators : k # m => migrator'[k] = migrator[k]
  BY <1>0, <1>6 DEF TypeOK, loadApplied
<1>8. TypeOK'
  BY <1>0, <1>1, <1>2, <1>7 DEF TypeOK
<1>9. ReadyRecorded'
  BY <1>0, <1>2 DEF ReadyRecorded
<1>10. HistoryTruthful'
  BY <1>0, <1>2 DEF HistoryTruthful, Complete
<1>11. InOrder(m)'
  <2>1. label \in {"next", "unlock"} /\ (label = "next" => validateApplied(migrator[m].release))
    BY DEF label
  <2>2. /\ migrator'[m].release \in Releases
        /\ migrator'[m].target <= Len(migrator'[m].release)
    BY <1>0, <1>1, <1>6 DEF InOrder
  <2>3. label = "next" => validateApplied(migrator[m].release)'
    BY <1>2, <1>6, <2>1 DEF validateApplied
  <2>4. Recorded' = Recorded /\ lock' = m /\ created'
    BY <1>1, <1>2 DEF Recorded
  <2> QED BY <1>6, <2>1, <2>2, <2>3, <2>4 DEF InOrder, Applying, OneByOne
<1> QED BY <1>1, <1>7, <1>8, <1>9, <1>10, <1>11, OneMigrator

\* A migration is recorded together with what it did.
LEMMA RecordKeeps ==
  ASSUME MigrateInv, NEW m \in Migrators, NEW v, v = migrator[m].next,
         migrator[m].step \in {"apply", "record"},
         recordMigration(v, migrator[m].release[v]), Applied(m),
         UNCHANGED <<created, application, lock, faults>>,
         schema' = IF v = NonTransactional THEN schema
                   ELSE Append(schema, <<v, migrator[m].release[v]>>),
         DropObjects(v)
  PROVE  MigrateInv'
<1> DEFINE b == migrator[m].release
<1>0. InOrder(m) /\ TypeOK /\ HistoryTruthful /\ ReadyRecorded
  BY AllInOrder DEF MigrateInv
<1>1. /\ created /\ lock = m /\ b \in Seq(Files)
      /\ v = Recorded + 1 /\ v <= Len(b) /\ validateApplied(b)
      /\ v = NonTransactional => Complete
  BY <1>0 DEF InOrder, Applying, OneByOne
<1>2. Recorded \in Nat /\ DOMAIN history = 1 .. Recorded
  BY <1>0, RecordedVersions
<1>3. b[v] \in Files
  BY <1>1, <1>2
<1>4. /\ Recorded' = v /\ DOMAIN history' = 1 .. v
      /\ IsFiniteSet(DOMAIN history')
      /\ history'[v] = b[v]
      /\ \A u \in 1 .. Recorded : history'[u] = history[u]
  BY <1>0, <1>1, <1>3, RecordAdds
<1>5. \A u \in 1 .. v : history'[u] = b[u] /\ b[u] \in Files
  <2>1. \A u \in 1 .. Recorded : u \in DOMAIN b /\ history[u] = b[u]
    BY <1>1, <1>2 DEF validateApplied
  <2> QED BY <1>1, <1>2, <1>3, <1>4, <2>1
<1>6. schema' = Installed(history', v)
  <2>1. schema = Installed(history, Recorded)
    BY <1>0, <1>1 DEF HistoryTruthful, Recorded
  <2>2. \A u \in 1 .. Recorded : history[u] \in Files
    BY <1>0, <1>2 DEF TypeOK
  <2>3. Installed(history', Recorded + 1) =
          IF Recorded + 1 = NonTransactional THEN Installed(history, Recorded)
          ELSE Append(Installed(history, Recorded), <<Recorded + 1, b[v]>>)
    <3>0. PICK n \in Nat : n = Recorded
      BY <1>2
    <3>1. PICK f, g, h : f = b[v] /\ g = history' /\ h = history
      OBVIOUS
    <3>2. \A u \in 1 .. n : h[u] \in Files
      BY <2>2, <3>0, <3>1
    <3>3. (\A u \in 1 .. n : g[u] = h[u]) /\ g[n + 1] = f
      BY <1>1, <1>4, <3>0, <3>1
    <3>4. Installed(g, n + 1) = IF n + 1 = NonTransactional THEN Installed(h, n)
                                ELSE Append(Installed(h, n), <<n + 1, f>>)
      BY <3>2, <3>3, InstalledNext
    <3> QED BY <3>0, <3>1, <3>4
  <2> QED BY <1>1, <2>1, <2>3
<1>7. schema' \in Seq(Nat \X Files)
  <2>1. PICK k \in Nat : k = v
    BY <1>1, <1>2
  <2> QED BY <1>5, <1>6, <2>1, InstalledTypes
<1>8. UNCHANGED <<messages, checking, ready>>
  BY DEF application
<1>9. executed' \in 0 .. Statements
  BY <1>0 DEF TypeOK, DropObjects
<1>10. invalid' \in BOOLEAN
  BY <1>0 DEF TypeOK, DropObjects
<1>11. migrator[m] \in Migrator
  BY <1>0 DEF TypeOK
<1>12. migrator'[m] = [migrator[m] EXCEPT !.step = "next", !.next = v + 1]
  BY <1>0 DEF TypeOK, Applied
<1>13. /\ migrator'[m] \in Migrator /\ migrator'[m].step = "next"
       /\ migrator'[m].next = v + 1
       /\ migrator'[m].release = b
       /\ migrator'[m].target = migrator[m].target
  <2>1. v + 1 \in Nat /\ "next" \in Steps
    BY <1>1, <1>2 DEF Steps
  <2> QED BY <1>11, <1>12, <2>1 DEF Migrator
<1>14. /\ migrator' \in [Migrators -> Migrator]
       /\ \A k \in Migrators : k # m => migrator'[k] = migrator[k]
  BY <1>0, <1>13 DEF TypeOK, Applied
<1>15. TypeOK'
  <2>1. DOMAIN history' \subseteq Nat /\ \A u \in DOMAIN history' : history'[u] \in Files
    BY <1>4, <1>5
  <2> QED BY <1>0, <1>4, <1>7, <1>8, <1>9, <1>10, <1>14, <2>1 DEF TypeOK
<1>16. ReadyRecorded'
  <2>1. created'
    BY <1>1
  <2>2. DOMAIN history \subseteq DOMAIN history' /\ \A u \in DOMAIN history : history'[u] = history[u]
    BY <1>1, <1>2, <1>4
  <2> QED BY <1>0, <1>8, <2>1, <2>2 DEF ReadyRecorded
<1>17. (NonTransactional \in DOMAIN history =>
          IF Dropping \in DOMAIN history THEN executed = 0 /\ ~invalid ELSE Complete)'
  <2>0. NonTransactional \in DOMAIN history =>
          IF Dropping \in DOMAIN history THEN executed = 0 /\ ~invalid ELSE Complete
    BY <1>0, <1>1 DEF HistoryTruthful
  <2>1. CASE v = Dropping
    <3>1. executed' = 0 /\ ~invalid'
      BY <2>1 DEF DropObjects
    <3>2. Dropping \in DOMAIN history'
      BY <1>1, <1>2, <1>4, <2>1
    <3> QED BY <3>1, <3>2
  <2>2. CASE v # Dropping
    <3>1. UNCHANGED <<executed, invalid>>
      BY <2>2 DEF DropObjects
    <3>2. Dropping \in DOMAIN history' => /\ Dropping \in DOMAIN history
                                          /\ NonTransactional \in DOMAIN history
      BY <1>1, <1>2, <1>4, <2>2
    <3>3. /\ NonTransactional \in DOMAIN history' =>
               NonTransactional \in DOMAIN history \/ v = NonTransactional
          /\ Dropping \in DOMAIN history => Dropping \in DOMAIN history'
      BY <1>1, <1>2, <1>4
    <3> QED BY <1>1, <2>0, <3>1, <3>2, <3>3 DEF Complete
  <2> QED BY <2>1, <2>2
<1>18. HistoryTruthful'
  BY <1>1, <1>4, <1>6, <1>17 DEF HistoryTruthful, Recorded
<1>19. InOrder(m)'
  <2>1. validateApplied(migrator[m].release)'
    <3>1. \A u \in 1 .. v : u \in DOMAIN b
      BY <1>1, <1>2
    <3>2. Cardinality(DOMAIN history') = v
      BY <1>4 DEF Recorded
    <3> QED BY <1>4, <1>5, <1>13, <3>1, <3>2 DEF validateApplied
  <2>2. /\ migrator'[m].release \in Releases
        /\ migrator'[m].target <= Len(migrator'[m].release)
    BY <1>0, <1>13 DEF InOrder
  <2> QED BY <1>1, <1>4, <1>13, <2>1, <2>2 DEF InOrder, Applying, OneByOne
<1> QED BY <1>1, <1>14, <1>15, <1>16, <1>18, <1>19, OneMigrator

\* A migration and its row, in one transaction or one after the other.
LEMMA ApplyKeeps ==
  ASSUME MigrateInv, NEW m \in Migrators, ApplyTransaction(m) \/ RecordMigration(m)
  PROVE  MigrateInv'
<1>0. InOrder(m) /\ TypeOK
  BY AllInOrder DEF MigrateInv
<1>1. CASE ApplyTransaction(m)
  <2>1. migrator[m].next # NonTransactional /\ migrator[m].step = "apply"
    BY <1>0, <1>1 DEF ApplyTransaction, InOrder
  <2> QED BY <1>1, <2>1, RecordKeeps DEF ApplyTransaction
<1>2. CASE RecordMigration(m)
  <2>1. migrator[m].next = NonTransactional /\ migrator[m].step = "record"
    BY <1>0, <1>2 DEF RecordMigration, InOrder, OneByOne
  <2>2. DropObjects(NonTransactional)
    BY <1>2 DEF RecordMigration, DropObjects
  <2> QED BY <1>2, <2>1, <2>2, RecordKeeps DEF RecordMigration
<1> QED BY <1>1, <1>2

\* The operator and the application: nobody's lock, nobody's history.
LEMMA OthersKeep ==
  ASSUME MigrateInv,
         \/ Repair \/ WriteMessage \/ \E b \in Releases : FindHistory(b) \/ CheckReady(b)
  PROVE  MigrateInv'
<1>0. TypeOK /\ HistoryTruthful /\ ReadyRecorded /\ LockHeld /\ ReleaseChosen /\ GoesOn
  BY DEF MigrateInv
<1>1. CASE Repair
  <2>1. /\ lock = None /\ executed' \in {0, Statements} /\ invalid' = FALSE
        /\ UNCHANGED <<created, history, schema, application, lock, migrator, faults>>
    BY <1>1 DEF Repair
  <2>2. UNCHANGED <<messages, checking, ready>>
    BY <2>1 DEF application
  <2>3. invalid' \in BOOLEAN
    BY <2>1
  <2>11. executed' \in 0 .. Statements
    BY <2>1
  <2>4. TypeOK'
    BY <1>0, <2>1, <2>2, <2>3, <2>11 DEF TypeOK
  <2>5. ReadyRecorded'
    BY <1>0, <2>1, <2>2 DEF ReadyRecorded
  <2>6. created => NonTransactional \notin DOMAIN history
    <3> SUFFICES ASSUME created, NonTransactional \in DOMAIN history PROVE FALSE
      OBVIOUS
    <3>1. IF Dropping \in DOMAIN history THEN executed = 0 /\ ~invalid ELSE Complete
      BY <1>0 DEF HistoryTruthful
    <3> QED BY <1>1, <3>1 DEF Repair, Partial
  <2>7. HistoryTruthful'
    BY <1>0, <2>1, <2>6 DEF HistoryTruthful
  <2>8. \A m \in Migrators : migrator'[m].step \in {"idle", "lock"}
    BY <1>0, <2>1 DEF LockHeld
  <2>9. LockHeld' /\ GoesOn'
    BY <2>8 DEF LockHeld, GoesOn, Applying, OneByOne
  <2>10. ReleaseChosen'
    BY <1>0, <2>1 DEF ReleaseChosen
  <2> QED BY <2>4, <2>5, <2>7, <2>9, <2>10 DEF MigrateInv
<1>2. ASSUME UNCHANGED <<database, lock, migrator, faults>>, messages' \in BOOLEAN,
             checking' \subseteq Releases, ready' \subseteq Releases, ReadyRecorded'
      PROVE  MigrateInv'
  <2>1. UNCHANGED <<created, history, schema, executed, invalid, lock, migrator, faults>>
    BY <1>2 DEF database
  <2>2. TypeOK'
    BY <1>0, <1>2, <2>1 DEF TypeOK
  <2>3. HistoryTruthful'
    BY <1>0, <2>1 DEF HistoryTruthful, Complete
  <2>4. LockHeld' /\ ReleaseChosen'
    BY <1>0, <2>1 DEF LockHeld, ReleaseChosen
  <2>5. GoesOn'
    BY <1>0, <2>1 DEF GoesOn, Complete, Recorded, validateApplied
  <2> QED BY <1>2, <2>2, <2>3, <2>4, <2>5 DEF MigrateInv
<1>3. CASE WriteMessage
  <2>1. UNCHANGED <<database, lock, migrator, faults>> /\ UNCHANGED <<created, history>>
    BY <1>3 DEF WriteMessage, database
  <2>2. messages' \in BOOLEAN
    BY <1>3 DEF WriteMessage
  <2>3. UNCHANGED <<checking, ready>>
    BY <1>3 DEF WriteMessage
  <2>4. ReadyRecorded'
    BY <1>0, <2>1, <2>3 DEF ReadyRecorded
  <2> QED BY <1>0, <1>2, <2>1, <2>2, <2>3, <2>4 DEF TypeOK
<1>4. ASSUME NEW b \in Releases, FindHistory(b) PROVE MigrateInv'
  <2>1. /\ UNCHANGED <<database, messages, ready, lock, migrator, faults>>
        /\ UNCHANGED <<created, history>> /\ created /\ checking' = {b}
    BY <1>4 DEF FindHistory, database
  <2>2. ReadyRecorded'
    BY <1>0, <2>1 DEF ReadyRecorded
  <2> QED BY <1>0, <1>2, <2>1, <2>2 DEF TypeOK
<1>5. ASSUME NEW b \in Releases, CheckReady(b) PROVE MigrateInv'
  <2>1. /\ UNCHANGED <<database, messages, lock, migrator, faults>>
        /\ UNCHANGED <<created, history>> /\ checking' = {}
        /\ ready' = IF validateReady(b) THEN ready \cup {b} ELSE ready
    BY <1>5 DEF CheckReady, database
  <2>2. created
    BY <1>0, <1>5 DEF CheckReady, ReadyRecorded
  <2>3. validateReady(b) => \A v \in DOMAIN b : v \in DOMAIN history /\ history[v] = b[v]
    <3>1. b \in Seq(Files) /\ DOMAIN b = 1 .. Len(b)
      OBVIOUS
    <3> QED BY <3>1 DEF validateReady, validateApplied
  <2>4. ReadyRecorded'
    BY <1>0, <2>1, <2>2, <2>3 DEF ReadyRecorded
  <2>5. ready' \subseteq Releases /\ checking' \subseteq Releases
    BY <1>0, <2>1 DEF TypeOK
  <2> QED BY <1>0, <1>2, <2>1, <2>4, <2>5 DEF TypeOK
<1> QED BY <1>1, <1>3, <1>4, <1>5
-----------------------------------------------------------------------------
(* The theorems                                                            *)

\* The invariant holds of an empty database, and of one without history.
LEMMA MigrateInitially == Init => MigrateInv
<1> SUFFICES ASSUME Init PROVE MigrateInv
  OBVIOUS
<1>1. /\ created = FALSE /\ DOMAIN history = {} /\ invalid = FALSE /\ messages = FALSE
      /\ lock = None /\ checking = {} /\ ready = {} /\ faults = 0
      /\ migrator = [m \in Migrators |-> NotRunning]
  BY DEF Init
<1>2. PICK b \in Databases \cup {<<>>} :
          schema = Installed(b, Len(b)) /\ executed = Objects(Len(b))
  BY DEF Init
<1>3. schema \in Seq(Nat \X Files)
  <2>1. <<>> \in Seq(Files)
    OBVIOUS
  <2>2. b \in Seq(Files)
    BY <2>1
  <2>3. Len(b) \in Nat /\ \A v \in 1 .. Len(b) : b[v] \in Files
    BY <2>2
  <2> QED BY <1>2, <2>3, InstalledTypes
<1>4. executed \in 0 .. Statements
  BY <1>2 DEF Objects
<1>5. NotRunning \in Migrator /\ NotRunning.step = "idle"
  BY DEF NotRunning, Migrator, Steps
<1>6. IsFiniteSet(DOMAIN history)
  BY <1>1, FS_EmptySet
<1>7. created \in BOOLEAN /\ invalid \in BOOLEAN /\ messages \in BOOLEAN
  BY <1>1
<1>8. TypeOK
  BY <1>1, <1>3, <1>4, <1>5, <1>6, <1>7 DEF TypeOK
<1>9. ReadyRecorded /\ HistoryTruthful
  BY <1>1 DEF ReadyRecorded, HistoryTruthful
<1>10. LockHeld /\ ReleaseChosen /\ GoesOn
  BY <1>1, <1>5 DEF LockHeld, ReleaseChosen, GoesOn, Applying, OneByOne
<1> QED BY <1>8, <1>9, <1>10 DEF MigrateInv

\* Every step preserves it.
LEMMA MigrateStep == MigrateInv /\ [Next]_vars => MigrateInv'
<1> SUFFICES ASSUME MigrateInv, [Next]_vars PROVE MigrateInv'
  OBVIOUS
<1>1. ASSUME NEW m \in Migrators, Work(m) PROVE MigrateInv'
  BY <1>1, BaselineKeeps, EnsureKeeps, LoadKeeps, MoveKeeps, ApplyKeeps, StatementKeeps,
     EndKeeps
  DEF Work
<1>2. ASSUME NEW m \in Migrators, acquireLock(m) \/ StatementFails(m) \/ Interrupt(m)
      PROVE  MigrateInv'
  BY <1>2, MoveKeeps
<1>3. ASSUME NEW m \in Migrators, NEW b \in Releases,
             \/ \E allow \in BOOLEAN : StartUp(m, b, allow)
             \/ \E n \in Baselines : StartBaseline(m, b, n)
      PROVE  MigrateInv'
  BY <1>3, StartKeeps
<1>4. CASE Repair \/ WriteMessage \/ \E b \in Releases : FindHistory(b) \/ CheckReady(b)
  BY <1>4, OthersKeep
<1>5. CASE UNCHANGED vars
  <2>1. /\ UNCHANGED <<created, history, schema, executed, invalid>>
        /\ UNCHANGED <<messages, checking, ready, lock, migrator, faults>>
    BY <1>5 DEF vars, database, application
  <2>2. TypeOK'
    BY <2>1 DEF MigrateInv, TypeOK
  <2>3. LockHeld' /\ ReleaseChosen'
    BY <2>1 DEF MigrateInv, LockHeld, ReleaseChosen
  <2>4. GoesOn'
    BY <2>1 DEF MigrateInv, GoesOn, Complete, Recorded, validateApplied
  <2>5. ReadyRecorded'
    BY <2>1 DEF MigrateInv, ReadyRecorded
  <2>6. HistoryTruthful'
    BY <2>1 DEF MigrateInv, HistoryTruthful, Complete
  <2> QED BY <2>2, <2>3, <2>4, <2>5, <2>6 DEF MigrateInv
<1> QED BY <1>1, <1>2, <1>3, <1>4, <1>5 DEF Next

\* The advisory lock, what a migrator has seen and what is recorded agree,
\* whatever migrators run at once and wherever they are interrupted.
THEOREM MigrateInvariant == Spec => []MigrateInv
  BY MigrateInitially, MigrateStep, PTL DEF Spec

\* Every variable keeps its type.
THEOREM MigrateTypes == Spec => []TypeOK
<1>1. MigrateInv => TypeOK
  BY DEF MigrateInv
<1> QED BY <1>1, MigrateInvariant, PTL

\* schema_migrations records exactly the migrations that have run, in order and
\* with their files, for any releases and any number of migrators and faults.
THEOREM MigrateHistoryTruthful == Spec => []HistoryTruthful
<1>1. MigrateInv => HistoryTruthful
  BY DEF MigrateInv
<1> QED BY <1>1, MigrateInvariant, PTL

\* An instance that has started finds every migration of its release applied with
\* the very file it was built with.
THEOREM MigrateReadyMeansApplied == Spec => []ReadyMeansApplied
<1>1. MigrateInv => ReadyMeansApplied
  <2> SUFFICES ASSUME MigrateInv, NEW b \in ready, NEW v \in DOMAIN b
               PROVE  IF v = NonTransactional THEN Complete \/ Dropping \in DOMAIN history
                      ELSE \E n \in DOMAIN schema : schema[n] = <<v, b[v]>>
    BY DEF ReadyMeansApplied
  <2>1. created /\ v \in DOMAIN history /\ history[v] = b[v]
    BY DEF MigrateInv, ReadyRecorded
  <2>2. Recorded \in Nat /\ DOMAIN history = 1 .. Recorded
    BY RecordedVersions DEF MigrateInv
  <2>3. CASE v = NonTransactional
    BY <2>1, <2>3 DEF MigrateInv, HistoryTruthful
  <2>4. CASE v # NonTransactional
    <3>1. schema = Installed(history, Recorded)
      BY <2>1 DEF MigrateInv, HistoryTruthful, Recorded
    <3>2. PICK n \in Nat : n = Recorded
      BY <2>2
    <3>3. PICK h : h = history
      OBVIOUS
    <3>4. v \in 1 .. n
      BY <2>1, <2>2, <3>2
    <3>5. \E k \in DOMAIN Installed(h, n) : Installed(h, n)[k] = <<v, h[v]>>
      BY <2>4, <3>4, InstalledHas
    <3> QED BY <2>1, <2>4, <3>1, <3>2, <3>3, <3>5
  <2> QED BY <2>3, <2>4
<1> QED BY <1>1, MigrateInvariant, PTL

\* The advisory lock is released however a migrator ends: whoever has it, or whose
\* session has it, is at work.
THEOREM MigrateLockNotLeaked == Spec => []LockNotLeaked
<1>1. Init => LockNotLeaked
  BY DEF Init, LockNotLeaked, NotRunning
<1>2. ASSUME MigrateInv, MigrateInv', LockNotLeaked, [Next]_vars PROVE LockNotLeaked'
  <2>0. TypeOK /\ LockHeld'
    BY <1>2 DEF MigrateInv
  <2> SUFFICES ASSUME NEW k \in Migrators, lock' = k
               PROVE  migrator'[k].step \notin {"idle", "lock"}
    BY <2>0 DEF LockHeld, LockNotLeaked
  <2>1. ASSUME UNCHANGED <<lock, migrator>> PROVE migrator'[k].step \notin {"idle", "lock"}
    BY <1>2, <2>1 DEF LockNotLeaked
  <2>2. ASSUME NEW m \in Migrators, NEW label \in Steps \ {"idle", "lock"},
               Goto(m, label), lock' = lock \/ lock' = m
        PROVE  migrator'[k].step \notin {"idle", "lock"}
    <3>1. /\ migrator'[m].step = label
          /\ \A j \in Migrators : j # m => migrator'[j] = migrator[j]
      BY <2>0, <2>2, GotoWrites
    <3>2. CASE k = m
      BY <3>1, <3>2
    <3>3. CASE k # m
      BY <1>2, <2>2, <3>1, <3>3 DEF LockNotLeaked
    <3> QED BY <3>2, <3>3
  <2>3. ASSUME NEW m \in Migrators, loadApplied(m) \/ ApplyTransaction(m) \/ RecordMigration(m)
        PROVE  migrator'[k].step \notin {"idle", "lock"}
    <3>1. lock' = lock /\ migrator[m].step \notin {"idle", "lock"}
      BY <2>3 DEF loadApplied, ApplyTransaction, RecordMigration
    <3>2. lock = m
      BY <1>2, <3>1 DEF LockNotLeaked
    <3>3. migrator'[m].step \in {"next", "unlock"}
      BY <2>0, <2>3 DEF TypeOK, Migrator, loadApplied, ApplyTransaction, RecordMigration, Applied
    <3> QED BY <3>1, <3>2, <3>3
  <2>4. ASSUME NEW m \in Migrators,
               \/ Baseline(m) \/ ensureHistory(m) \/ NextMigration(m) \/ Verify(m)
               \/ StartIndex(m) \/ FinishIndex(m) \/ RunStatement(m) \/ Recheck(m)
               \/ acquireLock(m) \/ StatementFails(m) \/ Interrupt(m)
        PROVE  \E label \in Steps \ {"idle", "lock"} : Goto(m, label) /\ (lock' = lock \/ lock' = m)
    BY <2>4 DEF Baseline, ensureHistory, NextMigration, Verify, StartIndex, FinishIndex,
                RunStatement, Recheck, acquireLock, StatementFails, Interrupt, Steps
  <2>5. ASSUME NEW m \in Migrators, releaseLock(m) \/ EndSession(m) PROVE FALSE
    <3>1. lock' = None
      BY <2>5 DEF releaseLock, EndSession
    <3> QED BY <3>1
  <2>6. ASSUME NEW m \in Migrators, NEW b \in Releases,
               \/ \E allow \in BOOLEAN : StartUp(m, b, allow)
               \/ \E n \in Baselines : StartBaseline(m, b, n)
        PROVE  migrator'[k].step \notin {"idle", "lock"}
    <3>1. lock' = lock /\ migrator[m].step = "idle"
      BY <2>6 DEF StartUp, StartBaseline
    <3>2. k # m
      BY <1>2, <3>1 DEF LockNotLeaked
    <3>3. migrator'[k] = migrator[k]
      BY <2>0, <2>6, <3>2 DEF StartUp, StartBaseline, TypeOK
    <3> QED BY <1>2, <3>1, <3>3 DEF LockNotLeaked
  <2>7. CASE Repair \/ WriteMessage \/ \E b \in Releases : FindHistory(b) \/ CheckReady(b)
    BY <2>1, <2>7 DEF Repair, WriteMessage, FindHistory, CheckReady
  <2>8. CASE UNCHANGED vars
    BY <2>1, <2>8 DEF vars
  <2>9. ASSUME NEW m \in Migrators, Work(m) \/ acquireLock(m) \/ StatementFails(m) \/ Interrupt(m)
        PROVE  migrator'[k].step \notin {"idle", "lock"}
    BY <2>2, <2>3, <2>4, <2>5, <2>9 DEF Work
  <2> QED BY <1>2, <2>6, <2>7, <2>8, <2>9 DEF Next
<1> QED BY <1>1, <1>2, MigrateInvariant, PTL DEF Spec

\* No step takes back or changes what is recorded or has run, and only the session
\* with the lock adds to it, for any releases run by any number of migrators.
THEOREM MigrateHistoryKept == Spec => HistoryKept
<1> DEFINE Rows == \A v \in DOMAIN history : v \in DOMAIN history' /\ history'[v] = history[v]
           Runs == \A k \in DOMAIN schema : k \in DOMAIN schema' /\ schema'[k] = schema[k]
           Locked == history' # history \/ schema' # schema =>
                         \E m \in Migrators : lock = m /\ lock' = m
           Kept == Rows /\ Runs /\ Locked
<1>1. ASSUME MigrateInv, [Next]_vars PROVE [Kept]_vars
  <2> SUFFICES ASSUME Next PROVE Kept
    BY <1>1
  <2>1. UNCHANGED <<history, schema>> => Kept
    OBVIOUS
  <2>2. ASSUME NEW m \in Migrators, Baseline(m) PROVE Kept
    <3>1. /\ migrator[m].step = "baseline" /\ lock' = lock /\ schema' = schema
          /\ history' # history => ~created
      BY <2>2 DEF Baseline
    <3>2. lock = m
      BY <1>1, <3>1 DEF MigrateInv, LockHeld
    <3>3. ~created => DOMAIN history = {}
      BY <1>1 DEF MigrateInv, ReadyRecorded
    <3> QED BY <3>1, <3>2, <3>3
  <2>3. ASSUME NEW m \in Migrators, ApplyTransaction(m) \/ RecordMigration(m) PROVE Kept
    <3>1. /\ migrator[m].step \in {"apply", "record"} /\ lock' = lock
          /\ \E v, file : recordMigration(v, file)
      BY <2>3 DEF ApplyTransaction, RecordMigration
    <3>2. lock = m
      BY <1>1, <3>1 DEF MigrateInv, LockHeld
    <3>3. Rows
      BY <3>1 DEF recordMigration
    <3>4. Runs
      <4>1. CASE schema' = schema
        BY <4>1
      <4>2. CASE schema' # schema
        <5>1. PICK v, file : schema' = Append(schema, <<v, file>>)
          BY <2>3, <4>2 DEF ApplyTransaction, RecordMigration
        <5>2. schema \in Seq(Nat \X Files)
          BY <1>1 DEF MigrateInv, TypeOK
        <5>3. DOMAIN schema = 1 .. Len(schema) /\ DOMAIN schema' = 1 .. Len(schema) + 1
          BY <5>1, <5>2
        <5> QED BY <5>1, <5>2, <5>3
      <4> QED BY <4>1, <4>2
    <3> QED BY <3>1, <3>2, <3>3, <3>4
  <2>4. ASSUME NEW m \in Migrators,
               \/ ensureHistory(m) \/ loadApplied(m) \/ NextMigration(m) \/ Verify(m)
               \/ StartIndex(m) \/ FinishIndex(m) \/ RunStatement(m) \/ Recheck(m)
               \/ releaseLock(m) \/ EndSession(m) \/ acquireLock(m)
               \/ StatementFails(m) \/ Interrupt(m)
               \/ \E b \in Releases, allow \in BOOLEAN : StartUp(m, b, allow)
               \/ \E b \in Releases, n \in Baselines : StartBaseline(m, b, n)
        PROVE  UNCHANGED <<history, schema>>
    BY <2>4 DEF ensureHistory, loadApplied, NextMigration, Verify, StartIndex, FinishIndex,
                RunStatement, Recheck, releaseLock, EndSession, acquireLock, StatementFails,
                Interrupt, StartUp, StartBaseline, database
  <2>5. CASE Repair \/ WriteMessage \/ \E b \in Releases : FindHistory(b) \/ CheckReady(b)
    <3>1. UNCHANGED <<history, schema>>
      BY <2>5 DEF Repair, WriteMessage, FindHistory, CheckReady, database
    <3> HIDE DEF Kept
    <3> QED BY <2>1, <3>1
  <2> HIDE DEF Kept
  <2> QED BY <2>1, <2>2, <2>3, <2>4, <2>5 DEF Next, Work
<1> QED BY <1>1, MigrateInvariant, PTL DEF Spec, HistoryKept
=============================================================================
