------------------------------ MODULE Migrate -------------------------------
(***************************************************************************)
(* im-migrate: any number of migrators, of different releases, that bring  *)
(* a database up to date or take over an existing one under an advisory    *)
(* lock, and the check with which an application instance starts.          *)
(*                                                                         *)
(* A release is the sequence of its migration files; a file is the model   *)
(* value of its contents (name and checksum).  All migrations but one run  *)
(* in one transaction with their history row.  The other one runs its      *)
(* statements one by one: CREATE INDEX CONCURRENTLY, which leaves an       *)
(* invalid index when it is interrupted, CREATE STATISTICS, ALTER          *)
(* STATISTICS and ANALYZE.  A migrator may be interrupted anywhere; its    *)
(* session keeps the lock until PostgreSQL has ended it.                   *)
(***************************************************************************)
EXTENDS Integers, Sequences, FiniteSets

CONSTANTS
    Migrators,          \* im-migrate processes that may run at once
    Files,              \* contents of migration files
    Releases,           \* the sequences of files that are around
    NonTransactional,   \* the version without BEGIN and COMMIT: 14
    Dropping,           \* the version that drops its objects again: 16
    Maintenance,        \* versions that rewrite messages: 15 and 16
    Baselines,          \* versions with a reviewed fingerprint: 15 and 16
    Databases,          \* the releases that installed a database without history
    MaxFaults,          \* bound on interruptions and failing statements
    None

ASSUME MigrateAssumption ==
    /\ NonTransactional \in Nat \ {0, 1}
    /\ Dropping \in Nat /\ Dropping > NonTransactional
    /\ Maintenance \subseteq Nat
    /\ Baselines \subseteq Nat \ {0}
    /\ Releases \subseteq Seq(Files) \ {<<>>}
    /\ Databases \subseteq Seq(Files)
    /\ MaxFaults \in Nat
    /\ None \notin Migrators

VARIABLES
    created,        \* schema_migrations exists
    history,        \* its rows: the file recorded for a version
    schema,         \* versions and files of the transactions that have run
    executed,       \* statements of the other migration that have run
    invalid,        \* its index exists and is not valid
    messages,       \* messages has rows
    lock,           \* the session that holds the advisory lock
    migrator,       \* the migrators
    checking,       \* the release whose instance has found schema_migrations
    ready,          \* releases whose instance has started
    faults

database == <<created, history, schema, executed, invalid>>
application == <<messages, checking, ready>>
vars == <<database, application, lock, migrator, faults>>

Statements == 4     \* of the migration without a transaction
Verified == 2       \* those that nonTransactionalState can see
-----------------------------------------------------------------------------
(* Helpers                                                                 *)

Steps == {"idle", "lock", "baseline", "ensure", "load", "next", "apply", "verify",
          "run", "building", "recheck", "record", "unlock", "orphan", "orphanBuilding"}

Inactive == {"idle", "lock", "orphan", "orphanBuilding"}

Migrator == [step : Steps, release : Releases \cup {<<>>}, allow : BOOLEAN,
             target : Nat, next : Nat]

NotRunning == [step |-> "idle", release |-> <<>>, allow |-> FALSE,
               target |-> 0, next |-> 0]

Goto(m, label) == migrator' = [migrator EXCEPT ![m].step = label]

Fault == faults < MaxFaults /\ faults' = faults + 1

\* What the transactions of the first n files of a release leave behind.
Installed(b, n) ==
    LET version(k) == IF k < NonTransactional THEN k ELSE k + 1
    IN  [k \in 1 .. (IF n < NonTransactional THEN n ELSE n - 1) |->
            <<version(k), b[version(k)]>>]

\* Statements of the other migration whose objects the first n files leave.
Objects(n) == IF n \in NonTransactional .. Dropping - 1 THEN Statements ELSE 0

\* What the transaction of version v does to them.
DropObjects(v) ==
    IF v = Dropping THEN executed' = 0 /\ invalid' = FALSE
    ELSE UNCHANGED <<executed, invalid>>

\* validateApplied: known versions, unchanged files, no gap.
validateApplied(b) ==
    /\ \A v \in DOMAIN history : v \in DOMAIN b /\ history[v] = b[v]
    /\ \A v \in 1 .. Cardinality(DOMAIN history) : v \in DOMAIN history

\* (faulty: compares the number of migrations only)
validateReadyByCount(b) == Cardinality(DOMAIN history) = Len(b)

validateReady(b) ==
    /\ validateApplied(b)
    /\ Cardinality(DOMAIN history) = Len(b)

\* nonTransactionalState
Complete == executed >= Verified /\ ~invalid
Partial == ~Complete /\ (executed > 0 \/ invalid)

recordMigration(v, file) ==
    /\ v \notin DOMAIN history
    /\ history' = [u \in DOMAIN history \cup {v} |-> IF u = v THEN file ELSE history[u]]
-----------------------------------------------------------------------------
(* run, Up and Baseline                                                    *)

\* im-migrate up, with or without -allow-maintenance.
StartUp(m, b, allow) ==
    /\ migrator[m].step = "idle"
    /\ migrator' = [migrator EXCEPT ![m] =
         [NotRunning EXCEPT !.step = "lock", !.release = b, !.allow = allow]]
    /\ UNCHANGED <<database, application, lock, faults>>

\* im-migrate baseline -to n
StartBaseline(m, b, n) ==
    /\ migrator[m].step = "idle"
    /\ n <= Len(b)
    /\ migrator' = [migrator EXCEPT ![m] =
         [NotRunning EXCEPT !.step = "lock", !.release = b, !.target = n]]
    /\ UNCHANGED <<database, application, lock, faults>>

acquireLock(m) ==
    /\ migrator[m].step = "lock"
    /\ lock = None /\ lock' = m
    /\ Goto(m, IF migrator[m].target = 0 THEN "ensure" ELSE "baseline")
    /\ UNCHANGED <<database, application, faults>>

\* One transaction: there must be tables, no history, and the fingerprint of
\* the target; then the history is created and filled without running SQL.
Baseline(m) ==
    LET b == migrator[m].release
        n == migrator[m].target
        matches == /\ schema = Installed(b, n)
                   /\ ~invalid
                   /\ executed = Objects(n)
    IN  /\ migrator[m].step = "baseline"
        /\ IF ~created /\ schema # <<>> /\ matches
             THEN created' = TRUE /\ history' = SubSeq(b, 1, n)
             ELSE UNCHANGED <<created, history>>
        /\ Goto(m, "unlock")
        /\ UNCHANGED <<schema, executed, invalid, application, lock, faults>>

\* Existing history, or an empty database; ErrBaselineRequired otherwise.
ensureHistory(m) ==
    /\ migrator[m].step = "ensure"
    /\ IF created \/ schema = <<>>
         THEN created' = TRUE /\ Goto(m, "load")
         ELSE UNCHANGED created /\ Goto(m, "unlock")
    /\ UNCHANGED <<history, schema, executed, invalid, application, lock, faults>>

\* loadApplied and validateApplied: what is not applied yet comes next.
loadApplied(m) ==
    /\ migrator[m].step = "load"
    /\ migrator' = [migrator EXCEPT
         ![m].step = IF validateApplied(migrator[m].release) THEN "next" ELSE "unlock",
         ![m].next = Cardinality(DOMAIN history) + 1]
    /\ UNCHANGED <<database, application, lock, faults>>

\* The next migration of the loop in Up, or ErrMaintenanceRequired.
NextMigration(m) ==
    LET v == migrator[m].next
    IN  /\ migrator[m].step = "next"
        /\ Goto(m, IF v > Len(migrator[m].release) THEN "unlock"
                   ELSE IF v \in Maintenance /\ ~migrator[m].allow /\ messages THEN "unlock"
                   ELSE IF v = NonTransactional THEN "verify"
                   ELSE "apply")
        /\ UNCHANGED <<database, application, lock, faults>>

Applied(m) ==
    migrator' = [migrator EXCEPT ![m].step = "next", ![m].next = @ + 1]

\* (faulty: runs the file and records it outside a transaction)
ApplyThenRecord(m) ==
    LET v == migrator[m].next
        file == migrator[m].release[v]
    IN  /\ migrator[m].step = "apply"
        /\ schema' = Append(schema, <<v, file>>)
        /\ DropObjects(v)
        /\ \/ recordMigration(v, file) /\ Applied(m)
           \/ UNCHANGED history /\ Goto(m, "unlock")
        /\ UNCHANGED <<created, application, lock, faults>>

\* apply: the file and its history row in one transaction.
ApplyTransaction(m) ==
    LET v == migrator[m].next
        file == migrator[m].release[v]
    IN  /\ migrator[m].step = "apply"
        /\ schema' = Append(schema, <<v, file>>)
        /\ DropObjects(v)
        /\ recordMigration(v, file)
        /\ Applied(m)
        /\ UNCHANGED <<created, application, lock, faults>>

\* (faulty: asks for a repair whenever an object exists)
VerifyStrictly(m) ==
    /\ migrator[m].step = "verify"
    /\ Goto(m, IF executed > 0 \/ invalid THEN "unlock" ELSE "run")
    /\ UNCHANGED <<database, application, lock, faults>>

\* nonTransactionalState before the statements: partial objects need a
\* manual repair, complete ones only their history row.
Verify(m) ==
    /\ migrator[m].step = "verify"
    /\ Goto(m, IF Partial THEN "unlock" ELSE IF Complete THEN "record" ELSE "run")
    /\ UNCHANGED <<database, application, lock, faults>>

\* CREATE INDEX CONCURRENTLY starts; its index is there, but not valid.
StartIndex(m) ==
    /\ migrator[m].step = "run" /\ executed = 0
    /\ invalid' = TRUE
    /\ Goto(m, "building")
    /\ UNCHANGED <<created, history, schema, executed, application, lock, faults>>

FinishIndex(m) ==
    /\ migrator[m].step = "building"
    /\ invalid' = FALSE /\ executed' = 1
    /\ Goto(m, "run")
    /\ UNCHANGED <<created, history, schema, application, lock, faults>>

\* The other statements.
RunStatement(m) ==
    /\ migrator[m].step = "run" /\ executed \in 1 .. Statements - 1
    /\ executed' = executed + 1
    /\ Goto(m, IF executed' = Statements THEN "recheck" ELSE "run")
    /\ UNCHANGED <<created, history, schema, invalid, application, lock, faults>>

\* nonTransactionalState after the statements.
Recheck(m) ==
    /\ migrator[m].step = "recheck"
    /\ Goto(m, IF Complete THEN "record" ELSE "unlock")
    /\ UNCHANGED <<database, application, lock, faults>>

\* The history row, in a transaction of its own.
RecordMigration(m) ==
    LET v == migrator[m].next
    IN  /\ migrator[m].step = "record"
        /\ recordMigration(v, migrator[m].release[v])
        /\ Applied(m)
        /\ UNCHANGED <<created, schema, executed, invalid, application, lock, faults>>

\* A statement fails and Up or Baseline returns its error.
StatementFails(m) ==
    /\ migrator[m].step \notin Inactive \cup {"unlock"}
    /\ Fault
    /\ Goto(m, "unlock")
    /\ UNCHANGED <<database, application, lock>>

\* releaseLock, deferred.
releaseLock(m) ==
    /\ migrator[m].step = "unlock"
    /\ lock' = None
    /\ migrator' = [migrator EXCEPT ![m] = NotRunning]
    /\ UNCHANGED <<database, application, faults>>

\* The process is killed, or its connection breaks.
Interrupt(m) ==
    /\ migrator[m].step \notin Inactive
    /\ Fault
    /\ Goto(m, IF migrator[m].step = "building" THEN "orphanBuilding" ELSE "orphan")
    /\ UNCHANGED <<database, application, lock>>

\* PostgreSQL ends the session; a statement under way may still have finished.
EndSession(m) ==
    /\ migrator[m].step \in {"orphan", "orphanBuilding"}
    /\ IF migrator[m].step = "orphan" THEN UNCHANGED <<executed, invalid>>
       ELSE \/ invalid' = FALSE /\ executed' = 1
            \/ UNCHANGED <<executed, invalid>>
    /\ lock' = None
    /\ migrator' = [migrator EXCEPT ![m] = NotRunning]
    /\ UNCHANGED <<created, history, schema, application, faults>>
-----------------------------------------------------------------------------
(* The operator and the application                                        *)

\* Partial objects are dropped, or completed by hand.
Repair ==
    /\ lock = None /\ Partial
    /\ invalid' = FALSE /\ executed' \in {0, Statements}
    /\ UNCHANGED <<created, history, schema, application, lock, migrator, faults>>

\* A message is sent.
WriteMessage ==
    /\ schema # <<>> /\ ~messages
    /\ messages' = TRUE
    /\ UNCHANGED <<database, checking, ready, lock, migrator, faults>>

\* CheckReady of an instance that starts (one at a time: it only reads): is
\* there a history ...
FindHistory(b) ==
    /\ checking = {} /\ b \notin ready
    /\ created
    /\ checking' = {b}
    /\ UNCHANGED <<database, messages, ready, lock, migrator, faults>>

\* ... and is it exactly that of this release?
CheckReady(b) ==
    /\ b \in checking
    /\ checking' = {}
    /\ ready' = IF validateReady(b) THEN ready \cup {b} ELSE ready
    /\ UNCHANGED <<database, messages, lock, migrator, faults>>
-----------------------------------------------------------------------------
\* An empty database, or one that some release installed without history.
Init ==
    /\ created = FALSE /\ history = <<>>
    /\ \E b \in Databases \cup {<<>>} :
        /\ schema = Installed(b, Len(b))
        /\ executed = Objects(Len(b))
    /\ invalid = FALSE /\ messages = FALSE
    /\ lock = None
    /\ migrator = [m \in Migrators |-> NotRunning]
    /\ checking = {} /\ ready = {}
    /\ faults = 0

Work(m) ==
    \/ Baseline(m) \/ ensureHistory(m) \/ loadApplied(m) \/ NextMigration(m)
    \/ ApplyTransaction(m) \/ Verify(m) \/ StartIndex(m) \/ FinishIndex(m)
    \/ RunStatement(m) \/ Recheck(m) \/ RecordMigration(m) \/ releaseLock(m)
    \/ EndSession(m)

Next ==
    \/ \E m \in Migrators :
        \/ Work(m) \/ acquireLock(m) \/ StatementFails(m) \/ Interrupt(m)
        \/ \E b \in Releases, allow \in BOOLEAN : StartUp(m, b, allow)
        \/ \E b \in Releases, n \in Baselines : StartBaseline(m, b, n)
    \/ Repair \/ WriteMessage
    \/ \E b \in Releases : FindHistory(b) \/ CheckReady(b)

Spec == Init /\ [][Next]_vars

\* A release that fits the database and contains the migration in question.
Continues(b) == validateApplied(b) /\ NonTransactional <= Len(b)

\* Statements end, sessions of dead migrators end, waiters get the lock in
\* turn, and the operator runs a release that fits the database again.
Fairness ==
    \A m \in Migrators :
        /\ WF_vars(Work(m)) /\ SF_vars(acquireLock(m))
        /\ SF_vars(\E b \in Releases, allow \in BOOLEAN : Continues(b) /\ StartUp(m, b, allow))

FairSpec == Spec /\ Fairness
-----------------------------------------------------------------------------
(* Properties                                                              *)

TypeOK ==
    /\ created \in BOOLEAN
    /\ DOMAIN history \subseteq Nat /\ IsFiniteSet(DOMAIN history)
    /\ \A v \in DOMAIN history : history[v] \in Files
    /\ schema \in Seq(Nat \X Files)
    /\ executed \in 0 .. Statements
    /\ invalid \in BOOLEAN /\ messages \in BOOLEAN
    /\ lock \in Migrators \cup {None}
    /\ migrator \in [Migrators -> Migrator]
    /\ checking \subseteq Releases /\ ready \subseteq Releases
    /\ faults \in 0 .. MaxFaults

\* schema_migrations tells the truth, whatever migrators run at once and
\* wherever one of them is interrupted: the versions 1..n that it records,
\* and no others, have run, each once and in order, with the recorded file;
\* the migration without a transaction is recorded only with a valid index
\* and its statistics, until a later one drops them (apply,
\* nonTransactionalState, recordMigration).
HistoryTruthful ==
    created =>
        /\ DOMAIN history = 1 .. Cardinality(DOMAIN history)
        /\ schema = Installed(history, Cardinality(DOMAIN history))
        /\ NonTransactional \in DOMAIN history =>
             IF Dropping \in DOMAIN history THEN executed = 0 /\ ~invalid ELSE Complete

\* An instance that has started finds its schema: every migration of its
\* release has run with the very file the instance was built with, although
\* CheckReady takes no lock and migrators go on meanwhile (CheckReady).
ReadyMeansApplied ==
    \A b \in ready :
        \A v \in DOMAIN b :
            IF v = NonTransactional THEN Complete \/ Dropping \in DOMAIN history
            ELSE \E n \in DOMAIN schema : schema[n] = <<v, b[v]>>

\* No migrator takes back what another one did, of whatever release: a recorded
\* version keeps its file, a transaction that has run stays where it is in the
\* order, and only the session with the lock adds to either (Up, Baseline).
HistoryKept ==
    [][ /\ \A v \in DOMAIN history : v \in DOMAIN history' /\ history'[v] = history[v]
        /\ \A k \in DOMAIN schema : k \in DOMAIN schema' /\ schema'[k] = schema[k]
        /\ history' # history \/ schema' # schema =>
              \E m \in Migrators : lock = m /\ lock' = m ]_vars

\* The advisory lock is never left behind: it is held exactly while a migrator,
\* or the session of a dead one, is at work, so that whoever waits for it gets
\* it (releaseLock, deferred on every return).
LockNotLeaked ==
    \A m \in Migrators : lock = m <=> migrator[m].step \notin {"idle", "lock"}

\* A migration whose statements have run when its migrator is interrupted is
\* recorded by a later one (the check before the statements in apply).
InterruptedResumes ==
    (created /\ Complete /\ NonTransactional - 1 \in DOMAIN history)
        ~> NonTransactional \in DOMAIN history

\* "partial nontransactional migration requires repair": a migration is
\* recorded only if all its statements have run.
PartialNeedsRepair ==
    created /\ NonTransactional \in DOMAIN history /\ Dropping \notin DOMAIN history
        => executed = Statements
-----------------------------------------------------------------------------
(* The inductive invariant                                                 *)

Applying == {"next", "apply", "verify", "run", "building", "recheck", "record"}
OneByOne == {"verify", "run", "building", "recheck", "record"}

\* The rows of schema_migrations.
Recorded == Cardinality(DOMAIN history)

\* Whoever works on the database has the lock.
LockHeld ==
    \A m \in Migrators : migrator[m].step \notin {"idle", "lock"} => lock = m

\* A migrator runs the files of one release, a baseline within it.
ReleaseChosen ==
    \A m \in Migrators : migrator[m].step # "idle" =>
        /\ migrator[m].release \in Releases
        /\ migrator[m].target <= Len(migrator[m].release)

\* It has seen a history that its release continues, and goes on with the first
\* version that is not in it.
GoesOn ==
    \A m \in Migrators :
        /\ migrator[m].step \in Applying \cup {"load", "orphanBuilding"} => created
        /\ migrator[m].step \in Applying =>
               /\ validateApplied(migrator[m].release)
               /\ migrator[m].next = Recorded + 1
        /\ migrator[m].step \in OneByOne \cup {"apply"} =>
               migrator[m].next <= Len(migrator[m].release)
        /\ migrator[m].step = "apply" => migrator[m].next # NonTransactional
        /\ migrator[m].step \in OneByOne => migrator[m].next = NonTransactional
        /\ migrator[m].step = "orphanBuilding" => Recorded + 1 = NonTransactional
        /\ migrator[m].step = "record" => Complete

\* No history without its table; an instance that is checking or has started has
\* seen one, and every file of a started one is in it.
ReadyRecorded ==
    /\ ~created => DOMAIN history = {} /\ checking = {} /\ ready = {}
    /\ \A b \in ready : \A v \in DOMAIN b : v \in DOMAIN history /\ history[v] = b[v]

MigrateInv ==
    /\ TypeOK /\ LockHeld /\ ReleaseChosen /\ GoesOn /\ ReadyRecorded
    /\ HistoryTruthful
=============================================================================
