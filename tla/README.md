# Verification of im-backend

TLA+ models of the instant-messaging backend in this repository, checked with
TLC on small instances and proved with TLAPS for all values of the constants.
Paths below are relative to the repository's root.

## The system

| Component | State it keeps | Operations | What is hard |
|---|---|---|---|
| **Message sending** `message_handler.go`, `message_service.go`, `message_store.go` | tables `conversations` (`last_seq`, `updated_at`), `conversation_members`, `messages`, `outbox_events` | `POST /messages`: one transaction that finds an earlier send of the same `clientMessageId`, resolves or creates the direct conversation, allocates `conversation_seq`, inserts message and event | concurrent retries, two creators of one conversation, row locks, rollback of an allocation, lost COMMIT answers, crashes |
| **Outbox worker** `outbox.go` | `outbox_events`: `attempt_count`, `next_attempt_at`, `locked_until`, `lock_token`, `published_at`, `dead_at` | claim a batch under a lease, publish its events concurrently, mark published or failed, back off, clean up | competing workers, leases that expire under a slow worker, partial failure of a batch, crashes between steps |
| **Outbox publisher** `websocket.go` 472–590 | none | decode an event, look up its recipients, hand it to the router | permanent against retryable failures |
| **WebSocket hub** `websocket.go` | connections by user and device | register, replace, unregister, deliver, disconnect; keep session and presence alive | slow clients, replacement against delivery, revocation during registration |
| **Realtime router** `realtime_router.go` | subscriptions | deliver locally and to other instances, pass on disconnect commands | instances that come and go, lost commands |
| **Redis presence** `redis_presence.go` | owner of each device's connection, members per user, with TTLs | register, refresh, unregister, look up, remove stale members | expiry racing refresh, stale lookups |
| **Sessions** `auth.go`, `auth_crypto.go` | `users`, `auth_sessions`, refresh tokens, login results | register, login, refresh, logout, revoke, change password, authenticate | idempotent retries, replay detection, revocation racing rotation |
| **Sync and acknowledgement API** `conversation_sync.go`, `sync_ack.go` | `device_conversation_sync_states` | list conversations, sync a conversation in pages, acknowledge a cursor | pages while messages arrive, acknowledgements out of order |
| **Message history** `message_history.go` | none | the latest page, pages before and after a cursor | messages arriving meanwhile |
| **Headless client** `internal/headlessclient` | encrypted state file: session, messages, applied, pending and acknowledged cursors | apply a realtime message, sync, flush acknowledgements, refresh | lost, repeated and reordered messages, restarts, concurrent calls |
| **Rate limiting** `rate_limit.go` | Redis counters | count a request in its window | the window's edge |
| **Reliability lab** `internal/reliabilitylab` | packets, cached values, fencing tokens | claim, deliver, read through, invalidate, write fenced | double claims, stale caches, stale owners |
| **Migrations** `internal/migrate`, `cmd/im-migrate` | `schema_migrations`, advisory lock | up, baseline, check readiness | interruption of the non-transactional migration, migrators of different releases |
| **Process wiring** `main.go` | none | start and stop hub, router, worker and servers | the order of the shutdown and its deadline |

Sending commits a message together with its outbox event.  Workers claim the
event and publish it through the router to the hubs of the instances where
presence says the recipients are connected.  Realtime delivery is best effort:
a device that missed something notices the gap in `conversation_seq`, fetches
pages from the sync API and acknowledges what it has applied.  Hence what makes
the system correct: sequences without gaps and append-only, one message per
client message id, an event for every message that is settled in the end, and a
device that holds a prefix and catches up.

## Modules

| Module | Models | Used by |
|---|---|---|
| `MessageStore` | `messageService.send`, one action per SQL statement | `MCMessageStore`, `MessageStoreProofs` |
| `MessageLog` | what sending promises: atomic appends to one log per pair of users | refinement in `MessageStore` (`ImplementsLog`) |
| `OutboxWorker`, `Backoff` | `outboxWorker` and its retry delays | `MCOutboxWorker`, `OutboxWorkerProofs`, `ComponentProofs` (the delays) |
| `DeviceSync` | headless client, sync and acknowledgement API | checked directly, `DeviceSyncProofs` |
| `ConversationList` | `listConversations` and the pages a client follows | `MCInterfaces`, `ComponentProofs` |
| `MessageHistory` | `listMessages` and a reader that pages in both directions | `MCInterfaces`, `ComponentProofs` |
| `RateLimit` | the counters of `rate_limit.go` | `MCInterfaces`, `ComponentProofs` |
| `AuthSession` | login, refresh, logout, revocation, password change of one account | `ClientSession`, `AuthSessionProofs` |
| `ClientSession` | composition: `AuthSession` with `PersistAuth` and `Refresh` of the headless client | `MCClientSession`, `AuthSessionProofs` |
| `Realtime` | the connections of one user: `serveWebSocket`, hubs, presence, disconnect commands, revocation | `MCRealtime`, `RealtimeProofs` |
| `Delivery` | an event from the worker through router and hub to the send queues, and `main`'s shutdown | `MCDelivery`, `DeliveryProofs` |
| `Migrate` | `im-migrate up` and `baseline`, `CheckReady` | `MCMigrate`, `MigrateProofs` |
| `Packet`, `Cache`, `Fence` | the three experiments of the reliability lab | `MCReliabilityLab`, `ComponentProofs` |

Definitions named *(faulty: ...)* are wrong variants of the definition after
them.  Each shows that a property notices the bug it describes; no
specification uses them.

**MessageStore.**  The committed tables are `conversations`, `members`,
`messages` and `outbox`; `created`, `newMembers`, `row` and `draft` are what the
open transaction of each handler has written and holds locked.  PostgreSQL at
READ COMMITTED appears as it matters here: a statement sees committed rows and
its own; an UPDATE waits for the holder of the row lock; an INSERT with ON
CONFLICT waits for an uncommitted row with the same key.  The one statement of
`insertMessageAndOutbox` takes two locks one after the other, hence
`AllocateSequence` and `InsertMessageAndOutbox`.  A statement can fail, the
answer to COMMIT can get lost, and a process can die and leave its session with
its locks until the server reaps it.  A conversation is identified by its pair
of users, a message by its contents; `Clock` may return any reading at any time.

**OutboxWorker.**  Timestamps are kept as time left, `Tick` advances time.  The
random `lock_token` is the number of the claim, unique for the event.  A round
(`RunOnce`) goes through the phases claim, prepare, deliver and fail; within
deliver each event is published on its own.  Crashes, statements that fail, lost
answers and workers too slow for their lease draw on a budget, `MaxFaults`.
`delivered` remembers which events some `Publish` really delivered.

**DeviceSync.**  A message is its `conversation_seq`; that the numbers are
contiguous and append-only is what MessageStore establishes.  Any committed
message may arrive in real time at any moment, any number of times.  A sync, any
number of `FlushACK` calls and realtime messages interleave between the atomic
updates of the state file.  A second concurrent sync would be to the first what
realtime messages are, so one is modelled.  Time-outs leave requests under way.

**ConversationList.**  Ids are drawn at INSERT and appear at COMMIT.  `moments`
is a history variable: the memberships since the snapshot was taken.

**AuthSession.**  One account; a request (`request`, `pc`) takes one action per
statement that others can see, and the row locks of the user and of a refresh
token are held to the commit, as in the code.  An access token stands for its
session, an encrypted result for what it contains.  A request may stop at any
point and is then rolled back; sessions and stored results expire at any time.
A session is over for good when it is revoked or outlives its absolute lifetime
(`expired`); past its `idle_expires_at` (`idle`) it is refused too, but a
rotation that had consumed its token before sets a new `idle_expires_at` when it
commits (`ExtendIdle`, `auth.go:754-761`) and so brings it back.  The refusals
that such a rotation overtakes are kept in the history variable `overtaken`.
The 404 of `revokeSession` is not told apart from its success.

**Realtime.**  One user.  `step` is where the goroutine of a connection is in
`serveWebSocket`; `locked` are the handshakes whose transaction holds the
session row FOR SHARE, for which the UPDATE of a revocation waits.  `presence`
and `index` are the keys in Redis: a script is one step, a lookup is three.  A
refresh (`refreshing`) is a step of its own, so that it may reach Redis after
its connection was replaced or closed, and calls of a client that was shut down
may fail because their context is cancelled.  Faults, bounded by `MaxFaults`,
are: failing calls to PostgreSQL or Redis with and without effect, a lost lock,
a lost record, a lost command, a crash.  Left out: time (a record expires when
nobody renews it, or by a fault), a hub too busy to answer within its time-outs,
idle expiry of sessions (the query of `CheckSession` treats it as revocation),
delivery of payloads (module `Delivery`), and instances that run without Redis.

**ClientSession** extends `AuthSession` with the client's state file: `held` is
the refresh token it stores, `pending` the refresh it has begun.  Every request
of the client is served by a handler of `AuthSession`, whose other handlers are
other devices and whoever holds a copy of a token.  A call may give up, or the
client may die, at any point; its request may still be served.  The program
around the client logs in whenever it chooses.  It uses a login request id for
one login and its retries (`spent`), as the tests and the load test do: a caller
that repeated the id of a login it had completed, after refreshes, would be
handed the first token of the session again, which `PersistAuth` would store
over its successor.

**Delivery.**  `publishing` is where `Publish` of an event is; a request waits in
the publish channel of a hub (`queue`), a command in the Redis channel of an
instance (`channel`).  The goroutine of a hub takes one action per branch of its
`select`.  `stage` is what `main` is waiting for during a shutdown.  Time-outs,
failing calls, lost commands and a missed shutdown deadline draw on `MaxFaults`.
Connecting is reduced to its order (hub, then presence).

**MessageHistory, RateLimit.**  A message is its sequence number; the reader is
external, puts pages where they belong and may pass the cursor of another peer.
Counters of the rate limiter exist up to and including the tick they expire at;
the script is one step.

**Migrate.**  A release is the sequence of its files, a file the value of its
checksum.  `executed` counts the statements of the migration that has no
transaction (014), of which `nonTransactionalState` can see two; 016 drops their
objects again.  A database without history was installed by some release, and
`Baseline` compares the files that ran where the code compares fingerprints of
the schema: that an equal schema means the same files is an idealisation, since
a database built from `schema.sql` or another equivalent source is recorded as
well, with the checksums of the embedded files.  A
migrator may fail or be killed at every step and keeps the lock until its
session has ended; `Repair` is the operator.

**Packet, Cache, Fence.**  One action per statement.  `late` marks a cache entry
that was old when a slow reader stored it, which the code accepts and bounds by
the TTL.  `ExpireEntry` is every way in which Redis may lose an entry; a restart
or failover that undoes an acknowledged DEL and brings an old entry back is
outside the model.  `Deliver` is called for credits that exist: called before, its DELETE
could remove an intent that its INSERT has not seen.

## Runs

| Run | Instance | Shows |
|---|---|---|
| `message_store` | 3 sends out of 8 requests, 3 users and an unknown id, 2 clock readings | `SequencesContiguous`, `OneMessagePerKey`, `AnswersAreDurable`, `CommittedTogether`, `TimeFollowsSequence`, `AppendOnly`, `ImplementsLog` |
| `message_liveness` | 3 sends out of 3 requests that share rows and keys | `EveryHandlerReturns` |
| `outbox` | 2 workers, 2 events, one undecodable, 2 attempts | `SettledForCause`, `AttemptsBounded`, `PublishStartsUnderLease`, `SettledByOwner`, `EveryEventSettles` |
| `device_sync` | 4 messages, pages of 2, 1 failure | `HoldsPrefix`, `SyncNeverGaps`, `CursorsAgree`, `CatchesUp` |
| `interfaces` | 5 conversations or 5 messages per peer in pages of 2; 2 requests with 4 counters over 16 ticks | `ListedExactlyOnce`, `HistoryUnbroken`, `RetryAfterSuffices` |
| `conversation_snapshot` | 4 ids, pages of 1 | `StableSnapshot` is violated |
| `auth_session` | any 3 requests, 1 request id, 2 refresh keys, with failures and expiry | `OneLiveToken`, `SessionsMatchPassword`, `IdempotentAnswers`, `ReplayForCause`, `ReplayEndsSession`, `RefreshRecoverable` |
| `realtime` | 2 connections on 2 instances, 1 revocation, 1 outbox batch, 1 fault | `RevocationSeesHandshakes`, `HubMatchesConnections`, `RevokedCloses`, `OneSurvives`, `IndexRestored` |
| `delivery` | 1 event for 2 users, 2 clients on 2 instances of which one stops, buffers of 1, 1 fault | `ReportedIsDelivered`, `StopsInOrder`, `PublishReturns` |
| `migrate` | 2 migrators, 3 releases of up to 4 files, 4 databases, 1 fault | `HistoryTruthful`, `ReadyMeansApplied`, `InterruptedResumes` |
| `migrate_partial` | the same | `PartialNeedsRepair` is violated |
| `reliability_lab` | 3 users for 2 shares of 5, 2 claims and 2 deliveries at once; 2 readers, 2 invalidators, 3 versions; 3 owners, 4 tokens | `PacketConserved`, `StaleIsPendingOrLate`, `FencedWrites` |

`interfaces` and `reliability_lab` hold modules that share no state: a behaviour
belongs to one of them.

Why the bounds suffice: three handlers give a winner, a loser and a bystander on
another conversation, and three messages in a row; two workers give an owner and
a thief; four messages in pages of two give a full page, a page that realtime
overtakes and a snapshot that is passed; three requests on an account give two
that race for a token or a request id and one that changes the password or
revokes under them; two connections give one that is replaced and one that
replaces it, on the same or another instance; a buffer of one is full after one
event, and one event that is retried is published twice; four versions give one
before, the one without a transaction, one after it and the one that drops its
objects.  Where a run is small, its safety properties are also proved for every
size.  Handlers, workers and flushes
are interchangeable, and runs without a liveness property use that symmetry.
Deadlock checking is off where the system may stop: when all sends have
returned, all events are settled and time has nothing left to wait for, every
request has been answered, or every connection has closed.

Fairness.  *Sending*: a statement that is not blocked completes, and the server
ends the session of a dead client (TCP keepalive); requests need not arrive.
*Outbox*: `Run` loops until it is cancelled, and time passes; faults are finite.
*Device*: the client calls sync and flush again and again and calls end (HTTP
time-outs); failures are finite, and nothing is assumed of realtime delivery.
*Realtime*: goroutines run, tickers fire and calls end; clients need neither
connect nor leave, nothing is assumed of commands, and faults are finite.
*Delivery*: the goroutines of hubs and workers run; nothing is assumed of clients,
which need never read, of routers, of `main`, or of time-outs.
*Migrations*: statements end, the server ends the sessions of dead migrators and
grants the advisory lock in turn, and the operator runs a release that fits the
database again; faults are finite.

**Findings.**  `GET /conversations` is documented as "a stable snapshot"
(`openapi.yaml:636`, `README.md:140`).  The snapshot is the largest visible id,
and conversations with smaller ids may commit during the walk.  The run
`conversation_snapshot` lists conversations 2, 3, 4 where 1 was committed before
3: the list is the membership at no moment.  Nothing the user had at the start
is missed (`ListedExactlyOnce`), and a new walk finds the rest.

"partial nontransactional migration requires repair"
(`internal/migrate/failure_integration_test.go:103`): `nonTransactionalState`
looks at the index and the statistics object that migration 014 creates, but not
at what its last two statements do.  In `migrate_partial` a migrator is
interrupted after CREATE STATISTICS, and the next one takes the migration for
complete and records it: the statistics target stays at its default and the
table is not analyzed, until 016 drops the object.

An observation that no document speaks of: a replayed token ends its session
only if the session is not past its idle expiry at that moment
(`auth.go:817-819`).  When a rotation of the successor is under way across the
expiry, the replay is refused without a revocation and the session lives on after
the rotation has committed.  `ReplayEndsSession` states the promise with this one
exception; without it, TLC reaches the case.

## Proofs

Each safety property below is proved for every value of the constants, from the
named assumption of its module: types and positive bounds, and in
`OutboxAssumption` what `newOutboxWorker` requires, above all
`AttemptTimeout < LeaseDuration`.  The argument is an inductive invariant that
the component's module defines; TLC checks it on the instance of the run before
it is proved.

* `MessageStoreProofs`: `StoreTypes`, `StoreSequencesContiguous`,
  `StoreOneMessagePerKey`, `StoreLoserFindsWinner`, `StoreAppendOnly`.  The
  properties speak of committed rows only; to survive a COMMIT they need to know
  what the transaction holds (`TransactionShape`: its row is the successor of the
  committed one, its message's key is not taken) and that nobody else commits the
  same (`LocksExclusive`).  On top of it `RInv` relates what has been answered
  and written to what is stored, which gives `StoreCommittedTogether`,
  `StoreTimeFollowsSequence` and `StoreAnswersAreDurable`.  `StoreNoDeadlock` is
  the safety part of `EveryHandlerReturns`: by `TransactionShape` a transaction
  holds what others wait for (its conversation, its row, its message) only at
  statements after the one at which they wait, so of any set of handlers the one
  that is furthest waits for none of the others (`WaitsFor`, `NoDeadlock`).
* The refinement, `StoreImplementsLog`: under the mapping in `MessageStore` every
  statement is a stutter of `MessageLog` except the COMMIT (one `Accept`) and the
  answers that find an earlier message (`Repeat`, `Refuse`).  `Accept` appends at
  the end because the transaction holds the row whose successor it writes, and
  `Repeat` finds its message because answers are durable.
* `OutboxWorkerProofs`: `OutboxTypes`, `OutboxSettlesForCause`,
  `OutboxAttemptsBounded`, `OutboxPublishesUnderLease`, `OutboxSettledByOwner`.
  The key is `LeaseOutlivesRound`: while a worker has time left in its round it
  owns what it holds and the lease ends later than the round; with `OneHolder`
  (no two workers hold the same claim) and `AttemptsLeft` (whoever can still be
  claimed has an attempt, or a fault, to its account).
* `DeviceSyncProofs`: `DeviceTypes`, `DeviceHoldsPrefix`, `DeviceSyncNeverGaps`,
  `DeviceCursorsAgree`, `DeviceAckMonotone`.
  `SyncBehind` says a running sync never asks or applies beyond what the device
  and the conversation have; `AcksBehind` that neither pending acknowledgements
  nor answers under way run ahead of the cursors they came from.
* `AuthSessionProofs`, the server: `AuthTypes`, `AuthOneLiveToken`,
  `AuthSessionsMatchPassword`.  Between its statements a request relies on what
  its locks protect: `TokenLockHeld` (the token it consumed is still the live one
  of its session) and `UserLockHeld` (the password it compared is still current);
  `StepsMatchRequests`, `RowsNotYetInserted` and `TokensHaveSessions` say which
  rows a request at each step has and has not written.  `AuthIdempotentAnswers`
  needs more (`ResultsInv`): a request id is taken by one committing login
  (`RequestLockHeld`), and every answer is what the stored result says
  (`AnswersFromResults`).  `AuthReplayForCause` and `AuthReplayEndsSession` need
  `ReplayInv`, the account of who consumed a token with which key and what a
  handler that found it consumed may still do.  `AuthPersists` is the action
  property behind them: a session that has ended (`Ended`) stays so, and an idle
  one comes back only by a `Revival`, the commit of a rotation that holds the
  live token, which moves the refusals of the session to `overtaken`.
* `AuthSessionProofs`, the client: `ClientImplementsAuth` (`ClientSpec => Spec`),
  from which `ClientOneLiveToken` follows.  A refresh of the client is a request
  that `AuthSession` serves only if its token exists, which takes an invariant of
  results, answers and the state file (`KnownResults`, `KnownFile`).
  `ClientRefreshRecoverable` rests on `RecoveryInv`: every refresh the client
  ever sent is of the token it holds or of one it has left behind
  (`RefreshesInTurn`), and the login it waits for cannot hand out a session that
  it has held before, because each login has a session of its own
  (`LoginsDistinct`) and those of the client came with request ids that are used
  up (`SessionsSpent`, `LoginsInTurn`).  That sessions may come back from idle
  expiry does not matter to it.
* `RealtimeProofs`: `RealtimeTypes`, `RealtimeRevocationSeesHandshakes`,
  `RealtimeHubMatchesConnections`, and the action property
  `RealtimeOwnershipKept`.  `LocksProtect` says that a locked session is
  not revoked and belongs to a handshake; with `CallsFollowRevocation` a request
  that goes through the hub finds every handshake of its session rejected, not
  able to commit, or in the hub (`HandshakesInHub`).  `SessionsKnown` and
  `RecordsMatch` are what types need.
* `DeliveryProofs`: `DeliveryTypes` (no queue outgrows its buffer),
  `DeliveryReportedIsDelivered`, `DeliveryStopsInOrder`.  `DeliveryInv` follows a
  publication from recipient to recipient and from instance to instance: a client
  of its audience that is still in its hub is `Covered` (the event is accepted,
  under way or lost), or its turn is still ahead (`TurnAhead`).  `OneRequest` says that the
  publish channels hold one request of a worker that waits, `StagesInOrder` what
  `main` has waited for before it goes on.
* `MigrateProofs`: `MigrateTypes`, `MigrateHistoryTruthful`,
  `MigrateReadyMeansApplied`, `MigrateLockNotLeaked` and the action property
  `MigrateHistoryKept`.  `LockHeld` says that whoever works on the
  database has the lock, and `GoesOn` that it has seen a history its release
  continues and goes on with the first version that is not in it.
* `ComponentProofs`, the components that stand alone.
  `ListListedExactlyOnce`: `NothingMissed` says that what stayed in the
  membership since the snapshot is within it and, behind the cursor, listed; a
  page is the beginning of its rows by rank, and the ranks of a finite set take
  every place (`RankTaken`).  `HistoryReadUnbroken`: `CallFits` says that the
  cursor of a call under way is an end of what its reader shows.
  `RateRetryAfterSuffices`: `ToldLongEnough` says that no full window a refused
  attempt needs ends after the time it was told.  `PacketIsConserved`:
  `ClaimsUnderLock` and `DeliveredFirst` for the claims and deliveries.  That
  free slots and credits add up to the packet follows from `SlotsAreCredits`: both
  are sums over parts of the slots (`AddsAgree`, `AddsImage`), a fold adds the
  same in any order (`SumsAdd`), and the amounts of Create add up to the whole
  (`SharesAddUp`).  `CacheStaleIsPendingOrLate`:
  `AcknowledgesDeleted` says that an invalidation that is about to acknowledge
  the current version has left no entry but a late one.  `FenceWritesFenced`:
  `WritersLocked` says that a write under way has the lease's row and the latest
  token.
  `BackoffDoubles` and `RetryDelaysFit`: the delays between two attempts of the
  outbox worker, for every attempt count; the part of `OutboxAssumption` that
  `RetryDelay` must satisfy holds for what `retryDelay` computes.

Facts about sums and about the loop of `retryDelay` need induction over data.
The induction theorems of the library take an operator as a parameter and cannot
be used; `NatInduct` and `SubsetInduct` state induction for a set of numbers, or
of subsets of a finite set, and are proved with a least counterexample, from
`WFMin` and `NatLessThanWellFounded`.  A proof by induction collects the numbers
for which its claim holds (`{n \in Nat : ...}`) and shows that the set is all of
Nat.  That a recursive function exists at all, which the fold of
`AddsUp` and `Doubled` take for granted, is proved the same way (`SumsExist`,
`DoubledUnfolds`).

Model-checked only: the liveness properties (fairness is out of the prover's
reach).  `NoDeadlock`, `LockNotLeaked`,
`HistoryKept` and `OwnershipKept` were checked by TLC on the instances of
`message_store`, `migrate` and `realtime` before they were proved; the runs leave them to the theorems.

## Not modelled

Metrics, tracing, error formatting, configuration, the schema fingerprint, the
client address behind trusted proxies, the load test: they keep no state that a
property could be about.  The SQL of the transactional migrations is one step.
Message contents, JSON, encryption and hashing are abstracted to values that are
equal or not.  The order in which due events are claimed is left open.  Users
are never deleted by this code.

## Plan

Done: sending and its abstract log, the outbox worker, device synchronization,
conversation list and message history, sessions and the client's side of them,
connections with presence and revocation, delivery and shutdown, rate limiting,
migrations, the reliability lab.  Next, in this order:

1. A composition of store, outbox and device: every committed message reaches
   every device.
2. Further action properties as theorems: what a step of the device or of the
   publisher may never undo.
