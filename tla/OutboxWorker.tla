---------------------------- MODULE OutboxWorker ----------------------------
(***************************************************************************)
(* Delivery of outbox events by competing workers: claim a batch under a   *)
(* lease, publish its events concurrently, mark the outcomes.              *)
(*                                                                         *)
(* Timestamps are kept as the time left until them: locked_until as lease, *)
(* next_attempt_at as wait, the deadline of a round (between rounds, the   *)
(* poll timer) as left; 0 is "passed" or NULL, and Tick lets one unit of   *)
(* time go by.  The random lock_token                                      *)
(* of a claim is the number of claims the event has had, which no other    *)
(* claim of that event shares; it is also the AttemptCount the worker got. *)
(*                                                                         *)
(* What the retries must survive is drawn from a budget, faults: a crash,  *)
(* a database statement that fails or whose answer is lost, and a worker   *)
(* so slow that its claim misses the deadline of the round or that a lease *)
(* runs out while it still holds the event.                                *)
(***************************************************************************)
EXTENDS Integers, FiniteSets

CONSTANTS
    Events,          \* ready rows of outbox_events
    Workers,         \* outboxWorker instances, of any number of processes
    Malformed,       \* the events whose payload cannot be decoded
    ClaimLimit,      \* claimLimit: min(BatchSize, Concurrency)
    LeaseDuration, AttemptTimeout, PollInterval, MaxAttempts,
    RetryDelay,      \* RetryDelay[n]: the delays retryDelay(n) may return
    MaxFaults        \* bound on the faults of a behaviour

ASSUME OutboxAssumption ==
    /\ Malformed \subseteq Events
    /\ ClaimLimit \in Nat \ {0}
    /\ LeaseDuration \in Nat /\ AttemptTimeout \in Nat \ {0}
    /\ AttemptTimeout < LeaseDuration
    /\ PollInterval \in Nat \ {0}
    /\ MaxAttempts \in Nat \ {0}
    /\ RetryDelay \in [1..(MaxAttempts - 1) -> SUBSET (Nat \ {0})]
    /\ MaxFaults \in Nat

VARIABLES
    status,     \* of each event: pending, published_at set, dead_at set, deleted
    attempts,   \* attempt_count
    wait,       \* time left until next_attempt_at
    lease,      \* time left until locked_until
    token,      \* lock_token, 0 for NULL
    phase,      \* where each worker is in RunOnce
    left,       \* time left until the deadline of its round, or of its poll timer
    item,       \* item[w][e]: how far worker w is with the event e of its batch
    held,       \* held[w][e]: the lock_token w got for e
    delivered,  \* events that some Publish delivered to every recipient
    faults      \* faults so far

rows == <<status, attempts, wait, lease, token>>
vars == <<rows, phase, left, item, held, delivered, faults>>

Outcomes == {"ok", "retry", "permanent"}
Items == Outcomes \cup {"none", "claimed", "sending"}

Batch(w) == {e \in Events : item[w][e] # "none"}
Having(w, outcome) == {e \in Events : item[w][e] = outcome}

\* The UPDATEs that mark an event name the lock_token of the claim.
Owns(w, e) == token[e] = held[w][e] /\ status[e] = "pending"

Fault == faults < MaxFaults /\ faults' = faults + 1
-----------------------------------------------------------------------------
(* Run and RunOnce: claimBatch                                             *)

\* continueAfterBatch: a full batch is followed by the next at once, anything
\* else by the poll interval.
FinishRound(w, processed) ==
    /\ phase' = [phase EXCEPT ![w] = "idle"]
    /\ left' = [left EXCEPT ![w] = IF processed = ClaimLimit THEN 0 ELSE PollInterval]

\* RunOnce: one deadline for the claim, the preparation and the publication.
StartRound(w) ==
    /\ phase[w] = "idle"
    /\ left[w] = 0
    /\ phase' = [phase EXCEPT ![w] = "claim"]
    /\ left' = [left EXCEPT ![w] = AttemptTimeout]
    /\ UNCHANGED <<rows, item, held, delivered, faults>>

\* (faulty: an expired lease is not taken over)
ClaimableUnlocked == {e \in Events : status[e] = "pending" /\ wait[e] = 0 /\ token[e] = 0}

Claimable == {e \in Events : status[e] = "pending" /\ wait[e] = 0 /\ lease[e] = 0}

\* ORDER BY next_attempt_at is not seen by events that are all due; which of
\* them come first is left open.
Batches == {S \in SUBSET Claimable :
               IF Cardinality(Claimable) <= ClaimLimit
               THEN S = Claimable
               ELSE Cardinality(S) = ClaimLimit}

LockRows(S) ==
    /\ attempts' = [e \in Events |-> IF e \in S THEN attempts[e] + 1 ELSE attempts[e]]
    /\ lease' = [e \in Events |-> IF e \in S THEN LeaseDuration ELSE lease[e]]
    /\ token' = [e \in Events |-> IF e \in S THEN attempts[e] + 1 ELSE token[e]]
    /\ UNCHANGED <<status, wait>>

\* An empty claim ends the round.
Claim(w) ==
    /\ phase[w] = "claim"
    /\ left[w] > 0
    /\ \E S \in Batches :
          /\ LockRows(S)
          /\ IF S = {}
             THEN FinishRound(w, 0)
             ELSE phase' = [phase EXCEPT ![w] = "prepare"] /\ UNCHANGED left
          /\ item' = [item EXCEPT ![w] =
                         [e \in Events |-> IF e \in S THEN "claimed" ELSE "none"]]
          /\ held' = [held EXCEPT ![w] =
                         [e \in Events |-> IF e \in S THEN attempts[e] + 1 ELSE 0]]
    /\ UNCHANGED <<delivered, faults>>

\* The deadline passes before the claim is made.
ClaimExpires(w) ==
    /\ phase[w] = "claim"
    /\ left[w] = 0
    /\ FinishRound(w, 0)
    /\ UNCHANGED <<rows, item, held, delivered, faults>>

\* The claim fails, or commits with its answer lost: the events stay leased and
\* nobody delivers them.
ClaimFails(w) ==
    /\ phase[w] = "claim"
    /\ Fault
    /\ FinishRound(w, 0)
    /\ \/ UNCHANGED rows
       \/ \E S \in Batches : LockRows(S)
    /\ UNCHANGED <<item, held, delivered>>
-----------------------------------------------------------------------------
(* RunOnce: deliverBatch                                                   *)

\* PreparePublishBatch; when it fails every event of the batch has failed.
Prepare(w) ==
    /\ phase[w] = "prepare"
    /\ phase' = [phase EXCEPT ![w] = "deliver"]
    /\ \/ UNCHANGED item
       \/ item' = [item EXCEPT ![w] =
                      [e \in Events |-> IF e \in Batch(w) THEN "retry" ELSE "none"]]
    /\ UNCHANGED <<rows, left, held, delivered, faults>>

\* (faulty: the goroutine does not look at the deadline)
StartPublishLate(w, e) ==
    /\ phase[w] = "deliver"
    /\ item[w][e] = "claimed"
    /\ item' = [item EXCEPT ![w][e] = "sending"]
    /\ UNCHANGED <<rows, phase, left, held, delivered, faults>>

\* The goroutine of one event checks the deadline of the round.
StartPublish(w, e) ==
    /\ phase[w] = "deliver"
    /\ item[w][e] = "claimed"
    /\ item' = [item EXCEPT ![w][e] = IF left[w] > 0 THEN "sending" ELSE "retry"]
    /\ UNCHANGED <<rows, phase, left, held, delivered, faults>>

\* Publish returns.  It may have reached some recipients before an error.
FinishPublish(w, e) ==
    /\ phase[w] = "deliver"
    /\ item[w][e] = "sending"
    /\ \/ /\ e \in Malformed
          /\ item' = [item EXCEPT ![w][e] = "permanent"]
          /\ UNCHANGED delivered
       \/ /\ e \notin Malformed
          /\ item' = [item EXCEPT ![w][e] = "ok"]
          /\ delivered' = delivered \cup {e}
       \/ /\ e \notin Malformed
          /\ item' = [item EXCEPT ![w][e] = "retry"]
          /\ UNCHANGED delivered
    /\ UNCHANGED <<rows, phase, left, held, faults>>
-----------------------------------------------------------------------------
(* RunOnce: completeDeliveryBatch                                          *)

Unlock(S) ==
    /\ lease' = [e \in Events |-> IF e \in S THEN 0 ELSE lease[e]]
    /\ token' = [e \in Events |-> IF e \in S THEN 0 ELSE token[e]]

\* (faulty: the whole batch is marked)
MarkPublishedAll(w) ==
    LET S == {e \in Batch(w) : Owns(w, e)} IN
    /\ status' = [e \in Events |-> IF e \in S THEN "published" ELSE status[e]]
    /\ Unlock(S)
    /\ UNCHANGED <<attempts, wait>>

\* The UPDATE of markPublishedBatch: the rows whose token still matches.
markPublishedBatch(w) ==
    LET S == {e \in Having(w, "ok") : Owns(w, e)} IN
    /\ status' = [e \in Events |-> IF e \in S THEN "published" ELSE status[e]]
    /\ Unlock(S)
    /\ UNCHANGED <<attempts, wait>>

\* After wait.Wait(): one UPDATE for the successes.  A lost lease or an error
\* is only logged.
MarkPublished(w) ==
    /\ phase[w] = "deliver"
    /\ \A e \in Batch(w) : item[w][e] \in Outcomes
    /\ phase' = [phase EXCEPT ![w] = "fail"]
    /\ item' = [item EXCEPT ![w] =
                   [e \in Events |-> IF item[w][e] = "ok" THEN "none" ELSE item[w][e]]]
    /\ \/ markPublishedBatch(w) /\ UNCHANGED faults
       \/ UNCHANGED rows /\ Fault
    /\ UNCHANGED <<left, held, delivered>>

\* (faulty: the token is not compared)
markFailedUnfenced(w, e) ==
    /\ status[e] = "pending"
    /\ IF item[w][e] = "permanent" \/ held[w][e] >= MaxAttempts
       THEN status' = [status EXCEPT ![e] = "dead"] /\ UNCHANGED wait
       ELSE wait' = [wait EXCEPT ![e] = 1] /\ UNCHANGED status
    /\ Unlock({e})
    /\ UNCHANGED attempts

\* (faulty: off by one)
markFailedAfterMax(w, e) ==
    /\ Owns(w, e)
    /\ IF item[w][e] = "permanent" \/ held[w][e] > MaxAttempts
       THEN status' = [status EXCEPT ![e] = "dead"] /\ UNCHANGED wait
       ELSE wait' = [wait EXCEPT ![e] = 1] /\ UNCHANGED status
    /\ Unlock({e})
    /\ UNCHANGED attempts

\* The UPDATE of markFailed on a row whose token still matches.
markFailed(w, e) ==
    /\ Owns(w, e)
    /\ \/ /\ item[w][e] = "permanent" \/ held[w][e] >= MaxAttempts
          /\ status' = [status EXCEPT ![e] = "dead"]
          /\ UNCHANGED wait
       \/ /\ item[w][e] = "retry" /\ held[w][e] < MaxAttempts
          /\ \E d \in RetryDelay[held[w][e]] : wait' = [wait EXCEPT ![e] = d]
          /\ UNCHANGED status
    /\ Unlock({e})
    /\ UNCHANGED attempts

\* The failures follow one by one; again errors are only logged.
MarkFailed(w, e) ==
    /\ phase[w] = "fail"
    /\ item[w][e] \in {"retry", "permanent"}
    /\ item' = [item EXCEPT ![w][e] = "none"]
    /\ \/ markFailed(w, e) /\ UNCHANGED faults
       \/ ~Owns(w, e) /\ UNCHANGED <<rows, faults>>
       \/ UNCHANGED rows /\ Fault
    /\ UNCHANGED <<phase, left, held, delivered>>

EndRound(w) ==
    /\ phase[w] = "fail"
    /\ Batch(w) = {}
    /\ FinishRound(w, Cardinality({e \in Events : held[w][e] # 0}))
    /\ UNCHANGED <<rows, item, held, delivered, faults>>
-----------------------------------------------------------------------------
(* Crashes, clean-up and time                                              *)

\* The process dies and a new worker starts in its place.
Crash(w) ==
    /\ phase[w] # "idle"
    /\ Fault
    /\ phase' = [phase EXCEPT ![w] = "idle"]
    /\ left' = [left EXCEPT ![w] = 0]
    /\ item' = [item EXCEPT ![w] = [e \in Events |-> "none"]]
    /\ UNCHANGED <<rows, held, delivered>>

cleanupPublished(e) ==
    /\ status[e] = "published"
    /\ status' = [status EXCEPT ![e] = "deleted"]
    /\ UNCHANGED <<attempts, wait, lease, token, phase, left, item, held,
                   delivered, faults>>

Less(n) == IF n = 0 THEN 0 ELSE n - 1

\* A worker that spends its whole round on the claim, or that lets the lease of
\* an event it holds run out, is a fault.
TooSlow(w) ==
    \/ phase[w] = "claim" /\ left[w] = 1
    \/ \E e \in Batch(w) : Owns(w, e) /\ lease[e] = 1

Tick ==
    /\ \/ \E e \in Events : wait[e] + lease[e] > 0
       \/ \E w \in Workers : left[w] > 0
    /\ wait' = [e \in Events |-> Less(wait[e])]
    /\ lease' = [e \in Events |-> Less(lease[e])]
    /\ left' = [w \in Workers |-> Less(left[w])]
    /\ IF \E w \in Workers : TooSlow(w) THEN Fault ELSE UNCHANGED faults
    /\ UNCHANGED <<status, attempts, token, phase, item, held, delivered>>
-----------------------------------------------------------------------------
Init ==
    /\ status = [e \in Events |-> "pending"]
    /\ attempts = [e \in Events |-> 0]
    /\ wait = [e \in Events |-> 0]
    /\ lease = [e \in Events |-> 0]
    /\ token = [e \in Events |-> 0]
    /\ phase = [w \in Workers |-> "idle"]
    /\ left = [w \in Workers |-> 0]
    /\ item = [w \in Workers |-> [e \in Events |-> "none"]]
    /\ held = [w \in Workers |-> [e \in Events |-> 0]]
    /\ delivered = {}
    /\ faults = 0

Run(w) ==
    \/ StartRound(w)
    \/ Claim(w)
    \/ ClaimExpires(w)
    \/ Prepare(w)
    \/ \E e \in Events : StartPublish(w, e) \/ FinishPublish(w, e)
    \/ MarkPublished(w)
    \/ \E e \in Events : MarkFailed(w, e)
    \/ EndRound(w)

Next ==
    \/ \E w \in Workers : Run(w) \/ ClaimFails(w) \/ Crash(w)
    \/ \E e \in Events : cleanupPublished(e)
    \/ Tick

Spec == Init /\ [][Next]_vars

\* Run loops until it is cancelled and time passes; no worker is favoured.
FairSpec == Spec /\ WF_vars(Tick) /\ \A w \in Workers : WF_vars(Run(w))
-----------------------------------------------------------------------------
(* Properties                                                              *)

\* The types of the rows and of the workers; an event is locked by the token of
\* its latest claim or by none.
TypeOK ==
    /\ status \in [Events -> {"pending", "published", "dead", "deleted"}]
    /\ attempts \in [Events -> Nat]
    /\ wait \in [Events -> Nat]
    /\ lease \in [Events -> 0..LeaseDuration]
    /\ token \in [Events -> Nat]
    /\ \A e \in Events : token[e] \in {0, attempts[e]}
    /\ phase \in [Workers -> {"idle", "claim", "prepare", "deliver", "fail"}]
    /\ left \in [Workers -> Nat]
    /\ \A w \in Workers : phase[w] # "idle" => left[w] <= AttemptTimeout
    /\ item \in [Workers -> [Events -> Items]]
    /\ held \in [Workers -> [Events -> Nat]]
    /\ delivered \subseteq Events
    /\ faults \in 0..MaxFaults

\* An event is marked published only if some worker really delivered it to all
\* of its recipients (completeDeliveryBatch marks only the successes), and dead
\* only if it cannot be decoded or has used up its attempts.
SettledForCause ==
    \A e \in Events :
        /\ status[e] \in {"published", "deleted"} => e \in delivered
        /\ status[e] = "dead" => e \in Malformed \/ attempts[e] >= MaxAttempts

\* The claim does not look at attempt_count, so an event can be tried more than
\* MaxAttempts times; each attempt beyond it is paid for by a fault.
AttemptsBounded ==
    \A e \in Events : attempts[e] <= MaxAttempts + faults

\* A Publish never starts for an event that another worker has claimed since,
\* or that is settled: the deadline of the round, set before the claim and
\* shorter than the lease, passes first.
PublishStartsUnderLease ==
    [][\A w \in Workers, e \in Events :
          item[w][e] = "claimed" /\ item'[w][e] = "sending"
              => Owns(w, e) /\ lease[e] > 0]_vars

\* Once settled an event stays so, and only the worker that holds its current
\* token settles it: a worker that comes back after its lease was taken over
\* changes nothing (TestOutboxRealProcessExpiredOwner).
SettledByOwner ==
    [][\A e \in Events :
          status[e] # status'[e] =>
              \/ status[e] = "published" /\ status'[e] = "deleted"
              \/ /\ status[e] = "pending"
                 /\ status'[e] = "published"
                 /\ \E w \in Workers : Owns(w, e) /\ item[w][e] = "ok"
              \/ /\ status[e] = "pending"
                 /\ status'[e] = "dead"
                 /\ \E w \in Workers :
                       Owns(w, e) /\ item[w][e] \in {"retry", "permanent"}]_vars

\* Every event is published or dies, with finitely many faults, whoever
\* crashed holding it: expired leases are claimed again.
EveryEventSettles ==
    \A e \in Events : (status[e] = "pending") ~> (status[e] # "pending")
-----------------------------------------------------------------------------
(* The inductive invariant that the proofs rest on                         *)

\* A worker keeps events only between its claim and the end of its round, each
\* with the token of a claim that was made.
HoldersInRound ==
    \A w \in Workers, e \in Events : item[w][e] # "none" =>
        /\ phase[w] \in {"prepare", "deliver", "fail"}
        /\ held[w][e] \in 1..attempts[e]

\* No two workers hold the same claim of an event.
OneHolder ==
    \A v, w \in Workers, e \in Events :
        item[v][e] # "none" /\ item[w][e] # "none" /\ held[v][e] = held[w][e]
            => v = w

\* Until the deadline of its round a worker owns what it holds, and the lease
\* ends after that deadline.
LeaseOutlivesRound ==
    \A w \in Workers, e \in Events : item[w][e] # "none" /\ left[w] > 0 =>
        Owns(w, e) /\ lease[e] > left[w]

OutcomesTrue ==
    \A w \in Workers, e \in Events :
        /\ item[w][e] = "ok" => e \in delivered
        /\ item[w][e] = "permanent" => e \in Malformed

Owned(e) == \E w \in Workers : item[w][e] # "none" /\ Owns(w, e)

\* A pending event that can be claimed, or that will be once its lease ends, has
\* an attempt left or a fault to its account.
AttemptsLeft ==
    \A e \in Events : status[e] = "pending" /\ (lease[e] = 0 \/ ~Owned(e))
        => attempts[e] < MaxAttempts + faults

IInv ==
    /\ TypeOK /\ HoldersInRound /\ OneHolder /\ LeaseOutlivesRound
    /\ OutcomesTrue /\ SettledForCause /\ AttemptsLeft /\ AttemptsBounded
=============================================================================
