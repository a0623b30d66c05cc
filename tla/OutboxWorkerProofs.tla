------------------------- MODULE OutboxWorkerProofs -------------------------
(***************************************************************************)
(* Proofs about OutboxWorker, for any events, workers and configuration:   *)
(* one lemma per action shows that it preserves the inductive invariant    *)
(* IInv, and the theorems follow from it.                                  *)
(***************************************************************************)
EXTENDS OutboxWorker, TLAPS

USE OutboxAssumption

\* An idle worker holds nothing, so a new deadline concerns no event.
LEMMA StartRoundStep ==
    ASSUME NEW w \in Workers, IInv, StartRound(w)
    PROVE  IInv'
<1>1. TypeOK'
  BY DEF IInv, TypeOK, StartRound, rows, Owns, Items, Outcomes
<1>2. HoldersInRound'
  BY DEF IInv, TypeOK, HoldersInRound, StartRound, rows, Owns, Outcomes, Items
<1>3. OneHolder'
  BY DEF IInv, TypeOK, OneHolder, StartRound, rows, Owns, Items
<1>4. LeaseOutlivesRound'
  <2> SUFFICES ASSUME NEW v \in Workers, NEW d \in Events,
                      item'[v][d] # "none", left'[v] > 0
               PROVE  Owns(v, d)' /\ lease'[d] > left'[v]
    BY DEF LeaseOutlivesRound
  <2>1. item[v][d] # "none" /\ v # w
    BY DEF IInv, HoldersInRound, StartRound
  <2> QED BY <2>1 DEF IInv, LeaseOutlivesRound, TypeOK, StartRound, rows, Owns
<1>5. OutcomesTrue'
  BY DEF IInv, TypeOK, OutcomesTrue, StartRound, rows, Owns
<1>6. SettledForCause'
  BY DEF IInv, TypeOK, SettledForCause, StartRound, rows, Owns, OutcomesTrue,
     HoldersInRound
<1>7. AttemptsLeft'
  BY DEF IInv, TypeOK, AttemptsLeft, StartRound, rows, Owns, Owned,
     HoldersInRound, OneHolder, AttemptsBounded
<1>8. AttemptsBounded'
  BY DEF IInv, TypeOK, AttemptsBounded, StartRound, rows, Owns, AttemptsLeft
<1> QED BY <1>1, <1>2, <1>3, <1>4, <1>5, <1>6, <1>7, <1>8 DEF IInv

\* A claimed row was unlocked or its lease had ended, so no round still runs on it.
LEMMA ClaimStep ==
    ASSUME NEW w \in Workers, IInv, Claim(w)
    PROVE  IInv'
<1> PICK S \in SUBSET Claimable :
      /\ LockRows(S)
      /\ IF S = {} THEN FinishRound(w, 0)
                   ELSE phase' = [phase EXCEPT ![w] = "prepare"] /\ UNCHANGED left
      /\ item' = [item EXCEPT ![w] =
                     [e \in Events |-> IF e \in S THEN "claimed" ELSE "none"]]
      /\ held' = [held EXCEPT ![w] =
                     [e \in Events |-> IF e \in S THEN attempts[e] + 1 ELSE 0]]
  BY DEF Claim, Batches
<1>a. /\ phase[w] = "claim" /\ left[w] > 0 /\ UNCHANGED <<delivered, faults>>
      /\ S \subseteq Events
  BY DEF Claim, Claimable
<1>b. \A e \in Events : item[w][e] = "none"
  BY <1>a DEF IInv, HoldersInRound
<1>c. /\ status' = status /\ wait' = wait
      /\ \A e \in Events : e \in S =>
            /\ status[e] = "pending" /\ lease[e] = 0
            /\ attempts'[e] = attempts[e] + 1 /\ token'[e] = attempts[e] + 1
            /\ lease'[e] = LeaseDuration
      /\ \A e \in Events : e \notin S =>
            /\ attempts'[e] = attempts[e] /\ token'[e] = token[e]
            /\ lease'[e] = lease[e]
  BY DEF LockRows, Claimable
<1>d. \A v \in Workers, e \in Events :
         /\ v # w => item'[v][e] = item[v][e] /\ held'[v][e] = held[v][e]
         /\ v = w => item'[v][e] = (IF e \in S THEN "claimed" ELSE "none")
         /\ v = w => held'[v][e] = (IF e \in S THEN attempts[e] + 1 ELSE 0)
  BY DEF IInv, TypeOK
<1>e. /\ \A v \in Workers : v # w => phase'[v] = phase[v] /\ left'[v] = left[v]
      /\ S # {} => phase'[w] = "prepare" /\ left'[w] = left[w]
      /\ S = {} => phase'[w] = "idle"
      /\ phase' \in [Workers -> {"idle", "claim", "prepare", "deliver", "fail"}]
      /\ left' \in [Workers -> Nat]
  BY DEF IInv, TypeOK, FinishRound
<1>1. TypeOK'
  <2>1. /\ attempts' \in [Events -> Nat] /\ token' \in [Events -> Nat]
        /\ lease' \in [Events -> 0..LeaseDuration]
    BY DEF LockRows, IInv, TypeOK
  <2>2. /\ item' \in [Workers -> [Events -> Items]]
        /\ held' \in [Workers -> [Events -> Nat]]
    <3>1. [e \in Events |-> IF e \in S THEN "claimed" ELSE "none"] \in [Events -> Items]
      BY DEF Items
    <3>2. [e \in Events |-> IF e \in S THEN attempts[e] + 1 ELSE 0] \in [Events -> Nat]
      BY DEF IInv, TypeOK
    <3> QED BY <3>1, <3>2 DEF IInv, TypeOK
  <2>3. \A e \in Events : token'[e] \in {0, attempts'[e]}
    BY <1>c DEF IInv, TypeOK
  <2>4. \A v \in Workers : phase'[v] # "idle" => left'[v] <= AttemptTimeout
    BY <1>a, <1>e DEF IInv, TypeOK
  <2> QED BY <2>1, <2>2, <2>3, <2>4, <1>a, <1>c, <1>e DEF IInv, TypeOK
<1>2. HoldersInRound'
  <2> SUFFICES ASSUME NEW v \in Workers, NEW d \in Events, item'[v][d] # "none"
               PROVE  /\ phase'[v] \in {"prepare", "deliver", "fail"}
                      /\ held'[v][d] \in 1..attempts'[d]
    BY DEF HoldersInRound
  <2>0. attempts[d] \in Nat /\ held[v][d] \in Nat
    BY DEF IInv, TypeOK
  <2>1. CASE v = w
    <3>1. d \in S
      BY <2>1, <1>d
    <3> QED BY <2>0, <2>1, <3>1, <1>c, <1>d, <1>e
  <2>2. CASE v # w
    <3>1. item[v][d] # "none"
      BY <2>2, <1>d
    <3>2. phase[v] \in {"prepare", "deliver", "fail"} /\ held[v][d] \in 1..attempts[d]
      BY <3>1 DEF IInv, HoldersInRound
    <3>3. attempts'[d] \in {attempts[d], attempts[d] + 1}
      BY <1>c
    <3> QED BY <2>0, <2>2, <3>2, <3>3, <1>d, <1>e
  <2> QED BY <2>1, <2>2
<1>3. OneHolder'
  BY <1>a, <1>c, <1>d DEF IInv, TypeOK, HoldersInRound, OneHolder
<1>4. LeaseOutlivesRound'
  <2> SUFFICES ASSUME NEW v \in Workers, NEW d \in Events,
                      item'[v][d] # "none", left'[v] > 0
               PROVE  Owns(v, d)' /\ lease'[d] > left'[v]
    BY DEF LeaseOutlivesRound
  <2>1. CASE v = w
    <3>1. d \in S
      BY <2>1, <1>d
    <3>2. left[w] \in Nat /\ left[w] <= AttemptTimeout
      BY <1>a DEF IInv, TypeOK
    <3> QED BY <2>1, <3>1, <3>2, <1>c, <1>d, <1>e DEF Owns
  <2>2. CASE v # w
    <3>1. Owns(v, d) /\ lease[d] > left[v]
      BY <2>2, <1>d, <1>e DEF IInv, LeaseOutlivesRound
    <3>2. left[v] \in Nat /\ lease[d] \in Nat
      BY DEF IInv, TypeOK
    <3>3. d \notin S
      BY <3>1, <3>2, <1>c, <1>e, <2>2
    <3> QED BY <2>2, <3>1, <3>3, <1>c, <1>d, <1>e DEF Owns
  <2> QED BY <2>1, <2>2
<1>5. OutcomesTrue'
  BY <1>a, <1>d DEF IInv, OutcomesTrue
<1>6. SettledForCause'
  BY <1>a, <1>c DEF IInv, TypeOK, SettledForCause
<1>7. AttemptsLeft'
  <2> SUFFICES ASSUME NEW d \in Events, status'[d] = "pending",
                      lease'[d] = 0 \/ ~Owned(d)'
               PROVE  attempts'[d] < MaxAttempts + faults'
    BY DEF AttemptsLeft
  <2>1. CASE d \in S
    <3>1. Owned(d)' /\ lease'[d] # 0
      BY <2>1, <1>c, <1>d DEF Owned, Owns
    <3> QED BY <3>1
  <2>2. CASE d \notin S
    <3>1. Owned(d) => Owned(d)'
      BY <2>2, <1>b, <1>c, <1>d DEF Owned, Owns
    <3> QED BY <2>2, <3>1, <1>a, <1>c DEF IInv, AttemptsLeft
  <2> QED BY <2>1, <2>2
<1>8. AttemptsBounded'
  BY <1>a, <1>c DEF IInv, TypeOK, AttemptsLeft, AttemptsBounded
<1> QED BY <1>1, <1>2, <1>3, <1>4, <1>5, <1>6, <1>7, <1>8 DEF IInv

\* A claim that comes too late changes no row.
LEMMA ClaimExpiresStep ==
    ASSUME NEW w \in Workers, IInv, ClaimExpires(w)
    PROVE  IInv'
<1>1. TypeOK'
  BY DEF IInv, TypeOK, ClaimExpires, rows, Owns, Items, Outcomes, FinishRound
<1>2. HoldersInRound'
  BY DEF IInv, TypeOK, HoldersInRound, ClaimExpires, rows, Owns, Outcomes,
     Items, FinishRound
<1>3. OneHolder'
  BY DEF IInv, TypeOK, OneHolder, ClaimExpires, rows, Owns, Items, FinishRound
<1>4. LeaseOutlivesRound'
  <2> SUFFICES ASSUME NEW v \in Workers, NEW d \in Events,
                      item'[v][d] # "none", left'[v] > 0
               PROVE  Owns(v, d)' /\ lease'[d] > left'[v]
    BY DEF LeaseOutlivesRound
  <2>1. item[v][d] # "none" /\ v # w
    BY DEF IInv, HoldersInRound, ClaimExpires
  <2> QED BY <2>1 DEF IInv, LeaseOutlivesRound, TypeOK, ClaimExpires, FinishRound,
                      rows, Owns
<1>5. OutcomesTrue'
  BY DEF IInv, TypeOK, OutcomesTrue, ClaimExpires, rows, Owns, FinishRound
<1>6. SettledForCause'
  BY DEF IInv, TypeOK, SettledForCause, ClaimExpires, rows, Owns,
     OutcomesTrue, HoldersInRound, FinishRound
<1>7. AttemptsLeft'
  BY DEF IInv, TypeOK, AttemptsLeft, ClaimExpires, rows, Owns, Owned,
     HoldersInRound, OneHolder, AttemptsBounded, FinishRound
<1>8. AttemptsBounded'
  BY DEF IInv, TypeOK, AttemptsBounded, ClaimExpires, rows, Owns,
     AttemptsLeft, FinishRound
<1> QED BY <1>1, <1>2, <1>3, <1>4, <1>5, <1>6, <1>7, <1>8 DEF IInv

\* Rows that a lost claim leaves locked are paid for by the fault.
LEMMA ClaimFailsStep ==
    ASSUME NEW w \in Workers, IInv, ClaimFails(w)
    PROVE  IInv'
<1> USE DEF FinishRound
<1>a. /\ phase[w] = "claim" /\ faults' = faults + 1 /\ faults' \in 0..MaxFaults
      /\ UNCHANGED <<item, held, delivered>>
      /\ phase' = [phase EXCEPT ![w] = "idle"]
      /\ left' \in [Workers -> Nat]
      /\ \A v \in Workers : v # w => left'[v] = left[v]
  BY DEF ClaimFails, Fault, IInv, TypeOK
<1>b. PICK S \in SUBSET Claimable :
      /\ status' = status /\ wait' = wait
      /\ attempts' = [e \in Events |-> IF e \in S THEN attempts[e] + 1 ELSE attempts[e]]
      /\ lease' = [e \in Events |-> IF e \in S THEN LeaseDuration ELSE lease[e]]
      /\ token' = [e \in Events |-> IF e \in S THEN attempts[e] + 1 ELSE token[e]]
  <2>1. CASE UNCHANGED rows
    <3> WITNESS {} \in SUBSET Claimable
    <3> QED BY <2>1 DEF rows, IInv, TypeOK
  <2>2. CASE \E S \in Batches : LockRows(S)
    BY <2>2 DEF Batches, LockRows
  <2> QED BY <2>1, <2>2 DEF ClaimFails
<1>c. /\ \A e \in Events : e \in S =>
            /\ status[e] = "pending" /\ lease[e] = 0
            /\ attempts'[e] = attempts[e] + 1 /\ token'[e] = attempts[e] + 1
            /\ lease'[e] = LeaseDuration
      /\ \A e \in Events : e \notin S =>
            /\ attempts'[e] = attempts[e] /\ token'[e] = token[e]
            /\ lease'[e] = lease[e]
  BY <1>b DEF Claimable
<1>1. TypeOK'
  <2>1. /\ attempts' \in [Events -> Nat] /\ token' \in [Events -> Nat]
        /\ lease' \in [Events -> 0..LeaseDuration]
    BY <1>b DEF IInv, TypeOK
  <2>2. \A e \in Events : token'[e] \in {0, attempts'[e]}
    BY <1>c DEF IInv, TypeOK
  <2> QED BY <1>a, <1>b, <2>1, <2>2 DEF IInv, TypeOK
<1>2. HoldersInRound'
  <2> SUFFICES ASSUME NEW v \in Workers, NEW d \in Events, item'[v][d] # "none"
               PROVE  /\ phase'[v] \in {"prepare", "deliver", "fail"}
                      /\ held'[v][d] \in 1..attempts'[d]
    BY DEF HoldersInRound
  <2>1. /\ phase[v] \in {"prepare", "deliver", "fail"}
        /\ held[v][d] \in 1..attempts[d] /\ v # w
    BY <1>a DEF IInv, HoldersInRound
  <2>2. attempts'[d] \in {attempts[d], attempts[d] + 1} /\ attempts[d] \in Nat
    BY <1>c DEF IInv, TypeOK
  <2> QED BY <2>1, <2>2, <1>a
<1>3. OneHolder'
  BY <1>a DEF IInv, OneHolder
<1>4. LeaseOutlivesRound'
  <2> SUFFICES ASSUME NEW v \in Workers, NEW d \in Events,
                      item'[v][d] # "none", left'[v] > 0
               PROVE  Owns(v, d)' /\ lease'[d] > left'[v]
    BY DEF LeaseOutlivesRound
  <2>1. item[v][d] # "none" /\ v # w
    BY <1>a DEF IInv, HoldersInRound
  <2> QED BY <2>1, <1>a, <1>b, <1>c DEF IInv, TypeOK, LeaseOutlivesRound, Owns
<1>5. OutcomesTrue'
  BY <1>a DEF IInv, OutcomesTrue
<1>6. SettledForCause'
  BY <1>a, <1>b, <1>c DEF IInv, TypeOK, SettledForCause
<1>7. AttemptsLeft'
  BY <1>a, <1>b, <1>c DEF IInv, TypeOK, AttemptsLeft, AttemptsBounded
<1>8. AttemptsBounded'
  <2> SUFFICES ASSUME NEW d \in Events
               PROVE  attempts'[d] <= MaxAttempts + faults'
    BY DEF AttemptsBounded
  <2>1. attempts'[d] \in {attempts[d], attempts[d] + 1}
    BY <1>c
  <2>2. attempts[d] \in Nat /\ faults \in Nat /\ attempts[d] <= MaxAttempts + faults
    BY DEF IInv, TypeOK, AttemptsBounded
  <2> QED BY <2>1, <2>2, <1>a
<1> QED BY <1>1, <1>2, <1>3, <1>4, <1>5, <1>6, <1>7, <1>8 DEF IInv

\* No row changes and no event leaves or joins the batch.
LEMMA PrepareStep ==
    ASSUME NEW w \in Workers, IInv, Prepare(w)
    PROVE  IInv'
<1>a. /\ UNCHANGED rows /\ UNCHANGED <<left, held, faults>>
      /\ item' \in [Workers -> [Events -> Items]]
      /\ \A v \in Workers, d \in Events : item'[v][d] = "none" <=> item[v][d] = "none"
  <2>1. CASE UNCHANGED item
    BY <2>1 DEF Prepare, rows, IInv, TypeOK
  <2>2. CASE item' = [item EXCEPT ![w] =
                        [d \in Events |-> IF d \in Batch(w) THEN "retry" ELSE "none"]]
    <3>1. [d \in Events |-> IF d \in Batch(w) THEN "retry" ELSE "none"]
             \in [Events -> Items]
      BY DEF Items, Outcomes
    <3> QED BY <2>2, <3>1 DEF Prepare, rows, IInv, TypeOK, Batch
  <2> QED BY <2>1, <2>2 DEF Prepare
<1>b. /\ phase[w] = "prepare" /\ phase' = [phase EXCEPT ![w] = "deliver"]
      /\ UNCHANGED delivered
      /\ \A v \in Workers, d \in Events :
            item'[v][d] \in {item[v][d], "retry", "none"}
  <2>1. CASE UNCHANGED item
    BY <2>1 DEF Prepare
  <2>2. CASE item' = [item EXCEPT ![w] =
                        [d \in Events |-> IF d \in Batch(w) THEN "retry" ELSE "none"]]
    BY <2>2 DEF Prepare, IInv, TypeOK
  <2> QED BY <2>1, <2>2 DEF Prepare
<1>1. TypeOK'
  BY <1>a, <1>b DEF IInv, TypeOK, rows
<1>2. HoldersInRound'
  BY <1>a, <1>b DEF IInv, TypeOK, rows, HoldersInRound
<1>3. OneHolder'
  BY <1>a DEF IInv, OneHolder
<1>4. LeaseOutlivesRound'
  BY <1>a DEF IInv, rows, LeaseOutlivesRound, Owns
<1>5. OutcomesTrue'
  BY <1>a, <1>b DEF IInv, OutcomesTrue
<1>6. SettledForCause'
  BY <1>a, <1>b DEF IInv, rows, SettledForCause
<1>7. AttemptsLeft'
  BY <1>a DEF IInv, rows, AttemptsLeft, Owned, Owns
<1>8. AttemptsBounded'
  BY <1>a DEF IInv, rows, AttemptsBounded
<1> QED BY <1>1, <1>2, <1>3, <1>4, <1>5, <1>6, <1>7, <1>8 DEF IInv

\* Only the progress of one event changes.
LEMMA StartPublishStep ==
    ASSUME NEW w \in Workers, NEW e \in Events, IInv, StartPublish(w, e)
    PROVE  IInv'
<1>1. TypeOK'
  BY DEF IInv, TypeOK, StartPublish, rows, Owns, Items, Outcomes
<1>2. HoldersInRound'
  BY DEF IInv, TypeOK, HoldersInRound, StartPublish, rows, Owns, Outcomes,
     Items
<1>3. OneHolder'
  BY DEF IInv, TypeOK, OneHolder, StartPublish, rows, Owns, Items
<1>4. LeaseOutlivesRound'
  BY DEF IInv, TypeOK, LeaseOutlivesRound, StartPublish, rows, Owns,
     HoldersInRound, OneHolder
<1>5. OutcomesTrue'
  BY DEF IInv, TypeOK, OutcomesTrue, StartPublish, rows, Owns
<1>6. SettledForCause'
  BY DEF IInv, TypeOK, SettledForCause, StartPublish, rows, Owns,
     OutcomesTrue, HoldersInRound
<1>7. AttemptsLeft'
  BY DEF IInv, TypeOK, AttemptsLeft, StartPublish, rows, Owns, Owned,
     HoldersInRound, OneHolder, AttemptsBounded
<1>8. AttemptsBounded'
  BY DEF IInv, TypeOK, AttemptsBounded, StartPublish, rows, Owns, AttemptsLeft
<1> QED BY <1>1, <1>2, <1>3, <1>4, <1>5, <1>6, <1>7, <1>8 DEF IInv

\* An outcome is recorded; a success is a delivery, a permanent failure a bad payload.
LEMMA FinishPublishStep ==
    ASSUME NEW w \in Workers, NEW e \in Events, IInv, FinishPublish(w, e)
    PROVE  IInv'
<1>a. /\ UNCHANGED rows /\ UNCHANGED <<left, held, faults>>
      /\ item' \in [Workers -> [Events -> Items]]
      /\ \A v \in Workers, d \in Events : item'[v][d] = "none" <=> item[v][d] = "none"
  <2>1. \E o \in Outcomes : item' = [item EXCEPT ![w][e] = o]
    BY DEF FinishPublish, Outcomes
  <2>2. item[w][e] = "sending"
    BY DEF FinishPublish
  <2>3. UNCHANGED rows /\ UNCHANGED <<left, held, faults>>
    BY DEF FinishPublish
  <2> QED BY <2>1, <2>2, <2>3 DEF IInv, TypeOK, Items, Outcomes
<1>b. /\ UNCHANGED phase /\ delivered \subseteq delivered' /\ delivered' \subseteq Events
      /\ \A v \in Workers, d \in Events : item'[v][d] # item[v][d] =>
            /\ v = w /\ d = e
            /\ item'[v][d] = "ok" => e \in delivered'
            /\ item'[v][d] = "permanent" => e \in Malformed
  <2>1. UNCHANGED phase
    BY DEF FinishPublish
  <2>2. CASE e \in Malformed
    BY <2>1, <2>2 DEF FinishPublish, IInv, TypeOK
  <2>3. CASE /\ item' = [item EXCEPT ![w][e] = "ok"]
             /\ delivered' = delivered \cup {e}
    BY <2>1, <2>3 DEF IInv, TypeOK
  <2>4. CASE item' = [item EXCEPT ![w][e] = "retry"] /\ UNCHANGED delivered
    BY <2>1, <2>4 DEF IInv, TypeOK
  <2> QED BY <2>2, <2>3, <2>4 DEF FinishPublish
<1>1. TypeOK'
  BY <1>a, <1>b DEF IInv, TypeOK, rows
<1>2. HoldersInRound'
  BY <1>a, <1>b DEF IInv, TypeOK, rows, HoldersInRound
<1>3. OneHolder'
  BY <1>a DEF IInv, OneHolder
<1>4. LeaseOutlivesRound'
  BY <1>a DEF IInv, rows, LeaseOutlivesRound, Owns
<1>5. OutcomesTrue'
  BY <1>a, <1>b DEF IInv, OutcomesTrue
<1>6. SettledForCause'
  BY <1>a, <1>b DEF IInv, rows, SettledForCause
<1>7. AttemptsLeft'
  BY <1>a DEF IInv, rows, AttemptsLeft, Owned, Owns
<1>8. AttemptsBounded'
  BY <1>a DEF IInv, rows, AttemptsBounded
<1> QED BY <1>1, <1>2, <1>3, <1>4, <1>5, <1>6, <1>7, <1>8 DEF IInv

\* The rows marked are those of successes whose token still matches.
LEMMA MarkPublishedStep ==
    ASSUME NEW w \in Workers, IInv, MarkPublished(w)
    PROVE  IInv'
<1> DEFINE S == {e \in Having(w, "ok") : Owns(w, e)}
<1>a. /\ phase[w] = "deliver" /\ phase' = [phase EXCEPT ![w] = "fail"]
      /\ item' = [item EXCEPT ![w] =
            [e \in Events |-> IF item[w][e] = "ok" THEN "none" ELSE item[w][e]]]
      /\ UNCHANGED <<attempts, wait, left, held, delivered>>
  BY DEF MarkPublished, markPublishedBatch, rows
<1>b. \A v \in Workers, d \in Events :
         item'[v][d] = IF v = w /\ item[w][d] = "ok" THEN "none" ELSE item[v][d]
  BY <1>a DEF IInv, TypeOK
<1>c. PICK T \in {S, {}} :
         /\ status' = [e \in Events |-> IF e \in T THEN "published" ELSE status[e]]
         /\ lease' = [e \in Events |-> IF e \in T THEN 0 ELSE lease[e]]
         /\ token' = [e \in Events |-> IF e \in T THEN 0 ELSE token[e]]
         /\ \/ T = S /\ faults' = faults
            \/ T = {} /\ faults' = faults + 1 /\ faults' \in 0..MaxFaults
  <2>1. CASE markPublishedBatch(w) /\ UNCHANGED faults
    BY <2>1 DEF markPublishedBatch, Unlock
  <2>2. CASE UNCHANGED rows /\ Fault
    <3> WITNESS {} \in {S, {}}
    <3> QED BY <2>2 DEF rows, Fault, IInv, TypeOK
  <2> QED BY <2>1, <2>2 DEF MarkPublished
<1>d. \A e \in Events : e \in T => item[w][e] = "ok" /\ Owns(w, e)
  BY <1>c DEF Having
<1>e. faults' \in 0..MaxFaults /\ faults' >= faults /\ faults \in Nat
  BY <1>c DEF IInv, TypeOK
<1> HIDE DEF S
<1>1. TypeOK'
  <2>1. [e \in Events |-> IF item[w][e] = "ok" THEN "none" ELSE item[w][e]]
           \in [Events -> Items]
    BY DEF IInv, TypeOK, Items
  <2>2. item' \in [Workers -> [Events -> Items]]
    BY <1>a, <2>1 DEF IInv, TypeOK
  <2>3. /\ status' \in [Events -> {"pending", "published", "dead", "deleted"}]
        /\ lease' \in [Events -> 0..LeaseDuration] /\ token' \in [Events -> Nat]
        /\ \A e \in Events : token'[e] \in {0, attempts'[e]}
    BY <1>a, <1>c DEF IInv, TypeOK
  <2> QED BY <1>a, <1>e, <2>2, <2>3 DEF IInv, TypeOK
<1>2. HoldersInRound'
  BY <1>a, <1>b DEF IInv, TypeOK, HoldersInRound
<1>3. OneHolder'
  BY <1>a, <1>b DEF IInv, OneHolder
<1>4. LeaseOutlivesRound'
  <2> SUFFICES ASSUME NEW v \in Workers, NEW d \in Events,
                      item'[v][d] # "none", left'[v] > 0
               PROVE  Owns(v, d)' /\ lease'[d] > left'[v]
    BY DEF LeaseOutlivesRound
  <2>1. /\ item[v][d] # "none" /\ Owns(v, d) /\ lease[d] > left[v]
        /\ v = w => item[v][d] # "ok"
    BY <1>a, <1>b DEF IInv, LeaseOutlivesRound
  <2>2. d \notin T
    BY <2>1, <1>d DEF IInv, OneHolder, Owns
  <2> QED BY <2>1, <2>2, <1>a, <1>c DEF Owns
<1>5. OutcomesTrue'
  BY <1>a, <1>b DEF IInv, OutcomesTrue
<1>6. SettledForCause'
  BY <1>a, <1>c, <1>d DEF IInv, TypeOK, SettledForCause, OutcomesTrue
<1>7. AttemptsLeft'
  <2> SUFFICES ASSUME NEW d \in Events, status'[d] = "pending",
                      lease'[d] = 0 \/ ~Owned(d)'
               PROVE  attempts'[d] < MaxAttempts + faults'
    BY DEF AttemptsLeft
  <2>1. /\ d \notin T /\ status[d] = "pending" /\ lease'[d] = lease[d]
        /\ token'[d] = token[d]
    BY <1>c
  <2>2. CASE faults' = faults + 1
    BY <2>2, <1>a, <1>e DEF IInv, TypeOK, AttemptsBounded
  <2>3. CASE T = S /\ faults' = faults
    <3>1. ASSUME Owned(d) PROVE Owned(d)'
      <4>1. PICK v \in Workers : item[v][d] # "none" /\ Owns(v, d)
        BY <3>1 DEF Owned
      <4>2. ~(v = w /\ item[w][d] = "ok")
        BY <2>1, <2>3, <4>1 DEF S, Having
      <4> QED BY <2>1, <4>1, <4>2, <1>a, <1>b DEF Owned, Owns
    <3> QED BY <2>1, <2>3, <3>1, <1>a DEF IInv, AttemptsLeft
  <2> QED BY <2>2, <2>3, <1>c
<1>8. AttemptsBounded'
  BY <1>a, <1>e DEF IInv, TypeOK, AttemptsBounded
<1> QED BY <1>1, <1>2, <1>3, <1>4, <1>5, <1>6, <1>7, <1>8 DEF IInv

\* A failure is recorded only on the row of the current claim.
LEMMA MarkFailedStep ==
    ASSUME NEW w \in Workers, NEW e \in Events, IInv, MarkFailed(w, e)
    PROVE  IInv'
<1>1. TypeOK'
  <2>1. /\ item' \in [Workers -> [Events -> Items]]
        /\ UNCHANGED <<phase, left, held, delivered>>
    BY DEF MarkFailed, IInv, TypeOK, Items
  <2>2. CASE markFailed(w, e) /\ UNCHANGED faults
    <3>1. /\ status' \in [Events -> {"pending", "published", "dead", "deleted"}]
          /\ lease' \in [Events -> 0..LeaseDuration] /\ token' \in [Events -> Nat]
          /\ attempts' = attempts
          /\ \A d \in Events : token'[d] \in {0, attempts[d]}
      <4>1. attempts' = attempts
        BY <2>2 DEF markFailed
      <4>2. status' \in [Events -> {"pending", "published", "dead", "deleted"}]
        BY <2>2 DEF markFailed, IInv, TypeOK
      <4>3. /\ lease' \in [Events -> 0..LeaseDuration] /\ token' \in [Events -> Nat]
            /\ \A d \in Events : token'[d] \in {0, attempts[d]}
        BY <2>2 DEF markFailed, Unlock, IInv, TypeOK
      <4> QED BY <4>1, <4>2, <4>3
    <3>2. wait' \in [Events -> Nat]
      <4>1. held[w][e] \in Nat \ {0}
        <5>1. held[w][e] \in 1..attempts[e] /\ attempts[e] \in Nat
          BY DEF MarkFailed, IInv, TypeOK, HoldersInRound
        <5> QED BY <5>1
      <4>2. CASE UNCHANGED wait
        BY <4>2 DEF IInv, TypeOK
      <4>3. CASE /\ held[w][e] < MaxAttempts
                 /\ \E n \in RetryDelay[held[w][e]] : wait' = [wait EXCEPT ![e] = n]
        <5>1. RetryDelay[held[w][e]] \subseteq Nat
          BY <4>1, <4>3
        <5> QED BY <4>3, <5>1 DEF IInv, TypeOK
      <4> QED BY <2>2, <4>2, <4>3 DEF markFailed
    <3> QED BY <2>1, <2>2, <3>1, <3>2 DEF IInv, TypeOK
  <2>3. CASE UNCHANGED <<rows, faults>>
    BY <2>1, <2>3 DEF rows, IInv, TypeOK
  <2>4. CASE UNCHANGED rows /\ Fault
    BY <2>1, <2>4 DEF rows, Fault, IInv, TypeOK
  <2> QED BY <2>2, <2>3, <2>4 DEF MarkFailed
<1>2. HoldersInRound'
  BY DEF IInv, TypeOK, HoldersInRound, MarkFailed, rows, Owns, Outcomes,
     Items, markFailed, Unlock, Fault
<1>3. OneHolder'
  BY DEF IInv, TypeOK, OneHolder, MarkFailed, rows, Owns, Items, markFailed,
     Unlock, Fault
<1>4. LeaseOutlivesRound'
  BY DEF IInv, TypeOK, LeaseOutlivesRound, MarkFailed, rows, Owns,
     HoldersInRound, OneHolder, markFailed, Unlock, Fault
<1>5. OutcomesTrue'
  BY DEF IInv, TypeOK, OutcomesTrue, MarkFailed, rows, Owns, markFailed,
     Unlock, Fault
<1>6. SettledForCause'
  BY DEF IInv, TypeOK, SettledForCause, MarkFailed, rows, Owns, OutcomesTrue,
     HoldersInRound, markFailed, Unlock, Fault
<1>7. AttemptsLeft'
  <2> SUFFICES ASSUME NEW d \in Events, status'[d] = "pending",
                      lease'[d] = 0 \/ ~Owned(d)'
               PROVE  attempts'[d] < MaxAttempts + faults'
    BY DEF AttemptsLeft
  <2>1. /\ item' = [item EXCEPT ![w][e] = "none"] /\ held' = held
        /\ attempts' = attempts /\ faults \in Nat
    BY DEF MarkFailed, markFailed, rows, IInv, TypeOK
  <2>2. CASE markFailed(w, e) /\ UNCHANGED faults
    <3>1. CASE d = e
      BY <2>1, <2>2, <3>1
      DEF markFailed, Owns, MarkFailed, IInv, TypeOK, HoldersInRound
    <3>2. CASE d # e
      <4>1. /\ status[d] = "pending" /\ lease'[d] = lease[d] /\ token'[d] = token[d]
            /\ status'[d] = status[d]
        BY <2>2, <3>2 DEF markFailed, Unlock, IInv, TypeOK
      <4>2. Owned(d) => Owned(d)'
        BY <2>1, <3>2, <4>1 DEF Owned, Owns, IInv, TypeOK
      <4> QED BY <2>1, <2>2, <4>1, <4>2 DEF IInv, AttemptsLeft
    <3> QED BY <3>1, <3>2
  <2>3. CASE ~Owns(w, e) /\ UNCHANGED <<rows, faults>>
    <3>1. Owned(d) => Owned(d)'
      BY <2>1, <2>3 DEF rows, Owned, Owns, IInv, TypeOK
    <3> QED BY <2>3, <3>1 DEF rows, IInv, AttemptsLeft
  <2>4. CASE UNCHANGED rows /\ Fault
    BY <2>1, <2>4 DEF rows, Fault, IInv, TypeOK, AttemptsBounded
  <2> QED BY <2>2, <2>3, <2>4 DEF MarkFailed
<1>8. AttemptsBounded'
  BY DEF IInv, TypeOK, AttemptsBounded, MarkFailed, rows, Owns, AttemptsLeft,
     markFailed, Unlock, Fault
<1> QED BY <1>1, <1>2, <1>3, <1>4, <1>5, <1>6, <1>7, <1>8 DEF IInv

\* The batch is empty.
LEMMA EndRoundStep ==
    ASSUME NEW w \in Workers, IInv, EndRound(w)
    PROVE  IInv'
<1>1. TypeOK'
  BY DEF IInv, TypeOK, EndRound, rows, Owns, Items, Outcomes, FinishRound,
     Batch
<1>2. HoldersInRound'
  BY DEF IInv, TypeOK, HoldersInRound, EndRound, rows, Owns, Outcomes, Items,
     FinishRound, Batch
<1>3. OneHolder'
  BY DEF IInv, TypeOK, OneHolder, EndRound, rows, Owns, Items, FinishRound,
     Batch
<1>4. LeaseOutlivesRound'
  BY DEF IInv, TypeOK, LeaseOutlivesRound, EndRound, rows, Owns,
     HoldersInRound, OneHolder, FinishRound, Batch
<1>5. OutcomesTrue'
  BY DEF IInv, TypeOK, OutcomesTrue, EndRound, rows, Owns, FinishRound, Batch
<1>6. SettledForCause'
  BY DEF IInv, TypeOK, SettledForCause, EndRound, rows, Owns, OutcomesTrue,
     HoldersInRound, FinishRound, Batch
<1>7. AttemptsLeft'
  BY DEF IInv, TypeOK, AttemptsLeft, EndRound, rows, Owns, Owned,
     HoldersInRound, OneHolder, AttemptsBounded, FinishRound, Batch
<1>8. AttemptsBounded'
  BY DEF IInv, TypeOK, AttemptsBounded, EndRound, rows, Owns, AttemptsLeft,
     FinishRound, Batch
<1> QED BY <1>1, <1>2, <1>3, <1>4, <1>5, <1>6, <1>7, <1>8 DEF IInv

\* What the dead worker held is paid for by the fault.
LEMMA CrashStep ==
    ASSUME NEW w \in Workers, IInv, Crash(w)
    PROVE  IInv'
<1>1. TypeOK'
  BY DEF IInv, TypeOK, Crash, rows, Owns, Items, Outcomes, Fault
<1>2. HoldersInRound'
  BY DEF IInv, TypeOK, HoldersInRound, Crash, rows, Owns, Outcomes, Items,
     Fault
<1>3. OneHolder'
  BY DEF IInv, TypeOK, OneHolder, Crash, rows, Owns, Items, Fault
<1>4. LeaseOutlivesRound'
  BY DEF IInv, TypeOK, LeaseOutlivesRound, Crash, rows, Owns, HoldersInRound,
     OneHolder, Fault
<1>5. OutcomesTrue'
  BY DEF IInv, TypeOK, OutcomesTrue, Crash, rows, Owns, Fault
<1>6. SettledForCause'
  BY DEF IInv, TypeOK, SettledForCause, Crash, rows, Owns, OutcomesTrue,
     HoldersInRound, Fault
<1>7. AttemptsLeft'
  BY DEF IInv, TypeOK, AttemptsLeft, Crash, rows, Owns, Owned,
     HoldersInRound, OneHolder, AttemptsBounded, Fault
<1>8. AttemptsBounded'
  BY DEF IInv, TypeOK, AttemptsBounded, Crash, rows, Owns, AttemptsLeft, Fault
<1> QED BY <1>1, <1>2, <1>3, <1>4, <1>5, <1>6, <1>7, <1>8 DEF IInv

\* Only a published row is removed.
LEMMA CleanupPublishedStep ==
    ASSUME NEW e \in Events, IInv, cleanupPublished(e)
    PROVE  IInv'
<1>1. TypeOK'
  BY DEF IInv, TypeOK, cleanupPublished, rows, Owns, Items, Outcomes
<1>2. HoldersInRound'
  BY DEF IInv, TypeOK, HoldersInRound, cleanupPublished, rows, Owns,
     Outcomes, Items
<1>3. OneHolder'
  BY DEF IInv, TypeOK, OneHolder, cleanupPublished, rows, Owns, Items
<1>4. LeaseOutlivesRound'
  BY DEF IInv, TypeOK, LeaseOutlivesRound, cleanupPublished, rows, Owns,
     HoldersInRound, OneHolder
<1>5. OutcomesTrue'
  BY DEF IInv, TypeOK, OutcomesTrue, cleanupPublished, rows, Owns
<1>6. SettledForCause'
  BY DEF IInv, TypeOK, SettledForCause, cleanupPublished, rows, Owns,
     OutcomesTrue, HoldersInRound
<1>7. AttemptsLeft'
  BY DEF IInv, TypeOK, AttemptsLeft, cleanupPublished, rows, Owns, Owned,
     HoldersInRound, OneHolder, AttemptsBounded
<1>8. AttemptsBounded'
  BY DEF IInv, TypeOK, AttemptsBounded, cleanupPublished, rows, Owns,
     AttemptsLeft
<1> QED BY <1>1, <1>2, <1>3, <1>4, <1>5, <1>6, <1>7, <1>8 DEF IInv

\* Deadline and lease come nearer together; a lease that ends in use is a fault.
LEMMA TickStep ==
    ASSUME IInv, Tick
    PROVE  IInv'
<1>1. TypeOK'
  <2>1. /\ wait' \in [Events -> Nat] /\ left' \in [Workers -> Nat]
        /\ lease' \in [Events -> 0..LeaseDuration]
    BY DEF Tick, Less, IInv, TypeOK
  <2>2. faults' \in 0..MaxFaults
    BY DEF Tick, Fault, IInv, TypeOK
  <2>3. \A w \in Workers : left'[w] <= left[w]
    BY DEF Tick, Less, IInv, TypeOK
  <2> QED BY <2>1, <2>2, <2>3 DEF Tick, IInv, TypeOK
<1>2. HoldersInRound'
  BY DEF IInv, TypeOK, HoldersInRound, Tick, rows, Owns, Outcomes, Items,
     Less, TooSlow, Batch, Fault
<1>3. OneHolder'
  BY DEF IInv, TypeOK, OneHolder, Tick, rows, Owns, Items, Less, TooSlow,
     Batch, Fault
<1>4. LeaseOutlivesRound'
  BY DEF IInv, TypeOK, LeaseOutlivesRound, Tick, rows, Owns, HoldersInRound,
     OneHolder, Less, TooSlow, Batch, Fault
<1>5. OutcomesTrue'
  BY DEF IInv, TypeOK, OutcomesTrue, Tick, rows, Owns, Less, TooSlow, Batch,
     Fault
<1>6. SettledForCause'
  BY DEF IInv, TypeOK, SettledForCause, Tick, rows, Owns, OutcomesTrue,
     HoldersInRound, Less, TooSlow, Batch, Fault
<1>7. AttemptsLeft'
  BY DEF IInv, TypeOK, AttemptsLeft, Tick, rows, Owns, Owned, HoldersInRound,
     OneHolder, AttemptsBounded, Less, TooSlow, Batch, Fault
<1>8. AttemptsBounded'
  BY DEF IInv, TypeOK, AttemptsBounded, Tick, rows, Owns, AttemptsLeft, Less,
     TooSlow, Batch, Fault
<1> QED BY <1>1, <1>2, <1>3, <1>4, <1>5, <1>6, <1>7, <1>8 DEF IInv

\* Every step of the system preserves the invariant.
LEMMA NextStep == IInv /\ [Next]_vars => IInv'
<1> SUFFICES ASSUME IInv, [Next]_vars PROVE IInv'
  OBVIOUS
<1>1. ASSUME NEW w \in Workers, Run(w) PROVE IInv'
  BY <1>1, StartRoundStep, ClaimStep, ClaimExpiresStep, PrepareStep,
     StartPublishStep, FinishPublishStep, MarkPublishedStep, MarkFailedStep,
     EndRoundStep DEF Run
<1>2. ASSUME NEW w \in Workers, ClaimFails(w) \/ Crash(w) PROVE IInv'
  BY <1>2, ClaimFailsStep, CrashStep
<1>3. CASE UNCHANGED vars
  BY <1>3 DEF vars, rows, IInv, TypeOK, HoldersInRound, OneHolder,
     LeaseOutlivesRound, OutcomesTrue, SettledForCause, AttemptsLeft,
     AttemptsBounded, Owned, Owns
<1> QED BY <1>1, <1>2, <1>3, CleanupPublishedStep, TickStep DEF Next

\* No event is claimed at first.
LEMMA InitInvariant == Init => IInv
<1> SUFFICES ASSUME Init PROVE IInv
  OBVIOUS
<1>1. TypeOK
  BY DEF Init, TypeOK, Items
<1>2. HoldersInRound /\ OneHolder /\ LeaseOutlivesRound /\ OutcomesTrue
  BY DEF Init, HoldersInRound, OneHolder, LeaseOutlivesRound, OutcomesTrue
<1>3. SettledForCause /\ AttemptsLeft /\ AttemptsBounded
  BY DEF Init, SettledForCause, AttemptsLeft, AttemptsBounded
<1> QED BY <1>1, <1>2, <1>3 DEF IInv

\* The invariant of the claim - publish - mark cycle holds throughout.
THEOREM OutboxInvariant == Spec => []IInv
BY InitInvariant, NextStep, PTL DEF Spec

\* The rows and the workers keep their types, and a lock is always that of the
\* latest claim.
THEOREM OutboxTypes == Spec => []TypeOK
<1>1. IInv => TypeOK
  BY DEF IInv
<1> QED BY <1>1, OutboxInvariant, PTL

\* completeDeliveryBatch settles events only for cause: what is marked published
\* was delivered, what is dead is malformed or out of attempts.
THEOREM OutboxSettlesForCause == Spec => []SettledForCause
<1>1. IInv => SettledForCause
  BY DEF IInv
<1> QED BY <1>1, OutboxInvariant, PTL

\* An event is claimed at most MaxAttempts times plus once per fault.
THEOREM OutboxAttemptsBounded == Spec => []AttemptsBounded
<1>1. IInv => AttemptsBounded
  BY DEF IInv
<1> QED BY <1>1, OutboxInvariant, PTL

\* With AttemptTimeout < LeaseDuration, which newOutboxWorker insists on, no
\* Publish starts for an event whose lease has ended or was taken over.
THEOREM OutboxPublishesUnderLease == Spec => PublishStartsUnderLease
<1> DEFINE Safe == \A w \in Workers, e \in Events :
                      item[w][e] = "claimed" /\ item'[w][e] = "sending"
                          => Owns(w, e) /\ lease[e] > 0
<1>1. ASSUME IInv, [Next]_vars PROVE [Safe]_vars
  <2> SUFFICES ASSUME NEW w \in Workers, NEW e \in Events,
                      item[w][e] = "claimed", item'[w][e] = "sending", Next
               PROVE  Owns(w, e) /\ lease[e] > 0
    BY <1>1
  <2>0. /\ item \in [Workers -> [Events -> Items]]
        /\ item[w][e] = "claimed" /\ item'[w][e] = "sending"
    BY <1>1 DEF IInv, TypeOK
  <2>1. left[w] \in Nat /\ lease[e] \in Nat
    BY <1>1 DEF IInv, TypeOK
  <2>2. ASSUME left[w] > 0 PROVE Owns(w, e) /\ lease[e] > 0
    BY <1>1, <2>1, <2>2 DEF IInv, LeaseOutlivesRound
  <2>3. ASSUME NEW v \in Workers, Run(v) PROVE left[w] > 0
    <3>1. ASSUME NEW d \in Events, StartPublish(v, d) PROVE left[w] > 0
      BY <1>1, <2>1, <3>1 DEF StartPublish, IInv, TypeOK
    <3>2. ASSUME NEW d \in Events PROVE ~FinishPublish(v, d)
      <4>1. ASSUME FinishPublish(v, d)
            PROVE  \E o \in Outcomes : item' = [item EXCEPT ![v][d] = o]
        BY <4>1 DEF FinishPublish, Outcomes
      <4> QED BY <4>1, <2>0 DEF Outcomes
    <3>3. ASSUME NEW d \in Events PROVE ~MarkFailed(v, d)
      <4>1. ASSUME MarkFailed(v, d) PROVE item' = [item EXCEPT ![v][d] = "none"]
        BY <4>1 DEF MarkFailed
      <4> QED BY <4>1, <2>0
    <3>4. ~(StartRound(v) \/ ClaimExpires(v) \/ EndRound(v))
      BY DEF StartRound, ClaimExpires, EndRound
    <3>5. ASSUME Claim(v) \/ Prepare(v) \/ MarkPublished(v) PROVE FALSE
      <4>1. CASE Claim(v)
        <5>1. PICK S : item' = [item EXCEPT ![v] =
                         [d \in Events |-> IF d \in S THEN "claimed" ELSE "none"]]
          BY <4>1 DEF Claim
        <5> QED BY <5>1, <2>0
      <4>2. CASE Prepare(v)
        <5>1. CASE UNCHANGED item
          BY <5>1
        <5>2. CASE item' = [item EXCEPT ![v] =
                      [d \in Events |-> IF d \in Batch(v) THEN "retry" ELSE "none"]]
          BY <5>2, <2>0
        <5> QED BY <4>2, <5>1, <5>2 DEF Prepare
      <4>3. CASE MarkPublished(v)
        <5>1. item' = [item EXCEPT ![v] = [d \in Events |->
                         IF item[v][d] = "ok" THEN "none" ELSE item[v][d]]]
          BY <4>3 DEF MarkPublished
        <5> QED BY <5>1, <2>0
      <4> QED BY <3>5, <4>1, <4>2, <4>3
    <3> QED BY <2>3, <3>1, <3>2, <3>3, <3>4, <3>5 DEF Run
  <2>4. ASSUME NEW v \in Workers PROVE ~ClaimFails(v) /\ ~Crash(v)
    <3>1. ASSUME Crash(v) PROVE item' = [item EXCEPT ![v] = [d \in Events |-> "none"]]
      BY <3>1 DEF Crash
    <3> QED BY <3>1, <2>0 DEF ClaimFails
  <2>5. ~Tick /\ \A d \in Events : ~cleanupPublished(d)
    BY DEF Tick, cleanupPublished
  <2> QED BY <2>2, <2>3, <2>4, <2>5 DEF Next
<1> QED BY <1>1, OutboxInvariant, PTL DEF Spec, PublishStartsUnderLease

\* A worker whose lease was taken over settles nothing, and nothing settled
\* becomes pending again.
THEOREM OutboxSettledByOwner == Spec => SettledByOwner
<1> DEFINE
      Settles(e) ==
        \/ status[e] = "published" /\ status'[e] = "deleted"
        \/ /\ status[e] = "pending"
           /\ status'[e] = "published"
           /\ \E w \in Workers : Owns(w, e) /\ item[w][e] = "ok"
        \/ /\ status[e] = "pending"
           /\ status'[e] = "dead"
           /\ \E w \in Workers : Owns(w, e) /\ item[w][e] \in {"retry", "permanent"}
<1>1. ASSUME IInv, [Next]_vars
      PROVE  [\A e \in Events : status[e] # status'[e] => Settles(e)]_vars
  <2> SUFFICES ASSUME NEW e \in Events, status[e] # status'[e], Next
               PROVE  Settles(e)
    BY <1>1
  <2>1. ASSUME NEW w \in Workers, Run(w) PROVE Settles(e)
    <3>1. CASE MarkPublished(w)
      BY <1>1, <2>1, <3>1 DEF MarkPublished, markPublishedBatch, Having, rows, Owns,
                         IInv, TypeOK
    <3>2. CASE \E d \in Events : MarkFailed(w, d)
      BY <1>1, <3>2 DEF MarkFailed, markFailed, rows, Owns, IInv, TypeOK
    <3>3. ~(\E d \in Events : StartPublish(w, d) \/ FinishPublish(w, d))
      BY DEF StartPublish, FinishPublish, rows
    <3>4. ~(StartRound(w) \/ ClaimExpires(w) \/ Prepare(w) \/ EndRound(w))
      BY DEF StartRound, ClaimExpires, Prepare, EndRound, rows
    <3>5. ~Claim(w)
      BY DEF Claim, LockRows
    <3> QED BY <2>1, <3>1, <3>2, <3>3, <3>4, <3>5 DEF Run
  <2>2. ASSUME NEW w \in Workers PROVE ~ClaimFails(w) /\ ~Crash(w)
    BY DEF ClaimFails, Crash, LockRows, rows
  <2>3. ASSUME NEW d \in Events, cleanupPublished(d) PROVE Settles(e)
    BY <1>1, <2>3 DEF cleanupPublished, IInv, TypeOK
  <2>4. ~Tick
    BY DEF Tick
  <2> QED BY <2>1, <2>2, <2>3, <2>4 DEF Next
<1> QED BY <1>1, OutboxInvariant, PTL DEF Spec, SettledByOwner
=============================================================================
