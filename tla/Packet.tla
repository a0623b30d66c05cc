------------------------------- MODULE Packet -------------------------------
(***************************************************************************)
(* Claims of the shares of one packet.  A claim is a transaction that      *)
(* locks the packet, returns the user's credit if there is one, and        *)
(* otherwise takes the first free slot and stores the credit together with *)
(* the intent to deliver it.  Deliveries apply a credit at its receiver    *)
(* and then delete the intent.  Anything may fail or die between two       *)
(* statements, and the answer to a COMMIT may get lost; both are tried     *)
(* again.                                                                  *)
(***************************************************************************)
EXTENDS Integers, FiniteSetsExt

CONSTANTS
    PacketUsers,    \* who claims
    Claims,         \* concurrent calls of Claim
    Deliveries,     \* concurrent calls of Deliver
    Total,          \* the amount of the packet
    Shares,         \* the number of its slots
    Nobody

ASSUME PacketAssumption ==
    /\ Shares \in Nat \ {0} /\ Total \in Nat /\ Total >= Shares
    /\ Nobody \notin PacketUsers \cup Claims
    /\ IsFiniteSet(PacketUsers)

VARIABLES
    slots,          \* packet_slots.claimed_by
    credits,        \* packet_credits: the slot of a user, or -1
    intents,        \* credit_outbox
    received,       \* received_credits: the amount applied for a user
    packetLock,     \* the claim that holds the row of the packet
    claim,          \* the calls of Claim
    answers,        \* receipts that were returned: <<user, slot>>
    delivery        \* the calls of Deliver

packetVars == <<slots, credits, intents, received, packetLock, claim, answers, delivery>>

Slots == 0 .. Shares - 1
NoSlot == -1

ClaimSteps == {"idle", "lock", "find", "slot", "insert", "commit"}
NoClaim == [step |-> "idle", user |-> Nobody, slot |-> NoSlot]
NoDelivery == [step |-> "idle", user |-> Nobody]
-----------------------------------------------------------------------------
\* Create: the remainder goes to the first slots.
Amount(n) == Total \div Shares + (IF n < Total % Shares THEN 1 ELSE 0)

PacketInit ==
    /\ slots = [n \in Slots |-> Nobody]
    /\ credits = [u \in PacketUsers |-> NoSlot]
    /\ intents = {} /\ answers = {}
    /\ received = [u \in PacketUsers |-> 0]
    /\ packetLock = Nobody
    /\ claim = [c \in Claims |-> NoClaim]
    /\ delivery = [d \in Deliveries |-> NoDelivery]

StartClaim(c, u) ==
    /\ claim[c].step = "idle"
    /\ claim' = [claim EXCEPT ![c] = [NoClaim EXCEPT !.step = "lock", !.user = u]]
    /\ UNCHANGED <<slots, credits, intents, received, packetLock, answers, delivery>>

\* SELECT ... FOR UPDATE waits for the transaction that holds the row.
LockPacket(c) ==
    /\ claim[c].step = "lock"
    /\ packetLock = Nobody /\ packetLock' = c
    /\ claim' = [claim EXCEPT ![c].step = "find"]
    /\ UNCHANGED <<slots, credits, intents, received, answers, delivery>>

\* The transaction ends; the receipt may not reach the caller.
EndClaim(c) ==
    /\ claim' = [claim EXCEPT ![c] = NoClaim]
    /\ packetLock' = IF packetLock = c THEN Nobody ELSE packetLock

\* An existing credit is the answer.
FindCredit(c) ==
    LET u == claim[c].user
    IN  /\ claim[c].step = "find"
        /\ IF credits[u] = NoSlot
             THEN /\ claim' = [claim EXCEPT ![c].step = "slot"]
                  /\ UNCHANGED <<packetLock, answers>>
             ELSE answers' = answers \cup {<<u, credits[u]>>} /\ EndClaim(c)
        /\ UNCHANGED <<slots, credits, intents, received, delivery>>

\* The first free slot, or ErrExhausted.
ClaimSlot(c) ==
    LET free == {n \in Slots : slots[n] = Nobody}
    IN  /\ claim[c].step = "slot"
        /\ IF free = {} THEN EndClaim(c)
           ELSE /\ claim' = [claim EXCEPT ![c].step = "insert", ![c].slot = Min(free)]
                /\ UNCHANGED packetLock
        /\ UNCHANGED <<slots, credits, intents, received, answers, delivery>>

\* INSERT INTO packet_credits and credit_outbox: unique per user and slot.
InsertCredit(c) ==
    /\ claim[c].step = "insert"
    /\ IF credits[claim[c].user] = NoSlot
         THEN claim' = [claim EXCEPT ![c].step = "commit"] /\ UNCHANGED packetLock
         ELSE EndClaim(c)
    /\ UNCHANGED <<slots, credits, intents, received, answers, delivery>>

CommitClaim(c) ==
    LET u == claim[c].user
    IN  /\ claim[c].step = "commit"
        /\ slots' = [slots EXCEPT ![claim[c].slot] = u]
        /\ credits' = [credits EXCEPT ![u] = claim[c].slot]
        /\ intents' = intents \cup {u}
        /\ answers' \in {answers, answers \cup {<<u, claim[c].slot>>}}
        /\ EndClaim(c)
        /\ UNCHANGED <<received, delivery>>

\* A statement fails or the process dies: the transaction is rolled back.
RollbackClaim(c) ==
    /\ claim[c].step # "idle"
    /\ EndClaim(c)
    /\ UNCHANGED <<slots, credits, intents, received, answers, delivery>>

\* Deliver is called for a credit, perhaps one that has been delivered already.
\* (Before the claim has committed nobody knows of it; called then, the DELETE
\* could remove an intent that the INSERT has not seen.)
StartDelivery(d, u) ==
    /\ delivery[d].step = "idle" /\ credits[u] # NoSlot
    /\ delivery' = [delivery EXCEPT ![d] = [step |-> "insert", user |-> u]]
    /\ UNCHANGED <<slots, credits, intents, received, packetLock, claim, answers>>

\* (faulty: without the unique key of the receiver)
ReceiveAgain(d) ==
    LET u == delivery[d].user
    IN  /\ delivery[d].step = "insert"
        /\ received' = IF u \in intents
                         THEN [received EXCEPT ![u] = @ + Amount(credits[u])] ELSE received
        /\ delivery' = [delivery EXCEPT ![d].step = "delete"]
        /\ UNCHANGED <<slots, credits, intents, packetLock, claim, answers>>

\* INSERT INTO received_credits ... ON CONFLICT DO NOTHING
ReceiveCredit(d) ==
    LET u == delivery[d].user
    IN  /\ delivery[d].step = "insert"
        /\ received' = IF u \in intents /\ received[u] = 0
                         THEN [received EXCEPT ![u] = Amount(credits[u])] ELSE received
        /\ delivery' = [delivery EXCEPT ![d].step = "delete"]
        /\ UNCHANGED <<slots, credits, intents, packetLock, claim, answers>>

\* DELETE FROM credit_outbox
DeleteIntent(d) ==
    /\ delivery[d].step = "delete"
    /\ intents' = intents \ {delivery[d].user}
    /\ delivery' = [delivery EXCEPT ![d] = NoDelivery]
    /\ UNCHANGED <<slots, credits, received, packetLock, claim, answers>>

\* A delivery fails or dies between its statements.
AbandonDelivery(d) ==
    /\ delivery[d].step # "idle"
    /\ delivery' = [delivery EXCEPT ![d] = NoDelivery]
    /\ UNCHANGED <<slots, credits, intents, received, packetLock, claim, answers>>

PacketNext ==
    \/ \E c \in Claims :
        \/ \E u \in PacketUsers : StartClaim(c, u)
        \/ LockPacket(c) \/ FindCredit(c) \/ ClaimSlot(c) \/ InsertCredit(c)
        \/ CommitClaim(c) \/ RollbackClaim(c)
    \/ \E d \in Deliveries :
        \/ \E u \in PacketUsers : StartDelivery(d, u)
        \/ ReceiveCredit(d) \/ DeleteIntent(d) \/ AbandonDelivery(d)

PacketSpec == PacketInit /\ [][PacketNext]_packetVars
-----------------------------------------------------------------------------
(* Properties                                                              *)

\* A slot belongs to the user whose credit it is.
SlotsAreCredits ==
    \A n \in Slots, u \in PacketUsers : slots[n] = u <=> credits[u] = n

\* A receipt once returned is the user's only credit.
ReceiptsStand == \A a \in answers : credits[a[1]] = a[2]

\* What a credit is worth is either received, once, or still to be delivered.
PaidOnce ==
    \A u \in PacketUsers :
        IF credits[u] = NoSlot THEN received[u] = 0
        ELSE \/ received[u] = Amount(credits[u])
             \/ received[u] = 0 /\ u \in intents

\* Free slots and credits add up to the packet.
AddsUp ==
    Total = MapThenSumSet(Amount, {n \in Slots : slots[n] = Nobody})
              + MapThenSumSet(LAMBDA u : Amount(credits[u]),
                              {u \in PacketUsers : credits[u] # NoSlot})

\* No share is paid twice and none is lost, whatever is retried or dies: slots
\* and credits agree, receipts stand, every credit is paid once, and nothing is
\* missing from the amount of the packet (Create, Claim, Deliver).
PacketConserved == SlotsAreCredits /\ ReceiptsStand /\ PaidOnce /\ AddsUp
-----------------------------------------------------------------------------
(* The inductive invariant (AddsUp follows from it)                        *)

PacketTypeOK ==
    /\ slots \in [Slots -> PacketUsers \cup {Nobody}]
    /\ credits \in [PacketUsers -> Slots \cup {NoSlot}]
    /\ intents \in SUBSET PacketUsers
    /\ received \in [PacketUsers -> Nat]
    /\ packetLock \in Claims \cup {Nobody}
    /\ claim \in [Claims -> [step : ClaimSteps, user : PacketUsers \cup {Nobody},
                             slot : Slots \cup {NoSlot}]]
    /\ answers \in SUBSET (PacketUsers \X Slots)
    /\ delivery \in [Deliveries -> [step : {"idle", "insert", "delete"},
                                    user : PacketUsers \cup {Nobody}]]

\* A claim past its first statement holds the row of the packet, and what it
\* has read under the lock still holds.
ClaimsUnderLock ==
    \A c \in Claims :
        /\ claim[c].step # "idle" => claim[c].user \in PacketUsers
        /\ claim[c].step \in {"find", "slot", "insert", "commit"} => packetLock = c
        /\ claim[c].step \in {"slot", "insert", "commit"} => credits[claim[c].user] = NoSlot
        /\ claim[c].step \in {"insert", "commit"} =>
               claim[c].slot \in Slots /\ slots[claim[c].slot] = Nobody

\* An intent is deleted only after its credit has been received.
DeliveredFirst ==
    \A d \in Deliveries : LET u == delivery[d].user IN
        /\ delivery[d].step # "idle" => u \in PacketUsers /\ credits[u] # NoSlot
        /\ delivery[d].step = "delete" => received[u] = Amount(credits[u])

PacketInv ==
    /\ PacketTypeOK /\ ClaimsUnderLock /\ DeliveredFirst
    /\ SlotsAreCredits /\ ReceiptsStand /\ PaidOnce
=============================================================================
