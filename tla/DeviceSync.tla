----------------------------- MODULE DeviceSync -----------------------------
(***************************************************************************)
(* One device following one conversation: the headless client applies      *)
(* realtime messages and pages of the sync API to its durable state and    *)
(* acknowledges its cursor; the server serves the pages and stores the     *)
(* acknowledged cursor of the device.                                      *)
(*                                                                         *)
(* A message is its conversation_seq: the store appends messages with the  *)
(* numbers 1..last_seq and never changes one (MessageStore).  Realtime     *)
(* delivery may lose, repeat and reorder messages: any committed message   *)
(* may arrive at any time.  Sync, flushes and realtime run concurrently;   *)
(* each update of the state file is atomic (FileStore.Update).             *)
(***************************************************************************)
EXTENDS Integers

CONSTANTS
    MaxSeq,         \* bound on the messages of the conversation
    PageLimit,      \* the limit parameter of SyncConversation
    Flushers,       \* concurrent calls of FlushACK
    MaxFailures     \* bound on failed calls and client restarts

ASSUME DeviceSyncAssumption ==
    /\ MaxSeq \in Nat \ {0}
    /\ PageLimit \in Nat \ {0}
    /\ MaxFailures \in Nat

VARIABLES
    last_seq,       \* of the conversation, at the server
    applied_seq,    \* of the device, at the server (device_conversation_sync_states)
    stored,         \* Messages of the client's state file
    applied,        \* AppliedCursor of the client's state file
    pending,        \* PendingACK of the client's state file
    acked,          \* AckedCursor of the client's state file
    sync,           \* the running SyncConversation
    flush,          \* the running FlushACK calls
    failures        \* failures so far

server == <<last_seq, applied_seq>>
file == <<stored, applied, pending, acked>>
vars == <<server, file, sync, flush, failures>>

Lesser(a, b) == IF a <= b THEN a ELSE b
Larger(a, b) == IF a >= b THEN a ELSE b

Failure == failures < MaxFailures /\ failures' = failures + 1
-----------------------------------------------------------------------------
(* The conversation grows: a send commits.                                 *)

Send ==
    /\ last_seq < MaxSeq
    /\ last_seq' = last_seq + 1
    /\ UNCHANGED <<applied_seq, file, sync, flush, failures>>
-----------------------------------------------------------------------------
(* The client's state file                                                 *)

Duplicate(s) == s <= applied /\ s \in stored

\* The errors of applyMessage: a gap, or a cursor at odds with the file.
Rejected(s) == s # applied + 1 /\ ~Duplicate(s)

\* (faulty: a gap is skipped)
applyAcrossGap(s) ==
    IF s > applied
    THEN /\ stored' = stored \cup {s}
         /\ applied' = s
         /\ pending' = Larger(pending, s)
         /\ UNCHANGED acked
    ELSE UNCHANGED file

\* Only the next message changes the file: a duplicate is no error, the others
\* are rejected.
applyMessage(s) ==
    IF s = applied + 1
    THEN /\ stored' = stored \cup {s}
         /\ applied' = s
         /\ pending' = Larger(pending, s)
         /\ UNCHANGED acked
    ELSE UNCHANGED file

ApplyRealtime(s) ==
    /\ applyMessage(s)
    /\ UNCHANGED <<server, sync, flush, failures>>
-----------------------------------------------------------------------------
(* SyncConversation                                                        *)

NoSync == [at |-> "idle", snapshot |-> 0, after |-> 0, todo |-> 0, next |-> 0,
           more |-> FALSE]

Stop == sync' = NoSync

StartSync ==
    /\ sync.at = "idle"
    /\ last_seq > 0
    /\ sync' = [NoSync EXCEPT !.at = "ask"]
    /\ UNCHANGED <<server, file, flush, failures>>

\* The client reads its cursor and asks for the page after it.
AskPage ==
    /\ sync.at = "ask"
    /\ sync' = [sync EXCEPT !.at = "serve", !.after = applied]
    /\ UNCHANGED <<server, file, flush, failures>>

\* syncConversationMessages: the messages after .. snapshot, at most PageLimit.
PageOf(after, snapshot) ==
    [next |-> Larger(after, Lesser(snapshot, after + PageLimit)),
     more |-> snapshot > after + PageLimit]

\* (faulty: the newest messages of the snapshot, as the history API pages them)
ServeNewest ==
    /\ sync.at = "serve"
    /\ LET snapshot == IF sync.snapshot = 0 THEN last_seq ELSE sync.snapshot
       IN IF sync.after > last_seq \/ snapshot \notin sync.after..last_seq
          THEN Stop
          ELSE sync' = [at |-> "apply", snapshot |-> snapshot, after |-> sync.after,
                        todo |-> Larger(sync.after, snapshot - PageLimit) + 1,
                        next |-> snapshot, more |-> snapshot > sync.after + PageLimit]
    /\ UNCHANGED <<server, file, flush, failures>>

\* The first page fixes the snapshot.  A realtime message may have moved the
\* cursor past it since: then validateSnapshotCursor refuses the page.  (last_seq
\* and the messages are read by two queries; messages up to last_seq are
\* committed and never change, so one step stands for both.)
ServePage ==
    /\ sync.at = "serve"
    /\ LET snapshot == IF sync.snapshot = 0 THEN last_seq ELSE sync.snapshot
           page == PageOf(sync.after, snapshot)
       IN IF sync.after > last_seq \/ snapshot \notin sync.after..last_seq
          THEN Stop
          ELSE sync' = [at |-> "apply", snapshot |-> snapshot, after |-> sync.after,
                        todo |-> sync.after + 1, next |-> page.next, more |-> page.more]
    /\ UNCHANGED <<server, file, flush, failures>>

\* The messages of the page, one Update each; an error ends the call.
ApplyPage ==
    /\ sync.at = "apply"
    /\ sync.todo <= sync.next
    /\ applyMessage(sync.todo)
    /\ IF Rejected(sync.todo)
       THEN Stop
       ELSE sync' = [sync EXCEPT !.todo = @ + 1]
    /\ UNCHANGED <<server, flush, failures>>

\* The cursor must now be the page's; a realtime message may have passed it.
CheckPage ==
    /\ sync.at = "apply"
    /\ sync.todo > sync.next
    /\ IF applied = sync.next /\ sync.more
       THEN sync' = [sync EXCEPT !.at = "ask"]
       ELSE Stop
    /\ UNCHANGED <<server, file, flush, failures>>

\* A request or an update of the file fails.
SyncFails ==
    /\ sync.at # "idle"
    /\ Failure
    /\ Stop
    /\ UNCHANGED <<server, file, flush>>
-----------------------------------------------------------------------------
(* FlushACK and acknowledgeConversation                                    *)

NoFlush == [at |-> "idle", cursor |-> 0, answer |-> 0, waiting |-> FALSE]

\* (faulty: a single unacknowledged message does not count)
StartFlushOfTwo(f) ==
    /\ flush[f].at = "idle"
    /\ pending > acked + 1
    /\ flush' = [flush EXCEPT ![f] =
          [NoFlush EXCEPT !.at = "sent", !.cursor = pending, !.waiting = TRUE]]
    /\ UNCHANGED <<server, file, sync, failures>>

\* The client reads its pending cursor and sends it.
StartFlush(f) ==
    /\ flush[f].at = "idle"
    /\ pending > acked
    /\ flush' = [flush EXCEPT ![f] =
          [NoFlush EXCEPT !.at = "sent", !.cursor = pending, !.waiting = TRUE]]
    /\ UNCHANGED <<server, file, sync, failures>>

\* The server reads last_seq; a cursor beyond it is refused.
CheckAck(f) ==
    /\ flush[f].at = "sent"
    /\ flush' = [flush EXCEPT ![f] =
          IF flush[f].cursor > last_seq THEN NoFlush ELSE [@ EXCEPT !.at = "checked"]]
    /\ UNCHANGED <<server, file, sync, failures>>

\* The upsert; its RETURNING applied_seq is the answer.
StoreAck(f) ==
    /\ flush[f].at = "checked"
    /\ applied_seq' = Larger(applied_seq, flush[f].cursor)
    /\ flush' = [flush EXCEPT ![f] = [@ EXCEPT !.at = "stored", !.answer = applied_seq']]
    /\ UNCHANGED <<last_seq, file, sync, failures>>

\* (faulty: what was applied meanwhile is forgotten)
RecordAndReset(answer) ==
    /\ acked' = Larger(acked, answer)
    /\ pending' = 0

\* What the client makes of the answer.
Record(answer) ==
    /\ acked' = Larger(acked, answer)
    /\ pending' = IF pending <= answer THEN 0 ELSE pending

\* The answer arrives: the client records it, unless it no longer waits or the
\* answer is older than what it sent.
CommitAck(f) ==
    /\ flush[f].at = "stored"
    /\ flush' = [flush EXCEPT ![f] = NoFlush]
    /\ IF flush[f].waiting /\ flush[f].answer >= flush[f].cursor
       THEN Record(flush[f].answer)
       ELSE UNCHANGED <<acked, pending>>
    /\ UNCHANGED <<server, stored, applied, sync, failures>>

\* The call times out; the request may be lost or still reach the server.
AbandonFlush(f) ==
    /\ flush[f].at # "idle"
    /\ Failure
    /\ \/ flush' = [flush EXCEPT ![f].waiting = FALSE]
       \/ /\ flush[f].at = "sent"
          /\ flush' = [flush EXCEPT ![f] = NoFlush]
    /\ UNCHANGED <<server, file, sync>>

\* The client stops and starts again with its state file; requests under way
\* still reach the server.
Restart ==
    /\ Failure
    /\ Stop
    /\ flush' = [f \in Flushers |-> [flush[f] EXCEPT !.waiting = FALSE]]
    /\ UNCHANGED <<server, file>>
-----------------------------------------------------------------------------
Init ==
    /\ last_seq = 0
    /\ applied_seq = 0
    /\ stored = {}
    /\ applied = 0
    /\ pending = 0
    /\ acked = 0
    /\ sync = NoSync
    /\ flush = [f \in Flushers |-> NoFlush]
    /\ failures = 0

SyncStep == StartSync \/ AskPage \/ ServePage \/ ApplyPage \/ CheckPage
FlushStep(f) == StartFlush(f) \/ CheckAck(f) \/ StoreAck(f) \/ CommitAck(f)

Next ==
    \/ Send
    \/ \E s \in 1..last_seq : ApplyRealtime(s)
    \/ SyncStep
    \/ SyncFails
    \/ \E f \in Flushers : FlushStep(f) \/ AbandonFlush(f)
    \/ Restart

Spec == Init /\ [][Next]_vars

\* The client keeps synchronizing and flushing, and calls end.  Nothing is
\* assumed of realtime delivery.
FairSpec ==
    /\ Spec
    /\ WF_vars(SyncStep)
    /\ \A f \in Flushers : WF_vars(FlushStep(f))
-----------------------------------------------------------------------------
(* Properties                                                              *)

\* The types of the cursors and of the calls under way.
TypeOK ==
    /\ last_seq \in 0..MaxSeq
    /\ {applied_seq, applied, pending, acked} \subseteq Nat
    /\ stored \subseteq 1..MaxSeq
    /\ sync \in [at : {"idle", "ask", "serve", "apply"}, snapshot : 0..MaxSeq,
                 after : Nat, todo : Nat, next : Nat, more : BOOLEAN]
    /\ flush \in [Flushers -> [at : {"idle", "sent", "checked", "stored"},
                               cursor : Nat, answer : Nat, waiting : BOOLEAN]]
    /\ failures \in 0..MaxFailures

\* The device holds exactly the messages 1..AppliedCursor: however pages and
\* realtime messages interleave, repeat or are lost, none is skipped.
HoldsPrefix == stored = 1..applied

\* A message of a page is always the next one or already there: applyMessage
\* never answers ErrMessageGap or a conflict to SyncConversation, so sync always
\* closes the gap that realtime left.
SyncNeverGaps ==
    sync.at = "apply" /\ sync.todo <= sync.next =>
        sync.todo = applied + 1 \/ Duplicate(sync.todo)

\* What each side believes of the other is true: the client counts as acked only
\* what the server stored, the server only what the device durably holds, and
\* the device is never ahead of the conversation (no CURSOR_AHEAD).
CursorsOrdered ==
    /\ acked <= applied_seq
    /\ applied_seq <= applied
    /\ applied <= last_seq
    /\ \A f \in Flushers : {flush[f].cursor, flush[f].answer} \subseteq 0..applied

\* Progress made while an acknowledgement is under way is not forgotten: what is
\* applied and not acked is pending.
UnackedIsPending == acked < applied => pending = applied

\* The cursors of the device and of the server agree at every moment of every
\* interleaving of syncs, acknowledgements, time-outs and restarts: neither side
\* overestimates the other, and nothing applied is left unacknowledged for good.
CursorsAgree == CursorsOrdered /\ UnackedIsPending

\* The server never takes an acknowledgement back, in whatever order two ACK
\* requests reach it (GREATEST in acknowledgeConversation).
AckMonotone == [][applied_seq' >= applied_seq /\ acked' >= acked]_vars

\* The device catches up with every message and the server learns of it, with
\* realtime delivery switched off altogether.
CatchesUp ==
    \A n \in 1..MaxSeq : (last_seq >= n) ~> (applied >= n /\ applied_seq >= n)
-----------------------------------------------------------------------------
(* The inductive invariant that the proofs rest on                         *)

\* A running sync asked from a cursor the device has reached since, applies the
\* next message or one it has, and stays within the committed messages.
SyncBehind ==
    /\ sync.snapshot <= last_seq
    /\ sync.at \in {"serve", "apply"} => sync.after <= applied
    /\ sync.at = "apply" =>
          /\ sync.next <= last_seq
          /\ sync.todo \in 1..(applied + 1)

\* Pending acknowledgements and answers under way do not run ahead.
AcksBehind ==
    /\ pending <= applied
    /\ \A f \in Flushers : flush[f].answer <= applied_seq

IInv ==
    /\ TypeOK /\ HoldsPrefix /\ CursorsOrdered /\ UnackedIsPending
    /\ SyncBehind /\ AcksBehind
=============================================================================
