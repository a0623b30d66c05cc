-------------------------- MODULE DeviceSyncProofs --------------------------
(***************************************************************************)
(* Proofs about DeviceSync, for any number of messages and concurrent      *)
(* flushes, any page limit and any number of failures.                     *)
(***************************************************************************)
EXTENDS DeviceSync, TLAPS

USE DeviceSyncAssumption

-----------------------------------------------------------------------------
(* One step of the client's state file                                     *)

\* Applying a committed message keeps the file consistent and its cursor within
\* the conversation; the cursor does not go back.
LEMMA ApplyKeeps ==
    ASSUME IInv, NEW s \in 1..last_seq, applyMessage(s), UNCHANGED server,
           UNCHANGED flush
    PROVE  /\ stored' \subseteq 1..MaxSeq
           /\ applied' \in Nat /\ pending' \in Nat /\ acked' \in Nat
           /\ applied <= applied' /\ applied' <= last_seq
           /\ HoldsPrefix' /\ CursorsOrdered' /\ UnackedIsPending' /\ AcksBehind'
           /\ s <= applied + 1 => s <= applied'
<1> USE DEF IInv
<1>1. /\ applied \in Nat /\ pending \in Nat /\ acked \in Nat /\ applied_seq \in Nat
      /\ last_seq \in 0..MaxSeq /\ s \in Nat
      /\ pending <= applied /\ applied <= last_seq
      /\ stored = 1..applied
  BY DEF TypeOK, CursorsOrdered, AcksBehind, HoldsPrefix
<1>2. last_seq' = last_seq /\ applied_seq' = applied_seq
  BY DEF server
<1>3. CASE s = applied + 1
  <2>1. applied' = applied + 1 /\ stored' = stored \cup {s} /\ acked' = acked
    BY <1>3 DEF applyMessage
  <2>2. pending' = applied + 1
    BY <1>1, <1>3 DEF applyMessage, Larger
  <2>3. HoldsPrefix'
    BY <1>1, <1>3, <2>1 DEF HoldsPrefix
  <2>4. CursorsOrdered'
    BY <1>1, <1>2, <1>3, <2>1 DEF CursorsOrdered, TypeOK
  <2>5. UnackedIsPending' /\ AcksBehind'
    BY <1>1, <1>2, <2>1, <2>2 DEF UnackedIsPending, AcksBehind, TypeOK
  <2> QED BY <1>1, <1>3, <2>1, <2>2, <2>3, <2>4, <2>5 DEF TypeOK
<1>4. CASE s # applied + 1
  <2>1. UNCHANGED <<stored, applied, pending, acked>>
    BY <1>4 DEF applyMessage, file
  <2>2. HoldsPrefix' /\ CursorsOrdered' /\ UnackedIsPending' /\ AcksBehind'
    BY <1>2, <2>1 DEF HoldsPrefix, CursorsOrdered, UnackedIsPending, AcksBehind
  <2> QED BY <1>1, <1>4, <2>1, <2>2 DEF TypeOK
<1> QED BY <1>3, <1>4

\* Recording an answer the server has given keeps the cursors in order and
\* forgets nothing that is still to be acknowledged.
LEMMA RecordKeeps ==
    ASSUME IInv, NEW a \in 0..applied_seq, Record(a),
           UNCHANGED <<server, stored, applied>>,
           \A f \in Flushers : flush'[f] \in {flush[f], NoFlush}
    PROVE  /\ pending' \in Nat /\ acked' \in Nat
           /\ CursorsOrdered' /\ UnackedIsPending' /\ AcksBehind'
<1> USE DEF IInv
<1>1. /\ applied \in Nat /\ pending \in Nat /\ acked \in Nat /\ applied_seq \in Nat
      /\ last_seq \in Nat
      /\ pending <= applied /\ acked <= applied_seq /\ applied_seq <= applied
      /\ applied <= last_seq
      /\ acked < applied => pending = applied
      /\ UNCHANGED <<last_seq, applied_seq, applied>>
  BY DEF TypeOK, CursorsOrdered, AcksBehind, UnackedIsPending, server
<1>2. /\ acked' \in Nat /\ acked' <= applied_seq /\ a <= acked'
      /\ pending' \in {0, pending}
      /\ acked' < applied => acked < applied /\ a < applied
  BY <1>1 DEF Record, Larger
<1>3. UnackedIsPending'
  <2> SUFFICES ASSUME acked' < applied PROVE pending' = applied
    BY <1>1 DEF UnackedIsPending
  <2> QED BY <1>1, <1>2 DEF Record
<1>4. \A f \in Flushers : /\ {flush'[f].cursor, flush'[f].answer} \subseteq 0..applied
                          /\ flush'[f].answer <= applied_seq
  BY <1>1 DEF CursorsOrdered, AcksBehind, NoFlush
<1> QED BY <1>1, <1>2, <1>3, <1>4 DEF CursorsOrdered, AcksBehind
-----------------------------------------------------------------------------
(* The inductive invariant                                                 *)

\* The initial state satisfies the inductive invariant.
LEMMA InitIInv == Init => IInv
  BY DEF Init, IInv, TypeOK, HoldsPrefix, CursorsOrdered, UnackedIsPending,
         SyncBehind, AcksBehind, NoSync, NoFlush

\* A step that changes neither the file nor the server keeps what is said of
\* them.
LEMMA FileKept ==
    ASSUME IInv, UNCHANGED <<server, file, flush>>
    PROVE  HoldsPrefix' /\ CursorsOrdered' /\ UnackedIsPending' /\ AcksBehind'
  BY DEF IInv, HoldsPrefix, CursorsOrdered, UnackedIsPending, AcksBehind, server, file

\* So does one that only changes the flushes, within the cursors.
LEMMA FlushKept ==
    ASSUME IInv, UNCHANGED <<server, file>>,
           \A f \in Flushers : /\ flush'[f].cursor \in {flush[f].cursor, pending, 0}
                               /\ flush'[f].answer \in {flush[f].answer, 0}
    PROVE  HoldsPrefix' /\ CursorsOrdered' /\ UnackedIsPending' /\ AcksBehind'
<1>1. \A f \in Flushers : /\ {flush'[f].cursor, flush'[f].answer} \subseteq 0..applied
                          /\ flush'[f].answer <= applied_seq
  BY DEF IInv, CursorsOrdered, AcksBehind, TypeOK
<1> QED BY <1>1 DEF IInv, HoldsPrefix, CursorsOrdered, UnackedIsPending, AcksBehind,
                    server, file

\* Every step preserves the inductive invariant.
LEMMA NextIInv == IInv /\ [Next]_vars => IInv'
<1> SUFFICES ASSUME IInv, [Next]_vars PROVE IInv'
  OBVIOUS
<1>t. /\ last_seq \in 0..MaxSeq
      /\ applied_seq \in Nat /\ applied \in Nat /\ pending \in Nat /\ acked \in Nat
      /\ sync \in [at : {"idle", "ask", "serve", "apply"}, snapshot : 0..MaxSeq,
                   after : Nat, todo : Nat, next : Nat, more : BOOLEAN]
      /\ failures \in 0..MaxFailures
  BY DEF IInv, TypeOK
<1>s. Stop => /\ sync' \in [at : {"idle", "ask", "serve", "apply"}, snapshot : 0..MaxSeq,
                            after : Nat, todo : Nat, next : Nat, more : BOOLEAN]
              /\ sync'.at = "idle" /\ sync'.snapshot = 0
  BY DEF Stop, NoSync
<1>f. Failure => failures' \in 0..MaxFailures
  BY <1>t DEF Failure
<1>1. CASE Send
  <2>1. /\ last_seq' \in 0..MaxSeq /\ last_seq <= last_seq'
        /\ UNCHANGED <<applied_seq, stored, applied, pending, acked, sync, flush, failures>>
    BY <1>1, <1>t DEF Send, file
  <2>2. TypeOK'
    BY <2>1 DEF IInv, TypeOK
  <2>3. SyncBehind'
    BY <2>1, <1>t DEF IInv, SyncBehind
  <2>4. HoldsPrefix' /\ CursorsOrdered' /\ UnackedIsPending' /\ AcksBehind'
    BY <2>1, <1>t DEF IInv, HoldsPrefix, CursorsOrdered, UnackedIsPending, AcksBehind
  <2> QED BY <2>2, <2>3, <2>4 DEF IInv
<1>2. ASSUME NEW s \in 1..last_seq, ApplyRealtime(s) PROVE IInv'
  <2>1. applyMessage(s) /\ UNCHANGED <<server, sync, flush, failures>>
    BY <1>2 DEF ApplyRealtime
  <2>2. /\ stored' \subseteq 1..MaxSeq
        /\ applied' \in Nat /\ pending' \in Nat /\ acked' \in Nat
        /\ applied <= applied'
        /\ HoldsPrefix' /\ CursorsOrdered' /\ UnackedIsPending' /\ AcksBehind'
    BY <2>1, ApplyKeeps
  <2>3. TypeOK'
    BY <2>1, <2>2 DEF IInv, TypeOK, server
  <2>4. SyncBehind'
    BY <2>1, <2>2, <1>t DEF IInv, SyncBehind, server
  <2> QED BY <2>2, <2>3, <2>4 DEF IInv
<1>3. CASE StartSync \/ AskPage \/ ServePage \/ CheckPage \/ SyncFails
  <2>1. UNCHANGED <<server, file, flush>>
    BY <1>3 DEF StartSync, AskPage, ServePage, CheckPage, SyncFails
  <2>2. HoldsPrefix' /\ CursorsOrdered' /\ UnackedIsPending' /\ AcksBehind'
    BY <2>1, FileKept
  <2>3. failures' \in 0..MaxFailures
    BY <1>3, <1>t, <1>f DEF StartSync, AskPage, ServePage, CheckPage, SyncFails
  <2>4. /\ sync' \in [at : {"idle", "ask", "serve", "apply"}, snapshot : 0..MaxSeq,
                      after : Nat, todo : Nat, next : Nat, more : BOOLEAN]
        /\ SyncBehind'
    <3>0. UNCHANGED <<last_seq, applied>>
      BY <2>1 DEF server, file
    <3>1. CASE Stop
      BY <3>1, <1>s, <3>0, <1>t DEF SyncBehind
    <3>2. CASE StartSync
      <4>1. sync' = [at |-> "ask", snapshot |-> 0, after |-> 0, todo |-> 0, next |-> 0,
                     more |-> FALSE]
        BY <3>2 DEF StartSync, NoSync
      <4>2. sync'.at = "ask" /\ sync'.snapshot = 0
        BY <4>1
      <4>3. sync' \in [at : {"idle", "ask", "serve", "apply"}, snapshot : 0..MaxSeq,
                         after : Nat, todo : Nat, next : Nat, more : BOOLEAN]
        BY <4>1
      <4> QED BY <4>2, <4>3, <3>0, <1>t DEF SyncBehind
    <3>3. CASE AskPage
      <4>1. sync' = [sync EXCEPT !.at = "serve", !.after = applied]
        BY <3>3 DEF AskPage
      <4>2. sync'.at = "serve" /\ sync'.snapshot = sync.snapshot /\ sync'.after = applied
        BY <4>1, <1>t
      <4>3. sync' \in [at : {"idle", "ask", "serve", "apply"}, snapshot : 0..MaxSeq,
                         after : Nat, todo : Nat, next : Nat, more : BOOLEAN]
        BY <4>1, <1>t
      <4> QED BY <4>2, <4>3, <3>0, <1>t DEF SyncBehind, IInv
    <3>4. CASE ServePage /\ ~Stop
      <4> DEFINE snapshot == IF sync.snapshot = 0 THEN last_seq ELSE sync.snapshot
                 page == PageOf(sync.after, snapshot)
      <4>1. /\ snapshot \in sync.after..last_seq
            /\ sync' = [at |-> "apply", snapshot |-> snapshot, after |-> sync.after,
                        todo |-> sync.after + 1, next |-> page.next, more |-> page.more]
        BY <3>4 DEF ServePage
      <4>2. sync.after \in Nat /\ sync.after <= applied
        BY <3>4, <1>t DEF IInv, SyncBehind, ServePage
      <4>3. /\ page.next \in Nat /\ page.next <= last_seq
            /\ page.more \in BOOLEAN
        BY <4>1, <4>2, <1>t DEF PageOf, Larger, Lesser
      <4> QED BY <4>1, <4>2, <4>3, <3>0, <1>t DEF SyncBehind
    <3>5. CASE CheckPage /\ ~Stop
      BY <3>5, <3>0, <1>t DEF CheckPage, SyncBehind, IInv
    <3> QED BY <1>3, <3>1, <3>2, <3>3, <3>4, <3>5 DEF SyncFails
  <2>5. TypeOK'
    BY <2>1, <2>3, <2>4 DEF IInv, TypeOK, server, file
  <2> QED BY <2>2, <2>4, <2>5 DEF IInv
<1>4. CASE ApplyPage
  <2> DEFINE s == sync.todo
  <2>1. /\ sync.at = "apply" /\ s \in 1..last_seq /\ s <= applied + 1
        /\ applyMessage(s) /\ UNCHANGED <<server, flush, failures>>
    BY <1>4, <1>t DEF ApplyPage, IInv, SyncBehind
  <2>2. /\ stored' \subseteq 1..MaxSeq
        /\ applied' \in Nat /\ pending' \in Nat /\ acked' \in Nat
        /\ applied <= applied' /\ s <= applied'
        /\ HoldsPrefix' /\ CursorsOrdered' /\ UnackedIsPending' /\ AcksBehind'
    <3> HIDE DEF s
    <3> QED BY <2>1, ApplyKeeps
  <2>3. /\ sync' \in [at : {"idle", "ask", "serve", "apply"}, snapshot : 0..MaxSeq,
                      after : Nat, todo : Nat, next : Nat, more : BOOLEAN]
        /\ SyncBehind'
    <3>0. last_seq' = last_seq
      BY <2>1 DEF server
    <3>1. CASE Stop
      BY <3>1, <1>s, <3>0, <1>t DEF SyncBehind
    <3>2. CASE sync' = [sync EXCEPT !.todo = @ + 1]
      BY <3>2, <3>0, <2>1, <2>2, <1>t DEF SyncBehind, IInv
    <3> QED BY <1>4, <3>1, <3>2 DEF ApplyPage
  <2>4. TypeOK'
    BY <2>1, <2>2, <2>3 DEF IInv, TypeOK, server
  <2> QED BY <2>2, <2>3, <2>4 DEF IInv
<1>5. ASSUME NEW f \in Flushers, StartFlush(f) \/ CheckAck(f) \/ AbandonFlush(f) PROVE IInv'
  <2>1. /\ UNCHANGED <<server, file, sync>>
        /\ failures' \in 0..MaxFailures
    BY <1>5, <1>t, <1>f DEF StartFlush, CheckAck, AbandonFlush
  <2>2. /\ flush' \in [Flushers -> [at : {"idle", "sent", "checked", "stored"},
                                    cursor : Nat, answer : Nat, waiting : BOOLEAN]]
        /\ \A g \in Flushers : /\ flush'[g].cursor \in {flush[g].cursor, pending, 0}
                               /\ flush'[g].answer \in {flush[g].answer, 0}
    <3>1. flush \in [Flushers -> [at : {"idle", "sent", "checked", "stored"},
                                  cursor : Nat, answer : Nat, waiting : BOOLEAN]]
      BY DEF IInv, TypeOK
    <3>2. CASE StartFlush(f)
      BY <3>1, <3>2, <1>t DEF StartFlush, NoFlush
    <3>3. CASE CheckAck(f)
      BY <3>1, <3>3 DEF CheckAck, NoFlush
    <3>4. CASE AbandonFlush(f)
      <4>1. CASE flush' = [flush EXCEPT ![f].waiting = FALSE]
        BY <3>1, <4>1
      <4>2. CASE flush' = [flush EXCEPT ![f] = NoFlush]
        BY <3>1, <4>2 DEF NoFlush
      <4> QED BY <3>4, <4>1, <4>2 DEF AbandonFlush
    <3> QED BY <1>5, <3>2, <3>3, <3>4
  <2>3. HoldsPrefix' /\ CursorsOrdered' /\ UnackedIsPending' /\ AcksBehind'
    BY <2>1, <2>2, FlushKept
  <2>4. TypeOK' /\ SyncBehind'
    BY <2>1, <2>2 DEF IInv, TypeOK, SyncBehind, server, file
  <2> QED BY <2>3, <2>4 DEF IInv
<1>6. ASSUME NEW f \in Flushers, StoreAck(f) PROVE IInv'
  <2>1. /\ UNCHANGED <<last_seq, stored, applied, pending, acked, sync, failures>>
        /\ flush' = [flush EXCEPT ![f] = [@ EXCEPT !.at = "stored", !.answer = applied_seq']]
        /\ applied_seq' = Larger(applied_seq, flush[f].cursor)
    BY <1>6 DEF StoreAck, file
  <2>2. flush \in [Flushers -> [at : {"idle", "sent", "checked", "stored"},
                                cursor : Nat, answer : Nat, waiting : BOOLEAN]]
    BY DEF IInv, TypeOK
  <2>3. /\ applied_seq' \in Nat /\ applied_seq <= applied_seq'
        /\ applied_seq' <= applied
    BY <2>1, <2>2, <1>t DEF IInv, CursorsOrdered, Larger
  <2>4. flush' \in [Flushers -> [at : {"idle", "sent", "checked", "stored"},
                                 cursor : Nat, answer : Nat, waiting : BOOLEAN]]
    BY <2>1, <2>2, <2>3
  <2>5. \A g \in Flushers :
           /\ flush'[g].cursor = flush[g].cursor
           /\ flush'[g].answer \in {flush[g].answer, applied_seq'}
    BY <2>1, <2>2
  <2>6. TypeOK' /\ SyncBehind' /\ HoldsPrefix' /\ UnackedIsPending'
    BY <2>1, <2>3, <2>4 DEF IInv, TypeOK, SyncBehind, HoldsPrefix, UnackedIsPending
  <2>7. CursorsOrdered' /\ AcksBehind'
    BY <2>1, <2>2, <2>3, <2>5, <1>t DEF IInv, CursorsOrdered, AcksBehind
  <2> QED BY <2>6, <2>7 DEF IInv
<1>7. ASSUME NEW f \in Flushers, CommitAck(f) PROVE IInv'
  <2>1. /\ UNCHANGED <<server, stored, applied, sync, failures>>
        /\ flush' = [flush EXCEPT ![f] = NoFlush]
    BY <1>7 DEF CommitAck
  <2>2. flush \in [Flushers -> [at : {"idle", "sent", "checked", "stored"},
                                cursor : Nat, answer : Nat, waiting : BOOLEAN]]
    BY DEF IInv, TypeOK
  <2>3. /\ flush' \in [Flushers -> [at : {"idle", "sent", "checked", "stored"},
                                    cursor : Nat, answer : Nat, waiting : BOOLEAN]]
        /\ \A g \in Flushers : flush'[g] \in {flush[g], NoFlush}
    BY <2>1, <2>2 DEF NoFlush
  <2>4. /\ pending' \in Nat /\ acked' \in Nat
        /\ CursorsOrdered' /\ UnackedIsPending' /\ AcksBehind'
    <3>1. CASE Record(flush[f].answer)
      <4> DEFINE a == flush[f].answer
      <4>1. a \in 0..applied_seq /\ Record(a)
        BY <3>1, <2>2, <1>t DEF IInv, AcksBehind
      <4> HIDE DEF a
      <4> QED BY <4>1, <2>1, <2>3, RecordKeeps
    <3>2. CASE UNCHANGED <<acked, pending>>
      <4>1. UNCHANGED <<server, file>>
        BY <3>2, <2>1 DEF file
      <4>2. \A g \in Flushers : /\ flush'[g].cursor \in {flush[g].cursor, pending, 0}
                                /\ flush'[g].answer \in {flush[g].answer, 0}
        BY <2>3 DEF NoFlush
      <4> QED BY <4>1, <4>2, <3>2, <1>t, FlushKept
    <3> QED BY <1>7, <3>1, <3>2 DEF CommitAck
  <2>5. TypeOK' /\ SyncBehind' /\ HoldsPrefix'
    BY <2>1, <2>3, <2>4 DEF IInv, TypeOK, SyncBehind, HoldsPrefix, server
  <2> QED BY <2>4, <2>5 DEF IInv
<1>8. CASE Restart
  <2>1. /\ UNCHANGED <<server, file>> /\ Stop
        /\ failures' \in 0..MaxFailures
        /\ flush' = [f \in Flushers |-> [flush[f] EXCEPT !.waiting = FALSE]]
    BY <1>8, <1>f DEF Restart
  <2>2. flush \in [Flushers -> [at : {"idle", "sent", "checked", "stored"},
                                cursor : Nat, answer : Nat, waiting : BOOLEAN]]
    BY DEF IInv, TypeOK
  <2>3. /\ flush' \in [Flushers -> [at : {"idle", "sent", "checked", "stored"},
                                    cursor : Nat, answer : Nat, waiting : BOOLEAN]]
        /\ \A g \in Flushers : /\ flush'[g].cursor \in {flush[g].cursor, pending, 0}
                               /\ flush'[g].answer \in {flush[g].answer, 0}
    BY <2>1, <2>2
  <2>4. HoldsPrefix' /\ CursorsOrdered' /\ UnackedIsPending' /\ AcksBehind'
    BY <2>1, <2>3, FlushKept
  <2>5. TypeOK' /\ SyncBehind'
    BY <2>1, <2>3, <1>s, <1>t DEF IInv, TypeOK, SyncBehind, server, file
  <2> QED BY <2>4, <2>5 DEF IInv
<1>9. CASE UNCHANGED vars
  BY <1>9 DEF IInv, TypeOK, HoldsPrefix, CursorsOrdered, UnackedIsPending, SyncBehind,
              AcksBehind, vars, server, file
<1> QED
  BY <1>1, <1>2, <1>3, <1>4, <1>5, <1>6, <1>7, <1>8, <1>9
  DEF Next, SyncStep, FlushStep
-----------------------------------------------------------------------------
(* The theorems                                                            *)

\* The inductive invariant holds in every reachable state: what the file, the
\* server and the calls under way know of each other never contradicts.
THEOREM DeviceInvariant == Spec => []IInv
  BY InitIInv, NextIInv, PTL DEF Spec

\* The cursors and calls keep their types.
THEOREM DeviceTypes == Spec => []TypeOK
<1>1. IInv => TypeOK
  BY DEF IInv
<1> QED BY <1>1, DeviceInvariant, PTL

\* applyMessage never skips a message: the device holds a prefix of the
\* conversation, however long it is.
THEOREM DeviceHoldsPrefix == Spec => []HoldsPrefix
<1>1. IInv => HoldsPrefix
  BY DEF IInv
<1> QED BY <1>1, DeviceInvariant, PTL

\* The cursors of device and server agree for any number of concurrent FlushACK
\* calls: neither side overestimates the other, and no acknowledgement that is
\* still due is forgotten.
THEOREM DeviceCursorsAgree == Spec => []CursorsAgree
<1>1. IInv => CursorsAgree
  BY DEF IInv, CursorsAgree
<1> QED BY <1>1, DeviceInvariant, PTL

\* A page of the sync API never meets a gap or a conflict in the file.
THEOREM DeviceSyncNeverGaps == Spec => []SyncNeverGaps
<1>1. IInv => SyncNeverGaps
  <2> SUFFICES ASSUME IInv, sync.at = "apply", sync.todo # applied + 1
               PROVE  Duplicate(sync.todo)
    BY DEF SyncNeverGaps
  <2>1. sync.todo \in 1..(applied + 1) /\ applied \in Nat /\ stored = 1..applied
    BY DEF IInv, SyncBehind, TypeOK, HoldsPrefix
  <2> QED BY <2>1 DEF Duplicate
<1> QED BY <1>1, DeviceInvariant, PTL

\* Acknowledgements are never taken back, by the server or by the client.
THEOREM DeviceAckMonotone == Spec => AckMonotone
<1>1. IInv /\ [Next]_vars => [applied_seq' >= applied_seq /\ acked' >= acked]_vars
  <2> SUFFICES ASSUME IInv, Next PROVE applied_seq' >= applied_seq /\ acked' >= acked
    OBVIOUS
  <2>t. /\ applied_seq \in Nat /\ acked \in Nat
        /\ \A f \in Flushers : flush[f].cursor \in Nat /\ flush[f].answer \in Nat
    BY DEF IInv, TypeOK
  <2>1. CASE UNCHANGED <<applied_seq, acked>>
    BY <2>1, <2>t
  <2>2. ASSUME NEW f \in Flushers, StoreAck(f) PROVE applied_seq' >= applied_seq /\ acked' >= acked
    BY <2>2, <2>t DEF StoreAck, Larger, file
  <2>3. ASSUME NEW f \in Flushers, CommitAck(f) PROVE applied_seq' >= applied_seq /\ acked' >= acked
    BY <2>3, <2>t DEF CommitAck, Record, Larger, server
  <2>4. ASSUME NEW s, applyMessage(s) PROVE acked' = acked
    BY <2>4 DEF applyMessage, file
  <2> QED
    BY <2>1, <2>2, <2>3, <2>4
    DEF Next, SyncStep, FlushStep, Send, ApplyRealtime, StartSync, AskPage, ServePage,
        ApplyPage, CheckPage, SyncFails, StartFlush, CheckAck, AbandonFlush, Restart,
        server, file
<1> QED BY <1>1, DeviceInvariant, PTL DEF Spec, AckMonotone
=============================================================================
