------------------------- MODULE MessageStoreProofs -------------------------
(***************************************************************************)
(* Proofs about MessageStore, for any number of handlers, users, keys and  *)
(* requests and any behaviour of the clock.                                *)
(***************************************************************************)
EXTENDS MessageStore, SequenceTheorems, TLAPS

USE MessageStoreAssumption

-----------------------------------------------------------------------------
(* Facts about rows                                                        *)

\* A normalized pair of users is a pair.
LEMMA PairOfType == \A c \in Commands : PairOf(c) \in Pair
<1> SUFFICES ASSUME NEW c \in Commands PROVE PairOf(c) \in Pair
  OBVIOUS
<1>1. c.sender \in UserIds /\ c.receiver \in UserIds
  BY DEF Command
<1>2. ASSUME NEW a \in UserIds, NEW b \in UserIds, a <= b PROVE <<a, b>> \in Pair
  BY <1>2 DEF Pair
<1>3. c.sender <= c.receiver \/ c.receiver <= c.sender
  <2>1. c.sender \in Nat /\ c.receiver \in Nat
    BY <1>1
  <2> QED BY <2>1
<1> QED BY <1>1, <1>2, <1>3 DEF PairOf, Normalize

\* The null records are no rows.
LEMMA NullRecords ==
    /\ NoRow \notin ConversationRow
    /\ NoMessage \notin Message
<1>1. NoRow \notin ConversationRow
  <2> SUFFICES ASSUME NoRow \in ConversationRow PROVE FALSE
    OBVIOUS
  <2>1. NoRow.last_seq \in Nat
    BY DEF ConversationRow
  <2> QED BY <2>1 DEF NoRow
<1>2. NoMessage \notin Message
  <2> SUFFICES ASSUME NoMessage \in Message PROVE FALSE
    OBVIOUS
  <2>1. NoMessage.seq \in Nat \ {0}
    BY DEF Message
  <2> QED BY <2>1 DEF NoMessage
<1> QED BY <1>1, <1>2

\* The updated row is a row.
LEMMA AdvanceType ==
    ASSUME NEW h \in Handlers, TypeOK, NEW now \in Clock,
           created[h] \/ conversations[PairOf(cmd[h])] # NoRow,
           cmd[h] \in Commands
    PROVE  Advance(Base(h), now) \in ConversationRow
<1>1. PairOf(cmd[h]) \in Pair
  BY PairOfType
<1>2. Base(h) = FreshRow \/ Base(h) \in ConversationRow
  BY <1>1 DEF Base, TypeOK
<1>3. Base(h).last_seq \in Nat /\ Base(h).updated_at \in Nat
  BY <1>2 DEF FreshRow, ConversationRow
<1> QED BY <1>3 DEF Advance, ConversationRow, Greatest

\* The message a handler inserts is a message.
LEMMA MessageOfType ==
    ASSUME NEW h \in Handlers, TypeOK, row[h] # NoRow, cmd[h] \in Commands
    PROVE  MessageOf(h) \in Message
<1>1. PairOf(cmd[h]) \in Pair /\ cmd[h] \in Command
  BY PairOfType
<1>2. row[h] \in ConversationRow
  BY DEF TypeOK
<1> QED BY <1>1, <1>2 DEF MessageOf, Message, Command, ConversationRow
-----------------------------------------------------------------------------
(* Steps that commit nothing                                               *)

\* A step of one handler that changes no committed row preserves the invariant
\* if that handler's part of it holds afterwards.
LEMMA LocalStep ==
    ASSUME NEW h \in Handlers, IInv, TypeOK', UNCHANGED database,
           \A g \in Handlers : g # h =>
               /\ pc'[g] = pc[g] /\ cmd'[g] = cmd[g] /\ created'[g] = created[g]
               /\ row'[g] = row[g] /\ draft'[g] = draft[g],
           Shape(h)',
           \A g \in Handlers : g # h => Apart(g, h)',
           pc'[h] = "reselect" => conversations[PairOf(cmd'[h])] # NoRow,
           pc'[h] \in {"loser", "winner"} => Found(cmd'[h]) # {}
    PROVE  IInv'
<1>1. TransactionShape'
  <2> SUFFICES ASSUME NEW g \in Handlers, g # h PROVE Shape(g)'
    BY DEF TransactionShape
  <2>1. Shape(g)
    BY DEF IInv, TransactionShape
  <2> QED BY <2>1 DEF Shape, Base, MessageOf, Found, database
<1>2. LocksExclusive'
  <2> SUFFICES ASSUME NEW f \in Handlers, NEW g \in Handlers, f # g
               PROVE  Apart(f, g)'
    BY DEF LocksExclusive
  <2>1. CASE f # h /\ g # h
    BY <2>1 DEF IInv, LocksExclusive, Apart
  <2>2. CASE g = h
    BY <2>2
  <2>3. CASE f = h
    BY <2>3 DEF Apart, SameKey
  <2> QED BY <2>1, <2>2, <2>3
<1>3. SequencesContiguous' /\ OneMessagePerKey'
  BY DEF IInv, SequencesContiguous, OneMessagePerKey, In, database
<1>4. LoserFindsWinner'
  BY DEF IInv, LoserFindsWinner, Found, database
<1> QED BY <1>1, <1>2, <1>3, <1>4 DEF IInv

\* A handler that has let go of its transaction excludes nobody.
LEMMA ReleaseStep ==
    ASSUME NEW h \in Handlers, IInv, UNCHANGED <<database, cmd>>, Release(h),
           NEW label \in {"done", "winner"}, pc[h] # "idle",
           label = "winner" => Found(cmd[h]) # {},
           pc' = [pc EXCEPT ![h] = label],
           answer' \in [Handlers -> Answers]
    PROVE  IInv'
<1>1. TypeOK'
  BY DEF IInv, TypeOK, Release, database, Labels, Steps
<1>2. created'[h] = FALSE /\ row'[h] = NoRow /\ draft'[h] = NoMessage /\ pc'[h] = label
  BY DEF IInv, TypeOK, Release
<1>3. \A g \in Handlers : g # h =>
         /\ pc'[g] = pc[g] /\ cmd'[g] = cmd[g] /\ created'[g] = created[g]
         /\ row'[g] = row[g] /\ draft'[g] = draft[g]
  BY DEF IInv, TypeOK, Release
<1>4. Shape(h)'
  BY <1>2 DEF IInv, TransactionShape, Shape
<1>5. \A g \in Handlers : g # h => Apart(g, h)'
  BY <1>2 DEF Apart
<1> QED BY <1>1, <1>2, <1>3, <1>4, <1>5, LocalStep

\* Every failure ends the transaction.
LEMMA FailStep ==
    ASSUME NEW h \in Handlers, IInv, pc[h] # "idle", NEW code \in Failures,
           Fail(h, code)
    PROVE  IInv'
<1>1. answer' \in [Handlers -> Answers]
  BY DEF Fail, Return, IInv, TypeOK, Answers
<1> QED BY <1>1, ReleaseStep DEF Fail, Return

\* An idempotent answer ends the transaction.
LEMMA AnswerFromStep ==
    ASSUME NEW h \in Handlers, IInv, pc[h] # "idle", NEW m \in messages,
           AnswerFrom(h, m)
    PROVE  IInv'
<1>1. CASE Fail(h, "idempotency_conflict")
  BY <1>1, FailStep DEF Failures
<1>2. CASE /\ Return(h, [code |-> "existing", message |-> m])
           /\ UNCHANGED database
  <2>1. answer' \in [Handlers -> Answers]
    BY <1>2 DEF Return, IInv, TypeOK, Answers
  <2> QED BY <1>2, <2>1, ReleaseStep DEF Return
<1> QED BY <1>1, <1>2 DEF AnswerFrom
\* Receiving a request: the handler has no transaction yet.
LEMMA ReceiveStep ==
    ASSUME NEW h \in Handlers, NEW c \in Commands, IInv, Receive(h, c)
    PROVE  IInv'
<1>1. PICK label \in {"done", "find"} : pc' = [pc EXCEPT ![h] = label]
  BY DEF Receive
<1>2. answer' \in [Handlers -> Answers]
  BY DEF Receive, IInv, TypeOK, Answers, Failures
<1>3. TypeOK'
  BY <1>1, <1>2 DEF Receive, IInv, TypeOK, database, transaction, Labels, Steps
<1>4. /\ ~created[h] /\ row[h] = NoRow /\ draft[h] = NoMessage
      /\ UNCHANGED <<created, row, draft>>
  BY DEF Receive, IInv, TypeOK, TransactionShape, Shape, transaction
<1>5. pc'[h] = label /\ cmd'[h] = c
  BY <1>1 DEF Receive, IInv, TypeOK
<1>6. Shape(h)'
  BY <1>4, <1>5 DEF Shape
<1>7. \A g \in Handlers : g # h => Apart(g, h)'
  BY <1>4 DEF Apart
<1>8. \A g \in Handlers : g # h => pc'[g] = pc[g] /\ cmd'[g] = cmd[g]
  BY <1>1 DEF Receive, IInv, TypeOK
<1> QED BY <1>3, <1>4, <1>5, <1>6, <1>7, <1>8, LocalStep DEF Receive

\* A statement after which the handler holds what it held before.
LEMMA AdvanceLabel ==
    ASSUME NEW h \in Handlers, IInv, NEW label \in Labels, Goto(h, label),
           UNCHANGED transaction, pc[h] # "idle",
           label \in {"select", "create", "reselect", "lock", "loser"},
           created[h] => label \in {"lock", "loser"},
           row[h] # NoRow => label = "loser",
           draft[h] = NoMessage,
           label \in {"lock", "reselect"} =>
               created[h] \/ conversations[PairOf(cmd[h])] # NoRow,
           label = "loser" => row[h] # NoRow /\ Found(cmd[h]) # {}
    PROVE  IInv'
<1>1. TypeOK'
  BY DEF Goto, IInv, TypeOK, database, transaction
<1>2. pc'[h] = label /\ UNCHANGED <<cmd, created, row, draft, database>>
  BY DEF Goto, IInv, TypeOK, transaction
<1>3. Shape(h)'
  BY <1>2 DEF IInv, TransactionShape, Shape, Base, MessageOf, database
<1>4. \A g \in Handlers : g # h => Apart(g, h)'
  BY <1>2 DEF IInv, LocksExclusive, Apart
<1>5. \A g \in Handlers : g # h => pc'[g] = pc[g]
  BY DEF Goto, IInv, TypeOK
<1> QED BY <1>1, <1>2, <1>3, <1>4, <1>5, LocalStep

\* The first look-up either answers or finds nothing.
LEMMA FindStep ==
    ASSUME NEW h \in Handlers, IInv, FindIdempotentMessage(h)
    PROVE  IInv'
<1>1. ASSUME NEW m \in Found(cmd[h]), AnswerFrom(h, m) PROVE IInv'
  BY <1>1, AnswerFromStep DEF FindIdempotentMessage, Found
<1>2. CASE Goto(h, "select") /\ UNCHANGED transaction
  <2>1. ~created[h] /\ row[h] = NoRow /\ draft[h] = NoMessage
    BY DEF FindIdempotentMessage, IInv, TransactionShape, Shape, TypeOK
  <2> QED BY <1>2, <2>1, AdvanceLabel DEF FindIdempotentMessage, Labels, Steps
<1> QED BY <1>1, <1>2 DEF FindIdempotentMessage

\* The first SELECT of resolveDirectConversation.
LEMMA SelectStep ==
    ASSUME NEW h \in Handlers, IInv, SelectConversation(h)
    PROVE  IInv'
<1>1. ~created[h] /\ row[h] = NoRow /\ draft[h] = NoMessage
  BY DEF SelectConversation, IInv, TransactionShape, Shape, TypeOK
<1>2. CASE conversations[PairOf(cmd[h])] # NoRow
  BY <1>1, <1>2, AdvanceLabel DEF SelectConversation, Labels, Steps
<1>3. CASE conversations[PairOf(cmd[h])] = NoRow
  BY <1>1, <1>3, AdvanceLabel DEF SelectConversation, Labels, Steps
<1> QED BY <1>2, <1>3

\* The INSERT waits for a concurrent creator, so at most one handler creates.
LEMMA CreateStep ==
    ASSUME NEW h \in Handlers, IInv, CreateConversation(h)
    PROVE  IInv'
<1>1. ~created[h] /\ row[h] = NoRow /\ draft[h] = NoMessage
  BY DEF CreateConversation, IInv, TransactionShape, Shape, TypeOK
<1>2. CASE Fail(h, "receiver_not_found")
  BY <1>2, FailStep DEF CreateConversation, Failures
<1>3. CASE /\ conversations[PairOf(cmd[h])] = NoRow
           /\ created' = [created EXCEPT ![h] = TRUE]
           /\ Goto(h, "members")
           /\ UNCHANGED <<newMembers, row, draft>>
  <2>1. TypeOK'
    BY <1>3 DEF Goto, IInv, TypeOK, database, Labels, Steps
  <2>2. /\ pc'[h] = "members" /\ created'[h] /\ cmd' = cmd
        /\ \A g \in Handlers : g # h => pc'[g] = pc[g] /\ created'[g] = created[g]
    BY <1>3 DEF Goto, IInv, TypeOK
  <2>3. Shape(h)'
    BY <1>1, <1>3, <2>2
    DEF CreateConversation, Goto, database, IInv, TransactionShape, Shape
  <2>4. \A g \in Handlers : g # h => Apart(g, h)'
    BY <1>1, <1>3, <2>2 DEF CreateConversation, Apart
  <2> QED BY <1>3, <2>1, <2>2, <2>3, <2>4, LocalStep DEF Goto
<1>4. CASE /\ conversations[PairOf(cmd[h])] # NoRow
           /\ Goto(h, "reselect")
           /\ UNCHANGED transaction
  BY <1>1, <1>4, AdvanceLabel DEF CreateConversation, Labels, Steps
<1> QED BY <1>2, <1>3, <1>4 DEF CreateConversation

\* The second SELECT always finds the committed conversation.
LEMMA ReselectStep ==
    ASSUME NEW h \in Handlers, IInv, ReselectConversation(h)
    PROVE  IInv'
<1>1. ~created[h] /\ row[h] = NoRow /\ draft[h] = NoMessage
  BY DEF ReselectConversation, IInv, TransactionShape, Shape, TypeOK
<1>2. conversations[PairOf(cmd[h])] # NoRow
  BY DEF ReselectConversation, IInv, LoserFindsWinner
<1> QED BY <1>1, <1>2, AdvanceLabel DEF ReselectConversation, Labels, Steps
\* The members are inserted by the creator only.
LEMMA MembersStep ==
    ASSUME NEW h \in Handlers, IInv, InsertConversationMembers(h)
    PROVE  IInv'
<1>1. created[h] /\ row[h] = NoRow /\ draft[h] = NoMessage /\ cmd[h] \in Command
  BY DEF InsertConversationMembers, IInv, TransactionShape, Shape, TypeOK
<1>2. TypeOK'
  BY <1>1 DEF InsertConversationMembers, Goto, IInv, TypeOK, database, Labels, Steps,
              Command
<1>3. /\ pc'[h] = "lock" /\ UNCHANGED <<cmd, created, row, draft, database>>
      /\ \A g \in Handlers : g # h => pc'[g] = pc[g]
  BY DEF InsertConversationMembers, Goto, IInv, TypeOK
<1>4. Shape(h)'
  BY <1>1, <1>3
  DEF InsertConversationMembers, IInv, TransactionShape, Shape, database
<1>5. \A g \in Handlers : g # h => Apart(g, h)'
  BY <1>3 DEF IInv, LocksExclusive, Apart
<1> QED BY <1>2, <1>3, <1>4, <1>5, LocalStep

\* The row lock is taken when nobody has it, and the row advances by one.
LEMMA AllocateStep ==
    ASSUME NEW h \in Handlers, IInv, AllocateSequence(h)
    PROVE  IInv'
<1>1. PICK now \in Clock : row' = [row EXCEPT ![h] = Advance(Base(h), now)]
  BY DEF AllocateSequence
<1>2. /\ created[h] \/ conversations[PairOf(cmd[h])] # NoRow
      /\ draft[h] = NoMessage /\ cmd[h] \in Commands
  BY DEF AllocateSequence, IInv, TransactionShape, Shape, TypeOK
<1>3. Advance(Base(h), now) \in ConversationRow
  BY <1>2, AdvanceType DEF IInv
<1>4. TypeOK'
  BY <1>1, <1>3
  DEF AllocateSequence, Goto, IInv, TypeOK, database, Labels, Steps
<1>5. /\ pc'[h] = "insert" /\ row'[h] = Advance(Base(h), now)
      /\ UNCHANGED <<cmd, created, draft, database>>
      /\ \A g \in Handlers : g # h => pc'[g] = pc[g] /\ row'[g] = row[g]
  BY <1>1 DEF AllocateSequence, Goto, IInv, TypeOK
<1>6. row'[h].last_seq = Base(h)'.last_seq + 1 /\ row'[h] # NoRow
  BY <1>3, <1>5, NullRecords DEF Advance, Base, database
<1>7. Shape(h)'
  BY <1>2, <1>5, <1>6
  DEF AllocateSequence, IInv, TransactionShape, Shape, database
<1>8. \A g \in Handlers : g # h => Apart(g, h)'
  BY <1>2, <1>5 DEF AllocateSequence, IInv, LocksExclusive, Apart
<1> QED BY <1>4, <1>5, <1>7, <1>8, LocalStep

\* The message is inserted when no transaction has its key, or the race is lost.
LEMMA InsertStep ==
    ASSUME NEW h \in Handlers, IInv, InsertMessageAndOutbox(h)
    PROVE  IInv'
<1>1. /\ row[h] # NoRow /\ draft[h] = NoMessage /\ cmd[h] \in Commands
      /\ Shape(h)
  BY DEF InsertMessageAndOutbox, IInv, TransactionShape, Shape, TypeOK
<1>2. CASE /\ Found(cmd[h]) = {}
           /\ draft' = [draft EXCEPT ![h] = MessageOf(h)]
           /\ Goto(h, "commit")
           /\ UNCHANGED <<created, newMembers, row>>
  <2>1. MessageOf(h) \in Message
    BY <1>1, MessageOfType DEF IInv
  <2>2. TypeOK'
    BY <1>2, <2>1 DEF Goto, IInv, TypeOK, database, Labels, Steps
  <2>3. /\ pc'[h] = "commit" /\ draft'[h] = MessageOf(h)
        /\ UNCHANGED <<cmd, created, row, database>>
        /\ \A g \in Handlers : g # h => pc'[g] = pc[g] /\ draft'[g] = draft[g]
    BY <1>2 DEF Goto, IInv, TypeOK
  <2>4. /\ draft'[h] # NoMessage /\ MessageOf(h)' = MessageOf(h)
        /\ Base(h)' = Base(h) /\ Found(cmd[h])' = {}
    BY <1>2, <2>1, <2>3, NullRecords DEF MessageOf, Base, Found, database
  <2>5. Shape(h)'
    BY <1>1, <2>3, <2>4 DEF InsertMessageAndOutbox, Shape, Found, database
  <2>6. SameKey(MessageOf(h), cmd[h])
    BY DEF MessageOf, SameKey
  <2>7. \A g \in Handlers : g # h => Apart(g, h)'
    BY <2>3, <2>6 DEF InsertMessageAndOutbox, IInv, LocksExclusive, Apart, SameKey
  <2> QED BY <2>2, <2>3, <2>5, <2>7, LocalStep
<1>3. CASE /\ Found(cmd[h]) # {}
           /\ Goto(h, "loser")
           /\ UNCHANGED transaction
  BY <1>1, <1>3, AdvanceLabel DEF InsertMessageAndOutbox, Labels, Steps
<1> QED BY <1>2, <1>3 DEF InsertMessageAndOutbox

\* The loser of the race lets go of everything it held.
LEMMA RollbackStep ==
    ASSUME NEW h \in Handlers, IInv, RollbackLoser(h)
    PROVE  IInv'
<1>1. Found(cmd[h]) # {}
  BY DEF RollbackLoser, IInv, LoserFindsWinner
<1>2. answer' \in [Handlers -> Answers]
  BY DEF RollbackLoser, Goto, IInv, TypeOK
<1> QED BY <1>1, <1>2, ReleaseStep DEF RollbackLoser, Goto

\* The loser finds the committed message.
LEMMA WinnerStep ==
    ASSUME NEW h \in Handlers, IInv, FindCommittedIdempotentMessage(h)
    PROVE  IInv'
<1>1. \E m \in Found(cmd[h]) : AnswerFrom(h, m)
  BY DEF FindCommittedIdempotentMessage, IInv, LoserFindsWinner
<1> QED BY <1>1, AnswerFromStep DEF FindCommittedIdempotentMessage, Found

\* A failed statement ends the transaction.
LEMMA StatementFailsStep ==
    ASSUME NEW h \in Handlers, IInv, StatementFails(h)
    PROVE  IInv'
BY FailStep DEF StatementFails, Steps, Failures

\* A crashed handler keeps its locks.
LEMMA CrashStep ==
    ASSUME NEW h \in Handlers, IInv, Crash(h)
    PROVE  IInv'
<1>1. [code |-> "lost"] \in Answers
  BY DEF Answers, Failures
<1>2. TypeOK'
  BY <1>1 DEF Crash, IInv, TypeOK, database, transaction, Labels
<1>3. /\ pc'[h] = "orphan" /\ UNCHANGED <<cmd, created, row, draft, database>>
      /\ \A g \in Handlers : g # h => pc'[g] = pc[g]
  BY DEF Crash, IInv, TypeOK, transaction
<1>4. Shape(h)'
  BY <1>3 DEF Crash, Steps, IInv, TransactionShape, Shape, Base, MessageOf, Found,
              database
<1>5. \A g \in Handlers : g # h => Apart(g, h)'
  BY <1>3 DEF IInv, LocksExclusive, Apart
<1> QED BY <1>2, <1>3, <1>4, <1>5, LocalStep

\* The server ends the session of a crashed handler.
LEMMA ReapStep ==
    ASSUME NEW h \in Handlers, IInv, ReapSession(h)
    PROVE  IInv'
<1>1. answer' \in [Handlers -> Answers]
  BY DEF ReapSession, Goto, IInv, TypeOK
<1> QED BY <1>1, ReleaseStep DEF ReapSession, Goto
-----------------------------------------------------------------------------
(* COMMIT                                                                  *)

\* What a handler is about to commit: the next message of its conversation,
\* under a key that no stored message has.
LEMMA CommitFacts ==
    ASSUME NEW h \in Handlers, IInv, Commit(h)
    PROVE  /\ cmd[h] \in Commands /\ PairOf(cmd[h]) \in Pair
           /\ row[h] \in ConversationRow /\ draft[h] \in Message
           /\ draft[h].conversation = PairOf(cmd[h])
           /\ draft[h].seq = row[h].last_seq
           /\ row[h].last_seq = Base(h).last_seq + 1
           /\ conversations[PairOf(cmd[h])] = NoRow <=> created[h]
           /\ SameKey(draft[h], cmd[h])
           /\ \A m \in messages : ~SameKey(m, draft[h])
<1>1. /\ cmd[h] \in Commands /\ draft[h] # NoMessage /\ row[h] # NoRow
      /\ draft[h] = MessageOf(h) /\ Found(cmd[h]) = {}
      /\ row[h].last_seq = Base(h).last_seq + 1
      /\ created[h] => conversations[PairOf(cmd[h])] = NoRow
      /\ ~created[h] => conversations[PairOf(cmd[h])] # NoRow
  BY DEF Commit, IInv, TransactionShape, Shape
<1>2. row[h] \in ConversationRow /\ draft[h] \in Message
  BY <1>1 DEF IInv, TypeOK
<1>3. /\ MessageOf(h).conversation = PairOf(cmd[h])
      /\ MessageOf(h).seq = row[h].last_seq
      /\ SameKey(MessageOf(h), cmd[h])
  BY DEF MessageOf, SameKey
<1>4. \A m \in messages : ~SameKey(m, draft[h])
  BY <1>1, <1>3 DEF Found, SameKey
<1> QED BY <1>1, <1>2, <1>3, <1>4, PairOfType

\* The new message extends its conversation by exactly one number.
LEMMA CommitContiguous ==
    ASSUME NEW h \in Handlers, IInv, Commit(h)
    PROVE  SequencesContiguous'
<1> DEFINE p == PairOf(cmd[h])
           n == conversations[p].last_seq
<1> SUFFICES ASSUME NEW q \in Pair
             PROVE  /\ conversations'[q] = NoRow => In(q)' = {}
                    /\ \A m \in In(q)' : m.seq <= conversations'[q].last_seq
                    /\ \A s \in 1..conversations'[q].last_seq :
                          \E m \in In(q)' : m.seq = s
                    /\ \A m, k \in In(q)' : m.seq = k.seq => m = k
  BY DEF SequencesContiguous
<1>1. /\ conversations' = [conversations EXCEPT ![p] = row[h]]
      /\ messages' = messages \cup {draft[h]}
  BY DEF Commit
<1>2. CASE q # p
  <2>1. In(q)' = In(q)
    BY <1>1, <1>2, CommitFacts DEF In
  <2>2. conversations'[q] = conversations[q]
    BY <1>1, <1>2 DEF IInv, TypeOK
  <2> QED BY <2>1, <2>2 DEF IInv, SequencesContiguous
<1>3. CASE q = p
  <2>1. In(q)' = In(q) \cup {draft[h]}
    BY <1>1, <1>3, CommitFacts DEF In
  <2>2. conversations'[q] = row[h] /\ row[h] # NoRow
    BY <1>1, <1>3, CommitFacts, NullRecords DEF IInv, TypeOK
  <2>3. \E k \in Nat :
           /\ row[h].last_seq = k + 1 /\ draft[h].seq = k + 1
           /\ \A m \in In(q) : m.seq <= k
           /\ \A s \in 1..k : \E m \in In(q) : m.seq = s
    <3>1. CASE created[h]
      <4>1. row[h].last_seq = 1 /\ In(q) = {}
        BY <1>3, <3>1, CommitFacts DEF Base, FreshRow, IInv, SequencesContiguous
      <4> QED BY <4>1, CommitFacts
    <3>2. CASE ~created[h]
      <4>1. conversations[p] \in ConversationRow
        BY <3>2, CommitFacts DEF IInv, TypeOK
      <4>2. n \in Nat /\ row[h].last_seq = n + 1
        BY <3>2, <4>1, CommitFacts DEF Base, ConversationRow
      <4>3. /\ \A m \in In(q) : m.seq <= n
            /\ \A s \in 1..n : \E m \in In(q) : m.seq = s
        BY <1>3, CommitFacts DEF IInv, SequencesContiguous
      <4> QED BY <4>2, <4>3, CommitFacts
    <3> QED BY <3>1, <3>2
  <2>4. PICK k \in Nat :
           /\ row[h].last_seq = k + 1 /\ draft[h].seq = k + 1
           /\ \A m \in In(q) : m.seq <= k
           /\ \A s \in 1..k : \E m \in In(q) : m.seq = s
    BY <2>3
  <2>5. /\ \A m \in In(q) : m.seq \in Nat
        /\ \A m, l \in In(q) : m.seq = l.seq => m = l
    BY <1>3, CommitFacts DEF IInv, TypeOK, SequencesContiguous, In, Message
  <2>6. \A m \in In(q)' : m.seq <= k + 1
    BY <2>1, <2>4, <2>5
  <2>7. \A s \in 1..(k + 1) : \E m \in In(q)' : m.seq = s
    <3> SUFFICES ASSUME NEW s \in 1..(k + 1) PROVE \E m \in In(q)' : m.seq = s
      OBVIOUS
    <3>1. CASE s = k + 1
      BY <3>1, <2>1, <2>4
    <3>2. CASE s \in 1..k
      BY <3>2, <2>1, <2>4
    <3> QED BY <3>1, <3>2
  <2>8. \A m, l \in In(q)' : m.seq = l.seq => m = l
    BY <2>1, <2>4, <2>5
  <2> QED BY <1>3, <2>2, <2>4, <2>6, <2>7, <2>8
<1> QED BY <1>2, <1>3

\* What is committed has its types.
LEMMA CommitTypes ==
    ASSUME NEW h \in Handlers, IInv, Commit(h)
    PROVE  TypeOK'
<1>1. EventOf(draft[h]) \in Event
  BY CommitFacts DEF EventOf, Event, Message
<1>2. answer' \in [Handlers -> Answers]
  <2>1. ASSUME NEW a \in Answers, Return(h, a) PROVE answer' \in [Handlers -> Answers]
    BY <2>1 DEF Return, IInv, TypeOK
  <2>2. [code |-> "created", message |-> draft[h]] \in Answers
    BY CommitFacts DEF Answers
  <2>3. \A code \in {"internal", "lost"} : [code |-> code] \in Answers
    BY DEF Answers, Failures
  <2> QED BY <2>1, <2>2, <2>3 DEF Commit
<1>3. /\ pc' \in [Handlers -> Labels] /\ cmd' = cmd
      /\ created' \in [Handlers -> BOOLEAN] /\ newMembers' \in [Handlers -> SUBSET UserIds]
      /\ row' \in [Handlers -> ConversationRow \cup {NoRow}]
      /\ draft' \in [Handlers -> Message \cup {NoMessage}]
  BY DEF Commit, Return, Release, IInv, TypeOK, Labels
<1>4. /\ conversations' \in [Pair -> ConversationRow \cup {NoRow}]
      /\ members' \in [Pair -> SUBSET UserIds]
  BY CommitFacts DEF Commit, IInv, TypeOK
<1>5. messages' \subseteq Message /\ outbox' \subseteq Event
  BY <1>1, CommitFacts DEF Commit, IInv, TypeOK
<1> QED BY <1>2, <1>3, <1>4, <1>5 DEF IInv, TypeOK

\* A commit disturbs no other open transaction.
LEMMA CommitStep ==
    ASSUME NEW h \in Handlers, IInv, Commit(h)
    PROVE  IInv'
<1> DEFINE p == PairOf(cmd[h])
<1>1. /\ conversations' = [conversations EXCEPT ![p] = row[h]]
      /\ messages' = messages \cup {draft[h]} /\ cmd' = cmd
  BY DEF Commit, Return
<1>2. /\ pc'[h] = "done" /\ ~created'[h] /\ row'[h] = NoRow /\ draft'[h] = NoMessage
      /\ \A g \in Handlers : g # h =>
            /\ pc'[g] = pc[g] /\ created'[g] = created[g]
            /\ row'[g] = row[g] /\ draft'[g] = draft[g]
  BY DEF Commit, Return, Release, IInv, TypeOK
<1>3. conversations'[p] # NoRow /\ \A q \in Pair : q # p => conversations'[q] = conversations[q]
  BY <1>1, CommitFacts, NullRecords DEF IInv, TypeOK
<1>4. TransactionShape'
  <2> SUFFICES ASSUME NEW g \in Handlers PROVE Shape(g)'
    BY DEF TransactionShape
  <2>1. CASE g = h
    BY <2>1, <1>1, <1>2, CommitFacts DEF Shape
  <2>2. CASE g # h
    <3>1. Shape(g) /\ Apart(g, h)
      BY <2>2 DEF IInv, TransactionShape, LocksExclusive
    <3>2. row[h] # NoRow /\ draft[h] # NoMessage
      BY CommitFacts, NullRecords
    <3>3. created[g] \/ row[g] # NoRow => pc[g] # "idle" /\ PairOf(cmd[g]) \in Pair
      BY <3>1, PairOfType DEF Shape
    <3>4. created[g] => PairOf(cmd[g]) # p
      BY <3>1, CommitFacts DEF Shape, Apart
    <3>5. row[g] # NoRow => PairOf(cmd[g]) # p
      BY <3>1, <3>2 DEF Apart
    <3>6. draft[g] # NoMessage => Found(cmd[g])' = {}
      <4> SUFFICES ASSUME draft[g] # NoMessage PROVE Found(cmd[g])' = {}
        OBVIOUS
      <4>1. SameKey(draft[g], cmd[g]) /\ Found(cmd[g]) = {}
        BY <3>1 DEF Shape, MessageOf, SameKey
      <4>2. ~SameKey(draft[h], cmd[g])
        BY <3>1, <3>2, <4>1 DEF Apart, SameKey
      <4> QED BY <1>1, <4>1, <4>2 DEF Found
    <3>7. pc[g] = "lock" => created[g] \/ conversations'[PairOf(cmd[g])] # NoRow
      BY <1>3, <3>1, PairOfType DEF Shape
    <3> QED BY <1>1, <1>2, <1>3, <2>2, <3>1, <3>3, <3>4, <3>5, <3>6, <3>7
            DEF Shape, Base, MessageOf
  <2> QED BY <2>1, <2>2
<1>5. LocksExclusive'
  BY <1>1, <1>2 DEF IInv, LocksExclusive, Apart
<1>6. OneMessagePerKey'
  BY <1>1, CommitFacts DEF IInv, OneMessagePerKey, SameKey
<1>7. LoserFindsWinner'
  <2> SUFFICES ASSUME NEW g \in Handlers
               PROVE  /\ pc'[g] = "reselect" => conversations'[PairOf(cmd[g])] # NoRow
                      /\ pc'[g] \in {"loser", "winner"} => Found(cmd[g])' # {}
    BY <1>1 DEF LoserFindsWinner
  <2>1. CASE g = h
    BY <2>1, <1>2
  <2>2. CASE g # h
    <3>1. /\ pc[g] = "reselect" => conversations[PairOf(cmd[g])] # NoRow
          /\ pc[g] \in {"loser", "winner"} => Found(cmd[g]) # {}
          /\ pc[g] = "reselect" => PairOf(cmd[g]) \in Pair
      BY PairOfType DEF IInv, LoserFindsWinner, TransactionShape, Shape
    <3>2. Found(cmd[g]) \subseteq Found(cmd[g])'
      BY <1>1 DEF Found
    <3> QED BY <1>2, <1>3, <2>2, <3>1, <3>2
  <2> QED BY <2>1, <2>2
<1> QED BY <1>4, <1>5, <1>6, <1>7, CommitTypes, CommitContiguous DEF IInv
-----------------------------------------------------------------------------
(* Theorems                                                                *)

\* The empty store satisfies the invariant.
LEMMA InitInvariant == Init => IInv
<1> SUFFICES ASSUME Init PROVE IInv
  OBVIOUS
<1>1. TypeOK
  BY DEF Init, TypeOK, Labels, Answers
<1>2. TransactionShape /\ LocksExclusive
  BY DEF Init, TransactionShape, Shape, LocksExclusive, Apart
<1>3. SequencesContiguous
  BY DEF Init, SequencesContiguous, In, NoRow
<1>4. OneMessagePerKey /\ LoserFindsWinner
  BY DEF Init, OneMessagePerKey, LoserFindsWinner
<1> QED BY <1>1, <1>2, <1>3, <1>4 DEF IInv

\* Every statement of every handler preserves the invariant.
LEMMA NextStep == IInv /\ [Next]_vars => IInv'
<1> SUFFICES ASSUME IInv, [Next]_vars PROVE IInv'
  OBVIOUS
<1>1. ASSUME NEW h \in Handlers, Progress(h) PROVE IInv'
  BY <1>1, FindStep, SelectStep, CreateStep, ReselectStep, MembersStep, AllocateStep,
     InsertStep, RollbackStep, WinnerStep, CommitStep, ReapStep DEF Progress
<1>2. CASE UNCHANGED vars
  BY <1>2 DEF vars, database, transaction, IInv, TypeOK, TransactionShape, Shape, Base,
     MessageOf, Found, LocksExclusive, Apart, SequencesContiguous, In,
     OneMessagePerKey, LoserFindsWinner
<1> QED BY <1>1, <1>2, ReceiveStep, StatementFailsStep, CrashStep DEF Next

\* The invariant of the send transaction holds throughout.
THEOREM StoreInvariant == Spec => []IInv
BY InitInvariant, NextStep, PTL DEF Spec

\* The tables, the open transactions and the answers keep their types.
THEOREM StoreTypes == Spec => []TypeOK
<1>1. IInv => TypeOK
  BY DEF IInv
<1> QED BY <1>1, StoreInvariant, PTL

\* Conversation sequences have no gaps and no duplicates, whatever rolls back,
\* fails or crashes.
THEOREM StoreSequencesContiguous == Spec => []SequencesContiguous
<1>1. IInv => SequencesContiguous
  BY DEF IInv
<1> QED BY <1>1, StoreInvariant, PTL

\* A client message id is stored at most once per sender.
THEOREM StoreOneMessagePerKey == Spec => []OneMessagePerKey
<1>1. IInv => OneMessagePerKey
  BY DEF IInv
<1> QED BY <1>1, StoreInvariant, PTL

\* The ErrNoRows branches after a lost race are dead code.
THEOREM StoreLoserFindsWinner == Spec => []LoserFindsWinner
<1>1. IInv => LoserFindsWinner
  BY DEF IInv
<1> QED BY <1>1, StoreInvariant, PTL

\* Sends never wait for each other in a circle: a transaction holds what others
\* wait for only at statements later than the one that waits for it.
THEOREM StoreNoDeadlock == Spec => []NoDeadlock
<1>1. IInv => NoDeadlock
  <2> SUFFICES ASSUME IInv, NEW S \in SUBSET Handlers, S # {}
               PROVE  \E g \in S : \A h \in S : ~WaitsFor(g, h)
    BY DEF NoDeadlock
  <2>1. ASSUME NEW h \in S
        PROVE  /\ created[h] => pc[h] # "create"
               /\ row[h] # NoRow => pc[h] \notin {"create", "lock"}
               /\ draft[h] # NoMessage => pc[h] \notin {"create", "lock", "insert"}
    BY DEF IInv, TransactionShape, Shape
  <2>2. CASE \E g \in S : pc[g] \notin {"create", "lock", "insert"}
    BY <2>2 DEF WaitsFor
  <2>3. CASE \A g \in S : pc[g] \in {"create", "lock", "insert"}
    <3>1. CASE \E g \in S : pc[g] = "insert"
      BY <2>1, <2>3, <3>1 DEF WaitsFor
    <3>2. CASE (\E g \in S : pc[g] = "lock") /\ ~(\E g \in S : pc[g] = "insert")
      BY <2>1, <2>3, <3>2 DEF WaitsFor
    <3>3. CASE \A g \in S : pc[g] = "create"
      BY <2>1, <3>3 DEF WaitsFor
    <3> QED BY <2>3, <3>1, <3>2, <3>3
  <2> QED BY <2>2, <2>3
<1> QED BY <1>1, StoreInvariant, PTL

\* Committed messages stay, and a new one follows all those of its conversation
\* that anyone could have read.
THEOREM StoreAppendOnly == Spec => AppendOnly
<1> DEFINE Grows ==
        /\ messages \subseteq messages'
        /\ \A m \in messages' \ messages, n \in messages :
              m.conversation = n.conversation => m.seq > n.seq
<1>1. ASSUME IInv, [Next]_vars PROVE [Grows]_vars
  <2> SUFFICES ASSUME Next PROVE Grows
    BY <1>1
  <2>1. ASSUME NEW h \in Handlers, Commit(h) PROVE Grows
    <3>1. messages' = messages \cup {draft[h]}
      BY <2>1 DEF Commit
    <3>2. ASSUME NEW n \in messages, n.conversation = draft[h].conversation
          PROVE  draft[h].seq > n.seq
      <4> DEFINE p == PairOf(cmd[h])
      <4>1. n \in In(p) /\ p \in Pair
        BY <1>1, <2>1, <3>2, CommitFacts DEF In
      <4>2. ~created[h] /\ conversations[p] \in ConversationRow
        BY <1>1, <2>1, <4>1, CommitFacts DEF IInv, TypeOK, SequencesContiguous
      <4>3. n.seq <= conversations[p].last_seq
        BY <1>1, <4>1 DEF IInv, SequencesContiguous
      <4>4. /\ draft[h].seq = conversations[p].last_seq + 1
            /\ conversations[p].last_seq \in Nat /\ n.seq \in Nat
        BY <1>1, <2>1, <4>2, CommitFacts
        DEF Base, ConversationRow, IInv, TypeOK, Message
      <4> QED BY <4>3, <4>4
    <3> QED BY <3>1, <3>2
  <2>2. ASSUME UNCHANGED messages PROVE Grows
    BY <2>2
  <2>3. ASSUME NEW h \in Handlers, Progress(h) PROVE Grows
    <3>1. CASE Commit(h)
      BY <2>1, <3>1
    <3>2. CASE ~Commit(h)
      <4>1. UNCHANGED messages
        BY <2>3, <3>2
        DEF Progress, FindIdempotentMessage, SelectConversation, CreateConversation,
            ReselectConversation, InsertConversationMembers, AllocateSequence,
            InsertMessageAndOutbox, RollbackLoser, FindCommittedIdempotentMessage,
            ReapSession, AnswerFrom, Fail, Goto, database
      <4> QED BY <4>1, <2>2
    <3> QED BY <3>1, <3>2
  <2>4. ASSUME NEW h \in Handlers, StatementFails(h) \/ Crash(h) PROVE Grows
    BY <2>2, <2>4 DEF StatementFails, Crash, Fail, database
  <2>5. ASSUME NEW h \in Handlers, NEW c \in Commands, Receive(h, c) PROVE Grows
    BY <2>2, <2>5 DEF Receive, database
  <2> QED BY <2>3, <2>4, <2>5 DEF Next
<1> QED BY <1>1, StoreInvariant, PTL DEF Spec, AppendOnly
-----------------------------------------------------------------------------
(* What is stored and what is answered                                     *)

\* A step of one handler.
HandlerStep(h) ==
    \/ \E c \in Commands : Receive(h, c)
    \/ Progress(h) \/ StatementFails(h) \/ Crash(h)

Untouched(g) ==
    /\ pc'[g] = pc[g] /\ cmd'[g] = cmd[g] /\ answer'[g] = answer[g]
    /\ created'[g] = created[g] /\ newMembers'[g] = newMembers[g]
    /\ row'[g] = row[g] /\ draft'[g] = draft[g]

\* A handler's step writes no other handler's variables.
LEMMA OthersUntouched ==
    ASSUME NEW h \in Handlers, IInv, HandlerStep(h)
    PROVE  \A g \in Handlers : g # h => Untouched(g)
<1> SUFFICES ASSUME NEW g \in Handlers, g # h PROVE Untouched(g)
  OBVIOUS
<1>0. /\ pc \in [Handlers -> Labels]
      /\ cmd \in [Handlers -> Commands \cup {NoCommand}]
      /\ answer \in [Handlers -> Answers]
      /\ created \in [Handlers -> BOOLEAN] /\ newMembers \in [Handlers -> SUBSET UserIds]
      /\ row \in [Handlers -> ConversationRow \cup {NoRow}]
      /\ draft \in [Handlers -> Message \cup {NoMessage}]
  BY DEF IInv, TypeOK
<1>1. ASSUME Release(h)
      PROVE  /\ created'[g] = created[g] /\ newMembers'[g] = newMembers[g]
             /\ row'[g] = row[g] /\ draft'[g] = draft[g]
  BY <1>0, <1>1 DEF Release
<1>2. ASSUME NEW a, Return(h, a) PROVE Untouched(g)
  BY <1>0, <1>1, <1>2 DEF Return, Untouched
<1>3. ASSUME NEW label, Goto(h, label)
      PROVE  pc'[g] = pc[g] /\ cmd'[g] = cmd[g] /\ answer'[g] = answer[g]
  BY <1>0, <1>3 DEF Goto
<1>4. ASSUME NEW label, Goto(h, label), UNCHANGED transaction PROVE Untouched(g)
  BY <1>3, <1>4 DEF transaction, Untouched
<1>5. ASSUME NEW c \in Commands, Receive(h, c) PROVE Untouched(g)
  BY <1>0, <1>5 DEF Receive, transaction, Untouched
<1>6. CASE StatementFails(h)
  BY <1>2, <1>6 DEF StatementFails, Fail
<1>7. CASE Crash(h)
  BY <1>0, <1>7 DEF Crash, transaction, Untouched
<1>8. ASSUME NEW m, AnswerFrom(h, m) PROVE Untouched(g)
  BY <1>2, <1>8 DEF AnswerFrom, Fail
<1>9. CASE FindIdempotentMessage(h)
  BY <1>4, <1>8, <1>9 DEF FindIdempotentMessage
<1>10. CASE SelectConversation(h)
  BY <1>4, <1>10 DEF SelectConversation
<1>11. CASE CreateConversation(h)
  <2>1. ASSUME created' = [created EXCEPT ![h] = TRUE], Goto(h, "members"),
               UNCHANGED <<newMembers, row, draft>>
        PROVE  Untouched(g)
    BY <1>0, <1>3, <2>1 DEF Untouched
  <2> QED BY <1>2, <1>4, <1>11, <2>1 DEF CreateConversation, Fail
<1>12. CASE ReselectConversation(h)
  BY <1>2, <1>4, <1>12 DEF ReselectConversation, Fail
<1>13. CASE InsertConversationMembers(h)
  BY <1>0, <1>3, <1>13 DEF InsertConversationMembers, Untouched
<1>14. CASE AllocateSequence(h)
  BY <1>0, <1>3, <1>14 DEF AllocateSequence, Untouched
<1>15. CASE InsertMessageAndOutbox(h)
  <2>1. ASSUME draft' = [draft EXCEPT ![h] = MessageOf(h)], Goto(h, "commit"),
               UNCHANGED <<created, newMembers, row>>
        PROVE  Untouched(g)
    BY <1>0, <1>3, <2>1 DEF Untouched
  <2> QED BY <1>4, <1>15, <2>1 DEF InsertMessageAndOutbox
<1>16. CASE RollbackLoser(h)
  BY <1>1, <1>3, <1>16 DEF RollbackLoser, Untouched
<1>17. CASE FindCommittedIdempotentMessage(h)
  BY <1>2, <1>8, <1>17 DEF FindCommittedIdempotentMessage, Fail
<1>18. CASE Commit(h)
  BY <1>2, <1>18 DEF Commit
<1>19. CASE ReapSession(h)
  BY <1>1, <1>3, <1>19 DEF ReapSession, Untouched
<1> QED BY <1>5, <1>6, <1>7, <1>9, <1>10, <1>11, <1>12, <1>13, <1>14, <1>15, <1>16,
           <1>17, <1>18, <1>19 DEF HandlerStep, Progress

\* A step that commits nothing preserves what is stored and answered, if the
\* handler's own request stays prepared and a new success names a stored message.
LEMMA LocalResult ==
    ASSUME NEW h \in Handlers, IInv, RInv, UNCHANGED database,
           \A g \in Handlers : g # h => Untouched(g),
           Prepared(h)',
           \/ answer'[h] = answer[h] /\ cmd'[h] = cmd[h]
           \/ ~Succeeded(h)'
           \/ /\ answer'[h].code = "existing" /\ answer'[h].message \in messages
              /\ SameKey(answer'[h].message, cmd'[h])
              /\ sameMessageRequest(answer'[h].message, cmd'[h])
    PROVE  RInv'
<1>1. RequestsPrepared'
  <2> SUFFICES ASSUME NEW g \in Handlers, g # h PROVE Prepared(g)'
    BY DEF RequestsPrepared
  <2>1. Prepared(g) /\ Untouched(g)
    BY DEF RInv, RequestsPrepared
  <2> QED BY <2>1 DEF Prepared, Untouched, Base, database
<1>2. /\ UNCHANGED <<conversations, members, messages, outbox>>
      /\ ConversationsCurrent' /\ CommittedTogether' /\ TimeFollowsSequence'
  BY DEF RInv, ConversationsCurrent, CommittedTogether, TimeFollowsSequence, database
<1>3. \A g \in Handlers : g # h => answer'[g] = answer[g] /\ cmd'[g] = cmd[g]
  BY DEF Untouched
<1>4. \A g \in Handlers : Succeeded(g)' =>
         /\ answer'[g].message \in messages
         /\ SameKey(answer'[g].message, cmd'[g])
         /\ answer'[g].message.receiver = cmd'[g].receiver
         /\ answer'[g].message.content = cmd'[g].content
  BY <1>3 DEF RInv, AnswersAreDurable, Succeeded, sameMessageRequest
<1>5. answer'[h].code = "created" => answer'[h] = answer[h] /\ cmd'[h] = cmd[h]
  BY DEF Succeeded
<1>6. \A f, g \in Handlers :
         answer'[f].code = "created" /\ answer'[g].code = "created"
             /\ SameKey(cmd'[f], cmd'[g]) => f = g
  BY <1>3, <1>5 DEF RInv, AnswersAreDurable
<1> QED BY <1>1, <1>2, <1>4, <1>6 DEF RInv, AnswersAreDurable

\* A handler that returns keeps no transaction.
LEMMA ReturnResult ==
    ASSUME NEW h \in Handlers, IInv, RInv, UNCHANGED <<database, cmd>>, Release(h),
           HandlerStep(h), pc[h] # "idle",
           \/ pc'[h] = "done"
           \/ pc'[h] = "winner" /\ pc[h] \in Steps /\ answer'[h] = answer[h],
           \/ answer'[h] = answer[h]
           \/ ~Succeeded(h)'
           \/ /\ answer'[h].code = "existing" /\ answer'[h].message \in messages
              /\ SameKey(answer'[h].message, cmd[h])
              /\ sameMessageRequest(answer'[h].message, cmd[h])
    PROVE  RInv'
<1>1. created'[h] = FALSE /\ newMembers'[h] = {} /\ row'[h] = NoRow
  BY DEF Release, IInv, TypeOK
<1>2. Prepared(h)'
  BY <1>1 DEF RInv, RequestsPrepared, Prepared, Steps
<1> QED BY <1>2, OthersUntouched, LocalResult

\* A failure is no success.
LEMMA FailResult ==
    ASSUME NEW h \in Handlers, IInv, RInv, HandlerStep(h), pc[h] # "idle",
           NEW code \in Failures, Fail(h, code)
    PROVE  RInv'
<1>1. pc'[h] = "done" /\ answer'[h] = [code |-> code]
  BY DEF Fail, Return, IInv, TypeOK
<1>2. ~Succeeded(h)'
  BY <1>1 DEF Succeeded, Failures
<1> QED BY <1>1, <1>2, ReturnResult DEF Fail, Return

\* An idempotent answer names the stored message with the request's key.
LEMMA AnswerFromResult ==
    ASSUME NEW h \in Handlers, IInv, RInv, HandlerStep(h), pc[h] # "idle",
           NEW m \in Found(cmd[h]), AnswerFrom(h, m)
    PROVE  RInv'
<1>1. CASE Fail(h, "idempotency_conflict")
  BY <1>1, FailResult DEF Failures
<1>2. CASE /\ sameMessageRequest(m, cmd[h])
           /\ Return(h, [code |-> "existing", message |-> m]) /\ UNCHANGED database
  <2>1. pc'[h] = "done" /\ answer'[h] = [code |-> "existing", message |-> m]
    BY <1>2 DEF Return, IInv, TypeOK
  <2>2. m \in messages /\ SameKey(m, cmd[h])
    BY DEF Found
  <2> QED BY <1>2, <2>1, <2>2, ReturnResult DEF Return
<1> QED BY <1>1, <1>2 DEF AnswerFrom

\* A statement after which the handler holds what it held before.
LEMMA GotoResult ==
    ASSUME NEW h \in Handlers, IInv, RInv, HandlerStep(h), pc[h] \in Steps,
           NEW label \in Steps, Goto(h, label), UNCHANGED transaction,
           created[h] => pc[h] \in {"lock", "insert"}
    PROVE  RInv'
<1>1. /\ pc'[h] = label /\ UNCHANGED <<cmd, answer, database>>
      /\ UNCHANGED <<created, newMembers, row, draft>>
  BY DEF Goto, IInv, TypeOK, transaction
<1>2. Prepared(h)'
  BY <1>1 DEF RInv, RequestsPrepared, Prepared, Base, database, Steps
<1> QED BY <1>1, <1>2, OthersUntouched, LocalResult

\* A request that is refused at once or starts its transaction.
LEMMA ReceiveResult ==
    ASSUME NEW h \in Handlers, NEW c \in Commands, IInv, RInv, Receive(h, c)
    PROVE  RInv'
<1>1. c # NoCommand
  <2> SUFFICES ASSUME c = NoCommand PROVE FALSE
    OBVIOUS
  <2>1. DOMAIN c = {"sender", "key", "receiver", "content"}
    BY DEF Command
  <2>2. DOMAIN NoCommand = {"key"}
    BY DEF NoCommand
  <2>3. "sender" \in DOMAIN c /\ "sender" \notin DOMAIN NoCommand
    BY <2>1, <2>2
  <2> QED BY <2>3
<1>2. /\ cmd'[h] = c /\ created'[h] = created[h]
      /\ newMembers'[h] = newMembers[h] /\ row'[h] = row[h]
  BY DEF Receive, transaction, IInv, TypeOK
<1>3. /\ ~created[h] /\ row[h] = NoRow /\ newMembers[h] = {} /\ answer[h] = NoAnswer
  BY DEF Receive, IInv, TransactionShape, Shape, RInv, RequestsPrepared, Prepared
<1>4. \/ pc'[h] = "find" /\ answer'[h] = NoAnswer /\ c.content \notin BadContents
      \/ pc'[h] = "done" /\ answer'[h].code \in Failures
  BY <1>3 DEF Receive, IInv, TypeOK, Failures
<1>5. Prepared(h)'
  BY <1>1, <1>2, <1>3, <1>4 DEF Prepared, Steps
<1>6. ~Succeeded(h)'
  BY <1>4 DEF Succeeded, Failures, NoAnswer
<1>7. HandlerStep(h)
  BY DEF HandlerStep
<1> QED BY <1>5, <1>6, <1>7, OthersUntouched, LocalResult DEF Receive

\* The steps that neither create, allocate, insert nor commit.
LEMMA LookupResult ==
    ASSUME NEW h \in Handlers, IInv, RInv, HandlerStep(h),
           \/ FindIdempotentMessage(h) \/ SelectConversation(h)
           \/ ReselectConversation(h) \/ RollbackLoser(h)
           \/ FindCommittedIdempotentMessage(h)
    PROVE  RInv'
<1>0. created[h] =>
         pc[h] \in {"members", "lock", "insert", "loser", "commit", "orphan"}
  BY DEF IInv, TransactionShape, Shape
<1>1. CASE FindIdempotentMessage(h)
  BY <1>0, <1>1, AnswerFromResult, GotoResult DEF FindIdempotentMessage, Steps
<1>2. CASE SelectConversation(h)
  BY <1>0, <1>2, GotoResult DEF SelectConversation, Steps
<1>3. CASE ReselectConversation(h)
  BY <1>0, <1>3, FailResult, GotoResult DEF ReselectConversation, Steps, Failures
<1>4. CASE RollbackLoser(h)
  <2>1. pc'[h] = "winner" /\ pc[h] \in Steps /\ UNCHANGED <<cmd, answer, database>>
    BY <1>4 DEF RollbackLoser, Goto, IInv, TypeOK, Steps
  <2> QED BY <1>4, <2>1, ReturnResult DEF RollbackLoser
<1>5. CASE FindCommittedIdempotentMessage(h)
  BY <1>5, FailResult, AnswerFromResult DEF FindCommittedIdempotentMessage, Failures
<1> QED BY <1>1, <1>2, <1>3, <1>4, <1>5

\* Only users who exist get a conversation.
LEMMA CreateResult ==
    ASSUME NEW h \in Handlers, IInv, RInv, HandlerStep(h), CreateConversation(h)
    PROVE  RInv'
<1>1. ~created[h] /\ row[h] = NoRow /\ Prepared(h)
  BY DEF CreateConversation, IInv, TransactionShape, Shape, RInv, RequestsPrepared
<1>2. CASE Fail(h, "receiver_not_found")
  BY <1>2, FailResult DEF CreateConversation, Failures
<1>3. CASE /\ cmd[h].receiver \in Users
           /\ created' = [created EXCEPT ![h] = TRUE]
           /\ Goto(h, "members")
           /\ UNCHANGED <<newMembers, row, draft>>
  <2>1. /\ pc'[h] = "members" /\ created'[h] /\ row'[h] = NoRow
        /\ UNCHANGED <<cmd, answer, database>>
    BY <1>1, <1>3 DEF Goto, IInv, TypeOK
  <2>2. Prepared(h)'
    BY <1>1, <1>3, <2>1 DEF CreateConversation, Prepared, Steps
  <2> QED BY <2>1, <2>2, OthersUntouched, LocalResult
<1>4. CASE Goto(h, "reselect") /\ UNCHANGED transaction
  BY <1>1, <1>4, GotoResult DEF CreateConversation, Steps
<1> QED BY <1>2, <1>3, <1>4 DEF CreateConversation

\* Both users become members.
LEMMA MembersResult ==
    ASSUME NEW h \in Handlers, IInv, RInv, HandlerStep(h), InsertConversationMembers(h)
    PROVE  RInv'
<1>1. created[h] /\ row[h] = NoRow /\ Prepared(h)
  BY DEF InsertConversationMembers, IInv, TransactionShape, Shape, RInv,
         RequestsPrepared
<1>2. /\ pc'[h] = "lock" /\ newMembers'[h] = {cmd[h].sender, cmd[h].receiver}
      /\ UNCHANGED <<cmd, answer, database, created, row>>
  BY DEF InsertConversationMembers, Goto, IInv, TypeOK
<1>3. Prepared(h)'
  BY <1>1, <1>2 DEF InsertConversationMembers, Prepared, Steps
<1> QED BY <1>2, <1>3, OthersUntouched, LocalResult

\* GREATEST keeps the row from going back in time.
LEMMA AllocateResult ==
    ASSUME NEW h \in Handlers, IInv, RInv, HandlerStep(h), AllocateSequence(h)
    PROVE  RInv'
<1>1. PICK now \in Clock : row' = [row EXCEPT ![h] = Advance(Base(h), now)]
  BY DEF AllocateSequence
<1>2. /\ created[h] \/ conversations[PairOf(cmd[h])] # NoRow
      /\ cmd[h] \in Commands /\ Prepared(h)
  BY DEF AllocateSequence, IInv, TransactionShape, Shape, RInv, RequestsPrepared
<1>3. /\ pc'[h] = "insert" /\ row'[h] = Advance(Base(h), now)
      /\ UNCHANGED <<cmd, answer, database, created, newMembers>>
  BY <1>1 DEF AllocateSequence, Goto, IInv, TypeOK
<1>4. Base(h)' = Base(h)
  BY <1>3 DEF Base, database
<1>5. Base(h) = FreshRow \/ Base(h) \in ConversationRow
  BY <1>2, PairOfType DEF Base, IInv, TypeOK
<1>6. Base(h).updated_at \in Nat /\ now \in Nat
  BY <1>5 DEF FreshRow, ConversationRow
<1>7. Base(h).updated_at <= row'[h].updated_at
  BY <1>3, <1>6 DEF Advance, Greatest
<1>8. Prepared(h)'
  BY <1>2, <1>3, <1>4, <1>7 DEF AllocateSequence, Prepared, Steps
<1> QED BY <1>3, <1>8, OthersUntouched, LocalResult

\* Inserting the message changes no answer.
LEMMA InsertResult ==
    ASSUME NEW h \in Handlers, IInv, RInv, HandlerStep(h), InsertMessageAndOutbox(h)
    PROVE  RInv'
<1>1. Prepared(h) /\ pc[h] = "insert"
  BY DEF InsertMessageAndOutbox, RInv, RequestsPrepared
<1>2. CASE /\ draft' = [draft EXCEPT ![h] = MessageOf(h)]
           /\ Goto(h, "commit")
           /\ UNCHANGED <<created, newMembers, row>>
  <2>1. /\ pc'[h] = "commit" /\ UNCHANGED <<cmd, answer, database>>
    BY <1>2 DEF Goto, IInv, TypeOK
  <2>2. Base(h)' = Base(h)
    BY <1>2, <2>1 DEF Base, database
  <2>3. Prepared(h)'
    BY <1>1, <1>2, <2>1, <2>2 DEF Prepared, Steps
  <2> QED BY <2>1, <2>3, OthersUntouched, LocalResult
<1>3. CASE Goto(h, "loser") /\ UNCHANGED transaction
  BY <1>1, <1>3, GotoResult DEF Steps
<1> QED BY <1>2, <1>3 DEF InsertMessageAndOutbox

\* Failures, crashes and the reaping of a session store and promise nothing.
LEMMA FailureResult ==
    ASSUME NEW h \in Handlers, IInv, RInv, HandlerStep(h),
           StatementFails(h) \/ Crash(h) \/ ReapSession(h)
    PROVE  RInv'
<1>1. CASE StatementFails(h)
  BY <1>1, FailResult DEF StatementFails, Steps, Failures
<1>2. CASE Crash(h)
  <2>1. /\ pc'[h] = "orphan" /\ answer'[h] = [code |-> "lost"]
        /\ UNCHANGED <<cmd, database, created, newMembers, row>>
    BY <1>2 DEF Crash, IInv, TypeOK, transaction
  <2>2. Base(h)' = Base(h)
    BY <2>1 DEF Base, database
  <2>3. Prepared(h)'
    BY <1>2, <2>1, <2>2 DEF Crash, RInv, RequestsPrepared, Prepared, Steps
  <2>4. ~Succeeded(h)'
    BY <2>1 DEF Succeeded
  <2> QED BY <2>1, <2>3, <2>4, OthersUntouched, LocalResult
<1>3. CASE ReapSession(h)
  <2>1. pc'[h] = "done" /\ UNCHANGED <<cmd, answer, database>>
    BY <1>3 DEF ReapSession, Goto, IInv, TypeOK
  <2> QED BY <1>3, <2>1, ReturnResult DEF ReapSession
<1> QED BY <1>1, <1>2, <1>3

\* COMMIT stores the message, its event and, for a new conversation, its two
\* members, none earlier than what is stored, and answers for nobody else.
LEMMA CommitResult ==
    ASSUME NEW h \in Handlers, IInv, RInv, HandlerStep(h), Commit(h)
    PROVE  RInv'
<1> DEFINE c == cmd[h]
           p == PairOf(c)
           m == draft[h]
<1>1. /\ conversations' = [conversations EXCEPT ![p] = row[h]]
      /\ members' = [members EXCEPT ![p] = @ \cup newMembers[h]]
      /\ messages' = messages \cup {m}
      /\ outbox' = outbox \cup {EventOf(m)}
      /\ cmd' = cmd
  BY DEF Commit, Return
<1>2. /\ c \in Commands /\ p \in Pair /\ row[h] \in ConversationRow /\ m \in Message
      /\ row[h] # NoRow
      /\ m = MessageOf(h) /\ m.conversation = p /\ m.created_at = row[h].updated_at
      /\ conversations[p] = NoRow <=> created[h]
      /\ SameKey(m, c) /\ sameMessageRequest(m, c)
      /\ \A k \in messages : ~SameKey(k, m)
  <2>1. m = MessageOf(h)
    BY DEF Commit, IInv, TransactionShape, Shape
  <2>2. sameMessageRequest(MessageOf(h), c) /\ MessageOf(h).created_at = row[h].updated_at
    BY DEF MessageOf, sameMessageRequest
  <2> QED BY <2>1, <2>2, CommitFacts, NullRecords
<1>3. /\ pc'[h] = "done" /\ ~created'[h] /\ newMembers'[h] = {} /\ row'[h] = NoRow
      /\ \/ answer'[h] = [code |-> "created", message |-> m]
         \/ \E code \in {"internal", "lost"} : answer'[h] = [code |-> code]
  BY DEF Commit, Return, Release, IInv, TypeOK
<1>4. /\ \A g \in Handlers : g # h => Untouched(g) /\ Prepared(g) /\ Apart(g, h) /\ Shape(g)
      /\ Prepared(h)
  BY OthersUntouched DEF RInv, RequestsPrepared, IInv, LocksExclusive, TransactionShape
<1>5. /\ conversations'[p] = row[h]
      /\ \A q \in Pair : q # p => conversations'[q] = conversations[q]
  BY <1>1, <1>2 DEF IInv, TypeOK
<1>6. RequestsPrepared'
  <2> SUFFICES ASSUME NEW g \in Handlers PROVE Prepared(g)'
    BY DEF RequestsPrepared
  <2>1. CASE g = h
    <3>1. pc[h] = "commit"
      BY DEF Commit
    <3>2. cmd[h] # NoCommand
      BY <1>4, <3>1 DEF Prepared
    <3> QED BY <1>1, <1>3, <2>1, <3>2 DEF Prepared, Steps
  <2>2. CASE g # h
    <3>1. Untouched(g) /\ Prepared(g) /\ Apart(g, h) /\ Shape(g)
      BY <1>4, <2>2
    <3>2. row[g] # NoRow => Base(g)' = Base(g)
      <4> SUFFICES ASSUME row[g] # NoRow PROVE Base(g)' = Base(g)
        OBVIOUS
      <4>1. PairOf(cmd[g]) # p
        BY <1>2, <3>1 DEF Apart
      <4>2. PairOf(cmd[g]) \in Pair
        BY <3>1, PairOfType DEF Shape
      <4> QED BY <1>1, <1>5, <3>1, <4>1, <4>2 DEF Base, Untouched
    <3> QED BY <3>1, <3>2 DEF Prepared, Untouched
  <2> QED BY <2>1, <2>2
<1>7. p = <<c.sender, c.receiver>> \/ p = <<c.receiver, c.sender>>
  BY DEF PairOf, Normalize
<1>8. {p[1], p[2]} = {c.sender, c.receiver} /\ c.sender \in Users
  BY <1>2, <1>7 DEF Command
<1>9. ~created[h] => Base(h) = conversations[p] /\ conversations[p] \in ConversationRow
  BY <1>2 DEF Base, IInv, TypeOK
<1>10. ~created[h] => conversations[p].updated_at <= row[h].updated_at
  BY <1>2, <1>4, <1>9 DEF Prepared
<1>11. \A k \in messages : k.conversation \in Pair /\ k.created_at \in Nat
  BY DEF IInv, TypeOK, Message
<1>12. \A k \in messages : k.conversation = p => ~created[h]
  BY <1>2 DEF IInv, SequencesContiguous, In
<1>13. \A k \in messages : k.conversation = p => k.created_at <= row[h].updated_at
  <2> SUFFICES ASSUME NEW k \in messages, k.conversation = p
               PROVE  k.created_at <= row[h].updated_at
    OBVIOUS
  <2>1. k.created_at <= conversations[p].updated_at
    BY DEF RInv, ConversationsCurrent
  <2>2. /\ conversations[p].updated_at \in Nat /\ row[h].updated_at \in Nat
        /\ k.created_at \in Nat
    BY <1>2, <1>9, <1>11, <1>12 DEF ConversationRow
  <2> QED BY <1>10, <1>12, <2>1, <2>2
<1>14. ConversationsCurrent'
  <2>1. \A k \in messages' : k.created_at <= conversations'[k.conversation].updated_at
    <3> SUFFICES ASSUME NEW k \in messages'
                 PROVE  k.created_at <= conversations'[k.conversation].updated_at
      OBVIOUS
    <3>1. CASE k = m
      <4>1. row[h].updated_at \in Nat
        BY <1>2 DEF ConversationRow
      <4> QED BY <1>2, <1>5, <3>1, <4>1
    <3>2. CASE k \in messages /\ k.conversation = p
      BY <1>5, <1>13, <3>2
    <3>3. CASE k \in messages /\ k.conversation # p
      BY <1>5, <1>11, <3>3 DEF RInv, ConversationsCurrent
    <3> QED BY <1>1, <3>1, <3>2, <3>3
  <2>2. p[1] \in Users /\ p[2] \in Users
    <3>1. CASE created[h]
      BY <1>4, <1>7, <1>8, <3>1 DEF Prepared
    <3>2. CASE ~created[h]
      BY <1>2, <3>2 DEF RInv, ConversationsCurrent
    <3> QED BY <3>1, <3>2
  <2> QED BY <1>5, <2>1, <2>2 DEF RInv, ConversationsCurrent
<1>15. CommittedTogether'
  <2>1. EventOf(m).message = m /\ EventOf(m).recipients = {c.sender, c.receiver}
    BY <1>2 DEF EventOf, SameKey, sameMessageRequest
  <2>2. /\ \A k \in messages' : \E e \in outbox' : e.message = k
    BY <1>1, <2>1 DEF RInv, CommittedTogether
  <2>3. \A e \in outbox' :
           /\ e.message \in messages'
           /\ e.recipients = {e.message.conversation[1], e.message.conversation[2]}
    BY <1>1, <1>2, <1>8, <2>1 DEF RInv, CommittedTogether
  <2>4. \A q \in Pair : q # p => members'[q] = members[q]
    BY <1>1 DEF IInv, TypeOK
  <2>5. members'[p] = members[p] \cup newMembers[h]
    BY <1>1, <1>2 DEF IInv, TypeOK
  <2>6. members'[p] = {p[1], p[2]}
    <3>1. CASE created[h]
      <4>1. newMembers[h] = {c.sender, c.receiver} /\ members[p] = {}
        BY <1>2, <1>4, <3>1 DEF Commit, Prepared, RInv, CommittedTogether
      <4> QED BY <1>8, <2>5, <4>1
    <3>2. CASE ~created[h]
      <4>1. newMembers[h] = {} /\ members[p] = {p[1], p[2]}
        BY <1>2, <1>4, <3>2 DEF Prepared, RInv, CommittedTogether
      <4> QED BY <2>5, <4>1
    <3> QED BY <3>1, <3>2
  <2>7. \A q \in Pair :
           members'[q] = IF conversations'[q] = NoRow THEN {} ELSE {q[1], q[2]}
    BY <1>2, <1>5, <2>4, <2>6 DEF RInv, CommittedTogether
  <2> QED BY <2>2, <2>3, <2>7 DEF CommittedTogether
<1>16. TimeFollowsSequence'
  <2> SUFFICES ASSUME NEW k \in messages', NEW n \in messages',
                      k.conversation = n.conversation, k.seq < n.seq
               PROVE  k.created_at <= n.created_at
    BY DEF TimeFollowsSequence
  <2>1. CASE k \in messages /\ n \in messages
    BY <2>1 DEF RInv, TimeFollowsSequence
  <2>2. CASE k \in messages /\ n = m
    BY <1>2, <1>13, <2>2
  <2>3. CASE k = m /\ n \in messages
    <3>1. n \in In(p) /\ n.seq \in Nat
      BY <1>2, <2>3 DEF In, IInv, TypeOK, Message
    <3>2. n.seq <= conversations[p].last_seq
      BY <1>2, <3>1 DEF IInv, SequencesContiguous
    <3>3. m.seq = conversations[p].last_seq + 1 /\ conversations[p].last_seq \in Nat
      BY <1>2, <1>9, <1>12, <2>3, CommitFacts DEF ConversationRow
    <3> QED BY <2>3, <3>1, <3>2, <3>3
  <2>4. CASE k = m /\ n = m
    <3>1. m.seq \in Nat
      BY <1>2 DEF Message
    <3> QED BY <2>4, <3>1
  <2> QED BY <1>1, <2>1, <2>2, <2>3, <2>4
<1>17. AnswersAreDurable'
  <2>1. \A g \in Handlers : g # h => answer'[g] = answer[g] /\ cmd'[g] = cmd[g]
    BY <1>4 DEF Untouched
  <2>2. Succeeded(h)' => answer'[h].message = m /\ answer'[h].code = "created"
    BY <1>3 DEF Succeeded
  <2>3. \A g \in Handlers : Succeeded(g)' =>
           /\ answer'[g].message \in messages'
           /\ SameKey(answer'[g].message, cmd'[g])
           /\ answer'[g].message.receiver = cmd'[g].receiver
           /\ answer'[g].message.content = cmd'[g].content
    <3> SUFFICES ASSUME NEW g \in Handlers, Succeeded(g)'
                 PROVE  /\ answer'[g].message \in messages'
                        /\ SameKey(answer'[g].message, cmd'[g])
                        /\ answer'[g].message.receiver = cmd'[g].receiver
                        /\ answer'[g].message.content = cmd'[g].content
      OBVIOUS
    <3>1. CASE g = h
      BY <1>1, <1>2, <2>2, <3>1 DEF sameMessageRequest
    <3>2. CASE g # h
      BY <1>1, <2>1, <3>2 DEF RInv, AnswersAreDurable, Succeeded
    <3> QED BY <3>1, <3>2
  <2>4. \A g \in Handlers : g # h /\ answer'[g].code = "created" => ~SameKey(cmd[g], c)
    <3> SUFFICES ASSUME NEW g \in Handlers, g # h, answer'[g].code = "created",
                        SameKey(cmd[g], c)
                 PROVE  FALSE
      OBVIOUS
    <3>1. answer[g].message \in messages /\ SameKey(answer[g].message, cmd[g])
      BY <2>1 DEF RInv, AnswersAreDurable, Succeeded
    <3>2. SameKey(answer[g].message, m)
      BY <1>2, <3>1 DEF SameKey
    <3> QED BY <1>2, <3>1, <3>2
  <2>5. \A f, g \in Handlers :
           answer'[f].code = "created" /\ answer'[g].code = "created"
               /\ SameKey(cmd'[f], cmd'[g]) => f = g
    <3> SUFFICES ASSUME NEW f \in Handlers, NEW g \in Handlers, f # g,
                        answer'[f].code = "created", answer'[g].code = "created",
                        SameKey(cmd'[f], cmd'[g])
                 PROVE  FALSE
      OBVIOUS
    <3>1. CASE f # h /\ g # h
      BY <2>1, <3>1 DEF RInv, AnswersAreDurable
    <3>2. CASE f = h
      BY <1>1, <2>4, <3>2 DEF SameKey
    <3>3. CASE g = h
      BY <1>1, <2>4, <3>3
    <3> QED BY <3>1, <3>2, <3>3
  <2> QED BY <2>3, <2>5 DEF AnswersAreDurable
<1> QED BY <1>6, <1>14, <1>15, <1>16, <1>17 DEF RInv

\* Every step preserves what is stored and answered.
LEMMA NextResult == IInv /\ RInv /\ [Next]_vars => RInv'
<1> SUFFICES ASSUME IInv, RInv, [Next]_vars PROVE RInv'
  OBVIOUS
<1>1. ASSUME NEW h \in Handlers, HandlerStep(h) PROVE RInv'
  <2>1. ASSUME NEW c \in Commands, Receive(h, c) PROVE RInv'
    BY <2>1, ReceiveResult
  <2>2. CASE Progress(h)
    BY <1>1, <2>2, LookupResult, CreateResult, MembersResult, AllocateResult,
       InsertResult, CommitResult, FailureResult DEF Progress
  <2>3. CASE StatementFails(h) \/ Crash(h)
    BY <1>1, <2>3, FailureResult
  <2> QED BY <1>1, <2>1, <2>2, <2>3 DEF HandlerStep
<1>2. CASE UNCHANGED vars
  BY <1>2 DEF vars, database, transaction, RInv, RequestsPrepared, Prepared, Base,
     ConversationsCurrent, CommittedTogether, TimeFollowsSequence, AnswersAreDurable,
     Succeeded
<1> QED BY <1>1, <1>2 DEF Next, HandlerStep

\* What is stored and answered is right throughout.
THEOREM StoreResults == Spec => []RInv
<1>1. Init => RInv
  <2> SUFFICES ASSUME Init PROVE RInv
    OBVIOUS
  <2>1. RequestsPrepared
    BY DEF Init, RequestsPrepared, Prepared, Steps
  <2>2. ConversationsCurrent /\ CommittedTogether /\ TimeFollowsSequence
    BY DEF Init, ConversationsCurrent, CommittedTogether, TimeFollowsSequence
  <2>3. AnswersAreDurable
    BY DEF Init, AnswersAreDurable, Succeeded, NoAnswer
  <2> QED BY <2>1, <2>2, <2>3 DEF RInv
<1> QED BY <1>1, NextResult, StoreInvariant, PTL DEF Spec

\* Message, event and members are stored together.
THEOREM StoreCommittedTogether == Spec => []CommittedTogether
<1>1. RInv => CommittedTogether
  BY DEF RInv
<1> QED BY <1>1, StoreResults, PTL

\* created_at follows the sequence of a conversation, whatever the clock does.
THEOREM StoreTimeFollowsSequence == Spec => []TimeFollowsSequence
<1>1. RInv => TimeFollowsSequence
  BY DEF RInv
<1> QED BY <1>1, StoreResults, PTL

\* A success names the stored message that was asked for, and one handler of a
\* client message at most answers that it created it.
THEOREM StoreAnswersAreDurable == Spec => []AnswersAreDurable
<1>1. RInv => AnswersAreDurable
  BY DEF RInv
<1> QED BY <1>1, StoreResults, PTL
-----------------------------------------------------------------------------
(* The refinement: MessageStore implements MessageLog                      *)

\* The variables of MessageLog that a state of the store stands for.
LogBar == [p \in Pair |-> LogOf(p)]
ReplyBar == [h \in Handlers |-> ReplyOf(answer[h])]

\* The request a stored message came from, and the length of a conversation.
Entry(m) == [sender |-> m.sender, key |-> m.key,
             receiver |-> m.receiver, content |-> m.content]
Size(p) == Greatest(0, conversations[p].last_seq)

\* The length of a conversation is its last_seq, or 0 before it exists.
LEMMA SizeFacts ==
    IInv => \A p \in Pair :
        /\ Size(p) \in Nat
        /\ conversations[p] = NoRow => Size(p) = 0
        /\ conversations[p] # NoRow => Size(p) = conversations[p].last_seq
<1> SUFFICES ASSUME IInv, NEW p \in Pair
             PROVE  /\ Size(p) \in Nat
                    /\ conversations[p] = NoRow => Size(p) = 0
                    /\ conversations[p] # NoRow => Size(p) = conversations[p].last_seq
  OBVIOUS
<1>1. CASE conversations[p] = NoRow
  BY <1>1 DEF Size, Greatest, NoRow
<1>2. CASE conversations[p] # NoRow
  <2>1. conversations[p] \in ConversationRow
    BY <1>2 DEF IInv, TypeOK
  <2>2. conversations[p].last_seq \in Nat \ {0}
    BY <2>1 DEF ConversationRow
  <2> QED BY <1>2, <2>2 DEF Size, Greatest
<1> QED BY <1>1, <1>2

\* Position s of the log of a conversation is the request of its message s.
LogRead(p) ==
    /\ LogOf(p) \in [1..Size(p) -> Command]
    /\ \A m \in In(p) : m.seq \in 1..Size(p) /\ LogOf(p)[m.seq] = Entry(m)
    /\ \A s \in 1..Size(p) : \E m \in In(p) : m.seq = s

LogsRead == \A p \in Pair : LogRead(p)

\* Every state that satisfies the invariant reads as logs.
LEMMA LogFacts == IInv => LogsRead
<1> SUFFICES ASSUME IInv, NEW p \in Pair PROVE LogRead(p)
  BY DEF LogsRead
<1> DEFINE Nth(s) == CHOOSE m \in In(p) : m.seq = s
<1>1. LogOf(p) = [s \in 1..Size(p) |-> Entry(Nth(s))]
  BY DEF LogOf, Size, Entry
<1>2. /\ Size(p) \in Nat
      /\ conversations[p] = NoRow => Size(p) = 0
      /\ conversations[p] # NoRow => Size(p) = conversations[p].last_seq
  BY SizeFacts
<1>3. \A s \in 1..Size(p) : \E m \in In(p) : m.seq = s
  BY <1>2 DEF IInv, SequencesContiguous
<1>4. \A m \in In(p) : m.seq \in 1..Size(p)
  <2> SUFFICES ASSUME NEW m \in In(p) PROVE m.seq \in 1..Size(p)
    OBVIOUS
  <2>1. m.seq \in Nat \ {0}
    BY DEF In, IInv, TypeOK, Message
  <2>2. conversations[p] # NoRow /\ m.seq <= conversations[p].last_seq
    BY DEF IInv, SequencesContiguous
  <2> QED BY <1>2, <2>1, <2>2
<1>5. \A s \in 1..Size(p) : Nth(s) \in In(p) /\ Nth(s).seq = s
  BY <1>3
<1>6. \A m \in In(p) : Nth(m.seq) = m
  <2>1. \A m, n \in In(p) : m.seq = n.seq => m = n
    BY DEF IInv, SequencesContiguous
  <2> HIDE DEF Nth
  <2> QED BY <1>4, <1>5, <2>1
<1>7. \A m \in In(p) : Entry(m) \in Command
  BY DEF In, IInv, TypeOK, Message, Command, Entry
<1> HIDE DEF Nth
<1> QED BY <1>1, <1>3, <1>4, <1>5, <1>6, <1>7 DEF LogRead

\* The same of the state after a step.
LEMMA LogFactsAfter == IInv' => LogsRead'
BY LogFacts, PTL

\* A log is a sequence as long as its conversation.
LEMMA LogLength ==
    IInv => \A p \in Pair : LogOf(p) \in Seq(Command) /\ Len(LogOf(p)) = Size(p)
<1> SUFFICES ASSUME IInv, NEW p \in Pair
             PROVE  LogOf(p) \in Seq(Command) /\ Len(LogOf(p)) = Size(p)
  OBVIOUS
<1>1. LogOf(p) \in [1..Size(p) -> Command] /\ Size(p) \in Nat
  BY LogFacts, SizeFacts DEF LogsRead, LogRead
<1> QED BY <1>1

\* The requests of the messages with a given key are the entries with that key.
LEMMA LogKeys ==
    ASSUME IInv, NEW c
    PROVE  Found(c) = {} =>
               \A q \in Pair : \A i \in 1..Len(LogOf(q)) : ~SameKey(LogOf(q)[i], c)
<1> SUFFICES ASSUME Found(c) = {}, NEW q \in Pair, NEW i \in 1..Len(LogOf(q)),
                    SameKey(LogOf(q)[i], c)
             PROVE  FALSE
  OBVIOUS
<1>1. PICK m \in In(q) : m.seq = i
  BY LogFacts, LogLength DEF LogsRead, LogRead
<1>2. LogOf(q)[i] = Entry(m) /\ m \in messages
  BY <1>1, LogFacts DEF In, LogsRead, LogRead
<1>3. SameKey(m, c)
  BY <1>2 DEF SameKey, Entry
<1> QED BY <1>2, <1>3 DEF Found

\* A step that commits nothing leaves the logs as they are.
LEMMA LogUnchanged == UNCHANGED database => LogBar' = LogBar
BY DEF database, LogBar, LogOf, In

\* One handler's new answer is one caller's new reply.
LEMMA ReplyChanged ==
    ASSUME NEW h \in Handlers, NEW a, answer \in [Handlers -> Answers],
           answer' = [answer EXCEPT ![h] = a]
    PROVE  ReplyBar' = [ReplyBar EXCEPT ![h] = ReplyOf(a)]
<1>1. answer'[h] = a /\ \A g \in Handlers : g # h => answer'[g] = answer[g]
  OBVIOUS
<1>2. ReplyBar' = [g \in Handlers |-> ReplyOf(answer'[g])]
  BY DEF ReplyBar, ReplyOf
<1>3. [ReplyBar EXCEPT ![h] = ReplyOf(a)] =
         [g \in Handlers |-> IF g = h THEN ReplyOf(a) ELSE ReplyOf(answer[g])]
  BY DEF ReplyBar
<1> QED BY <1>1, <1>2, <1>3

\* A failure code is told as it is.
LEMMA FailureReply ==
    ASSUME NEW h \in Handlers, NEW code \in Failures, IInv,
           answer' = [answer EXCEPT ![h] = [code |-> code]]
    PROVE  ReplyBar' = [ReplyBar EXCEPT ![h] = [code |-> code]]
<1>1. ReplyOf([code |-> code]) = [code |-> code]
  BY DEF Failures, ReplyOf
<1>2. answer \in [Handlers -> Answers]
  BY DEF IInv, TypeOK
<1>3. ReplyBar' = [ReplyBar EXCEPT ![h] = ReplyOf([code |-> code])]
  BY <1>2, ReplyChanged
<1> QED BY <1>1, <1>3

\* A handler in the middle of its request is a caller waiting for its reply.
LEMMA OpenRequest ==
    ASSUME NEW h \in Handlers, RInv, pc[h] \in Steps
    PROVE  cmd[h] # NoCommand /\ ReplyBar[h] = NoAnswer
<1>1. cmd[h] # NoCommand /\ answer[h] = NoAnswer
  BY DEF RInv, RequestsPrepared, Prepared, Steps
<1> QED BY <1>1 DEF ReplyBar, ReplyOf, NoAnswer

\* COMMIT appends the request to the log of its pair.
LEMMA CommitAppends ==
    ASSUME NEW h \in Handlers, IInv, IInv', Commit(h)
    PROVE  LogBar' = [LogBar EXCEPT ![PairOf(cmd[h])] = Append(@, cmd[h])]
<1>1. PICK p \in Pair, c \in Command, d \in Message : 
         p = PairOf(cmd[h]) /\ c = cmd[h] /\ d = draft[h]
  BY CommitFacts
<1>2. PICK n \in Nat : n = Size(p)
  BY SizeFacts
<1>3. /\ conversations' = [conversations EXCEPT ![p] = row[h]]
      /\ messages' = messages \cup {d}
  BY <1>1 DEF Commit
<1>4. d.conversation = p /\ Entry(d) = c
  <2>1. d = MessageOf(h) /\ d.conversation = p
    BY <1>1, CommitFacts DEF Commit, IInv, TransactionShape, Shape
  <2>2. Entry(MessageOf(h)) = [sender |-> c.sender, key |-> c.key,
                              receiver |-> c.receiver, content |-> c.content]
    BY <1>1 DEF Entry, MessageOf
  <2> QED BY <2>1, <2>2 DEF Command
<1>5. Size(p)' = n + 1 /\ d.seq = n + 1
  <2>1. n = Base(h).last_seq
    BY <1>1, <1>2, SizeFacts, CommitFacts DEF Base, FreshRow
  <2>2. conversations'[p] = row[h]
    BY <1>3 DEF IInv, TypeOK
  <2>3. row[h].last_seq = n + 1 /\ d.seq = n + 1
    BY <1>1, <2>1, CommitFacts
  <2> QED BY <2>2, <2>3 DEF Size, Greatest
<1>6. \A q \in Pair :
         /\ LogOf(q)' \in [1..Size(q)' -> Command]
         /\ \A m \in In(q)' : LogOf(q)'[m.seq] = Entry(m)
  BY LogFactsAfter DEF LogsRead, LogRead, Entry
<1>7. LogOf(p)' = Append(LogOf(p), c)
  <2>1. /\ LogOf(p) \in Seq(Command) /\ Len(LogOf(p)) = n
        /\ LogOf(p) \in [1..n -> Command]
    BY <1>2, LogLength, LogFacts DEF LogsRead, LogRead
  <2>2. LogOf(p)' \in [1..(n + 1) -> Command]
    BY <1>5, <1>6
  <2>3. In(p)' = In(p) \cup {d}
    BY <1>3, <1>4 DEF In
  <2>4. LogOf(p)'[n + 1] = c
    BY <1>4, <1>5, <1>6, <2>3
  <2>5. \A s \in 1..n : LogOf(p)'[s] = LogOf(p)[s]
    <3> SUFFICES ASSUME NEW s \in 1..n PROVE LogOf(p)'[s] = LogOf(p)[s]
      OBVIOUS
    <3>1. PICK m \in In(p) : m.seq = s
      BY <1>2, LogFacts DEF LogsRead, LogRead
    <3>2. LogOf(p)[s] = Entry(m)
      BY <3>1, LogFacts DEF LogsRead, LogRead
    <3>3. LogOf(p)'[s] = Entry(m)
      BY <1>6, <2>3, <3>1
    <3> QED BY <3>2, <3>3
  <2>6. /\ Append(LogOf(p), c) \in Seq(Command)
        /\ Len(Append(LogOf(p), c)) = n + 1
        /\ \A s \in 1..n : Append(LogOf(p), c)[s] = LogOf(p)[s]
        /\ Append(LogOf(p), c)[n + 1] = c
    BY <2>1, AppendProperties
  <2>7. Append(LogOf(p), c) \in [1..(n + 1) -> Command]
    BY <2>6, LenProperties
  <2>8. \A s \in 1..(n + 1) : LogOf(p)'[s] = Append(LogOf(p), c)[s]
    BY <2>4, <2>5, <2>6
  <2> QED BY <2>2, <2>7, <2>8
<1>8. \A q \in Pair : q # p => LogOf(q)' = LogOf(q)
  <2> SUFFICES ASSUME NEW q \in Pair, q # p PROVE LogOf(q)' = LogOf(q)
    OBVIOUS
  <2>1. In(q)' = In(q)
    BY <1>3, <1>4 DEF In
  <2>2. conversations'[q] = conversations[q]
    BY <1>3 DEF IInv, TypeOK
  <2> QED BY <2>1, <2>2 DEF LogOf
<1>9. LogBar' = [q \in Pair |-> LogOf(q)']
  BY DEF LogBar
<1>10. [LogBar EXCEPT ![p] = Append(@, c)] =
          [q \in Pair |-> IF q = p THEN Append(LogOf(p), c) ELSE LogOf(q)]
  BY DEF LogBar
<1>11. [LogBar EXCEPT ![p] = Append(@, c)] = [q \in Pair |-> LogOf(q)']
  BY <1>7, <1>8, <1>10
<1> QED BY <1>1, <1>9, <1>11

\* The state functions of the two specifications that coincide.
LEMMA SharedNames ==
    /\ Log!NoRequest = NoCommand /\ Log!NoReply = NoAnswer /\ Log!Pair = Pair
    /\ \A c \in Commands : Log!PairOf(c) = PairOf(c)
BY DEF Log!NoRequest, NoCommand, Log!NoReply, NoAnswer, Log!Pair, Pair, Log!PairOf,
       PairOf, Normalize

\* Receiving a request submits it.
LEMMA ReceiveRefines ==
    ASSUME NEW h \in Handlers, NEW c \in Commands, IInv, RInv, Receive(h, c)
    PROVE  Log!Submit(h, c)
<1>1. cmd[h] = NoCommand /\ cmd' = [cmd EXCEPT ![h] = c] /\ UNCHANGED database
  BY DEF Receive, RInv, RequestsPrepared, Prepared
<1>2. LogBar' = LogBar
  BY <1>1, LogUnchanged
<1>3. \/ ReplyBar' = ReplyBar
      \/ ReplyBar' = [ReplyBar EXCEPT ![h] = [code |-> "unavailable"]]
      \/ c.content \in BadContents /\ ReplyBar' = [ReplyBar EXCEPT ![h] = [code |-> "invalid"]]
  <2>1. CASE UNCHANGED answer
    BY <2>1 DEF ReplyBar, ReplyOf
  <2>2. CASE answer' = [answer EXCEPT ![h] = [code |-> "unavailable"]]
    BY <2>2, FailureReply DEF Failures
  <2>3. CASE /\ c.content \in BadContents
             /\ answer' = [answer EXCEPT ![h] = [code |-> "invalid"]]
    BY <2>3, FailureReply DEF Failures
  <2> QED BY <2>1, <2>2, <2>3 DEF Receive
<1> QED BY <1>1, <1>2, <1>3, SharedNames DEF Log!Submit, LogBar, ReplyBar

\* A failed or crashed send is refused, whatever it had done.
LEMMA RefuseRefines ==
    ASSUME NEW h \in Handlers, IInv, RInv, pc[h] \in Steps, UNCHANGED <<database, cmd>>,
           NEW code \in {"internal", "lost", "receiver_not_found"},
           code = "receiver_not_found" => cmd[h].receiver \notin Users,
           answer' = [answer EXCEPT ![h] = [code |-> code]]
    PROVE  Log!Refuse(h)
<1>1. LogBar' = LogBar
  BY LogUnchanged
<1>2. ReplyBar' = [ReplyBar EXCEPT ![h] = [code |-> code]]
  BY FailureReply DEF Failures
<1>3. cmd[h] # NoCommand /\ ReplyBar[h] = NoAnswer
  BY OpenRequest
<1> QED BY <1>1, <1>2, <1>3, SharedNames
        DEF Log!Refuse, Log!Open, Log!Tell, LogBar, ReplyBar

\* An idempotent answer repeats what the log holds under the request's key.
LEMMA RepeatRefines ==
    ASSUME NEW h \in Handlers, IInv, RInv, pc[h] \in Steps, NEW m \in Found(cmd[h]),
           AnswerFrom(h, m)
    PROVE  Log!Repeat(h)
<1> DEFINE p == m.conversation
           i == m.seq
<1>1. /\ m \in In(p) /\ p \in Pair /\ SameKey(m, cmd[h]) /\ cmd[h] \in Command
      /\ UNCHANGED <<database, cmd>>
  BY DEF Found, In, IInv, TypeOK, Message, TransactionShape, Shape, Steps, AnswerFrom,
         Fail, Return
<1>2. LogBar' = LogBar
  BY <1>1, LogUnchanged
<1>3. i \in 1..Len(LogBar[p]) /\ LogBar[p][i] = Entry(m)
  BY <1>1, LogFacts, LogLength DEF LogsRead, LogRead, LogBar
<1>4. SameKey(Entry(m), cmd[h])
  BY <1>1 DEF SameKey, Entry
<1>5. Entry(m) = cmd[h] <=> sameMessageRequest(m, cmd[h])
  <2>1. cmd[h] = [sender |-> cmd[h].sender, key |-> cmd[h].key,
                  receiver |-> cmd[h].receiver, content |-> cmd[h].content]
    BY <1>1 DEF Command
  <2> QED BY <1>1, <2>1 DEF Entry, SameKey, sameMessageRequest
<1>6. ReplyBar' = [ReplyBar EXCEPT ![h] =
         IF Entry(m) = cmd[h]
         THEN [code |-> "existing", conversation |-> p, seq |-> i]
         ELSE [code |-> "idempotency_conflict"]]
  <2>1. CASE sameMessageRequest(m, cmd[h])
    <3>1. answer' = [answer EXCEPT ![h] = [code |-> "existing", message |-> m]]
      BY <2>1 DEF AnswerFrom, Return
    <3>2. ReplyOf([code |-> "existing", message |-> m]) =
             [code |-> "existing", conversation |-> p, seq |-> i]
      BY DEF ReplyOf
    <3> QED BY <1>5, <2>1, <3>1, <3>2, ReplyChanged DEF IInv, TypeOK
  <2>2. CASE ~sameMessageRequest(m, cmd[h])
    <3>1. answer' = [answer EXCEPT ![h] = [code |-> "idempotency_conflict"]]
      BY <2>2 DEF AnswerFrom, Fail, Return
    <3> QED BY <1>5, <2>2, <3>1, FailureReply DEF Failures
  <2> QED BY <2>1, <2>2
<1>7. cmd[h] # NoCommand /\ ReplyBar[h] = NoAnswer
  BY OpenRequest
<1>8. /\ Log!SameKey(LogBar[p][i], cmd[h])
      /\ ReplyBar' = [ReplyBar EXCEPT ![h] =
            IF LogBar[p][i] = cmd[h]
            THEN [code |-> "existing", conversation |-> p, seq |-> i]
            ELSE [code |-> "idempotency_conflict"]]
  BY <1>3, <1>4, <1>6 DEF Log!SameKey, SameKey
<1> HIDE DEF p, i
<1> QED BY <1>1, <1>2, <1>3, <1>7, <1>8, SharedNames
        DEF Log!Repeat, Log!Open, Log!Tell, LogBar, ReplyBar

\* COMMIT accepts the request.
LEMMA CommitRefines ==
    ASSUME NEW h \in Handlers, IInv, IInv', RInv, Commit(h)
    PROVE  Log!Accept(h)
<1>1. /\ pc[h] \in Steps /\ cmd[h] \in Commands /\ cmd' = cmd
      /\ cmd[h].content \notin BadContents /\ PairOf(cmd[h]) \in Pair
  BY CommitFacts DEF Commit, Return, Steps, RInv, RequestsPrepared, Prepared
<1>2. cmd[h].receiver \in Users
  <2>1. CASE created[h]
    BY <2>1 DEF RInv, RequestsPrepared, Prepared
  <2>2. CASE ~created[h]
    <3>1. PairOf(cmd[h])[1] \in Users /\ PairOf(cmd[h])[2] \in Users
      BY <2>2, CommitFacts DEF RInv, ConversationsCurrent
    <3>2. \/ PairOf(cmd[h]) = <<cmd[h].sender, cmd[h].receiver>>
          \/ PairOf(cmd[h]) = <<cmd[h].receiver, cmd[h].sender>>
      BY DEF PairOf, Normalize
    <3> QED BY <3>1, <3>2
  <2> QED BY <2>1, <2>2
<1>3. cmd[h] # NoCommand /\ ReplyBar[h] = NoAnswer
  BY <1>1, OpenRequest
<1>4. \A q \in Pair : \A i \in 1..Len(LogBar[q]) : ~Log!SameKey(LogBar[q][i], cmd[h])
  <2>1. Found(cmd[h]) = {}
    BY DEF Commit, IInv, TransactionShape, Shape
  <2> QED BY <2>1, LogKeys DEF LogBar, SameKey, Log!SameKey
<1>5. LogBar' = [LogBar EXCEPT ![PairOf(cmd[h])] = Append(@, cmd[h])]
  BY CommitAppends
<1>6. \/ ReplyBar' = [ReplyBar EXCEPT ![h] =
            [code |-> "created", conversation |-> PairOf(cmd[h]),
             seq |-> Len(LogBar[PairOf(cmd[h])]) + 1]]
      \/ \E code \in {"internal", "lost"} :
            ReplyBar' = [ReplyBar EXCEPT ![h] = [code |-> code]]
  <2>1. CASE Return(h, [code |-> "created", message |-> draft[h]])
    <3>1. ReplyOf([code |-> "created", message |-> draft[h]]) =
             [code |-> "created", conversation |-> draft[h].conversation,
              seq |-> draft[h].seq]
      BY DEF ReplyOf
    <3>2. Len(LogBar[PairOf(cmd[h])]) = Size(PairOf(cmd[h]))
      BY <1>1, LogLength DEF LogBar
    <3>3. Size(PairOf(cmd[h])) = Base(h).last_seq
      BY <1>1, SizeFacts, CommitFacts DEF Base, FreshRow
    <3>4. ReplyBar' = [ReplyBar EXCEPT ![h] = ReplyOf([code |-> "created", message |-> draft[h]])]
      BY <2>1, ReplyChanged DEF Return, IInv, TypeOK
    <3>5. /\ draft[h].conversation = PairOf(cmd[h])
          /\ draft[h].seq = Len(LogBar[PairOf(cmd[h])]) + 1
      BY <3>2, <3>3, CommitFacts
    <3> QED BY <3>1, <3>4, <3>5
  <2>2. ASSUME NEW code \in {"internal", "lost"}, Return(h, [code |-> code])
        PROVE  ReplyBar' = [ReplyBar EXCEPT ![h] = [code |-> code]]
    BY <2>2, FailureReply DEF Return, Failures
  <2> QED BY <2>1, <2>2 DEF Commit
<1> QED BY <1>1, <1>2, <1>3, <1>4, <1>5, <1>6, SharedNames
        DEF Log!Accept, Log!Open, Log!Tell, LogBar, ReplyBar

\* A step of a transaction that answers nobody is invisible.
LEMMA SilentRefines ==
    ASSUME UNCHANGED <<database, cmd, answer>> PROVE UNCHANGED Log!vars
<1>1. LogBar' = LogBar
  BY LogUnchanged
<1>2. ReplyBar' = ReplyBar
  BY DEF ReplyBar, ReplyOf
<1> QED BY <1>1, <1>2 DEF Log!vars, LogBar, ReplyBar

\* Every step of a send is a step of the log, or invisible.
LEMMA StepRefines ==
    ASSUME NEW h \in Handlers, IInv, IInv', RInv, HandlerStep(h)
    PROVE  Log!Next \/ UNCHANGED Log!vars
<1>1. ASSUME NEW code \in {"internal", "lost", "receiver_not_found"}, Fail(h, code),
             code = "receiver_not_found" => cmd[h].receiver \notin Users,
             pc[h] \in Steps
      PROVE  Log!Refuse(h)
  BY <1>1, RefuseRefines DEF Fail, Return
<1>2. ASSUME NEW label, Goto(h, label) PROVE UNCHANGED Log!vars
  BY <1>2, SilentRefines DEF Goto
<1>3. ASSUME NEW c \in Commands, Receive(h, c) PROVE Log!Next
  BY <1>3, ReceiveRefines DEF Log!Next
<1>4. CASE StatementFails(h)
  BY <1>1, <1>4 DEF StatementFails, Log!Next
<1>5. CASE Crash(h)
  BY <1>5, RefuseRefines DEF Crash, Log!Next
<1>6. CASE FindIdempotentMessage(h)
  BY <1>2, <1>6, RepeatRefines DEF FindIdempotentMessage, Steps, Log!Next
<1>7. CASE SelectConversation(h)
  BY <1>2, <1>7 DEF SelectConversation
<1>8. CASE CreateConversation(h)
  BY <1>1, <1>2, <1>8 DEF CreateConversation, Steps, Log!Next
<1>9. CASE ReselectConversation(h)
  BY <1>1, <1>2, <1>9 DEF ReselectConversation, Steps, Log!Next
<1>10. CASE InsertConversationMembers(h)
  BY <1>2, <1>10 DEF InsertConversationMembers
<1>11. CASE AllocateSequence(h)
  BY <1>2, <1>11 DEF AllocateSequence
<1>12. CASE InsertMessageAndOutbox(h)
  BY <1>2, <1>12 DEF InsertMessageAndOutbox
<1>13. CASE RollbackLoser(h)
  BY <1>2, <1>13 DEF RollbackLoser
<1>14. CASE FindCommittedIdempotentMessage(h)
  <2>1. PICK m \in Found(cmd[h]) : AnswerFrom(h, m)
    BY <1>14 DEF FindCommittedIdempotentMessage, IInv, LoserFindsWinner
  <2> QED BY <1>14, <2>1, RepeatRefines DEF FindCommittedIdempotentMessage, Steps, Log!Next
<1>15. CASE Commit(h)
  BY <1>15, CommitRefines DEF Log!Next
<1>16. CASE ReapSession(h)
  BY <1>2, <1>16 DEF ReapSession
<1> QED BY <1>3, <1>4, <1>5, <1>6, <1>7, <1>8, <1>9, <1>10, <1>11, <1>12, <1>13,
           <1>14, <1>15, <1>16 DEF HandlerStep, Progress

\* Sending implements the log: the statements of concurrent sends, their
\* rollbacks, failures and crashes look like requests appended in single steps.
THEOREM StoreImplementsLog == Spec => ImplementsLog
<1>1. Init => Log!Init
  <2> SUFFICES ASSUME Init PROVE Log!Init
    OBVIOUS
  <2>1. \A p \in Pair : LogOf(p) = <<>>
    <3> SUFFICES ASSUME NEW p \in Pair PROVE LogOf(p) = <<>>
      OBVIOUS
    <3>1. Size(p) = 0
      BY DEF Init, Size, Greatest, NoRow
    <3>2. LogOf(p) \in Seq(Command) /\ Len(LogOf(p)) = 0
      BY <3>1, InitInvariant, LogLength
    <3> QED BY <3>2, EmptySeq
  <2>2. \A h \in Handlers : ReplyOf(answer[h]) = NoAnswer
    BY DEF Init, ReplyOf, NoAnswer
  <2> QED BY <2>1, <2>2, SharedNames DEF Init, Log!Init
<1>2. IInv /\ IInv' /\ RInv /\ [Next]_vars => [Log!Next]_(Log!vars)
  <2> SUFFICES ASSUME IInv, IInv', RInv, [Next]_vars
               PROVE  Log!Next \/ UNCHANGED Log!vars
    OBVIOUS
  <2>1. CASE UNCHANGED vars
    BY <2>1, SilentRefines DEF vars
  <2>2. CASE Next
    BY <2>2, StepRefines DEF Next, HandlerStep
  <2> QED BY <2>1, <2>2
<1> QED BY <1>1, <1>2, StoreInvariant, StoreResults, PTL DEF Spec, ImplementsLog, Log!Spec
=============================================================================
