---------------------------- MODULE MessageStore ----------------------------
(***************************************************************************)
(* Sending a direct message: messageService.send and the messageStore      *)
(* transaction it drives, one action per SQL statement, run by concurrent  *)
(* handlers against PostgreSQL at READ COMMITTED.                          *)
(*                                                                         *)
(* A statement sees the rows committed before it starts; an UPDATE of a    *)
(* conversation row waits for the transaction that holds its row lock; an  *)
(* INSERT ... ON CONFLICT DO NOTHING waits for the transaction that has    *)
(* an uncommitted row with the same unique key.  A conversation is         *)
(* identified by its pair of users and a message by its contents, so that  *)
(* the identity columns need no counters.                                  *)
(***************************************************************************)
EXTENDS Integers, FiniteSets

CONSTANTS
    Handlers,       \* one element per POST /messages call, retries included
    Users,          \* user ids that have a row in users
    UserIds,        \* every id a request may name as its receiver
    Keys,           \* client message ids
    Contents,       \* message contents
    BadContents,    \* the contents that are empty or too long
    Clock,          \* the readings clock_timestamp() may return, in any order
    Commands        \* the requests the authenticated callers may send

Command == [sender : Users, key : Keys, receiver : UserIds, content : Contents]

ASSUME MessageStoreAssumption ==
    /\ UserIds \subseteq Nat
    /\ Users \subseteq UserIds
    /\ BadContents \subseteq Contents
    /\ Clock \subseteq Nat
    /\ Commands \subseteq Command

VARIABLES
    conversations,  \* committed row of each pair of users
    members,        \* committed conversation_members of each pair
    messages,       \* committed messages
    outbox,         \* committed outbox events
    pc,             \* the next statement of each handler
    cmd,            \* the request of each handler
    created,        \* the handler holds an uncommitted conversation row
    newMembers,     \* its uncommitted conversation_members
    row,            \* the conversation row it has updated and locked
    draft,          \* its uncommitted message, with its outbox event
    answer          \* what the handler answered

database == <<conversations, members, messages, outbox>>
transaction == <<created, newMembers, row, draft>>
vars == <<database, pc, cmd, transaction, answer>>
-----------------------------------------------------------------------------
(* Rows and answers                                                        *)

Pair == {p \in UserIds \X UserIds : p[1] <= p[2]}

\* send: lowUserID, highUserID
Normalize(a, b) == IF a <= b THEN <<a, b>> ELSE <<b, a>>

PairOf(c) == Normalize(c.sender, c.receiver)

ConversationRow == [last_seq : Nat \ {0}, updated_at : Nat]
NoRow == [last_seq |-> -1, updated_at |-> 0]
FreshRow == [last_seq |-> 0, updated_at |-> 0]

Message == [conversation : Pair, seq : Nat \ {0}, sender : Users, key : Keys,
            receiver : UserIds, content : Contents, created_at : Nat]
NoMessage == [seq |-> 0]

\* The message.created event: the message and the users it is delivered to.
Event == [message : Message, recipients : SUBSET UserIds]

EventOf(m) == [message |-> m, recipients |-> {m.sender, m.receiver}]

NoCommand == [key |-> "none"]

Failures == {"invalid", "unavailable", "receiver_not_found",
             "idempotency_conflict", "internal", "lost"}
NoAnswer == [code |-> "none"]
Answers == {NoAnswer} \cup [code : Failures]
             \cup [code : {"created", "existing"}, message : Message]

Steps == {"find", "select", "create", "reselect", "members", "lock",
          "insert", "loser", "winner", "commit"}
Labels == Steps \cup {"idle", "orphan", "done"}

\* (sender_id, client_message_id)
SameKey(a, b) == a.sender = b.sender /\ a.key = b.key
Found(c) == {m \in messages : SameKey(m, c)}

\* (faulty: the receiver is not compared)
SameContent(m, c) == m.content = c.content

sameMessageRequest(m, c) == m.receiver = c.receiver /\ m.content = c.content

\* (faulty: GREATEST dropped)
Latest(a, b) == b

Greatest(a, b) == IF a >= b THEN a ELSE b
-----------------------------------------------------------------------------
(* The end of a transaction                                                *)

Release(h) ==
    /\ created' = [created EXCEPT ![h] = FALSE]
    /\ newMembers' = [newMembers EXCEPT ![h] = {}]
    /\ row' = [row EXCEPT ![h] = NoRow]
    /\ draft' = [draft EXCEPT ![h] = NoMessage]

\* (faulty: no deferred rollback)
ReturnWithoutRollback(h, a) ==
    /\ pc' = [pc EXCEPT ![h] = "done"]
    /\ answer' = [answer EXCEPT ![h] = a]
    /\ UNCHANGED <<cmd, transaction>>

\* The handler returns; the deferred rollback ends a transaction still open.
Return(h, a) ==
    /\ pc' = [pc EXCEPT ![h] = "done"]
    /\ answer' = [answer EXCEPT ![h] = a]
    /\ Release(h)
    /\ UNCHANGED cmd

Fail(h, code) == Return(h, [code |-> code]) /\ UNCHANGED database

\* An idempotent answer: the stored message, or a conflict with it.
AnswerFrom(h, m) ==
    IF sameMessageRequest(m, cmd[h])
    THEN Return(h, [code |-> "existing", message |-> m]) /\ UNCHANGED database
    ELSE Fail(h, "idempotency_conflict")

Goto(h, label) ==
    /\ pc' = [pc EXCEPT ![h] = label]
    /\ UNCHANGED <<database, cmd, answer>>
-----------------------------------------------------------------------------
(* messageService.send                                                     *)

Receive(h, c) ==
    /\ pc[h] = "idle"
    /\ cmd' = [cmd EXCEPT ![h] = c]
    /\ UNCHANGED <<database, transaction>>
    /\ \/ /\ c.content \in BadContents
          /\ pc' = [pc EXCEPT ![h] = "done"]
          /\ answer' = [answer EXCEPT ![h] = [code |-> "invalid"]]
       \/ /\ c.content \notin BadContents
          /\ \/ /\ pc' = [pc EXCEPT ![h] = "find"]
                /\ UNCHANGED answer
             \/ /\ pc' = [pc EXCEPT ![h] = "done"]
                /\ answer' = [answer EXCEPT ![h] = [code |-> "unavailable"]]

FindIdempotentMessage(h) ==
    /\ pc[h] = "find"
    /\ \/ \E m \in Found(cmd[h]) : AnswerFrom(h, m)
       \/ /\ Found(cmd[h]) = {}
          /\ Goto(h, "select")
          /\ UNCHANGED transaction

\* The SELECT of resolveDirectConversation.
SelectConversation(h) ==
    /\ pc[h] = "select"
    /\ Goto(h, IF conversations[PairOf(cmd[h])] # NoRow THEN "lock" ELSE "create")
    /\ UNCHANGED transaction

\* INSERT INTO conversations ... ON CONFLICT DO NOTHING RETURNING id.
CreateConversation(h) ==
    LET p == PairOf(cmd[h]) IN
    /\ pc[h] = "create"
    /\ \A o \in Handlers : created[o] => PairOf(cmd[o]) # p
    /\ \/ /\ cmd[h].receiver \notin Users
          /\ Fail(h, "receiver_not_found")
       \/ /\ cmd[h].receiver \in Users
          /\ conversations[p] = NoRow
          /\ created' = [created EXCEPT ![h] = TRUE]
          /\ Goto(h, "members")
          /\ UNCHANGED <<newMembers, row, draft>>
       \/ /\ conversations[p] # NoRow
          /\ Goto(h, "reselect")
          /\ UNCHANGED transaction

\* The SELECT after a conflict; no row is an internal error.
ReselectConversation(h) ==
    /\ pc[h] = "reselect"
    /\ IF conversations[PairOf(cmd[h])] # NoRow
       THEN Goto(h, "lock") /\ UNCHANGED transaction
       ELSE Fail(h, "internal")

\* (faulty: only the receiver becomes a member)
InsertReceiverOnly(h) ==
    /\ pc[h] = "members"
    /\ newMembers' = [newMembers EXCEPT ![h] = {cmd[h].receiver}]
    /\ Goto(h, "lock")
    /\ UNCHANGED <<created, row, draft>>

InsertConversationMembers(h) ==
    /\ pc[h] = "members"
    /\ newMembers' = [newMembers EXCEPT ![h] = {cmd[h].sender, cmd[h].receiver}]
    /\ Goto(h, "lock")
    /\ UNCHANGED <<created, row, draft>>

\* The conversation row the UPDATE finds: the transaction's own, or the latest
\* committed one.
Base(h) == IF created[h] THEN FreshRow ELSE conversations[PairOf(cmd[h])]

\* SET last_seq = last_seq + 1, updated_at = GREATEST(updated_at, clock_timestamp())
Advance(base, now) ==
    [last_seq |-> base.last_seq + 1, updated_at |-> Greatest(base.updated_at, now)]

\* (faulty: the sequence is read without the row lock)
AllocateUnlocked(h) ==
    /\ pc[h] = "lock"
    /\ \E now \in Clock : row' = [row EXCEPT ![h] = Advance(Base(h), now)]
    /\ Goto(h, "insert")
    /\ UNCHANGED <<created, newMembers, draft>>

\* insertMessageAndOutbox, the UPDATE: waits for the row lock.
AllocateSequence(h) ==
    /\ pc[h] = "lock"
    /\ \A o \in Handlers : row[o] # NoRow => PairOf(cmd[o]) # PairOf(cmd[h])
    /\ \E now \in Clock : row' = [row EXCEPT ![h] = Advance(Base(h), now)]
    /\ Goto(h, "insert")
    /\ UNCHANGED <<created, newMembers, draft>>

MessageOf(h) ==
    [conversation |-> PairOf(cmd[h]), seq |-> row[h].last_seq,
     sender |-> cmd[h].sender, key |-> cmd[h].key, receiver |-> cmd[h].receiver,
     content |-> cmd[h].content, created_at |-> row[h].updated_at]

\* (faulty: no unique key on (sender_id, client_message_id))
InsertWithoutConflict(h) ==
    /\ pc[h] = "insert"
    /\ draft' = [draft EXCEPT ![h] = MessageOf(h)]
    /\ Goto(h, "commit")
    /\ UNCHANGED <<created, newMembers, row>>

\* insertMessageAndOutbox, the two INSERTs of the same statement.
InsertMessageAndOutbox(h) ==
    /\ pc[h] = "insert"
    /\ \A o \in Handlers : draft[o] # NoMessage => ~SameKey(draft[o], cmd[h])
    /\ \/ /\ Found(cmd[h]) = {}
          /\ draft' = [draft EXCEPT ![h] = MessageOf(h)]
          /\ Goto(h, "commit")
          /\ UNCHANGED <<created, newMembers, row>>
       \/ /\ Found(cmd[h]) # {}
          /\ Goto(h, "loser")
          /\ UNCHANGED transaction

\* (faulty: the loser commits its allocation)
CommitLoser(h) ==
    /\ pc[h] = "loser"
    /\ conversations' = [conversations EXCEPT ![PairOf(cmd[h])] = row[h]]
    /\ Release(h)
    /\ pc' = [pc EXCEPT ![h] = "winner"]
    /\ UNCHANGED <<members, messages, outbox, cmd, answer>>

\* The explicit rollback of a handler that lost the idempotency race.
RollbackLoser(h) ==
    /\ pc[h] = "loser"
    /\ Release(h)
    /\ Goto(h, "winner")

FindCommittedIdempotentMessage(h) ==
    /\ pc[h] = "winner"
    /\ IF Found(cmd[h]) = {}
       THEN Fail(h, "internal")
       ELSE \E m \in Found(cmd[h]) : AnswerFrom(h, m)

\* COMMIT takes effect; its acknowledgement may still be lost.
Commit(h) ==
    LET p == PairOf(cmd[h]) IN
    /\ pc[h] = "commit"
    /\ conversations' = [conversations EXCEPT ![p] = row[h]]
    /\ members' = [members EXCEPT ![p] = @ \cup newMembers[h]]
    /\ messages' = messages \cup {draft[h]}
    /\ outbox' = outbox \cup {EventOf(draft[h])}
    /\ \/ Return(h, [code |-> "created", message |-> draft[h]])
       \/ \E code \in {"internal", "lost"} : Return(h, [code |-> code])

\* A statement, the rollback or the commit fails and nothing is applied.
StatementFails(h) ==
    /\ pc[h] \in Steps
    /\ Fail(h, "internal")

\* The process dies; its session holds its locks until the server reaps it.
Crash(h) ==
    /\ pc[h] \in Steps
    /\ pc' = [pc EXCEPT ![h] = "orphan"]
    /\ answer' = [answer EXCEPT ![h] = [code |-> "lost"]]
    /\ UNCHANGED <<database, cmd, transaction>>

ReapSession(h) ==
    /\ pc[h] = "orphan"
    /\ Release(h)
    /\ Goto(h, "done")
-----------------------------------------------------------------------------
Init ==
    /\ conversations = [p \in Pair |-> NoRow]
    /\ members = [p \in Pair |-> {}]
    /\ messages = {}
    /\ outbox = {}
    /\ pc = [h \in Handlers |-> "idle"]
    /\ cmd = [h \in Handlers |-> NoCommand]
    /\ created = [h \in Handlers |-> FALSE]
    /\ newMembers = [h \in Handlers |-> {}]
    /\ row = [h \in Handlers |-> NoRow]
    /\ draft = [h \in Handlers |-> NoMessage]
    /\ answer = [h \in Handlers |-> NoAnswer]

Progress(h) ==
    \/ FindIdempotentMessage(h)
    \/ SelectConversation(h)
    \/ CreateConversation(h)
    \/ ReselectConversation(h)
    \/ InsertConversationMembers(h)
    \/ AllocateSequence(h)
    \/ InsertMessageAndOutbox(h)
    \/ RollbackLoser(h)
    \/ FindCommittedIdempotentMessage(h)
    \/ Commit(h)
    \/ ReapSession(h)

Next ==
    \E h \in Handlers :
        \/ \E c \in Commands : Receive(h, c)
        \/ Progress(h)
        \/ StatementFails(h)
        \/ Crash(h)

Spec == Init /\ [][Next]_vars

\* Every statement of a running handler completes once it is not blocked, and
\* the server eventually ends the session of a dead client.
FairSpec == Spec /\ \A h \in Handlers : WF_vars(Progress(h))
-----------------------------------------------------------------------------
(* Properties                                                              *)

\* The types of the tables, of each open transaction and of each answer; a
\* stored conversation has at least one message, so its last_seq is positive.
TypeOK ==
    /\ conversations \in [Pair -> ConversationRow \cup {NoRow}]
    /\ members \in [Pair -> SUBSET UserIds]
    /\ messages \subseteq Message
    /\ outbox \subseteq Event
    /\ pc \in [Handlers -> Labels]
    /\ cmd \in [Handlers -> Commands \cup {NoCommand}]
    /\ created \in [Handlers -> BOOLEAN]
    /\ newMembers \in [Handlers -> SUBSET UserIds]
    /\ row \in [Handlers -> ConversationRow \cup {NoRow}]
    /\ draft \in [Handlers -> Message \cup {NoMessage}]
    /\ answer \in [Handlers -> Answers]

In(p) == {m \in messages : m.conversation = p}

\* The committed messages of a conversation are numbered 1..last_seq, each
\* number once, whatever sends roll back, fail or crash: the rollback of a
\* losing retry "restores our provisional sequence allocation, so no gap is
\* left" (message_service.go, send).
SequencesContiguous ==
    \A p \in Pair :
        /\ conversations[p] = NoRow => In(p) = {}
        /\ \A m \in In(p) : m.seq <= conversations[p].last_seq
        /\ \A s \in 1..conversations[p].last_seq : \E m \in In(p) : m.seq = s
        /\ \A m, n \in In(p) : m.seq = n.seq => m = n

\* Concurrent retries of one client message store it once, even when they
\* name different receivers and so lock different conversations.
OneMessagePerKey ==
    \A m, n \in messages : SameKey(m, n) => m = n

Succeeded(h) == answer[h].code \in {"created", "existing"}

\* A successful answer names a durable message that is the one requested, and
\* of all the handlers of one client message at most one answers 201 Created.
AnswersAreDurable ==
    /\ \A h \in Handlers : Succeeded(h) =>
          /\ answer[h].message \in messages
          /\ SameKey(answer[h].message, cmd[h])
          /\ answer[h].message.receiver = cmd[h].receiver
          /\ answer[h].message.content = cmd[h].content
    /\ \A g, h \in Handlers :
          answer[g].code = "created" /\ answer[h].code = "created"
              /\ SameKey(cmd[g], cmd[h]) => g = h

\* What a send writes is stored together, whichever handler wrote which row:
\* every message has an event, addressed to both users of its conversation (the
\* sender's other devices too), no event lacks its message, and a conversation
\* has both of its members, without whom it could not be listed or synchronized.
CommittedTogether ==
    /\ \A m \in messages : \E e \in outbox : e.message = m
    /\ \A e \in outbox :
          /\ e.message \in messages
          /\ e.recipients = {e.message.conversation[1], e.message.conversation[2]}
    /\ \A p \in Pair :
          members[p] = IF conversations[p] = NoRow THEN {} ELSE {p[1], p[2]}

\* An INSERT that did nothing did so because of a committed row, so the SELECT
\* that follows finds it: the ErrNoRows branches after a lost race on a
\* conversation or on an idempotency key are unreachable.
LoserFindsWinner ==
    \A h \in Handlers :
        /\ pc[h] = "reselect" => conversations[PairOf(cmd[h])] # NoRow
        /\ pc[h] \in {"loser", "winner"} => Found(cmd[h]) # {}

\* created_at never decreases along a conversation, although the database
\* clock may step back: it is GREATEST(updated_at, clock_timestamp()) under the
\* row lock.
TimeFollowsSequence ==
    \A m, n \in messages :
        m.conversation = n.conversation /\ m.seq < n.seq
            => m.created_at <= n.created_at

\* Messages are only ever appended: none disappears or changes, and a new one
\* comes after everything a reader of its conversation could have seen.  A
\* device that has applied up to n needs only the messages after n.
AppendOnly ==
    [][ /\ messages \subseteq messages'
        /\ \A m \in messages' \ messages, n \in messages :
              m.conversation = n.conversation => m.seq > n.seq ]_vars

\* No send waits forever: the locks of the conversation and of the idempotency
\* key are always taken in that order and are released by every way a
\* transaction ends, so each received request is answered or its session reaped.
EveryHandlerReturns ==
    \A h \in Handlers : (pc[h] # "idle") ~> (pc[h] = "done")

\* Handler g waits for the transaction of h: for the conversation it creates, for
\* the row it has updated, or for the message with the same key it has inserted.
WaitsFor(g, h) ==
    \/ pc[g] = "create" /\ created[h] /\ PairOf(cmd[g]) = PairOf(cmd[h])
    \/ pc[g] = "lock" /\ row[h] # NoRow /\ PairOf(cmd[g]) = PairOf(cmd[h])
    \/ pc[g] = "insert" /\ draft[h] # NoMessage /\ SameKey(draft[h], cmd[g])

\* Sends never wait for each other in a circle, whatever conversations and keys
\* they share: of any handlers, one waits for none of the others.  A retry that
\* names another receiver holds another conversation while it waits for the key.
NoDeadlock ==
    \A S \in SUBSET Handlers :
        S # {} => \E g \in S : \A h \in S : ~WaitsFor(g, h)

\* The log, the requests and the replies that a state of the store stands for.
LogOf(p) ==
    [s \in 1..Greatest(0, conversations[p].last_seq) |->
        LET m == CHOOSE m \in In(p) : m.seq = s
        IN [sender |-> m.sender, key |-> m.key,
            receiver |-> m.receiver, content |-> m.content]]

ReplyOf(a) ==
    IF a.code \in {"created", "existing"}
    THEN [code |-> a.code, conversation |-> a.message.conversation,
          seq |-> a.message.seq]
    ELSE a

Log == INSTANCE MessageLog WITH
    Callers <- Handlers,
    log <- [p \in Pair |-> LogOf(p)],
    request <- cmd,
    reply <- [h \in Handlers |-> ReplyOf(answer[h])]

\* Sending is atomic: each interleaving of the statements of concurrent sends
\* looks to the callers, and to any reader of committed rows, like requests
\* appended to a log in single steps, with every answer true at that step.
ImplementsLog == Log!Spec
-----------------------------------------------------------------------------
(* The inductive invariant that the proofs rest on                         *)

\* What an open transaction holds at each of its statements: a conversation it
\* created is not committed, its row is the successor of the committed one, and
\* its message has a key that no committed message has.
Shape(h) ==
    /\ pc[h] # "idle" => cmd[h] \in Commands
    /\ created[h] =>
          /\ pc[h] \in {"members", "lock", "insert", "loser", "commit", "orphan"}
          /\ conversations[PairOf(cmd[h])] = NoRow
    /\ pc[h] = "lock" => created[h] \/ conversations[PairOf(cmd[h])] # NoRow
    /\ pc[h] = "members" => created[h]
    /\ row[h] # NoRow =>
          /\ pc[h] \in {"insert", "loser", "commit", "orphan"}
          /\ created[h] \/ conversations[PairOf(cmd[h])] # NoRow
          /\ row[h].last_seq = Base(h).last_seq + 1
    /\ pc[h] \in {"insert", "loser", "commit"} => row[h] # NoRow
    /\ draft[h] # NoMessage =>
          /\ pc[h] \in {"commit", "orphan"}
          /\ row[h] # NoRow
          /\ draft[h] = MessageOf(h)
          /\ Found(cmd[h]) = {}
    /\ pc[h] = "commit" => draft[h] # NoMessage

TransactionShape == \A h \in Handlers : Shape(h)

\* The locks: one transaction creates a conversation, one holds its row, one has
\* an uncommitted message with a given key.
Apart(g, h) ==
    /\ created[g] /\ created[h] => PairOf(cmd[g]) # PairOf(cmd[h])
    /\ row[g] # NoRow /\ row[h] # NoRow => PairOf(cmd[g]) # PairOf(cmd[h])
    /\ draft[g] # NoMessage /\ draft[h] # NoMessage => ~SameKey(draft[g], draft[h])

LocksExclusive == \A g, h \in Handlers : g # h => Apart(g, h)

IInv ==
    /\ TypeOK /\ TransactionShape /\ LocksExclusive
    /\ SequencesContiguous /\ OneMessagePerKey /\ LoserFindsWinner

\* What is true of a request while it is handled: it is answered only by the
\* step that ends it, a conversation is created with both of its members, and
\* the row it updates does not go back in time.
Prepared(h) ==
    /\ pc[h] = "idle" <=> cmd[h] = NoCommand
    /\ pc[h] \in Steps \cup {"idle"} => answer[h] = NoAnswer
    /\ pc[h] \in Steps => cmd[h].content \notin BadContents
    /\ created[h] => cmd[h].receiver \in Users
    /\ created[h] /\ pc[h] \in {"lock", "insert", "loser", "commit"} =>
          newMembers[h] = {cmd[h].sender, cmd[h].receiver}
    /\ ~created[h] => newMembers[h] = {}
    /\ row[h] # NoRow => Base(h).updated_at <= row[h].updated_at

RequestsPrepared == \A h \in Handlers : Prepared(h)

\* No message is later than the conversation it is in, and only users who have
\* a row in users have conversations.
ConversationsCurrent ==
    /\ \A m \in messages : m.created_at <= conversations[m.conversation].updated_at
    /\ \A p \in Pair : conversations[p] # NoRow => p[1] \in Users /\ p[2] \in Users

RInv ==
    /\ RequestsPrepared /\ ConversationsCurrent
    /\ CommittedTogether /\ TimeFollowsSequence /\ AnswersAreDurable
=============================================================================
