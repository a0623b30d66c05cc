----------------------------- MODULE MessageLog -----------------------------
(***************************************************************************)
(* What sending promises, without transactions: one log per pair of users, *)
(* to which a request is appended in one step unless its client message id *)
(* is already used; the position in the log is the conversation_seq.       *)
(* MessageStore is shown to implement this specification.                  *)
(***************************************************************************)
EXTENDS Integers, Sequences

CONSTANTS Callers, Users, UserIds, Keys, Contents, BadContents, Commands

VARIABLES
    log,        \* log[p]: the requests accepted between the pair p, in order
    request,    \* request[h]: what call h asked, or NoRequest
    reply       \* reply[h]: what call h was told

vars == <<log, request, reply>>

Pair == {p \in UserIds \X UserIds : p[1] <= p[2]}
PairOf(c) == IF c.sender <= c.receiver THEN <<c.sender, c.receiver>>
                                       ELSE <<c.receiver, c.sender>>
NoRequest == [key |-> "none"]
NoReply == [code |-> "none"]

SameKey(a, b) == a.sender = b.sender /\ a.key = b.key

Open(h) == request[h] # NoRequest /\ reply[h] = NoReply
Tell(h, r) == reply' = [reply EXCEPT ![h] = r] /\ UNCHANGED request

Submit(h, c) ==
    /\ request[h] = NoRequest
    /\ request' = [request EXCEPT ![h] = c]
    /\ UNCHANGED log
    /\ \/ UNCHANGED reply
       \/ reply' = [reply EXCEPT ![h] = [code |-> "unavailable"]]
       \/ /\ c.content \in BadContents
          /\ reply' = [reply EXCEPT ![h] = [code |-> "invalid"]]

\* The request is stored; the caller learns its place, or that it is unknown
\* whether it was stored.
Accept(h) ==
    LET c == request[h]
        p == PairOf(c)
    IN
    /\ Open(h)
    /\ c.content \notin BadContents
    /\ c.receiver \in Users
    /\ \A q \in Pair : \A i \in 1..Len(log[q]) : ~SameKey(log[q][i], c)
    /\ log' = [log EXCEPT ![p] = Append(@, c)]
    /\ \/ Tell(h, [code |-> "created", conversation |-> p, seq |-> Len(log[p]) + 1])
       \/ \E code \in {"internal", "lost"} : Tell(h, [code |-> code])

\* The client message id is used: the same request gets its place, another one
\* a conflict.
Repeat(h) ==
    /\ Open(h)
    /\ \E p \in Pair : \E i \in 1..Len(log[p]) :
          /\ SameKey(log[p][i], request[h])
          /\ Tell(h, IF log[p][i] = request[h]
                     THEN [code |-> "existing", conversation |-> p, seq |-> i]
                     ELSE [code |-> "idempotency_conflict"])
    /\ UNCHANGED log

Refuse(h) ==
    /\ Open(h)
    /\ \/ \E code \in {"internal", "lost"} : Tell(h, [code |-> code])
       \/ /\ request[h].receiver \notin Users
          /\ Tell(h, [code |-> "receiver_not_found"])
    /\ UNCHANGED log

Init ==
    /\ log = [p \in Pair |-> <<>>]
    /\ request = [h \in Callers |-> NoRequest]
    /\ reply = [h \in Callers |-> NoReply]

Next ==
    \E h \in Callers :
        \/ \E c \in Commands : Submit(h, c)
        \/ Accept(h)
        \/ Repeat(h)
        \/ Refuse(h)

Spec == Init /\ [][Next]_vars
=============================================================================
