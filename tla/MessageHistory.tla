--------------------------- MODULE MessageHistory ---------------------------
(***************************************************************************)
(* Reading the messages with each peer in both directions (listMessages)   *)
(* while new ones are sent: the latest page first, then pages before the   *)
(* oldest and after the newest message shown, concurrently.                *)
(*                                                                         *)
(* A message is its conversation_seq, a conversation has the name of the   *)
(* peer, and its messages are 1..last_seq: the conversation is committed   *)
(* with its first message and messages are never changed (MessageStore).   *)
(* The reader is external: it puts the pages where they belong, and may    *)
(* hand in a cursor it got for another peer.                               *)
(***************************************************************************)
EXTENDS Integers, SequencesExt

CONSTANTS
    Peers,          \* the users this user exchanges messages with
    MaxMessages,    \* bound on the messages with one peer
    PageSize        \* the limit parameter

ASSUME MessageHistoryAssumption ==
    MaxMessages \in Nat /\ PageSize \in Nat \ {0}

VARIABLES
    last_seq,       \* of the conversation with each peer, 0 before the first
    view,           \* what the reader shows of each
    calls           \* running requests

historyVars == <<last_seq, view, calls>>

Directions == {"latest", "before", "after"}
NoCursor == [conversation |-> "none", seq |-> 0]
EmptyView == [shown |-> <<>>, hasMoreBefore |-> FALSE, hasMoreAfter |-> FALSE]
-----------------------------------------------------------------------------
SendTo(p) ==
    /\ last_seq[p] < MaxMessages
    /\ last_seq' = [last_seq EXCEPT ![p] = @ + 1]
    /\ UNCHANGED <<view, calls>>

\* encodeMessageHistoryCursor of the first and the last message shown of p
Cursor(p, direction) ==
    [conversation |-> p,
     seq |-> IF direction = "before" THEN Head(view[p].shown)
                                     ELSE Last(view[p].shown)]

Ask(p, direction, cursor) ==
    /\ \A c \in calls : c.peer # p \/ c.direction # direction
    /\ calls' = calls \cup {[peer |-> p, direction |-> direction,
                             cursor |-> cursor, at |-> "resolve"]}
    /\ UNCHANGED <<last_seq, view>>

AskLatest(p) == view[p].shown = <<>> /\ Ask(p, "latest", NoCursor)

AskBefore(p) ==
    \E q \in Peers : /\ view[q].hasMoreBefore
                     /\ Ask(p, "before", Cursor(q, "before"))

AskAfter(p) ==
    \E q \in Peers : /\ view[q].shown # <<>>
                     /\ Ask(p, "after", Cursor(q, "after"))
-----------------------------------------------------------------------------
(* listMessages                                                            *)

\* The conversation exists and the cursor, if there is one, is its own.
Belongs(c) ==
    /\ last_seq[c.peer] > 0
    /\ c.direction # "latest" => c.cursor.conversation = c.peer

\* resolveDirectConversation and the checks; a refusal, or the empty page of a
\* conversation that does not exist, leaves the reader with what it had.
Resolve(c) ==
    /\ c.at = "resolve"
    /\ calls' = (calls \ {c}) \cup
                  (IF Belongs(c) THEN {[c EXCEPT !.at = "query"]} ELSE {})
    /\ UNCHANGED <<last_seq, view>>

\* The rows of the three queries, in the order of the query.
Rows(c) ==
    LET last == last_seq[c.peer] IN
    CASE c.direction = "latest" -> Reverse([i \in 1..last |-> i])
      [] c.direction = "before" -> Reverse([i \in 1..(c.cursor.seq - 1) |-> i])
      [] c.direction = "after"  -> SubSeq([i \in 1..last |-> i], c.cursor.seq + 1, last)

FirstRows(rows, n) == SubSeq(rows, 1, IF Len(rows) < n THEN Len(rows) ELSE n)

\* (faulty: reversed before the extra row is cut off)
MessagesCutLate(c) ==
    LET queried == FirstRows(Rows(c), PageSize + 1) IN
    FirstRows(IF c.direction = "after" THEN queried ELSE Reverse(queried), PageSize)

\* At most PageSize of the PageSize + 1 rows queried, oldest first.
Messages(c) ==
    LET queried == FirstRows(Rows(c), PageSize) IN
    IF c.direction = "after" THEN queried ELSE Reverse(queried)

HasMore(c) == Len(Rows(c)) > PageSize

\* The query, and the reader adds the page.
ReadMessages(c) ==
    LET v == view[c.peer] IN
    /\ c.at = "query"
    /\ view' = [view EXCEPT ![c.peer] =
         CASE c.direction = "latest" ->
                [shown |-> Messages(c), hasMoreBefore |-> HasMore(c), hasMoreAfter |-> FALSE]
           [] c.direction = "before" ->
                [v EXCEPT !.shown = Messages(c) \o @, !.hasMoreBefore = HasMore(c)]
           [] c.direction = "after" ->
                [v EXCEPT !.shown = @ \o Messages(c), !.hasMoreAfter = HasMore(c)]]
    /\ calls' = calls \ {c}
    /\ UNCHANGED last_seq

\* A query fails or the answer is lost; the reader may ask again.
LoseCall(c) ==
    /\ calls' = calls \ {c}
    /\ UNCHANGED <<last_seq, view>>
-----------------------------------------------------------------------------
HistoryInit ==
    /\ last_seq = [p \in Peers |-> 0]
    /\ view = [p \in Peers |-> EmptyView]
    /\ calls = {}

HistoryNext ==
    \/ \E p \in Peers : SendTo(p) \/ AskLatest(p) \/ AskBefore(p) \/ AskAfter(p)
    \/ \E c \in calls : Resolve(c) \/ ReadMessages(c) \/ LoseCall(c)

HistorySpec == HistoryInit /\ [][HistoryNext]_historyVars
-----------------------------------------------------------------------------
(* Properties                                                              *)

\* What the reader shows of a conversation is always a run of consecutive
\* messages, each once, in order, however pages in both directions, lost
\* answers and new messages interleave; and when hasMoreBefore is false the run
\* goes back to the very first message (the three queries of listMessages, their
\* extra row and the cursors of the page's ends).
HistoryUnbroken ==
    \A p \in Peers :
        LET shown == view[p].shown IN
        /\ \A i \in 1..Len(shown) : shown[i] = shown[1] + i - 1
        /\ shown # <<>> =>
               /\ Last(shown) <= last_seq[p]
               /\ shown[1] = 1 <=> ~view[p].hasMoreBefore
-----------------------------------------------------------------------------
(* The inductive invariant                                                 *)

View == [shown : Seq(Nat \ {0}), hasMoreBefore : BOOLEAN, hasMoreAfter : BOOLEAN]
Call == [peer : Peers, direction : Directions, at : {"resolve", "query"},
         cursor : [conversation : Peers \cup {"none"}, seq : Nat]]

HistoryTypeOK ==
    /\ last_seq \in [Peers -> Nat]
    /\ view \in [Peers -> View]
    /\ calls \subseteq Call

\* One request of a kind runs for a peer.
OneCallEach ==
    \A c, d \in calls : c.peer = d.peer /\ c.direction = d.direction => c = d

\* A running request of the reader still fits what is shown: nothing before the
\* latest page has come, and then the end that the cursor names.
CallFits(c) ==
    LET shown == view[c.peer].shown IN
    /\ c.at = "query" => Belongs(c)
    /\ c.direction = "latest" => shown = <<>>
    /\ c.direction # "latest" /\ c.cursor.conversation = c.peer =>
           /\ shown # <<>>
           /\ c.cursor.seq = IF c.direction = "before" THEN Head(shown) ELSE Last(shown)

MoreThanNothing == \A p \in Peers : view[p].hasMoreBefore => view[p].shown # <<>>

HistoryInv ==
    /\ HistoryTypeOK /\ OneCallEach /\ (\A c \in calls : CallFits(c))
    /\ MoreThanNothing /\ HistoryUnbroken
=============================================================================
