-------------------------- MODULE ConversationList --------------------------
(***************************************************************************)
(* Listing one user's conversations page by page (listConversations) while *)
(* sends create more of them.  A page holds the conversations with ids in  *)
(* (after, snapshotCursor]; the first page takes the largest id the user   *)
(* is a member of as the snapshot, and the client hands it back.           *)
(*                                                                         *)
(* PostgreSQL draws the id of a conversation when it is inserted; the row  *)
(* becomes visible, together with its members, when the transaction        *)
(* commits, so ids need not appear in their order.                         *)
(***************************************************************************)
EXTENDS Integers, FiniteSets, FiniteSetsExt, SequencesExt

CONSTANTS
    MaxId,          \* bound on the ids drawn
    Limit           \* the limit parameter

ASSUME ConversationListAssumption == MaxId \in Nat /\ Limit \in Nat \ {0}

VARIABLES
    nextId,         \* the identity counter of conversations
    open,           \* ids of the user's conversations inserted but not committed
    member,         \* ids of the conversations the user is a member of
    scan,           \* the client's walk through the pages
    moments         \* history: the memberships since its snapshot was taken

vars == <<nextId, open, member, scan, moments>>

NoSnapshot == -1
-----------------------------------------------------------------------------
(* resolveDirectConversation in transactions of several senders            *)

InsertConversation ==
    /\ nextId <= MaxId
    /\ nextId' = nextId + 1
    /\ open' = open \cup {nextId}
    /\ UNCHANGED <<member, scan, moments>>

CommitConversation(c) ==
    /\ open' = open \ {c}
    /\ member' = member \cup {c}
    /\ moments' = moments \cup {member'}
    /\ UNCHANGED <<nextId, scan>>

RollbackConversation(c) ==
    /\ open' = open \ {c}
    /\ UNCHANGED <<nextId, member, scan, moments>>
-----------------------------------------------------------------------------
(* listConversations                                                       *)

\* The client asks for the first page.
StartScan ==
    /\ scan.at \in {"idle", "done"}
    /\ scan' = [at |-> "cursor", after |-> 0, snapshot |-> NoSnapshot,
                listed |-> <<>>]
    /\ moments' = {member}
    /\ UNCHANGED <<nextId, open, member>>

\* The first query and the checks of the cursors; a refusal ends the walk.
ReadCursor ==
    LET current == Max(member \cup {0})
        first == scan.snapshot = NoSnapshot
        snapshot == IF first THEN current ELSE scan.snapshot
    IN
    /\ scan.at = "cursor"
    /\ scan' = IF scan.after > current \/ snapshot \notin scan.after..current
               THEN [scan EXCEPT !.at = "idle"]
               ELSE [scan EXCEPT !.at = "page", !.snapshot = snapshot]
    /\ moments' = IF first THEN {member} ELSE moments
    /\ UNCHANGED <<nextId, open, member>>

\* ORDER BY: the ids in S before c, all of S in ascending order, its first n.
Rank(S, c) == Cardinality({d \in S : d < c})
Ascending(S) == [n \in 1..Cardinality(S) |-> CHOOSE c \in S : Rank(S, c) = n - 1]
First(S, n) == {c \in S : Rank(S, c) < n}

\* (faulty: the row that only shows there is more counts as delivered)
PagePastLookahead(after, rows) ==
    [ids |-> First(rows, Limit), next |-> Max(First(rows, Limit + 1) \cup {after})]

Page(after, rows) ==
    [ids |-> First(rows, Limit), next |-> Max(First(rows, Limit) \cup {after})]

\* The second query and the answer, which the client follows while hasMore.
ReadPage ==
    LET rows == {c \in member : scan.after < c /\ c <= scan.snapshot}
        page == Page(scan.after, rows)
    IN
    /\ scan.at = "page"
    /\ scan' = [scan EXCEPT
                  !.at = IF Cardinality(rows) > Limit THEN "cursor" ELSE "done",
                  !.after = page.next,
                  !.listed = @ \o Ascending(page.ids)]
    /\ UNCHANGED <<nextId, open, member, moments>>

\* The request fails and the client repeats it with the same parameters; the
\* snapshot of a failed first request is not known to the client.
RetryPage ==
    /\ scan.at = "page"
    /\ scan' = [scan EXCEPT !.at = "cursor",
                            !.snapshot = IF scan.listed = <<>> THEN NoSnapshot ELSE @]
    /\ UNCHANGED <<nextId, open, member, moments>>
-----------------------------------------------------------------------------
Init ==
    /\ nextId = 1
    /\ open = {}
    /\ member = {}
    /\ scan = [at |-> "idle", after |-> 0, snapshot |-> NoSnapshot,
               listed |-> <<>>]
    /\ moments = {{}}

Next ==
    \/ InsertConversation
    \/ \E c \in open : CommitConversation(c) \/ RollbackConversation(c)
    \/ StartScan
    \/ ReadCursor
    \/ ReadPage
    \/ RetryPage

Spec == Init /\ [][Next]_vars
-----------------------------------------------------------------------------
(* Properties                                                              *)

\* A finished walk has listed every conversation the user had when its snapshot
\* was taken, whatever was created, committed or rolled back between the pages
\* (that first membership is the one all later ones contain); and no walk lists
\* a conversation twice, although conversations with smaller ids than those
\* already listed may appear between two pages.
ListedExactlyOnce ==
    /\ scan.at = "done" =>
           \A c \in UNION moments :
               (\A M \in moments : c \in M) => c \in ToSet(scan.listed)
    /\ IsInjective(scan.listed)

\* What openapi.yaml calls "a stable snapshot" and README.md "稳定 membership
\* snapshot": a walk lists the membership up to its snapshot of some moment
\* since the snapshot was taken.  Not so: of two conversations inserted earlier
\* and committed during the walk, the one behind the cursor is missed and the one
\* ahead of it is listed, although the first was committed before the second.
StableSnapshot ==
    scan.at = "done" =>
        \E M \in moments : ToSet(scan.listed) = {c \in M : c <= scan.snapshot}
-----------------------------------------------------------------------------
(* The inductive invariant of ListedExactlyOnce                            *)

ListTypeOK ==
    /\ nextId \in Nat \ {0}
    /\ open \subseteq Nat \ {0} /\ member \subseteq Nat \ {0}
    /\ IsFiniteSet(member)
    /\ scan \in [at : {"idle", "cursor", "page", "done"}, after : Nat,
                 snapshot : Nat \cup {NoSnapshot}, listed : Seq(Nat \ {0})]

\* The memberships since the snapshot grow up to the present one.
MomentsGrow == moments # {} /\ \A M \in moments : M \subseteq member

\* What was there from the snapshot on.
Stayed == {c \in member : \A M \in moments : c \in M}

\* A walk has listed ids up to its cursor only, each once; before its first
\* page it knows no snapshot, and after it the cursor is past what it listed.
ListedBehindCursor ==
    /\ \A n \in DOMAIN scan.listed : scan.listed[n] <= scan.after
    /\ IsInjective(scan.listed)
    /\ scan.at \in {"cursor", "page"} /\ scan.listed = <<>> => scan.after = 0
    /\ scan.at = "cursor" /\ scan.snapshot = NoSnapshot => scan.listed = <<>>
    /\ scan.at = "page" => scan.snapshot # NoSnapshot

\* It has missed nothing so far: what stayed is in the snapshot, and listed
\* when it is behind the cursor or the walk is done.
NothingMissed ==
    scan.at # "idle" /\ (scan.at = "cursor" => scan.snapshot # NoSnapshot) =>
        \A c \in Stayed :
            /\ c <= scan.snapshot
            /\ (c <= scan.after \/ scan.at = "done") => c \in ToSet(scan.listed)

ListInv == ListTypeOK /\ MomentsGrow /\ ListedBehindCursor /\ NothingMissed
=============================================================================
