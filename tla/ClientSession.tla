--------------------------- MODULE ClientSession ---------------------------
(***************************************************************************)
(* The headless client's side of AuthSession: a state file with the        *)
(* refresh token it holds and the refresh it has begun, which survives     *)
(* restarts, lost answers and concurrent calls of Refresh.  An access      *)
(* token belongs to the refresh token it came with and is not modelled.    *)
(*                                                                         *)
(* Every request of the client is served by a handler of AuthSession; the  *)
(* other handlers serve other devices, and whoever else may hold a copy of *)
(* a token.                                                                *)
(***************************************************************************)
EXTENDS AuthSession

VARIABLES
    held,           \* Auth.RefreshToken of the state file
    pending,        \* PendingRefresh of the state file
    waiting,        \* handlers whose answer a call of the client waits for
    spent,          \* login request ids whose answer the program has stored
    sent            \* history: handlers of all the client's requests

file == <<held, pending>>
client == <<file, waiting, spent, sent>>
clientVars == <<vars, client>>

NoPending == [token |-> None, key |-> None]
PendingRefresh == [token : Ids, key : RefreshKeys] \cup {NoPending}

Submit(h) ==
    /\ waiting' = waiting \cup {h}
    /\ sent' = sent \cup {h}
-----------------------------------------------------------------------------
(* Refresh                                                                 *)

\* The first Update: a refresh that was begun is continued, with its own key.
BeginRefresh(k) ==
    /\ pending \in {NoPending, [pending EXCEPT !.key = k]}
    /\ pending' = IF pending = NoPending THEN [token |-> held, key |-> k]
                                         ELSE pending

\* The request goes out with what the file now says.
ClientRefresh(h) ==
    \E k \in RefreshKeys :
        /\ BeginRefresh(k)
        /\ Receive(h, [kind |-> "refresh", token |-> pending'.token,
                       key |-> pending'.key], "consume")
        /\ Submit(h)
        /\ UNCHANGED <<seen, held, spent>>

\* The request never reaches the server, or the client dies before sending it.
RefreshNotSent ==
    /\ \E k \in RefreshKeys : BeginRefresh(k)
    /\ UNCHANGED <<vars, held, waiting, spent, sent>>

\* (faulty: the answer is stored whatever happened to the file meanwhile)
CommitAnyRefresh(h) ==
    /\ held' = answer[h].token
    /\ pending' = NoPending

\* The second Update: not if the pending refresh changed before commit.
CommitRefresh(h) ==
    IF pending = [token |-> op[h].token, key |-> op[h].key]
    THEN held' = answer[h].token /\ pending' = NoPending
    ELSE UNCHANGED file

RefreshAnswered(h) ==
    /\ h \in waiting
    /\ op[h].kind = "refresh"
    /\ answer[h].code = "ok"
    /\ CommitRefresh(h)
    /\ waiting' = waiting \ {h}
    /\ UNCHANGED <<vars, spent, sent>>
-----------------------------------------------------------------------------
(* Login, by the program around the client                                 *)

\* It logs in whenever it chooses, one call at a time.  A request id serves one
\* login: the calls that retry it have the same one, the next login another.
ClientLogin(h) ==
    /\ \A g \in waiting : op[g].kind # "login"
    /\ ReceiveLogin(h)
    /\ op'[h].request \notin spent
    /\ Submit(h)
    /\ UNCHANGED <<file, spent>>

PersistAuth(h) ==
    /\ h \in waiting
    /\ op[h].kind = "login"
    /\ answer[h].code = "ok"
    /\ held' = answer[h].token
    /\ pending' = NoPending
    /\ spent' = spent \cup {op[h].request}
    /\ waiting' = waiting \ {h}
    /\ UNCHANGED <<vars, sent>>
-----------------------------------------------------------------------------
\* The call ends with an error: a refusal, a lost answer, its context's
\* deadline, the end of the client.  The request may still be served.
GiveUp(h) ==
    /\ h \in waiting
    /\ waiting' = waiting \ {h}
    /\ UNCHANGED <<vars, file, spent, sent>>

ClientInit ==
    /\ Init
    /\ held = Registered
    /\ pending = NoPending
    /\ waiting = {} /\ spent = {}
    /\ sent = {}

ClientNext ==
    \/ Next /\ UNCHANGED client
    \/ RefreshNotSent
    \/ \E h \in Handlers :
           \/ ClientRefresh(h) \/ RefreshAnswered(h)
           \/ ClientLogin(h) \/ PersistAuth(h)
           \/ GiveUp(h)

ClientSpec == ClientInit /\ [][ClientNext]_clientVars
-----------------------------------------------------------------------------
(* Properties                                                              *)

ClientTypeOK ==
    /\ held \in Ids
    /\ pending \in PendingRefresh
    /\ waiting \subseteq sent
    /\ spent \subseteq Requests
    /\ sent \subseteq Handlers

\* Nobody but the client refreshed a token of the session.
OwnRefreshes(s) ==
    \A h \in Handlers :
        op[h].kind = "refresh" /\ token[op[h].token].session = s => h \in sent

\* The client never locks itself out: restarts, retries, lost answers and
\* concurrent calls leave it with the live token of its session, or with the
\* very refresh that replaced it and can be repeated while the server keeps
\* its result (the two Updates of Client.Refresh).
RefreshRecoverable ==
    LET t == token[held] IN
    OwnRefreshes(t.session) =>
        \/ t.status = "live"
        \/ /\ pending = [token |-> held, key |-> t.key]
           /\ token[t.child].status = "live"
-----------------------------------------------------------------------------
(* The inductive invariant                                                 *)

Known(t) == t \in Ids /\ token[t].status # "none"

\* Results and answers hand out tokens that exist.
KnownResults ==
    /\ \A r \in Requests : login[r] # None => Known(login[r])
    /\ \A t \in Ids : token[t].status = "consumed" => Known(token[t].child)
    /\ \A h \in Handlers :
           answer[h].code = "ok" /\ op[h].kind \in {"login", "refresh"} =>
               Known(answer[h].token)

\* The state file names tokens that exist.
KnownFile ==
    /\ Known(held)
    /\ pending # NoPending => Known(pending.token) /\ pending.key \in RefreshKeys

ClientIInv == IInv /\ KnownResults /\ AnswersInTurn /\ KnownFile

SessionOf(t) == token[t].session

\* A login's result names the first token of its session, a consumed token's
\* result a token of the same session, and a refresh a token that exists.
RowsLinked ==
    /\ \A r \in Requests : login[r] # None => SessionOf(login[r]) = login[r]
    /\ \A t \in Ids : token[t].status = "consumed" =>
           SessionOf(token[t].child) = SessionOf(t)
    /\ \A h \in Handlers : op[h].kind = "refresh" => Known(op[h].token)

\* The client waits for requests it sent; what it has begun is a refresh of the
\* token it holds.
CallsSent ==
    /\ waiting \subseteq sent /\ sent \subseteq Handlers
    /\ \A h \in sent : pc[h] # "idle"
    /\ pending # NoPending => pending = [token |-> held, key |-> pending.key]

\* Different logins have different sessions, none of them that of the
\* registration.
LoginsDistinct ==
    \A r \in Requests : login[r] # None =>
        login[r] \in Handlers /\ \A q \in Requests : login[q] = login[r] => q = r

\* The client has held and refreshed only sessions of logins that it completed.
Mine(s) == s = Registered \/ \E r \in spent : login[r] = s

SessionsSpent ==
    /\ spent \subseteq Requests
    /\ \A r \in spent : login[r] # None
    /\ Mine(SessionOf(held))
    /\ \A g \in sent : op[g].kind = "refresh" => Mine(SessionOf(op[g].token))

\* The one login the client waits for is not completed yet.
LoginsInTurn ==
    \A h \in waiting : op[h].kind = "login" =>
        /\ op[h].request \in Requests \ spent
        /\ \A g \in waiting : op[g].kind = "login" => g = h

\* While nobody else refreshes its session, the client's requests are the
\* pending one or refreshes of tokens that are consumed, and the successor of
\* the token it holds is live.
RefreshesInTurn ==
    OwnRefreshes(SessionOf(held)) =>
        /\ \A g \in sent :
               op[g].kind = "refresh" /\ SessionOf(op[g].token) = SessionOf(held) =>
                   \/ /\ op[g].token = held
                      /\ pending = [token |-> held, key |-> op[g].key]
                   \/ op[g].token # held /\ token[op[g].token].status = "consumed"
        /\ token[held].status = "consumed" => token[token[held].child].status = "live"

RecoveryInv ==
    /\ RowsLinked /\ CallsSent /\ LoginsDistinct /\ SessionsSpent
    /\ LoginsInTurn /\ RefreshesInTurn
=============================================================================
