---------------------------- MODULE AuthSession ----------------------------
(***************************************************************************)
(* The sessions of one account: login with an idempotent request id,       *)
(* rotation of refresh tokens with retries and replay detection, logout,   *)
(* revocation and password change, run by concurrent handlers against      *)
(* PostgreSQL at READ COMMITTED.                                           *)
(*                                                                         *)
(* Each handler serves one request, and a row is named after the handler   *)
(* that inserted it, the first session and token after Registered.  A      *)
(* password hash is salted, hence new at every change, and is named        *)
(* likewise.  A row lock is held from the statement that takes it to the   *)
(* end of the transaction, so pc says who holds which.  The statements     *)
(* whose effects nobody sees before COMMIT are one action with it.         *)
(***************************************************************************)
EXTENDS FiniteSets

CONSTANTS
    Handlers,       \* one element per request, retries included
    Registered,     \* names the rows inserted when the user registered
    Requests,       \* login request ids
    RefreshKeys,    \* idempotency keys of refreshes
    None            \* NULL

Ids == Handlers \cup {Registered}

ASSUME AuthAssumption ==
    /\ Registered \notin Handlers
    /\ None \notin Ids \cup RefreshKeys
    /\ Requests \cap Ids = {}

VARIABLES
    password,       \* users.password_hash, by the handler that set it
    session,        \* sessions: status, and the hash its login verified
    idle,           \* sessions past their idle_expires_at
    expired,        \* sessions past their absolute lifetime
    token,          \* refresh tokens with their result: key and new token
    login,          \* the session each login_idempotency_results row names
    stale,          \* results past their idempotency window
    pc,             \* the next statement of each handler
    op,             \* the request of each handler
    seen,           \* the password hash it has verified
    answer,         \* what it answered
    overtaken       \* history: refusals before a rotation revived the session

\* The rows, with the history that only a statement on them adds to.
database == <<password, session, idle, expired, token, login, stale, overtaken>>
vars == <<database, pc, op, seen, answer>>
-----------------------------------------------------------------------------
(* Rows, requests and answers                                              *)

NoSession == [status |-> "none", hash |-> None]
Session == [status : {"none", "live", "revoked", "replayed"},
            hash : Ids \cup {None}]

NoToken == [status |-> "none", session |-> None, key |-> None, child |-> None]
Token == [status : {"none", "live", "consumed"}, session : Ids \cup {None},
          key : RefreshKeys \cup {None}, child : Ids \cup {None}]
LiveToken(s) == [NoToken EXCEPT !.status = "live", !.session = s]

Operations ==
    [kind : {"login"}, request : Requests]
      \cup [kind : {"refresh"}, token : Ids, key : RefreshKeys]
      \cup [kind : {"change_password"}, session : Ids]
      \cup [kind : {"revoke"}, targets : SUBSET Ids]
NoOperation == [kind |-> "none"]

\* An answer that grants a session names the refresh token it hands out.
Refusals == {"unauthorized", "conflict", "unavailable", "lost"}
Answers == [code : {"ok"}, token : Ids \cup {None}]
             \cup [code : Refusals \cup {"none"}, token : {None}]
NoAnswer == [code |-> "none", token |-> None]
Refusal(code) == [code |-> code, token |-> None]
Granted(t) == [code |-> "ok", token |-> t]

Steps == {"lookup", "lock", "insert", "commit", "reload", "consume", "rotate",
          "inspect", "revoke_session", "read", "change", "revoke_all", "revoke"}
Labels == Steps \cup {"idle", "done"}

\* revoked_at IS NULL and within idle_expires_at and the absolute lifetime
Alive(s) == session[s].status = "live" /\ s \notin idle \cup expired

Goto(h, label) == pc' = [pc EXCEPT ![h] = label]

Return(h, a) ==
    /\ Goto(h, "done")
    /\ answer' = [answer EXCEPT ![h] = a]

\* The answer to a request that took effect may get lost on its way.
ReturnOrLose(h, a) == \E b \in {a, Refusal("lost")} : Return(h, b)

Revoked(targets, status) ==
    [s \in Ids |-> IF s \in targets /\ session[s].status = "live"
                     THEN [session[s] EXCEPT !.status = status]
                     ELSE session[s]]
-----------------------------------------------------------------------------
(* Requests arrive                                                         *)

Receive(h, o, label) ==
    /\ pc[h] = "idle"
    /\ Goto(h, label)
    /\ op' = [op EXCEPT ![h] = o]
    /\ UNCHANGED <<database, answer>>

\* login: loadUserCredentials; the password in the request matches.
ReceiveLogin(h) ==
    \E r \in Requests :
        /\ Receive(h, [kind |-> "login", request |-> r], "lookup")
        /\ seen' = [seen EXCEPT ![h] = password]

\* refresh: any token that was ever handed out, with any key.
ReceiveRefresh(h) ==
    \E t \in {i \in Ids : token[i].status # "none"}, k \in RefreshKeys :
        /\ Receive(h, [kind |-> "refresh", token |-> t, key |-> k], "consume")
        /\ UNCHANGED seen

\* requireAuthentication, then changePassword
ReceiveChangePassword(h) ==
    \E s \in {i \in Ids : Alive(i)} :
        /\ Receive(h, [kind |-> "change_password", session |-> s], "read")
        /\ UNCHANGED seen

\* requireAuthentication, then logout or revokeSession (one session) or
\* logoutAll (every session of the user)
ReceiveRevoke(h) ==
    /\ \E s \in Ids : Alive(s)
    /\ \E targets \in {{s} : s \in {i \in Ids : session[i].status # "none"}}
                        \cup {Ids} :
           Receive(h, [kind |-> "revoke", targets |-> targets], "revoke")
    /\ UNCHANGED seen
-----------------------------------------------------------------------------
(* login                                                                   *)

\* loadLoginResult finds nothing when the result or its session is dead.
Recoverable(r) ==
    /\ login[r] # None
    /\ r \notin stale
    /\ Alive(login[r])

LoadLoginResult(h) ==
    /\ pc[h] = "lookup"
    /\ IF Recoverable(op[h].request)
         THEN Return(h, Granted(login[op[h].request]))
         ELSE Goto(h, "lock") /\ UNCHANGED answer
    /\ UNCHANGED <<database, op, seen>>

\* The user row: FOR SHARE by logins, FOR UPDATE by a password change.
ShareLocked == \E h \in Handlers : pc[h] \in {"insert", "commit"}
UpdateLocked == \E h \in Handlers : pc[h] = "revoke_all"

\* (faulty: the hash is not compared again)
LockWithoutComparing(h) ==
    /\ pc[h] = "lock"
    /\ ~UpdateLocked
    /\ Goto(h, "insert")
    /\ UNCHANGED <<database, op, seen, answer>>

LockUser(h) ==
    /\ pc[h] = "lock"
    /\ ~UpdateLocked
    /\ IF password = seen[h]
         THEN Goto(h, "insert") /\ UNCHANGED answer
         ELSE Return(h, Refusal("unauthorized"))
    /\ UNCHANGED <<database, op, seen>>

\* (faulty: a request id that is taken is not noticed)
InsertAnyway(h) ==
    /\ pc[h] = "insert"
    /\ Goto(h, "commit")
    /\ UNCHANGED <<database, op, seen, answer>>

\* createSessionResponse, then the result: waits for an uncommitted result of
\* the same request id; on a unique violation the session is rolled back.
InsertLogin(h) ==
    /\ pc[h] = "insert"
    /\ \A g \in Handlers :
           pc[g] = "commit" => op[g].request # op[h].request
    /\ Goto(h, IF login[op[h].request] = None THEN "commit" ELSE "reload")
    /\ UNCHANGED <<database, op, seen, answer>>

ReloadLoginResult(h) ==
    /\ pc[h] = "reload"
    /\ Return(h, IF Recoverable(op[h].request)
                   THEN Granted(login[op[h].request])
                   ELSE Refusal("conflict"))
    /\ UNCHANGED <<database, op, seen>>

CommitLogin(h) ==
    /\ pc[h] = "commit"
    /\ session' = [session EXCEPT ![h] = [status |-> "live", hash |-> seen[h]]]
    /\ token' = [token EXCEPT ![h] = LiveToken(h)]
    /\ login' = [login EXCEPT ![op[h].request] = h]
    /\ ReturnOrLose(h, Granted(h))
    /\ UNCHANGED <<password, idle, expired, stale, overtaken, op, seen>>
-----------------------------------------------------------------------------
(* refresh                                                                 *)

\* (faulty: the token is read without locking its row)
ConsumeUnlocked(h) ==
    /\ pc[h] = "consume"
    /\ LET t == token[op[h].token] IN
           Goto(h, IF t.status = "live" /\ Alive(t.session)
                     THEN "rotate" ELSE "inspect")
    /\ UNCHANGED <<database, op, seen, answer>>

\* The UPDATE selects the token by what is committed and, if it is selected,
\* waits for the transaction that is rotating it.  CURRENT_TIMESTAMP and the
\* session are those of its start: a wait that ends with the rollback of the
\* other transaction is one that had come after it.
ConsumeToken(h) ==
    LET t == token[op[h].token]
        found == t.status = "live" /\ Alive(t.session)
    IN
    /\ pc[h] = "consume"
    /\ found => \A g \in Handlers : pc[g] = "rotate" => op[g].token # op[h].token
    /\ Goto(h, IF found THEN "rotate" ELSE "inspect")
    /\ UNCHANGED <<database, op, seen, answer>>

\* The refresh of handler g of a token of session s was refused.
RefusedIn(s, g) ==
    /\ op[g].kind = "refresh" /\ answer[g].code = "unauthorized"
    /\ token[op[g].token].session = s

\* UPDATE sessions SET idle_expires_at: not only when it had not passed.  The
\* refusals before it stand for nothing any more if it had.
ExtendIdle(s) ==
    /\ idle' = idle \ {s}
    /\ overtaken' = IF s \in idle
                      THEN overtaken \cup {g \in Handlers : RefusedIn(s, g)}
                      ELSE overtaken

\* (faulty: the result for the retry is keyed by the new token)
RotateLosingKey(h) ==
    LET t == op[h].token IN
    /\ pc[h] = "rotate"
    /\ token' = [token EXCEPT
                   ![t].status = "consumed",
                   ![t].child = h,
                   ![h] = [LiveToken(token[t].session) EXCEPT !.key = op[h].key]]
    /\ ExtendIdle(token[t].session)
    /\ ReturnOrLose(h, Granted(h))
    /\ UNCHANGED <<password, session, expired, login, stale, op, seen>>

\* A new token, the new idle_expires_at of the session and the result for a
\* retry, committed with the consumption.
RotateToken(h) ==
    LET t == op[h].token IN
    /\ pc[h] = "rotate"
    /\ token' = [token EXCEPT
                   ![t] = [@ EXCEPT !.status = "consumed", !.child = h,
                                    !.key = op[h].key],
                   ![h] = LiveToken(token[t].session)]
    /\ ExtendIdle(token[t].session)
    /\ ReturnOrLose(h, Granted(h))
    /\ UNCHANGED <<password, session, expired, login, stale, op, seen>>

\* (faulty: a replay is refused but the session lives on)
InspectWithoutRevoking(h) ==
    LET t == token[op[h].token] IN
    /\ pc[h] = "inspect"
    /\ Return(h, IF /\ t.status = "consumed"
                    /\ Alive(t.session)
                    /\ t.key = op[h].key
                    /\ op[h].token \notin stale
                   THEN Granted(t.child) ELSE Refusal("unauthorized"))
    /\ UNCHANGED <<database, op, seen>>

\* handleUsedOrInvalidRefresh: dead, a retry, or a replay
InspectToken(h) ==
    LET t == token[op[h].token]
        used == t.status = "consumed" /\ Alive(t.session)
        retry == t.key = op[h].key /\ op[h].token \notin stale
    IN
    /\ pc[h] = "inspect"
    /\ \/ ~used /\ Return(h, Refusal("unauthorized"))
       \/ used /\ retry /\ ReturnOrLose(h, Granted(t.child))
       \/ used /\ ~retry /\ Goto(h, "revoke_session") /\ UNCHANGED answer
    /\ UNCHANGED <<database, op, seen>>

RevokeReplayed(h) ==
    /\ pc[h] = "revoke_session"
    /\ session' = Revoked({token[op[h].token].session}, "replayed")
    /\ Return(h, Refusal("unauthorized"))
    /\ UNCHANGED <<password, idle, expired, token, login, stale, overtaken, op,
                   seen>>
-----------------------------------------------------------------------------
(* changePassword, logout, revokeSession and logoutAll                     *)

\* The current password in the request matches, or it does not.
ReadPassword(h) ==
    /\ pc[h] = "read"
    /\ \/ /\ Goto(h, "change")
          /\ seen' = [seen EXCEPT ![h] = password]
          /\ UNCHANGED answer
       \/ Return(h, Refusal("unauthorized")) /\ UNCHANGED seen
    /\ UNCHANGED <<database, op>>

\* UPDATE users ... WHERE password_hash = currentHash
UpdatePassword(h) ==
    /\ pc[h] = "change"
    /\ ~ShareLocked /\ ~UpdateLocked
    /\ IF password = seen[h]
         THEN Goto(h, "revoke_all") /\ UNCHANGED answer
         ELSE Return(h, Refusal("conflict"))
    /\ UNCHANGED <<database, op, seen>>

\* Every session of the user is revoked, the caller's included; COMMIT.
RevokeAllAndCommit(h) ==
    /\ pc[h] = "revoke_all"
    /\ password' = h
    /\ session' = Revoked(Ids, "revoked")
    /\ ReturnOrLose(h, Granted(None))
    /\ UNCHANGED <<idle, expired, token, login, stale, overtaken, op, seen>>

RevokeSessions(h) ==
    /\ pc[h] = "revoke"
    /\ session' = Revoked(op[h].targets, "revoked")
    /\ ReturnOrLose(h, Granted(None))
    /\ UNCHANGED <<password, idle, expired, token, login, stale, overtaken, op,
                   seen>>
-----------------------------------------------------------------------------
\* A statement fails, or the process dies and its session ends: the
\* transaction is rolled back.
Fail(h) ==
    /\ pc[h] \in Steps
    /\ Return(h, Refusal("unavailable"))
    /\ UNCHANGED <<database, op, seen>>

\* idle_expires_at of a session passes.  A rotation that is already under way
\* brings the session back.
ExpireIdle ==
    /\ \E s \in {i \in Ids : Alive(i)} : idle' = idle \cup {s}
    /\ UNCHANGED <<password, session, expired, token, login, stale, overtaken,
                   pc, op, seen, answer>>

\* sessionAbsoluteLifetime passes, for good.
ExpireSession ==
    /\ \E s \in {i \in Ids : session[i].status = "live"} \ expired :
           expired' = expired \cup {s}
    /\ UNCHANGED <<password, session, idle, token, login, stale, overtaken,
                   pc, op, seen, answer>>

\* idempotencyLifetime passes for the result of a login or of a refresh.
ExpireResult ==
    /\ \E r \in {i \in Requests : login[i] # None}
                 \cup {t \in Ids : token[t].status = "consumed"} :
           /\ r \notin stale
           /\ stale' = stale \cup {r}
    /\ UNCHANGED <<password, session, idle, expired, token, login, overtaken,
                   pc, op, seen, answer>>

Init ==
    /\ password = Registered
    /\ session = [i \in Ids |-> IF i = Registered
                                  THEN [status |-> "live", hash |-> Registered]
                                  ELSE NoSession]
    /\ idle = {} /\ expired = {}
    /\ token = [i \in Ids |-> IF i = Registered THEN LiveToken(Registered)
                                                ELSE NoToken]
    /\ login = [r \in Requests |-> None]
    /\ stale = {}
    /\ pc = [h \in Handlers |-> "idle"]
    /\ op = [h \in Handlers |-> NoOperation]
    /\ seen = [h \in Handlers |-> None]
    /\ answer = [h \in Handlers |-> NoAnswer]
    /\ overtaken = {}

Login(h) == \/ ReceiveLogin(h) \/ LoadLoginResult(h) \/ LockUser(h)
            \/ InsertLogin(h) \/ ReloadLoginResult(h) \/ CommitLogin(h)

Refresh(h) == \/ ReceiveRefresh(h) \/ ConsumeToken(h) \/ RotateToken(h)
              \/ InspectToken(h) \/ RevokeReplayed(h)

Revoke(h) == \/ ReceiveChangePassword(h) \/ ReadPassword(h)
             \/ UpdatePassword(h) \/ RevokeAllAndCommit(h)
             \/ ReceiveRevoke(h) \/ RevokeSessions(h)

Next ==
    \/ \E h \in Handlers : Login(h) \/ Refresh(h) \/ Revoke(h) \/ Fail(h)
    \/ ExpireIdle
    \/ ExpireSession
    \/ ExpireResult

Spec == Init /\ [][Next]_vars
-----------------------------------------------------------------------------
(* Properties                                                              *)

\* Every variable has its type; a result row names a session, and a consumed
\* token has the key and the new token that a retry of its refresh needs.
TypeOK ==
    /\ password \in Ids
    /\ session \in [Ids -> Session]
    /\ idle \subseteq Ids /\ expired \subseteq Ids
    /\ token \in [Ids -> Token]
    /\ \A t \in Ids : token[t].status = "consumed" =>
           token[t].key \in RefreshKeys /\ token[t].child \in Ids
    /\ login \in [Requests -> Ids \cup {None}]
    /\ stale \subseteq Requests \cup Ids
    /\ pc \in [Handlers -> Labels]
    /\ op \in [Handlers -> Operations \cup {NoOperation}]
    /\ seen \in [Handlers -> Ids \cup {None}]
    /\ answer \in [Handlers -> Answers]
    /\ overtaken \subseteq Handlers

\* A session never forks: whatever refreshes of it race, fail, are retried or
\* replayed, it has exactly one refresh token that was not consumed
\* (rotateRefreshToken consumes and replaces in one transaction).
OneLiveToken ==
    \A s \in Ids : session[s].status # "none" =>
        \E t \in Ids : \A u \in Ids :
            (token[u].status = "live" /\ token[u].session = s) <=> u = t

\* No login that verified an older password leaves a session behind: it either
\* commits before the password change revokes, or sees the new hash
\* (createIdempotentLogin's FOR SHARE against changePassword).
SessionsMatchPassword ==
    \A s \in Ids : session[s].status = "live" => session[s].hash = password

\* All answers to one login request hand out the same session and all answers
\* to refreshes of one token the same successor, in whatever order retries
\* run (login_idempotency_results and refresh_idempotency_results).
IdempotentAnswers ==
    \A g, h \in Handlers :
        /\ answer[g].code = "ok" /\ answer[h].code = "ok"
        /\ \/ /\ op[g].kind = "login" /\ op[h].kind = "login"
              /\ op[g].request = op[h].request
           \/ /\ op[g].kind = "refresh" /\ op[h].kind = "refresh"
              /\ op[g].token = op[h].token
        => answer[g].token = answer[h].token

\* Replay detection never hits an honest client: a session is revoked for a
\* replay only when one of its tokens was presented with two keys or after
\* the idempotency window (handleUsedOrInvalidRefresh).
ReplayForCause ==
    \A s \in Ids : session[s].status = "replayed" =>
        \E t \in Ids :
            /\ token[t].session = s
            /\ \/ t \in stale
               \/ \E g, h \in Handlers :
                      /\ op[g].kind = "refresh" /\ op[h].kind = "refresh"
                      /\ op[g].token = t /\ op[h].token = t
                      /\ op[g].key # op[h].key

\* A replay ends the session: when a token was exchanged and a refresh of it
\* was refused, whoever holds its successor is locked out too.  The one way
\* back: a rotation that had consumed its token before the session idled out
\* commits after the refusal (handleUsedOrInvalidRefresh revokes nothing in a
\* session that has idled out, and rotateRefreshToken extends it regardless).
ReplayEndsSession ==
    \A h \in Handlers :
        /\ op[h].kind = "refresh"
        /\ answer[h].code = "unauthorized"
        /\ token[op[h].token].status = "consumed"
        => ~Alive(token[op[h].token].session) \/ h \in overtaken
-----------------------------------------------------------------------------
(* The inductive invariant                                                 *)

LoginSteps == {"lookup", "lock", "insert", "commit", "reload"}
RefreshSteps == {"consume", "rotate", "inspect", "revoke_session"}

\* Each step belongs to its kind of request, and refreshes name known tokens.
StepsMatchRequests ==
    \A h \in Handlers :
        /\ pc[h] \in LoginSteps =>
               op[h].kind = "login" /\ op[h].request \in Requests
        /\ pc[h] \in RefreshSteps =>
               /\ op[h].kind = "refresh"
               /\ op[h].token \in Ids /\ op[h].key \in RefreshKeys
               /\ token[op[h].token].status # "none"

\* A handler that has not returned has no rows of its own yet.
RowsNotYetInserted ==
    \A h \in Handlers : pc[h] # "done" =>
        session[h].status = "none" /\ token[h].status = "none"

\* Every token belongs to a session.
TokensHaveSessions ==
    \A t \in Ids : token[t].status # "none" =>
        token[t].session \in Ids /\ session[token[t].session].status # "none"

\* While the user row is locked the hash that was compared stays the current
\* one, and a password change excludes logins and other changes.
UserLockHeld ==
    \A h \in Handlers :
        /\ pc[h] \in {"insert", "commit", "revoke_all"} => seen[h] = password
        /\ pc[h] = "revoke_all" =>
               ~ShareLocked /\ \A g \in Handlers : pc[g] = "revoke_all" => g = h

\* A token is rotated by one transaction at a time, and nobody else consumes
\* it meanwhile.
TokenLockHeld ==
    \A h \in Handlers : pc[h] = "rotate" =>
        /\ token[op[h].token].status = "live"
        /\ \A g \in Handlers :
               pc[g] = "rotate" /\ op[g].token = op[h].token => g = h

IInv ==
    /\ TypeOK
    /\ StepsMatchRequests
    /\ RowsNotYetInserted
    /\ TokensHaveSessions
    /\ UserLockHeld
    /\ TokenLockHeld
    /\ OneLiveToken
    /\ SessionsMatchPassword

\* No request is answered early, and the others hand out no tokens.
AnswersInTurn ==
    \A h \in Handlers :
        /\ pc[h] # "done" => answer[h].code # "ok"
        /\ pc[h] \in {"read", "change", "revoke_all", "revoke"} =>
               op[h].kind \notin {"login", "refresh"}

\* A request id is taken by one login that is about to commit, if at all.
RequestLockHeld ==
    \A h \in Handlers : pc[h] = "commit" =>
        /\ login[op[h].request] = None
        /\ \A g \in Handlers :
               pc[g] = "commit" /\ op[g].request = op[h].request => g = h

\* What was answered is what the result of the request says.
AnswersFromResults ==
    \A h \in Handlers : answer[h].code = "ok" =>
        /\ op[h].kind = "login" =>
               /\ op[h].request \in Requests
               /\ login[op[h].request] # None
               /\ answer[h].token = login[op[h].request]
        /\ op[h].kind = "refresh" =>
               /\ op[h].token \in Ids
               /\ token[op[h].token].status = "consumed"
               /\ answer[h].token = token[op[h].token].child

ResultsInv == AnswersInTurn /\ RequestLockHeld /\ AnswersFromResults

\* A request is known from its arrival and refused only by the step that ends it.
RequestsInTurn ==
    \A h \in Handlers :
        /\ pc[h] = "idle" => op[h].kind = "none"
        /\ pc[h] # "done" => answer[h].code # "unauthorized"

\* Whoever consumed a token left its own key with it.
ConsumedByRefresh ==
    \A t \in Ids : token[t].status = "consumed" =>
        \E g \in Handlers : /\ op[g].kind = "refresh" /\ op[g].token = t
                            /\ op[g].key = token[t].key

\* A token that could not be consumed is consumed or its session dead, since
\* only its own rotation could revive the session, and what made its use a
\* replay stays true.
InspectionsHold ==
    \A h \in Handlers :
        /\ pc[h] = "inspect" =>
               \/ token[op[h].token].status = "consumed"
               \/ ~Alive(token[op[h].token].session)
        /\ pc[h] = "revoke_session" =>
               /\ token[op[h].token].status = "consumed"
               /\ token[op[h].token].key # op[h].key \/ op[h].token \in stale

\* A refresh is refused only when its session is dead, which it remains unless
\* a rotation overtakes the refusal.
RefusalsFinal ==
    \A h \in Handlers : op[h].kind = "refresh" /\ answer[h].code = "unauthorized" =>
        /\ op[h].token \in Ids /\ token[op[h].token].status # "none"
        /\ ~Alive(token[op[h].token].session) \/ h \in overtaken

\* A token that was issued and used with two keys, or too late.
Misused(t) ==
    /\ token[t].status # "none"
    /\ \/ t \in stale
       \/ \E g, h \in Handlers :
              /\ op[g].kind = "refresh" /\ op[h].kind = "refresh"
              /\ op[g].token = t /\ op[h].token = t
              /\ op[g].key # op[h].key

ReplaysCaused ==
    \A s \in Ids : session[s].status = "replayed" =>
        \E t \in Ids : token[t].session = s /\ Misused(t)

ReplayInv ==
    /\ RequestsInTurn /\ ConsumedByRefresh /\ InspectionsHold
    /\ RefusalsFinal /\ ReplaysCaused
=============================================================================
