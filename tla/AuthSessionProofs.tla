------------------------- MODULE AuthSessionProofs -------------------------
(***************************************************************************)
(* Proofs about AuthSession and about its composition with the headless    *)
(* client, for any number of concurrent requests, login request ids and    *)
(* refresh keys.  The requests of the client are requests that AuthSession *)
(* serves: ClientSession implements AuthSession, and what is proved of     *)
(* sessions holds of the composition.                                      *)
(***************************************************************************)
EXTENDS ClientSession, TLAPS

USE AuthAssumption

-----------------------------------------------------------------------------
(* Steps that leave the database alone                                     *)

\* Returning without having changed a row gives up the locks and disturbs
\* nothing.
LEMMA ReturnKeeps ==
    ASSUME IInv, NEW h \in Handlers, NEW a \in Answers, Return(h, a),
           UNCHANGED <<database, op, seen>>
    PROVE  IInv'
<1> USE DEF IInv, Return, Goto, database
<1>0. "done" \in Labels /\ "done" \notin Steps
  BY DEF Labels, Steps
<1>1. TypeOK'
  BY <1>0 DEF TypeOK
<1>2. \A g \in Handlers : pc'[g] \in {pc[g], "done"}
  BY DEF TypeOK
<1>3. StepsMatchRequests' /\ RowsNotYetInserted' /\ TokenLockHeld'
  BY <1>2 DEF StepsMatchRequests, RowsNotYetInserted, TokenLockHeld, LoginSteps,
              RefreshSteps
<1>4. UserLockHeld'
  BY <1>2 DEF UserLockHeld, ShareLocked
<1>5. TokensHaveSessions' /\ OneLiveToken' /\ SessionsMatchPassword'
  BY DEF TokensHaveSessions, OneLiveToken, SessionsMatchPassword
<1> QED BY <1>1, <1>3, <1>4, <1>5

\* Going to a statement keeps the invariant when the handler's request matches
\* and the lock that the statement needs has been obtained.
LEMMA MoveKeeps ==
    ASSUME IInv, NEW h \in Handlers, NEW l \in Steps, Goto(h, l), pc[h] # "done",
           UNCHANGED <<database, answer>>,
           \A g \in Handlers : g # h => op'[g] = op[g] /\ seen'[g] = seen[g],
           op' \in [Handlers -> Operations \cup {NoOperation}],
           seen' \in [Handlers -> Ids \cup {None}],
           l \in LoginSteps =>
               op'[h].kind = "login" /\ op'[h].request \in Requests,
           l \in RefreshSteps =>
               /\ op'[h].kind = "refresh"
               /\ op'[h].token \in Ids /\ op'[h].key \in RefreshKeys
               /\ token[op'[h].token].status # "none",
           l \in {"insert", "commit", "revoke_all"} => seen'[h] = password,
           l \in {"insert", "commit"} =>
               \A g \in Handlers : g # h => pc[g] # "revoke_all",
           l = "revoke_all" =>
               \A g \in Handlers :
                   g # h => pc[g] \notin {"insert", "commit", "revoke_all"},
           l = "rotate" =>
               /\ token[op'[h].token].status = "live"
               /\ \A g \in Handlers :
                      g # h /\ pc[g] = "rotate" => op[g].token # op'[h].token
    PROVE  IInv'
<1> USE DEF IInv, Goto, database
<1>0. l \in Labels /\ l # "done"
  BY DEF Labels, Steps
<1>1. TypeOK'
  BY <1>0 DEF TypeOK
<1>2. pc'[h] = l /\ \A g \in Handlers : g # h => pc'[g] = pc[g]
  BY DEF TypeOK
<1>3. StepsMatchRequests'
  BY <1>2 DEF StepsMatchRequests
<1>4. RowsNotYetInserted'
  BY <1>2 DEF RowsNotYetInserted
<1>5. TokenLockHeld'
  BY <1>2 DEF TokenLockHeld
<1>6. UserLockHeld'
  <2>1. \A g \in Handlers :
            pc'[g] \in {"insert", "commit", "revoke_all"} => seen'[g] = password'
    BY <1>2 DEF UserLockHeld
  <2>2. ASSUME NEW g \in Handlers, pc'[g] = "revoke_all", NEW f \in Handlers,
               pc'[f] \in {"insert", "commit", "revoke_all"}
        PROVE  f = g
    BY <1>2, <2>2 DEF UserLockHeld, ShareLocked
  <2> QED BY <2>1, <2>2 DEF UserLockHeld, ShareLocked
<1>7. TokensHaveSessions' /\ OneLiveToken' /\ SessionsMatchPassword'
  BY DEF TokensHaveSessions, OneLiveToken, SessionsMatchPassword
<1> QED BY <1>1, <1>3, <1>4, <1>5, <1>6, <1>7
-----------------------------------------------------------------------------
(* Steps that commit                                                       *)

\* Revoking sessions disturbs nothing; a password may change with it if it
\* leaves no live session and no login that has compared the old hash.
LEMMA RevokeKeeps ==
    ASSUME IInv, NEW h \in Handlers, NEW a \in Answers, Return(h, a),
           NEW targets \in SUBSET Ids, NEW status \in {"revoked", "replayed"},
           session' = Revoked(targets, status),
           UNCHANGED <<idle, expired, token, login, stale, overtaken, op, seen>>,
           \/ password' = password
           \/ /\ pc[h] = "revoke_all" /\ targets = Ids /\ password' = h
    PROVE  IInv'
<1> USE DEF IInv, Return, Goto
<1>0. "done" \in Labels
  BY DEF Labels
<1>1. \A s \in Ids : /\ session'[s] \in Session
                     /\ session'[s].status = "none" <=> session[s].status = "none"
                     /\ session'[s].status = "live" =>
                            session'[s] = session[s] /\ s \notin targets
  BY DEF TypeOK, Session, Revoked
<1>2. TypeOK'
  BY <1>0, <1>1 DEF TypeOK, Revoked, Ids
<1>3. \A g \in Handlers : pc'[g] \in {pc[g], "done"}
  BY DEF TypeOK
<1>4. StepsMatchRequests' /\ TokenLockHeld'
  BY <1>3 DEF StepsMatchRequests, TokenLockHeld, LoginSteps, RefreshSteps
<1>5. RowsNotYetInserted' /\ TokensHaveSessions' /\ OneLiveToken'
  BY <1>1, <1>3 DEF RowsNotYetInserted, TokensHaveSessions, OneLiveToken, Ids
<1>6. UserLockHeld' /\ SessionsMatchPassword'
  <2>1. CASE password' = password
    BY <1>1, <1>3, <2>1 DEF UserLockHeld, ShareLocked, SessionsMatchPassword
  <2>2. CASE pc[h] = "revoke_all" /\ targets = Ids
    <3>1. \A g \in Handlers : pc'[g] \notin {"insert", "commit", "revoke_all"}
      BY <1>3, <2>2 DEF UserLockHeld, ShareLocked, TypeOK
    <3> QED BY <1>1, <2>2, <3>1 DEF UserLockHeld, SessionsMatchPassword
  <2> QED BY <2>1, <2>2
<1> QED BY <1>2, <1>4, <1>5, <1>6

\* A login commits a session for the current password and its first token.
LEMMA CommitLoginKeeps ==
    ASSUME IInv, NEW h \in Handlers, CommitLogin(h)
    PROVE  IInv'
<1> USE DEF IInv, CommitLogin
<1>1. PICK a \in Answers : Return(h, a)
  BY DEF ReturnOrLose, Granted, Refusal, Answers, Refusals, Ids
<1>2. /\ h \in Ids /\ op[h].request \in Requests /\ seen[h] = password
      /\ session[h].status = "none" /\ token[h].status = "none"
      /\ pc' = [pc EXCEPT ![h] = "done"] /\ "done" \in Labels
  BY <1>1 DEF StepsMatchRequests, UserLockHeld, RowsNotYetInserted, Ids, LoginSteps,
         Return, Goto, Labels
<1>3. /\ session'[h] = [status |-> "live", hash |-> password]
      /\ \A s \in Ids : s # h => session'[s] = session[s]
  BY <1>2 DEF TypeOK
<1>4. /\ token'[h] = LiveToken(h) /\ LiveToken(h) \in Token
      /\ LiveToken(h).status = "live" /\ LiveToken(h).session = h
      /\ \A t \in Ids : t # h => token'[t] = token[t]
  BY <1>2 DEF TypeOK, LiveToken, NoToken, Token
<1>5. TypeOK'
  <2>1. session' \in [Ids -> Session]
    BY <1>2, <1>3 DEF TypeOK, Session
  <2>2. token' \in [Ids -> Token]
    BY <1>2, <1>4 DEF TypeOK
  <2>3. \A t \in Ids : token'[t].status = "consumed" =>
            token'[t].key \in RefreshKeys /\ token'[t].child \in Ids
    BY <1>2, <1>4 DEF TypeOK
  <2>4. login' \in [Requests -> Ids \cup {None}] /\ pc' \in [Handlers -> Labels]
        /\ answer' \in [Handlers -> Answers]
    BY <1>1, <1>2 DEF TypeOK, Return
  <2> QED BY <2>1, <2>2, <2>3, <2>4 DEF TypeOK
<1>6. \A g \in Handlers : pc'[g] \in {pc[g], "done"} /\ pc'[h] = "done"
  BY <1>2 DEF TypeOK
<1>7. StepsMatchRequests'
  BY <1>3, <1>4, <1>6 DEF StepsMatchRequests, LoginSteps, RefreshSteps
<1>8. RowsNotYetInserted'
  BY <1>3, <1>4, <1>6 DEF RowsNotYetInserted, Ids
<1>9. TokensHaveSessions'
  BY <1>2, <1>3, <1>4 DEF TokensHaveSessions
<1>10. TokenLockHeld'
  BY <1>2, <1>4, <1>6 DEF TokenLockHeld, StepsMatchRequests, RefreshSteps
<1>11. UserLockHeld'
  BY <1>6 DEF UserLockHeld, ShareLocked
<1>12. SessionsMatchPassword'
  BY <1>2, <1>3 DEF SessionsMatchPassword
<1>13. OneLiveToken'
  <2> SUFFICES ASSUME NEW s \in Ids, session'[s].status # "none"
               PROVE  \E t \in Ids : \A u \in Ids :
                        (token'[u].status = "live" /\ token'[u].session = s) <=> u = t
    BY DEF OneLiveToken
  <2>1. CASE s = h
    <3>1. \A u \in Ids : token[u].status # "none" => token[u].session # h
      BY <1>2 DEF TokensHaveSessions
    <3> QED BY <1>2, <1>4, <2>1, <3>1
  <2>2. CASE s # h
    <3>1. PICK t \in Ids : \A u \in Ids :
              (token[u].status = "live" /\ token[u].session = s) <=> u = t
      BY <1>3, <2>2 DEF OneLiveToken
    <3> QED BY <1>2, <1>4, <2>2, <3>1
  <2> QED BY <2>1, <2>2
<1> QED BY <1>5, <1>7, <1>8, <1>9, <1>10, <1>11, <1>12, <1>13

\* A rotation replaces the one live token of its session.
LEMMA RotateTokenKeeps ==
    ASSUME IInv, NEW h \in Handlers, RotateToken(h)
    PROVE  IInv'
<1> DEFINE t == op[h].token
<1> USE DEF IInv
<1>1. PICK a \in Answers : Return(h, a)
  BY DEF RotateToken, ReturnOrLose, Granted, Refusal, Answers, Refusals, Ids
<1>2. /\ h \in Ids /\ t \in Ids /\ op[h].key \in RefreshKeys /\ t # h
      /\ token[t].status = "live" /\ token[t].session \in Ids
      /\ token[h].status = "none" /\ session[h].status = "none"
      /\ pc[h] = "rotate"
      /\ pc' = [pc EXCEPT ![h] = "done"] /\ "done" \in Labels
  BY <1>1 DEF StepsMatchRequests, TokenLockHeld, RowsNotYetInserted, Ids, RefreshSteps,
         TokensHaveSessions, RotateToken, Return, Goto, Labels
<1>3. /\ token'[h] = LiveToken(token[t].session)
      /\ LiveToken(token[t].session) \in Token
      /\ token'[h].status = "live" /\ token'[h].session = token[t].session
  BY <1>2 DEF TypeOK, LiveToken, NoToken, Token, RotateToken
<1>4. /\ token'[t].status = "consumed" /\ token'[t].session = token[t].session
      /\ token'[t].key = op[h].key /\ token'[t].child = h
      /\ token'[t] \in Token
  <2>1. token[t] \in Token
    BY <1>2 DEF TypeOK
  <2>2. token'[t] = [token[t] EXCEPT !.status = "consumed", !.child = h,
                                     !.key = op[h].key]
    BY <1>2 DEF TypeOK, RotateToken
  <2> QED BY <1>2, <2>1, <2>2 DEF Token
<1>5. \A u \in Ids : u # t /\ u # h => token'[u] = token[u]
  BY <1>2 DEF TypeOK, RotateToken
<1>6. TypeOK'
  <2>1. token' \in [Ids -> Token]
    BY <1>2, <1>3, <1>4, <1>5 DEF TypeOK, RotateToken
  <2>2. \A u \in Ids : token'[u].status = "consumed" =>
            token'[u].key \in RefreshKeys /\ token'[u].child \in Ids
    BY <1>2, <1>3, <1>4, <1>5 DEF TypeOK
  <2>3. pc' \in [Handlers -> Labels] /\ answer' \in [Handlers -> Answers]
    BY <1>1, <1>2 DEF TypeOK, Return
  <2>4. idle' \subseteq Ids /\ overtaken' \subseteq Handlers
    BY DEF TypeOK, RotateToken, ExtendIdle
  <2> QED BY <2>1, <2>2, <2>3, <2>4 DEF TypeOK, RotateToken
<1>7. \A g \in Handlers : pc'[g] \in {pc[g], "done"} /\ pc'[h] = "done"
  BY <1>2 DEF TypeOK
<1>8. /\ op' = op /\ seen' = seen /\ password' = password /\ session' = session
      /\ \A u \in Ids : token[u].status # "none" => token'[u].status # "none"
  BY <1>2, <1>3, <1>4, <1>5 DEF RotateToken
<1>9. StepsMatchRequests'
  BY <1>7, <1>8 DEF StepsMatchRequests, LoginSteps, RefreshSteps
<1>10. RowsNotYetInserted'
  BY <1>2, <1>5, <1>7, <1>8 DEF RowsNotYetInserted, Ids
<1>11. TokensHaveSessions'
  BY <1>2, <1>3, <1>4, <1>5, <1>8 DEF TokensHaveSessions
<1>12. TokenLockHeld'
  BY <1>2, <1>5, <1>7, <1>8 DEF TokenLockHeld, StepsMatchRequests, RefreshSteps
<1>13. UserLockHeld' /\ SessionsMatchPassword'
  BY <1>7, <1>8 DEF UserLockHeld, ShareLocked, SessionsMatchPassword
<1>14. OneLiveToken'
  <2> SUFFICES ASSUME NEW s \in Ids, session[s].status # "none"
               PROVE  \E v \in Ids : \A u \in Ids :
                        (token'[u].status = "live" /\ token'[u].session = s) <=> u = v
    BY <1>8 DEF OneLiveToken
  <2>1. PICK v \in Ids : \A u \in Ids :
            (token[u].status = "live" /\ token[u].session = s) <=> u = v
    BY DEF OneLiveToken
  <2>2. CASE v = t
    <3>1. token[t].session = s
      BY <1>2, <2>1, <2>2
    <3> QED BY <1>2, <1>3, <1>4, <1>5, <2>1, <2>2, <3>1
  <2>3. CASE v # t
    <3>1. token[t].session # s /\ v # h
      BY <1>2, <2>1, <2>3
    <3> QED BY <1>2, <1>3, <1>4, <1>5, <2>1, <2>3, <3>1
  <2> QED BY <2>2, <2>3
<1> QED BY <1>6, <1>9, <1>10, <1>11, <1>12, <1>13, <1>14
-----------------------------------------------------------------------------
(* The inductive invariant                                                 *)

\* No row, handler or answer exists yet.
LEMMA InitIInv == Init => IInv
<1> SUFFICES ASSUME Init PROVE IInv
  OBVIOUS
<1> USE DEF Init
<1>1. Registered \in Ids /\ LiveToken(Registered) \in Token /\ NoToken \in Token
      /\ NoSession \in Session /\ "idle" \in Labels /\ NoAnswer \in Answers
      /\ [status |-> "live", hash |-> Registered] \in Session
      /\ LiveToken(Registered).status = "live"
      /\ LiveToken(Registered).session = Registered
      /\ NoToken.status = "none" /\ NoSession.status = "none"
  BY DEF Ids, LiveToken, NoToken, Token, NoSession, Session, Labels, NoAnswer, Answers
<1>2. TypeOK
  BY <1>1 DEF TypeOK
<1>3. /\ session[Registered] = [status |-> "live", hash |-> Registered]
      /\ token[Registered] = LiveToken(Registered)
      /\ \A i \in Ids : i # Registered => session[i] = NoSession /\ token[i] = NoToken
  BY <1>1
<1>4. StepsMatchRequests /\ UserLockHeld /\ TokenLockHeld
  BY DEF StepsMatchRequests, UserLockHeld, TokenLockHeld, LoginSteps, RefreshSteps
<1>5. RowsNotYetInserted /\ TokensHaveSessions
  BY <1>1, <1>3 DEF RowsNotYetInserted, TokensHaveSessions, Ids
<1>6. OneLiveToken /\ SessionsMatchPassword
  BY <1>1, <1>3 DEF OneLiveToken, SessionsMatchPassword
<1> QED BY <1>2, <1>4, <1>5, <1>6 DEF IInv

\* The steps of a login.
LEMMA LoginKeeps ==
    ASSUME IInv, NEW h \in Handlers, Login(h)
    PROVE  IInv'
<1> USE DEF IInv
<1>0. /\ pc[h] \in LoginSteps =>
             op[h].kind = "login" /\ op[h].request \in Requests
      /\ login \in [Requests -> Ids \cup {None}] /\ password \in Ids
      /\ op \in [Handlers -> Operations \cup {NoOperation}]
      /\ seen \in [Handlers -> Ids \cup {None}]
  BY DEF StepsMatchRequests, TypeOK
<1>1. CASE ReceiveLogin(h)
  <2>1. PICK r \in Requests :
            /\ Receive(h, [kind |-> "login", request |-> r], "lookup")
            /\ seen' = [seen EXCEPT ![h] = password]
    BY <1>1 DEF ReceiveLogin
  <2>2. [kind |-> "login", request |-> r] \in Operations
    BY DEF Operations
  <2>3. /\ op' \in [Handlers -> Operations \cup {NoOperation}]
        /\ op'[h] = [kind |-> "login", request |-> r]
        /\ \A g \in Handlers : g # h => op'[g] = op[g] /\ seen'[g] = seen[g]
        /\ seen' \in [Handlers -> Ids \cup {None}]
    BY <1>0, <2>1, <2>2 DEF Receive
  <2>4. /\ Goto(h, "lookup") /\ pc[h] # "done" /\ UNCHANGED <<database, answer>>
        /\ "lookup" \in Steps /\ "lookup" \notin RefreshSteps
        /\ "lookup" \notin {"insert", "commit", "revoke_all", "rotate"}
        /\ op'[h].kind = "login" /\ op'[h].request \in Requests
    BY <2>1, <2>3 DEF Receive, Steps, RefreshSteps
  <2> QED BY <2>3, <2>4, MoveKeeps
<1>2. CASE LoadLoginResult(h)
  <2>1. CASE Recoverable(op[h].request)
    <3>1. Granted(login[op[h].request]) \in Answers
      BY <1>0, <1>2 DEF LoadLoginResult, LoginSteps, Granted, Answers
    <3> QED BY <1>2, <2>1, <3>1, ReturnKeeps DEF LoadLoginResult
  <2>2. CASE ~Recoverable(op[h].request)
    BY <1>0, <1>2, <2>2, MoveKeeps DEF LoadLoginResult, Steps, LoginSteps, RefreshSteps
  <2> QED BY <2>1, <2>2
<1>3. CASE LockUser(h)
  <2>1. CASE password = seen[h]
    BY <1>0, <1>3, <2>1, MoveKeeps DEF LockUser, UpdateLocked, Steps, LoginSteps,
       RefreshSteps
  <2>2. CASE password # seen[h]
    BY <1>3, <2>2, ReturnKeeps DEF LockUser, Refusal, Answers, Refusals
  <2> QED BY <2>1, <2>2
<1>4. CASE InsertLogin(h)
  <2>1. /\ seen[h] = password
        /\ \A g \in Handlers : pc[g] # "revoke_all"
    BY <1>4 DEF InsertLogin, UserLockHeld, ShareLocked
  <2>2. CASE login[op[h].request] = None
    BY <1>0, <1>4, <2>1, <2>2, MoveKeeps DEF InsertLogin, Steps, LoginSteps,
       RefreshSteps
  <2>3. CASE login[op[h].request] # None
    BY <1>0, <1>4, <2>3, MoveKeeps DEF InsertLogin, Steps, LoginSteps, RefreshSteps
  <2> QED BY <2>2, <2>3
<1>5. CASE ReloadLoginResult(h)
  <2>1. Granted(login[op[h].request]) \in Answers /\ Refusal("conflict") \in Answers
    BY <1>0, <1>5 DEF ReloadLoginResult, LoginSteps, Granted, Refusal, Refusals, Answers
  <2> QED BY <1>5, <2>1, ReturnKeeps DEF ReloadLoginResult
<1>6. CASE CommitLogin(h)
  BY <1>6, CommitLoginKeeps
<1> QED BY <1>1, <1>2, <1>3, <1>4, <1>5, <1>6 DEF Login

\* The steps of a refresh.
LEMMA RefreshKeeps ==
    ASSUME IInv, NEW h \in Handlers, Refresh(h)
    PROVE  IInv'
<1> USE DEF IInv
<1>0. /\ pc[h] \in RefreshSteps =>
             /\ op[h].kind = "refresh"
             /\ op[h].token \in Ids /\ op[h].key \in RefreshKeys
             /\ token[op[h].token].status # "none"
      /\ op \in [Handlers -> Operations \cup {NoOperation}]
      /\ seen \in [Handlers -> Ids \cup {None}]
      /\ token \in [Ids -> Token]
  BY DEF StepsMatchRequests, TypeOK
<1>1. CASE ReceiveRefresh(h)
  <2>1. PICK t \in Ids, k \in RefreshKeys :
            /\ token[t].status # "none"
            /\ Receive(h, [kind |-> "refresh", token |-> t, key |-> k], "consume")
            /\ UNCHANGED seen
    BY <1>1 DEF ReceiveRefresh
  <2>2. [kind |-> "refresh", token |-> t, key |-> k] \in Operations
    BY DEF Operations
  <2>3. op' \in [Handlers -> Operations \cup {NoOperation}]
        /\ op'[h] = [kind |-> "refresh", token |-> t, key |-> k]
        /\ \A g \in Handlers : g # h => op'[g] = op[g]
    BY <1>0, <2>1, <2>2 DEF Receive
  <2> QED BY <1>0, <2>1, <2>3, MoveKeeps DEF Receive, Steps, LoginSteps
<1>2. CASE ConsumeToken(h)
  <2> DEFINE t == token[op[h].token]
  <2>1. CASE t.status = "live" /\ Alive(t.session)
    <3>1. /\ Goto(h, "rotate") /\ pc[h] = "consume"
          /\ \A g \in Handlers : pc[g] = "rotate" => op[g].token # op[h].token
          /\ UNCHANGED <<database, op, seen, answer>>
      BY <1>2, <2>1 DEF ConsumeToken
    <3>2. /\ op' = op /\ seen' = seen /\ UNCHANGED <<database, answer>>
          /\ "rotate" \in Steps /\ "rotate" \notin LoginSteps
          /\ "rotate" \notin {"insert", "commit", "revoke_all"}
          /\ pc[h] \in RefreshSteps /\ pc[h] # "done"
      BY <3>1 DEF Steps, LoginSteps, RefreshSteps
    <3> QED BY <1>0, <2>1, <3>1, <3>2, MoveKeeps
  <2>2. CASE ~(t.status = "live" /\ Alive(t.session))
    <3>1. Goto(h, "inspect") /\ pc[h] = "consume"
          /\ UNCHANGED <<database, op, seen, answer>>
      BY <1>2, <2>2 DEF ConsumeToken
    <3> QED BY <1>0, <3>1, MoveKeeps DEF Steps, LoginSteps, RefreshSteps
  <2> QED BY <2>1, <2>2
<1>3. CASE RotateToken(h)
  BY <1>3, RotateTokenKeeps
<1>4. CASE InspectToken(h)
  <2> DEFINE t == token[op[h].token]
  <2>1. pc[h] = "inspect" /\ UNCHANGED <<database, op, seen>>
    BY <1>4 DEF InspectToken
  <2>2. CASE Return(h, Refusal("unauthorized"))
    BY <2>1, <2>2, ReturnKeeps DEF Refusal, Answers, Refusals
  <2>3. CASE ReturnOrLose(h, Granted(t.child))
    <3>1. Granted(t.child) \in Answers /\ Refusal("lost") \in Answers
      BY <1>0, <2>1 DEF RefreshSteps, Granted, Refusal, Refusals, Answers, Token
    <3> QED BY <2>1, <2>3, <3>1, ReturnKeeps DEF ReturnOrLose
  <2>4. CASE Goto(h, "revoke_session") /\ UNCHANGED answer
    BY <1>0, <2>1, <2>4, MoveKeeps DEF Steps, LoginSteps, RefreshSteps
  <2> QED BY <1>4, <2>2, <2>3, <2>4 DEF InspectToken
<1>5. CASE RevokeReplayed(h)
  <2>1. {token[op[h].token].session} \in SUBSET Ids
    BY <1>0, <1>5 DEF RevokeReplayed, RefreshSteps, TokensHaveSessions
  <2>2. Refusal("unauthorized") \in Answers
    BY DEF Refusal, Refusals, Answers
  <2> QED BY <1>5, <2>1, <2>2, RevokeKeeps DEF RevokeReplayed
<1> QED BY <1>1, <1>2, <1>3, <1>4, <1>5 DEF Refresh

\* The steps of a password change, a logout and a revocation.
LEMMA RevokingKeeps ==
    ASSUME IInv, NEW h \in Handlers, Revoke(h)
    PROVE  IInv'
<1> USE DEF IInv
<1>0. /\ op \in [Handlers -> Operations \cup {NoOperation}]
      /\ seen \in [Handlers -> Ids \cup {None}]
      /\ password \in Ids
      /\ Granted(None) \in Answers /\ Refusal("lost") \in Answers
      /\ Refusal("unauthorized") \in Answers /\ Refusal("conflict") \in Answers
  BY DEF TypeOK, Granted, Refusal, Refusals, Answers
<1>1. ASSUME NEW o \in Operations, NEW l \in {"read", "revoke"}, Receive(h, o, l),
             UNCHANGED seen
      PROVE  IInv'
  <2>1. op' \in [Handlers -> Operations \cup {NoOperation}]
        /\ \A g \in Handlers : g # h => op'[g] = op[g]
    BY <1>0, <1>1 DEF Receive
  <2> QED BY <1>0, <1>1, <2>1, MoveKeeps DEF Receive, Steps, LoginSteps, RefreshSteps
<1>2. CASE ReceiveChangePassword(h)
  <2>1. PICK s \in Ids :
            /\ Receive(h, [kind |-> "change_password", session |-> s], "read")
            /\ UNCHANGED seen
    BY <1>2 DEF ReceiveChangePassword
  <2>2. [kind |-> "change_password", session |-> s] \in Operations
    BY DEF Operations
  <2> QED BY <1>1, <2>1, <2>2
<1>3. CASE ReceiveRevoke(h)
  <2>1. PICK targets \in SUBSET Ids :
            /\ Receive(h, [kind |-> "revoke", targets |-> targets], "revoke")
            /\ UNCHANGED seen
    BY <1>3 DEF ReceiveRevoke
  <2>2. [kind |-> "revoke", targets |-> targets] \in Operations
    BY DEF Operations
  <2> QED BY <1>1, <2>1, <2>2
<1>4. CASE ReadPassword(h)
  <2>1. CASE Return(h, Refusal("unauthorized")) /\ UNCHANGED seen
    BY <1>0, <1>4, <2>1, ReturnKeeps DEF ReadPassword
  <2>2. CASE /\ Goto(h, "change")
             /\ seen' = [seen EXCEPT ![h] = password]
             /\ UNCHANGED answer
    BY <1>0, <1>4, <2>2, MoveKeeps DEF ReadPassword, Steps, LoginSteps, RefreshSteps
  <2> QED BY <1>4, <2>1, <2>2 DEF ReadPassword
<1>5. CASE UpdatePassword(h)
  <2>1. CASE password = seen[h]
    BY <1>0, <1>5, <2>1, MoveKeeps DEF UpdatePassword, ShareLocked, UpdateLocked,
       Steps, LoginSteps, RefreshSteps
  <2>2. CASE password # seen[h]
    BY <1>0, <1>5, <2>2, ReturnKeeps DEF UpdatePassword
  <2> QED BY <2>1, <2>2
<1>6. CASE RevokeAllAndCommit(h)
  <2>1. Ids \in SUBSET Ids
    OBVIOUS
  <2> QED BY <1>0, <1>6, <2>1, RevokeKeeps DEF RevokeAllAndCommit, ReturnOrLose
<1>7. CASE RevokeSessions(h)
  <2>1. session' = Revoked(op[h].targets \cap Ids, "revoked")
    BY <1>7 DEF RevokeSessions, Revoked
  <2>2. op[h].targets \cap Ids \in SUBSET Ids
    OBVIOUS
  <2> QED BY <1>0, <1>7, <2>1, <2>2, RevokeKeeps DEF RevokeSessions, ReturnOrLose
<1> QED BY <1>2, <1>3, <1>4, <1>5, <1>6, <1>7 DEF Revoke

\* Every step of a handler, and every expiry, preserves the invariant.
LEMMA NextIInv == IInv /\ [Next]_vars => IInv'
<1> SUFFICES ASSUME IInv, [Next]_vars PROVE IInv'
  OBVIOUS
<1>1. ASSUME NEW h \in Handlers, Fail(h) PROVE IInv'
  <2>1. Refusal("unavailable") \in Answers
    BY DEF Refusal, Refusals, Answers
  <2> QED BY <1>1, <2>1, ReturnKeeps DEF Fail
<1>2. CASE ExpireIdle \/ ExpireSession \/ ExpireResult
  <2>1. /\ UNCHANGED <<password, session, token, login, overtaken, pc, op, seen,
                       answer>>
        /\ idle' \subseteq Ids /\ expired' \subseteq Ids
        /\ stale' \subseteq Requests \cup Ids
    BY <1>2 DEF ExpireIdle, ExpireSession, ExpireResult, IInv, TypeOK
  <2> QED BY <2>1 DEF IInv, TypeOK, StepsMatchRequests, RowsNotYetInserted,
         TokensHaveSessions, UserLockHeld, ShareLocked, TokenLockHeld, OneLiveToken,
         SessionsMatchPassword
<1>3. CASE UNCHANGED vars
  BY <1>3 DEF vars, database, IInv, TypeOK, StepsMatchRequests, RowsNotYetInserted,
     TokensHaveSessions, UserLockHeld, ShareLocked, TokenLockHeld, OneLiveToken,
     SessionsMatchPassword
<1> QED BY <1>1, <1>2, <1>3, LoginKeeps, RefreshKeeps, RevokingKeeps DEF Next

\* The locks and the shape of requests, tokens and sessions, with the safety
\* properties that rest on them, hold in every reachable state.
THEOREM AuthInvariant == Spec => []IInv
  BY InitIInv, NextIInv, PTL DEF Spec

\* Type correctness: a consumed token always has what a retry of its refresh
\* needs.
THEOREM AuthTypes == Spec => []TypeOK
  BY AuthInvariant, PTL DEF IInv

\* However refreshes race, a session always has exactly one unconsumed
\* refresh token.
THEOREM AuthOneLiveToken == Spec => []OneLiveToken
  BY AuthInvariant, PTL DEF IInv

\* However logins race with password changes, no live session was opened with
\* an older password.
THEOREM AuthSessionsMatchPassword == Spec => []SessionsMatchPassword
  BY AuthInvariant, PTL DEF IInv
-----------------------------------------------------------------------------
(* Idempotent answers                                                      *)

\* A handler that returns what the result of its request says, or nothing.
LEMMA ReturnFromResults ==
  ASSUME IInv, ResultsInv, NEW h \in Handlers, NEW a,
         a.code = "ok" /\ op[h].kind = "login" =>
             /\ op[h].request \in Requests /\ login[op[h].request] # None
             /\ a.token = login[op[h].request],
         a.code = "ok" /\ op[h].kind = "refresh" =>
             /\ op[h].token \in Ids /\ token[op[h].token].status = "consumed"
             /\ a.token = token[op[h].token].child,
         Return(h, a), UNCHANGED <<token, login, op>>
  PROVE  ResultsInv'
<1>1. /\ answer'[h] = a /\ \A g \in Handlers : g # h => answer'[g] = answer[g]
      /\ pc'[h] = "done" /\ \A g \in Handlers : g # h => pc'[g] = pc[g]
  BY DEF IInv, TypeOK, Return, Goto
<1>2. AnswersInTurn' /\ RequestLockHeld'
  BY <1>1 DEF ResultsInv, AnswersInTurn, RequestLockHeld
<1>3. AnswersFromResults'
  BY <1>1 DEF ResultsInv, AnswersFromResults
<1> QED BY <1>2, <1>3 DEF ResultsInv

\* A handler that goes on, but not to the commit of a login.
LEMMA MoveFromResults ==
  ASSUME IInv, ResultsInv, NEW h \in Handlers, NEW label,
         label \notin {"commit", "done"}, pc[h] # "done",
         label \in {"read", "change", "revoke_all", "revoke"} =>
             op[h].kind \notin {"login", "refresh"},
         Goto(h, label), UNCHANGED <<token, login, op, answer>>
  PROVE  ResultsInv'
  BY DEF IInv, TypeOK, ResultsInv, AnswersInTurn, RequestLockHeld, AnswersFromResults, Goto

\* A request arrives.
LEMMA ReceiveFromResults ==
  ASSUME IInv, ResultsInv, NEW h \in Handlers, NEW o, NEW label,
         label \notin {"commit", "done"},
         label \in {"read", "change", "revoke_all", "revoke"} =>
             o.kind \notin {"login", "refresh"},
         Receive(h, o, label)
  PROVE  ResultsInv'
<1>1. /\ pc[h] = "idle" /\ pc'[h] = label /\ op'[h] = o
      /\ \A g \in Handlers : g # h => pc'[g] = pc[g] /\ op'[g] = op[g]
      /\ UNCHANGED <<token, login, answer>>
  BY DEF IInv, TypeOK, Receive, Goto, database
<1>2. answer[h].code # "ok"
  BY <1>1 DEF ResultsInv, AnswersInTurn
<1> QED
  BY <1>1, <1>2 DEF ResultsInv, AnswersInTurn, RequestLockHeld, AnswersFromResults

\* login: the request id is locked between InsertLogin and COMMIT.
LEMMA LoginFromResults ==
  ASSUME IInv, ResultsInv, NEW h \in Handlers, Login(h) PROVE ResultsInv'
<1>0. \A code \in Refusals : Refusal(code).code # "ok"
  BY DEF Refusal, Refusals
<1>1. CASE ReceiveLogin(h)
  <2>1. PICK r \in Requests : Receive(h, [kind |-> "login", request |-> r], "lookup")
    BY <1>1 DEF ReceiveLogin
  <2> QED BY <2>1, ReceiveFromResults
<1>2. ASSUME LoadLoginResult(h) \/ ReloadLoginResult(h) PROVE ResultsInv'
  <2>1. /\ pc[h] \in {"lookup", "reload"} /\ op[h].kind = "login" /\ op[h].request \in Requests
        /\ UNCHANGED <<token, login, op>>
    BY <1>2 DEF LoadLoginResult, ReloadLoginResult, IInv, StepsMatchRequests, LoginSteps, database
  <2>2. CASE Recoverable(op[h].request) /\ Return(h, Granted(login[op[h].request]))
    <3>1. Granted(login[op[h].request]).token = login[op[h].request]
      BY DEF Granted
    <3> QED BY <2>1, <2>2, <3>1, ReturnFromResults DEF Recoverable
  <2>3. CASE Goto(h, "lock") /\ UNCHANGED answer
    BY <2>1, <2>3, MoveFromResults
  <2>4. CASE Return(h, Refusal("conflict"))
    BY <1>0, <2>1, <2>4, ReturnFromResults DEF Refusals
  <2> QED BY <1>2, <2>2, <2>3, <2>4 DEF LoadLoginResult, ReloadLoginResult
<1>3. CASE LockUser(h)
  <2>1. pc[h] = "lock" /\ UNCHANGED <<token, login, op>>
    BY <1>3 DEF LockUser, database
  <2>2. CASE Goto(h, "insert") /\ UNCHANGED answer
    BY <2>1, <2>2, MoveFromResults
  <2>3. CASE Return(h, Refusal("unauthorized"))
    BY <1>0, <2>1, <2>3, ReturnFromResults DEF Refusals
  <2> QED BY <1>3, <2>2, <2>3 DEF LockUser
<1>4. CASE InsertLogin(h)
  <2>1. /\ pc[h] = "insert" /\ UNCHANGED <<token, login, op, answer>>
        /\ \A g \in Handlers : pc[g] = "commit" => op[g].request # op[h].request
    BY <1>4 DEF InsertLogin, database
  <2>2. CASE login[op[h].request] # None
    BY <1>4, <2>1, <2>2, MoveFromResults DEF InsertLogin
  <2>3. CASE login[op[h].request] = None
    <3>1. pc'[h] = "commit" /\ \A g \in Handlers : g # h => pc'[g] = pc[g]
      BY <1>4, <2>3 DEF InsertLogin, Goto, IInv, TypeOK
    <3> QED BY <2>1, <2>3, <3>1
            DEF ResultsInv, AnswersInTurn, RequestLockHeld, AnswersFromResults
  <2> QED BY <2>2, <2>3
<1>5. CASE CommitLogin(h)
  <2> DEFINE r == op[h].request
  <2>1. PICK a \in {Granted(h), Refusal("lost")} : Return(h, a)
    BY <1>5 DEF CommitLogin, ReturnOrLose
  <2>2. a.code = "ok" => a.token = h
    BY DEF Granted, Refusal
  <2>3. /\ pc[h] = "commit" /\ r \in Requests /\ h \in Ids /\ h # None
        /\ op[h].kind = "login" /\ login[r] = None
    BY <1>5, AuthAssumption DEF CommitLogin, IInv, StepsMatchRequests, LoginSteps, Ids,
       ResultsInv, RequestLockHeld
  <2>4. /\ login'[r] = h /\ \A x \in Requests : x # r => login'[x] = login[x]
        /\ \A t \in Ids : t # h => token'[t] = token[t]
        /\ op' = op /\ token[h].status = "none"
    BY <1>5, <2>3 DEF CommitLogin, IInv, TypeOK, RowsNotYetInserted
  <2>5. /\ answer'[h] = a /\ \A g \in Handlers : g # h => answer'[g] = answer[g]
        /\ pc'[h] = "done" /\ \A g \in Handlers : g # h => pc'[g] = pc[g]
    BY <2>1 DEF IInv, TypeOK, Return, Goto
  <2>6. AnswersInTurn'
    BY <2>4, <2>5 DEF ResultsInv, AnswersInTurn
  <2>7. RequestLockHeld'
    <3> SUFFICES ASSUME NEW g \in Handlers, pc'[g] = "commit"
                 PROVE  /\ login'[op'[g].request] = None
                        /\ \A f \in Handlers :
                              pc'[f] = "commit" /\ op'[f].request = op'[g].request => f = g
      BY DEF RequestLockHeld
    <3>1. g # h /\ pc[g] = "commit"
      BY <2>5
    <3>2. op[g].request \in Requests /\ op[g].request # r
      BY <2>3, <3>1 DEF IInv, StepsMatchRequests, LoginSteps, ResultsInv, RequestLockHeld
    <3> QED BY <2>4, <2>5, <3>1, <3>2 DEF ResultsInv, RequestLockHeld
  <2>8. AnswersFromResults'
    <3> SUFFICES ASSUME NEW g \in Handlers, answer'[g].code = "ok"
                 PROVE  /\ op[g].kind = "login" =>
                             /\ op[g].request \in Requests
                             /\ login'[op[g].request] # None
                             /\ answer'[g].token = login'[op[g].request]
                        /\ op[g].kind = "refresh" =>
                             /\ op[g].token \in Ids
                             /\ token'[op[g].token].status = "consumed"
                             /\ answer'[g].token = token'[op[g].token].child
      BY <2>4 DEF AnswersFromResults
    <3>1. CASE g = h
      BY <2>2, <2>3, <2>4, <2>5, <3>1
    <3>2. CASE g # h
      BY <2>3, <2>4, <2>5, <3>2 DEF ResultsInv, AnswersFromResults
    <3> QED BY <3>1, <3>2
  <2> QED BY <2>6, <2>7, <2>8 DEF ResultsInv
<1> QED
  BY <1>1, <1>2, <1>3, <1>4, <1>5 DEF Login

\* refresh: a token is consumed once, with the result that retries get.
LEMMA RefreshFromResults ==
  ASSUME IInv, ResultsInv, NEW h \in Handlers, Refresh(h) PROVE ResultsInv'
<1>0. \A code \in Refusals : Refusal(code).code # "ok"
  BY DEF Refusal, Refusals
<1>1. CASE ReceiveRefresh(h)
  <2>1. PICK t \in Ids, k \in RefreshKeys :
            Receive(h, [kind |-> "refresh", token |-> t, key |-> k], "consume")
    BY <1>1 DEF ReceiveRefresh
  <2> QED BY <2>1, ReceiveFromResults
<1>2. CASE ConsumeToken(h)
  <2>1. PICK label \in {"rotate", "inspect"} : Goto(h, label)
    BY <1>2 DEF ConsumeToken
  <2> QED BY <1>2, <2>1, MoveFromResults DEF ConsumeToken, database
<1>3. CASE RotateToken(h)
  <2> DEFINE t == op[h].token
  <2>1. PICK a \in {Granted(h), Refusal("lost")} : Return(h, a)
    BY <1>3 DEF RotateToken, ReturnOrLose
  <2>2. a.code = "ok" => a.token = h
    BY DEF Granted, Refusal
  <2>3. /\ h \in Ids /\ t \in Ids /\ t # h /\ pc[h] = "rotate" /\ op[h].kind = "refresh"
        /\ token[t].status = "live" /\ token[h].status = "none"
    BY <1>3 DEF IInv, StepsMatchRequests, TokenLockHeld, RowsNotYetInserted, Ids,
       RefreshSteps, RotateToken
  <2>4. token'[t] = [token[t] EXCEPT !.status = "consumed", !.child = h, !.key = op[h].key]
    BY <1>3, <2>3 DEF IInv, TypeOK, RotateToken
  <2>5. token'[t].status = "consumed" /\ token'[t].child = h
    <3>1. token[t] \in Token
      BY <2>3 DEF IInv, TypeOK
    <3> QED BY <2>4, <3>1 DEF Token
  <2>6. \A u \in Ids : u # t /\ u # h => token'[u] = token[u]
    BY <1>3, <2>3 DEF IInv, TypeOK, RotateToken
  <2>7. /\ answer'[h] = a /\ \A g \in Handlers : g # h => answer'[g] = answer[g]
        /\ pc'[h] = "done" /\ \A g \in Handlers : g # h => pc'[g] = pc[g]
        /\ op' = op /\ login' = login
    BY <1>3, <2>1 DEF IInv, TypeOK, Return, Goto, RotateToken
  <2>8. AnswersInTurn' /\ RequestLockHeld'
    BY <2>7 DEF ResultsInv, AnswersInTurn, RequestLockHeld
  <2>9. AnswersFromResults'
    <3> SUFFICES ASSUME NEW g \in Handlers, answer'[g].code = "ok"
                 PROVE  /\ op[g].kind = "login" =>
                             /\ op[g].request \in Requests
                             /\ login[op[g].request] # None
                             /\ answer'[g].token = login[op[g].request]
                        /\ op[g].kind = "refresh" =>
                             /\ op[g].token \in Ids
                             /\ token'[op[g].token].status = "consumed"
                             /\ answer'[g].token = token'[op[g].token].child
      BY <2>7 DEF AnswersFromResults
    <3>1. CASE g = h
      BY <2>2, <2>3, <2>5, <2>7, <3>1
    <3>2. CASE g # h
      BY <2>3, <2>6, <2>7, <3>2 DEF ResultsInv, AnswersFromResults
    <3> QED BY <3>1, <3>2
  <2> QED BY <2>8, <2>9 DEF ResultsInv
<1>4. CASE InspectToken(h)
  <2> DEFINE t == token[op[h].token]
  <2>1. /\ pc[h] = "inspect" /\ op[h].token \in Ids /\ op[h].kind = "refresh"
        /\ UNCHANGED <<token, login, op>>
    BY <1>4 DEF InspectToken, IInv, StepsMatchRequests, RefreshSteps, database
  <2>2. CASE Return(h, Refusal("unauthorized"))
    BY <1>0, <2>1, <2>2, ReturnFromResults DEF Refusals
  <2>3. CASE t.status = "consumed" /\ ReturnOrLose(h, Granted(t.child))
    <3>1. PICK a \in {Granted(t.child), Refusal("lost")} : Return(h, a)
      BY <2>3 DEF ReturnOrLose
    <3>2. a.code = "ok" => a.token = t.child
      BY DEF Granted, Refusal
    <3> QED BY <2>1, <2>3, <3>1, <3>2, ReturnFromResults
  <2>4. CASE Goto(h, "revoke_session") /\ UNCHANGED answer
    BY <2>1, <2>4, MoveFromResults
  <2> QED BY <1>4, <2>2, <2>3, <2>4 DEF InspectToken
<1>5. CASE RevokeReplayed(h)
  BY <1>0, <1>5, ReturnFromResults DEF RevokeReplayed, Refusals
<1> QED
  BY <1>1, <1>2, <1>3, <1>4, <1>5 DEF Refresh

\* The other requests touch neither results nor tokens.
LEMMA RevokingFromResults ==
  ASSUME IInv, ResultsInv, NEW h \in Handlers, Revoke(h) \/ Fail(h) PROVE ResultsInv'
<1>0. \A code \in Refusals : Refusal(code).code # "ok"
  BY DEF Refusal, Refusals
<1>1. CASE ReceiveChangePassword(h)
  <2>1. PICK s \in Ids : Receive(h, [kind |-> "change_password", session |-> s], "read")
    BY <1>1 DEF ReceiveChangePassword
  <2> QED BY <2>1, ReceiveFromResults
<1>2. CASE ReceiveRevoke(h)
  <2>1. PICK targets : Receive(h, [kind |-> "revoke", targets |-> targets], "revoke")
    BY <1>2 DEF ReceiveRevoke
  <2> QED BY <2>1, ReceiveFromResults
<1>3. CASE ReadPassword(h)
  <2>1. /\ pc[h] = "read" /\ op[h].kind \notin {"login", "refresh"}
        /\ UNCHANGED <<token, login, op>>
    BY <1>3 DEF ReadPassword, ResultsInv, AnswersInTurn, database
  <2>2. CASE Goto(h, "change") /\ UNCHANGED answer
    BY <2>1, <2>2, MoveFromResults
  <2>3. CASE Return(h, Refusal("unauthorized"))
    BY <1>0, <2>1, <2>3, ReturnFromResults DEF Refusals
  <2> QED BY <1>3, <2>2, <2>3 DEF ReadPassword
<1>4. CASE UpdatePassword(h)
  <2>1. /\ pc[h] = "change" /\ op[h].kind \notin {"login", "refresh"}
        /\ UNCHANGED <<token, login, op>>
    BY <1>4 DEF UpdatePassword, ResultsInv, AnswersInTurn, database
  <2>2. CASE Goto(h, "revoke_all") /\ UNCHANGED answer
    BY <2>1, <2>2, MoveFromResults
  <2>3. CASE Return(h, Refusal("conflict"))
    BY <1>0, <2>1, <2>3, ReturnFromResults DEF Refusals
  <2> QED BY <1>4, <2>2, <2>3 DEF UpdatePassword
<1>5. CASE RevokeAllAndCommit(h) \/ RevokeSessions(h)
  <2>1. op[h].kind \notin {"login", "refresh"} /\ UNCHANGED <<token, login, op>>
    BY <1>5 DEF RevokeAllAndCommit, RevokeSessions, ResultsInv, AnswersInTurn
  <2>2. PICK a : Return(h, a)
    BY <1>5 DEF RevokeAllAndCommit, RevokeSessions, ReturnOrLose
  <2> QED BY <2>1, <2>2, ReturnFromResults
<1>6. CASE Fail(h)
  BY <1>0, <1>6, ReturnFromResults DEF Fail, database, Refusals
<1> QED
  BY <1>1, <1>2, <1>3, <1>4, <1>5, <1>6 DEF Revoke

\* Answers come from results, whatever runs concurrently.
LEMMA NextFromResults == IInv /\ ResultsInv /\ [Next]_vars => ResultsInv'
<1> SUFFICES ASSUME IInv, ResultsInv, [Next]_vars PROVE ResultsInv'
  OBVIOUS
<1>1. CASE UNCHANGED <<token, login, op, answer, pc>>
  BY <1>1 DEF ResultsInv, AnswersInTurn, RequestLockHeld, AnswersFromResults
<1> QED
  BY <1>1, LoginFromResults, RefreshFromResults, RevokingFromResults
  DEF Next, ExpireIdle, ExpireSession, ExpireResult, vars, database

\* Every answer that was given comes from a result.
THEOREM AuthResults == Spec => []ResultsInv
<1>1. Init => ResultsInv
  BY DEF Init, NoAnswer, ResultsInv, AnswersInTurn, RequestLockHeld, AnswersFromResults
<1> QED BY AuthInvariant, NextFromResults, <1>1, PTL DEF Spec

\* All answers to one login request, or to refreshes of one token, hand out the
\* same refresh token, for any number of concurrent retries.
THEOREM AuthIdempotentAnswers == Spec => []IdempotentAnswers
<1>1. ResultsInv => IdempotentAnswers
  BY DEF ResultsInv, AnswersFromResults, IdempotentAnswers
<1> QED BY <1>1, AuthResults, PTL
-----------------------------------------------------------------------------
(* Replays                                                                 *)

\* Revoked, or past the absolute lifetime.
Ended(s) == session[s].status \in {"revoked", "replayed"} \/ s \in expired

\* A rotation that had consumed the live token of session s commits after the
\* session has idled out, and overtakes every refusal so far.
Revival(s) ==
    /\ s \in idle
    /\ \E h \in Handlers :
          pc[h] = "rotate" /\ pc'[h] = "done" /\ token[op[h].token].session = s
    /\ \A t \in Ids : token[t].status = "live" /\ token[t].session = s =>
          token'[t].status = "consumed"
    /\ \A g \in Handlers : RefusedIn(s, g) => g \in overtaken'

\* What no step undoes: a token keeps its session, a consumed token its result,
\* an ended session never comes back, one that has idled out only by a rotation
\* that was under way, and a request stays what it was.
Persists ==
    /\ \A t \in Ids : token[t].status # "none" =>
          token'[t].status # "none" /\ token'[t].session = token[t].session
    /\ \A t \in Ids : token[t].status = "consumed" => token'[t] = token[t]
    /\ \A s \in Ids : Ended(s) => Ended(s)'
    /\ \A s \in Ids : session[s].status # "none" /\ ~Alive(s) /\ Alive(s)' => Revival(s)
    /\ \A s \in Ids : session[s].status # "none" => session'[s].status # "none"
    /\ stale \subseteq stale' /\ overtaken \subseteq overtaken'
    /\ \A g \in Handlers : pc[g] # "idle" => op'[g] = op[g]

\* Revoking kills sessions and revives none.
LEMMA RevokedDead ==
    ASSUME IInv, NEW targets, NEW status \in {"revoked", "replayed"},
           session' = Revoked(targets, status)
    PROVE  \A s \in Ids :
             /\ session[s].status # "live" => session'[s] = session[s]
             /\ session[s].status # "none" => session'[s].status # "none"
             /\ s \in targets => session'[s].status # "live"
             /\ s \notin targets => session'[s] = session[s]
             /\ session'[s].status = "replayed" =>
                  session[s].status = "replayed" \/ (status = "replayed" /\ s \in targets)
BY DEF IInv, TypeOK, Session, Revoked

\* A login writes rows that nobody else has.
LEMMA CommitLoginPersists ==
    ASSUME IInv, NEW h \in Handlers, CommitLogin(h)
    PROVE  /\ Persists
           /\ \A s \in Ids : session'[s].status = "replayed" => session[s].status = "replayed"
           /\ \A t \in Ids : token'[t].status = "consumed" => token[t].status = "consumed"
<1>1. /\ h \in Ids /\ session[h].status = "none" /\ token[h].status = "none"
      /\ UNCHANGED <<idle, expired, stale, overtaken, op>>
  BY DEF CommitLogin, IInv, RowsNotYetInserted, Ids
<1>2. /\ session'[h].status = "live" /\ token'[h].status = "live"
      /\ \A s \in Ids : s # h => session'[s] = session[s] /\ token'[s] = token[s]
  BY <1>1 DEF CommitLogin, IInv, TypeOK, LiveToken, NoToken
<1> QED BY <1>1, <1>2 DEF Persists, Ended, Alive

\* A rotation consumes one live token, with the rotating request's key.
LEMMA RotateTokenPersists ==
    ASSUME IInv, NEW h \in Handlers, RotateToken(h)
    PROVE  /\ Persists /\ UNCHANGED <<session, expired, stale, op>>
           /\ op[h].kind = "refresh"
           /\ \A t \in Ids : token'[t].status = "consumed" =>
                 token[t].status = "consumed" \/ (t = op[h].token /\ token'[t].key = op[h].key)
<1> DEFINE t == op[h].token
<1>1. /\ h \in Ids /\ t \in Ids /\ t # h /\ op[h].kind = "refresh"
      /\ token[t].status = "live" /\ token[h].status = "none"
      /\ UNCHANGED <<session, expired, stale, op>>
  BY DEF IInv, StepsMatchRequests, TokenLockHeld, RowsNotYetInserted, Ids, RefreshSteps,
         RotateToken
<1>2. token'[t] = [token[t] EXCEPT !.status = "consumed", !.child = h, !.key = op[h].key]
  BY <1>1 DEF IInv, TypeOK, RotateToken
<1>3. token[t] \in Token
  BY <1>1 DEF IInv, TypeOK
<1>4. /\ token'[t].status = "consumed" /\ token'[t].session = token[t].session
      /\ token'[t].key = op[h].key
  BY <1>2, <1>3 DEF Token
<1>5. token'[h].status = "live"
  BY <1>1 DEF IInv, TypeOK, RotateToken, LiveToken, NoToken
<1>6. \A u \in Ids : u # t /\ u # h => token'[u] = token[u]
  BY <1>1 DEF IInv, TypeOK, RotateToken
<1>7. /\ pc[h] = "rotate" /\ pc'[h] = "done" /\ ExtendIdle(token[t].session)
  BY <1>1 DEF RotateToken, ReturnOrLose, Return, Goto, IInv, TypeOK
<1>8. ASSUME NEW s \in Ids, session[s].status # "none", ~Alive(s), Alive(s)'
      PROVE  Revival(s)
  <2>1. s = token[t].session /\ s \in idle
    BY <1>1, <1>7, <1>8 DEF Alive, ExtendIdle
  <2>2. \A u \in Ids : token[u].status = "live" /\ token[u].session = s => u = t
    BY <1>1, <1>8, <2>1 DEF IInv, OneLiveToken
  <2>3. \A g \in Handlers : RefusedIn(s, g) => g \in overtaken'
    BY <1>7, <2>1 DEF ExtendIdle
  <2> QED BY <1>4, <1>7, <2>1, <2>2, <2>3 DEF Revival
<1>9. overtaken \subseteq overtaken'
  BY <1>7 DEF ExtendIdle
<1>10. Persists
  BY <1>1, <1>4, <1>5, <1>6, <1>8, <1>9 DEF Persists, Ended
<1> QED BY <1>1, <1>4, <1>5, <1>6, <1>10

\* A step of one handler keeps the account of replays if the handler's own part
\* of it holds afterwards.
LEMMA ReplayStep ==
    ASSUME IInv, ReplayInv, Persists, NEW h \in Handlers,
           \A g \in Handlers : g # h =>
               pc'[g] = pc[g] /\ op'[g] = op[g] /\ answer'[g] = answer[g],
           pc'[h] # "idle",
           pc'[h] # "done" => answer'[h].code # "unauthorized",
           \A t \in Ids : token'[t].status = "consumed" =>
               \/ token[t].status = "consumed"
               \/ /\ op'[h].kind = "refresh" /\ op'[h].token = t
                  /\ op'[h].key = token'[t].key,
           pc'[h] = "inspect" =>
               \/ token'[op'[h].token].status = "consumed"
               \/ ~Alive(token[op[h].token].session)',
           pc'[h] = "revoke_session" =>
               /\ token'[op'[h].token].status = "consumed"
               /\ token'[op'[h].token].key # op'[h].key \/ op'[h].token \in stale',
           op'[h].kind = "refresh" /\ answer'[h].code = "unauthorized" =>
               \/ /\ op[h].kind = "refresh" /\ answer[h].code = "unauthorized"
               \/ /\ op'[h].token \in Ids /\ token'[op'[h].token].status # "none"
                  /\ ~Alive(token[op[h].token].session)',
           \A s \in Ids : session'[s].status = "replayed" =>
               \/ session[s].status = "replayed"
               \/ \E t \in Ids : token'[t].session = s /\ Misused(t)'
    PROVE  ReplayInv'
<1>0. \A g \in Handlers : op[g].kind = "refresh" => op'[g] = op[g]
  BY DEF Persists, ReplayInv, RequestsInTurn
<1>1. RequestsInTurn'
  BY DEF ReplayInv, RequestsInTurn
<1>2. ConsumedByRefresh'
  <2> SUFFICES ASSUME NEW t \in Ids, token'[t].status = "consumed"
               PROVE  \E g \in Handlers : /\ op'[g].kind = "refresh" /\ op'[g].token = t
                                          /\ op'[g].key = token'[t].key
    BY DEF ConsumedByRefresh
  <2>1. CASE token[t].status = "consumed"
    <3>1. PICK g \in Handlers : /\ op[g].kind = "refresh" /\ op[g].token = t
                                /\ op[g].key = token[t].key
      BY <2>1 DEF ReplayInv, ConsumedByRefresh
    <3>2. token'[t] = token[t] /\ op'[g] = op[g]
      BY <1>0, <2>1, <3>1 DEF Persists
    <3> QED BY <3>1, <3>2
  <2>2. CASE token[t].status # "consumed"
    BY <2>2
  <2> QED BY <2>1, <2>2
<1>3. \A g \in Handlers : pc[g] \in {"inspect", "revoke_session"} =>
         /\ op[g].token \in Ids /\ token[op[g].token].status # "none"
         /\ token[op[g].token].session \in Ids
         /\ session[token[op[g].token].session].status # "none"
  BY DEF IInv, StepsMatchRequests, RefreshSteps, TokensHaveSessions
<1>4. InspectionsHold'
  <2> SUFFICES ASSUME NEW g \in Handlers, g # h, op'[g] = op[g],
                      pc[g] \in {"inspect", "revoke_session"}
               PROVE  /\ pc[g] = "inspect" =>
                           \/ token'[op[g].token].status = "consumed"
                           \/ ~Alive(token[op[g].token].session)'
                      /\ pc[g] = "revoke_session" =>
                           /\ token'[op[g].token].status = "consumed"
                           /\ \/ token'[op[g].token].key # op[g].key
                              \/ op[g].token \in stale'
    BY DEF InspectionsHold
  <2>1. CASE token[op[g].token].status = "consumed"
    BY <1>3, <2>1 DEF Persists, ReplayInv, InspectionsHold
  <2>2. CASE token[op[g].token].status # "consumed"
    <3>1. /\ token[op[g].token].status = "live" /\ pc[g] = "inspect"
          /\ ~Alive(token[op[g].token].session)
          /\ token'[op[g].token].session = token[op[g].token].session
      BY <1>3, <2>2 DEF Persists, ReplayInv, InspectionsHold, IInv, TypeOK, Token
    <3>2. CASE Alive(token[op[g].token].session)'
      BY <1>3, <3>1, <3>2 DEF Persists, Revival
    <3> QED BY <3>1, <3>2
  <2> QED BY <2>1, <2>2
<1>5. RefusalsFinal'
  <2> SUFFICES ASSUME NEW g \in Handlers, op[g].kind = "refresh",
                      answer[g].code = "unauthorized", op'[g] = op[g]
               PROVE  /\ op[g].token \in Ids /\ token'[op[g].token].status # "none"
                      /\ \/ ~Alive(token[op[g].token].session)'
                         \/ g \in overtaken'
    BY <1>0 DEF RefusalsFinal
  <2>1. /\ op[g].token \in Ids /\ token[op[g].token].status # "none"
        /\ ~Alive(token[op[g].token].session) \/ g \in overtaken
    BY DEF ReplayInv, RefusalsFinal
  <2>2. /\ token[op[g].token].session \in Ids
        /\ session[token[op[g].token].session].status # "none"
        /\ token'[op[g].token].status # "none"
        /\ token'[op[g].token].session = token[op[g].token].session
    BY <2>1 DEF IInv, TokensHaveSessions, Persists
  <2>3. CASE ~Alive(token[op[g].token].session) /\ Alive(token[op[g].token].session)'
    <3>1. Revival(token[op[g].token].session)
      BY <2>2, <2>3 DEF Persists
    <3>2. RefusedIn(token[op[g].token].session, g)
      BY DEF RefusedIn
    <3> QED BY <2>1, <2>2, <3>1, <3>2 DEF Revival
  <2>4. CASE g \in overtaken
    BY <2>1, <2>2, <2>4 DEF Persists
  <2> QED BY <2>1, <2>2, <2>3, <2>4
<1>6. ReplaysCaused'
  <2> SUFFICES ASSUME NEW s \in Ids, session[s].status = "replayed"
               PROVE  \E t \in Ids : token'[t].session = s /\ Misused(t)'
    BY DEF ReplaysCaused
  <2>1. PICK t \in Ids : token[t].session = s /\ Misused(t)
    BY DEF ReplayInv, ReplaysCaused
  <2>2. token'[t].status # "none" /\ token'[t].session = s
    BY <2>1 DEF Persists, Misused
  <2>3. Misused(t)'
    BY <1>0, <2>1, <2>2 DEF Persists, Misused
  <2> QED BY <2>2, <2>3
<1> QED BY <1>1, <1>2, <1>4, <1>5, <1>6 DEF ReplayInv

\* A step that changes no session, token or result, and refuses no refresh.
LEMMA QuietReplay ==
    ASSUME IInv, ReplayInv, NEW h \in Handlers, UNCHANGED database,
           pc[h] # "idle" => op'[h] = op[h],
           \A g \in Handlers : g # h =>
               pc'[g] = pc[g] /\ op'[g] = op[g] /\ answer'[g] = answer[g],
           pc'[h] \notin {"idle", "inspect", "revoke_session"},
           pc'[h] # "done" => answer'[h].code # "unauthorized",
           op'[h].kind = "refresh" => answer'[h].code # "unauthorized"
    PROVE  ReplayInv' /\ Persists
<1>1. Persists
  BY DEF Persists, Ended, database, Alive
<1>2. /\ \A t \in Ids : token'[t] = token[t]
      /\ \A s \in Ids : session'[s] = session[s]
  BY DEF database
<1> QED BY <1>1, <1>2, ReplayStep

\* What a step of one handler leaves alone.
LEMMA OnlyOne ==
    ASSUME IInv, NEW h \in Handlers, Login(h) \/ Refresh(h) \/ Revoke(h) \/ Fail(h)
    PROVE  /\ \A g \in Handlers : g # h =>
                pc'[g] = pc[g] /\ op'[g] = op[g] /\ answer'[g] = answer[g]
           /\ pc[h] # "idle" => op' = op
<1>0. /\ pc \in [Handlers -> Labels] /\ answer \in [Handlers -> Answers]
      /\ op \in [Handlers -> Operations \cup {NoOperation}]
  BY DEF IInv, TypeOK
<1>1. ASSUME NEW label, Goto(h, label)
      PROVE  \A g \in Handlers : g # h => pc'[g] = pc[g]
  BY <1>0, <1>1 DEF Goto
<1>2. ASSUME NEW a, Return(h, a)
      PROVE  \A g \in Handlers : g # h => pc'[g] = pc[g] /\ answer'[g] = answer[g]
  BY <1>0, <1>2 DEF Goto, Return
<1>3. ASSUME NEW o, NEW label, Receive(h, o, label)
      PROVE  /\ pc[h] = "idle"
             /\ \A g \in Handlers : g # h =>
                  pc'[g] = pc[g] /\ op'[g] = op[g] /\ answer'[g] = answer[g]
  BY <1>0, <1>3 DEF Goto, Receive
<1>4. CASE Login(h)
  BY <1>1, <1>2, <1>3, <1>4
  DEF Login, ReceiveLogin, LoadLoginResult, LockUser, InsertLogin, ReloadLoginResult,
      CommitLogin, ReturnOrLose
<1>5. CASE Refresh(h)
  BY <1>1, <1>2, <1>3, <1>5
  DEF Refresh, ReceiveRefresh, ConsumeToken, RotateToken, InspectToken, RevokeReplayed,
      ReturnOrLose
<1>6. CASE Revoke(h)
  BY <1>1, <1>2, <1>3, <1>6
  DEF Revoke, ReceiveChangePassword, ReadPassword, UpdatePassword, RevokeAllAndCommit,
      ReceiveRevoke, RevokeSessions, ReturnOrLose
<1>7. CASE Fail(h)
  BY <1>2, <1>7 DEF Fail
<1> QED BY <1>4, <1>5, <1>6, <1>7

\* A request arrives.
LEMMA ReceiveReplay ==
    ASSUME IInv, ReplayInv, NEW h \in Handlers, NEW o, NEW label,
           label \in {"lookup", "consume", "read", "revoke"},
           Login(h) \/ Refresh(h) \/ Revoke(h), Receive(h, o, label)
    PROVE  ReplayInv' /\ Persists
<1>1. pc[h] = "idle" /\ pc'[h] = label /\ UNCHANGED <<database, answer>>
  BY DEF Receive, Goto, IInv, TypeOK
<1>2. answer'[h].code # "unauthorized"
  BY <1>1 DEF ReplayInv, RequestsInTurn
<1> QED BY <1>1, <1>2, OnlyOne, QuietReplay

\* A handler goes on.
LEMMA MoveReplay ==
    ASSUME IInv, ReplayInv, NEW h \in Handlers, NEW label,
           label \notin {"idle", "inspect", "revoke_session", "done"},
           Login(h) \/ Refresh(h) \/ Revoke(h) \/ Fail(h),
           pc[h] \notin {"idle", "done"},
           Goto(h, label), UNCHANGED <<database, answer>>
    PROVE  ReplayInv' /\ Persists
<1>1. pc'[h] = label /\ op' = op
  BY OnlyOne DEF Goto, IInv, TypeOK
<1>2. answer'[h].code # "unauthorized"
  BY DEF ReplayInv, RequestsInTurn
<1> QED BY <1>1, <1>2, OnlyOne, QuietReplay

\* A handler returns without having written anything.
LEMMA ReturnReplay ==
    ASSUME IInv, ReplayInv, NEW h \in Handlers, NEW a,
           Login(h) \/ Refresh(h) \/ Revoke(h) \/ Fail(h),
           pc[h] # "idle", Return(h, a), UNCHANGED database,
           op[h].kind = "refresh" => a.code # "unauthorized"
    PROVE  ReplayInv' /\ Persists
<1>1. pc'[h] = "done" /\ op' = op /\ answer'[h] = a
  BY OnlyOne DEF Return, Goto, IInv, TypeOK
<1> QED BY <1>1, OnlyOne, QuietReplay

\* A login revokes nothing and consumes nothing.
LEMMA LoginReplay ==
    ASSUME IInv, ReplayInv, NEW h \in Handlers, Login(h)
    PROVE  ReplayInv' /\ Persists
<1>0. pc[h] \in LoginSteps => op[h].kind = "login"
  BY DEF IInv, StepsMatchRequests
<1>1. CASE ReceiveLogin(h)
  BY <1>1, ReceiveReplay DEF ReceiveLogin
<1>2. CASE LoadLoginResult(h) \/ ReloadLoginResult(h)
  <2>1. pc[h] \in {"lookup", "reload"} /\ UNCHANGED database
    BY <1>2 DEF LoadLoginResult, ReloadLoginResult
  <2>2. ASSUME NEW a, Return(h, a) PROVE ReplayInv' /\ Persists
    BY <1>0, <2>1, <2>2, ReturnReplay DEF LoginSteps
  <2>3. CASE Goto(h, "lock") /\ UNCHANGED answer
    BY <2>1, <2>3, MoveReplay
  <2> QED BY <1>2, <2>2, <2>3 DEF LoadLoginResult, ReloadLoginResult
<1>3. CASE LockUser(h)
  <2>1. pc[h] = "lock" /\ UNCHANGED database
    BY <1>3 DEF LockUser
  <2>2. ASSUME NEW a, Return(h, a) PROVE ReplayInv' /\ Persists
    BY <1>0, <2>1, <2>2, ReturnReplay DEF LoginSteps
  <2>3. CASE Goto(h, "insert") /\ UNCHANGED answer
    BY <2>1, <2>3, MoveReplay
  <2> QED BY <1>3, <2>2, <2>3 DEF LockUser
<1>4. CASE InsertLogin(h)
  <2>1. PICK label \in {"commit", "reload"} : Goto(h, label)
    BY <1>4 DEF InsertLogin
  <2> QED BY <1>4, <2>1, MoveReplay DEF InsertLogin
<1>5. CASE CommitLogin(h)
  <2>1. pc'[h] = "done" /\ op'[h].kind = "login"
    BY <1>0, <1>5 DEF CommitLogin, ReturnOrLose, Return, Goto, IInv, TypeOK, LoginSteps
  <2> QED BY <1>5, <2>1, CommitLoginPersists, OnlyOne, ReplayStep
<1> QED BY <1>1, <1>2, <1>3, <1>4, <1>5 DEF Login

\* A refresh rotates, answers from the result, or ends the session.
LEMMA RefreshReplay ==
    ASSUME IInv, ReplayInv, NEW h \in Handlers, Refresh(h)
    PROVE  ReplayInv' /\ Persists
<1> DEFINE i == op[h].token
<1>0. /\ pc[h] \in RefreshSteps =>
           /\ i \in Ids /\ token[i].status # "none" /\ op[h].kind = "refresh"
           /\ token[i].session \in Ids
           /\ session[token[i].session].status # "none"
      /\ token \in [Ids -> Token]
  BY DEF IInv, StepsMatchRequests, TokensHaveSessions, TypeOK
<1>1. CASE ReceiveRefresh(h)
  BY <1>1, ReceiveReplay DEF ReceiveRefresh
<1>2. CASE ConsumeToken(h)
  <2>1. /\ pc[h] = "consume" /\ UNCHANGED <<database, op, answer>>
        /\ i \in Ids /\ token[i].status # "none"
    BY <1>0, <1>2 DEF ConsumeToken, RefreshSteps
  <2>2. CASE Goto(h, "rotate")
    BY <2>1, <2>2, MoveReplay
  <2>3. CASE Goto(h, "inspect") /\ ~(token[i].status = "live" /\ Alive(token[i].session))
    <3>1. pc'[h] = "inspect" /\ answer'[h].code # "unauthorized"
      BY <2>1, <2>3 DEF Goto, IInv, TypeOK, ReplayInv, RequestsInTurn
    <3>2. Persists
      BY <2>1 DEF Persists, Ended, database, Alive
    <3>3. token[i].status = "consumed" \/ ~Alive(token[i].session)
      BY <1>0, <2>1, <2>3 DEF Token
    <3>4. /\ token'[op'[h].token].status = "consumed"
             \/ ~Alive(token[op[h].token].session)'
      BY <2>1, <3>3 DEF database, Alive
    <3> QED BY <2>1, <3>1, <3>2, <3>4, OnlyOne, ReplayStep DEF database
  <2> QED BY <1>2, <2>2, <2>3 DEF ConsumeToken
<1>3. CASE RotateToken(h)
  <2>1. PICK a \in {Granted(h), Refusal("lost")} : Return(h, a)
    BY <1>3 DEF RotateToken, ReturnOrLose
  <2>2. pc'[h] = "done" /\ answer'[h].code # "unauthorized"
    BY <2>1 DEF Return, Goto, IInv, TypeOK, Granted, Refusal
  <2>3. \A t \in Ids : token'[t].status = "consumed" =>
           \/ token[t].status = "consumed"
           \/ /\ op'[h].kind = "refresh" /\ op'[h].token = t
              /\ op'[h].key = token'[t].key
    BY <1>3, RotateTokenPersists
  <2> QED BY <1>3, <2>2, <2>3, RotateTokenPersists, OnlyOne, ReplayStep
<1>4. CASE InspectToken(h)
  <2>1. /\ pc[h] = "inspect" /\ UNCHANGED <<database, op>> /\ i \in Ids
        /\ op[h].kind = "refresh" /\ token[i].status # "none"
    BY <1>0, <1>4 DEF InspectToken, RefreshSteps
  <2>2. Persists
    BY <2>1 DEF Persists, Ended, database, Alive
  <2>3. CASE /\ ~(token[i].status = "consumed" /\ Alive(token[i].session))
             /\ Return(h, Refusal("unauthorized"))
    <3>1. ~Alive(token[i].session)
      BY <2>1, <2>3 DEF ReplayInv, InspectionsHold
    <3>2. ~Alive(token[op[h].token].session)'
      BY <2>1, <3>1 DEF database, Alive
    <3>3. pc'[h] = "done"
      BY <2>3 DEF Return, Goto, IInv, TypeOK
    <3> QED BY <2>1, <2>2, <3>2, <3>3, OnlyOne, ReplayStep DEF database
  <2>4. CASE ReturnOrLose(h, Granted(token[i].child))
    <3>1. PICK a \in {Granted(token[i].child), Refusal("lost")} : Return(h, a)
      BY <2>4 DEF ReturnOrLose
    <3>2. a.code # "unauthorized"
      BY DEF Granted, Refusal
    <3> QED BY <2>1, <3>1, <3>2, ReturnReplay
  <2>5. CASE /\ token[i].status = "consumed"
             /\ ~(token[i].key = op[h].key /\ i \notin stale)
             /\ Goto(h, "revoke_session") /\ UNCHANGED answer
    <3>1. pc'[h] = "revoke_session" /\ answer'[h].code # "unauthorized"
      BY <2>1, <2>5 DEF Goto, IInv, TypeOK, ReplayInv, RequestsInTurn
    <3> QED BY <2>1, <2>2, <2>5, <3>1, OnlyOne, ReplayStep DEF database
  <2> QED BY <1>4, <2>3, <2>4, <2>5 DEF InspectToken
<1>5. CASE RevokeReplayed(h)
  <2> DEFINE s == token[i].session
  <2>1. /\ pc[h] = "revoke_session" /\ session' = Revoked({s}, "replayed")
        /\ UNCHANGED <<idle, expired, token, stale, overtaken, op>>
        /\ i \in Ids /\ s \in Ids
        /\ op[h].kind = "refresh" /\ token[i].status # "none"
    BY <1>0, <1>5 DEF RevokeReplayed, RefreshSteps
  <2>2. \A x \in Ids :
           /\ session[x].status # "live" => session'[x] = session[x]
           /\ session[x].status # "none" => session'[x].status # "none"
           /\ x = s => session'[x].status # "live"
           /\ session'[x].status = "replayed" => session[x].status = "replayed" \/ x = s
    BY <2>1, RevokedDead
  <2>3. /\ pc'[h] = "done" /\ answer'[h].code = "unauthorized"
    BY <1>5 DEF RevokeReplayed, Return, Goto, IInv, TypeOK, Refusal
  <2>4. Persists
    <3>1. \A x \in Ids : ~Alive(x) => ~Alive(x)'
      BY <2>1, <2>2, RevokedDead DEF Alive
    <3> QED BY <2>1, <2>2, <3>1 DEF Persists, Ended
  <2>5. ~Alive(token[op[h].token].session)'
    BY <2>1, <2>2 DEF Alive
  <2>6. Misused(i)'
    <3>1. /\ token[i].status = "consumed"
          /\ token[i].key # op[h].key \/ i \in stale
      BY <2>1 DEF ReplayInv, InspectionsHold
    <3>2. PICK g \in Handlers : /\ op[g].kind = "refresh" /\ op[g].token = i
                                /\ op[g].key = token[i].key
      BY <2>1, <3>1 DEF ReplayInv, ConsumedByRefresh
    <3> QED BY <2>1, <3>1, <3>2 DEF Misused
  <2>7. \A x \in Ids : session'[x].status = "replayed" =>
           \/ session[x].status = "replayed"
           \/ \E t \in Ids : token'[t].session = x /\ Misused(t)'
    BY <2>1, <2>2, <2>6
  <2> QED BY <2>1, <2>3, <2>4, <2>5, <2>7, OnlyOne, ReplayStep
<1> QED BY <1>1, <1>2, <1>3, <1>4, <1>5 DEF Refresh

\* The other requests revoke, but for no replay.
LEMMA RevokingReplay ==
    ASSUME IInv, ReplayInv, ResultsInv, NEW h \in Handlers, Revoke(h) \/ Fail(h)
    PROVE  ReplayInv' /\ Persists
<1>1. CASE ReceiveChangePassword(h) \/ ReceiveRevoke(h)
  BY <1>1, ReceiveReplay DEF ReceiveChangePassword, ReceiveRevoke, Revoke
<1>2. CASE ReadPassword(h) \/ UpdatePassword(h)
  <2>1. /\ pc[h] \in {"read", "change"} /\ op[h].kind # "refresh" /\ UNCHANGED database
    BY <1>2 DEF ReadPassword, UpdatePassword, ResultsInv, AnswersInTurn
  <2>2. ASSUME NEW a, Return(h, a) PROVE ReplayInv' /\ Persists
    BY <2>1, <2>2, ReturnReplay
  <2>3. ASSUME NEW label \in {"change", "revoke_all"}, Goto(h, label), UNCHANGED answer
        PROVE  ReplayInv' /\ Persists
    BY <2>1, <2>3, MoveReplay
  <2> QED BY <1>2, <2>2, <2>3 DEF ReadPassword, UpdatePassword
<1>3. CASE RevokeAllAndCommit(h) \/ RevokeSessions(h)
  <2>1. /\ pc[h] \in {"revoke_all", "revoke"} /\ op[h].kind # "refresh"
        /\ UNCHANGED <<idle, expired, token, stale, overtaken, op>>
    BY <1>3 DEF RevokeAllAndCommit, RevokeSessions, ResultsInv, AnswersInTurn
  <2>2. PICK targets : session' = Revoked(targets, "revoked")
    BY <1>3 DEF RevokeAllAndCommit, RevokeSessions
  <2>3. \A x \in Ids :
           /\ session[x].status # "live" => session'[x] = session[x]
           /\ session[x].status # "none" => session'[x].status # "none"
           /\ session'[x].status = "replayed" => session[x].status = "replayed"
    BY <2>2, RevokedDead
  <2>4. \A x \in Ids : ~Alive(x) => ~Alive(x)'
    BY <2>1, <2>2, <2>3, RevokedDead DEF Alive
  <2>5. Persists
    BY <2>1, <2>3, <2>4 DEF Persists, Ended
  <2>6. pc'[h] = "done"
    BY <1>3 DEF RevokeAllAndCommit, RevokeSessions, ReturnOrLose, Return, Goto, IInv, TypeOK
  <2> QED BY <2>1, <2>3, <2>5, <2>6, OnlyOne, ReplayStep
<1>4. CASE Fail(h)
  <2>1. Refusal("unavailable").code # "unauthorized"
    BY DEF Refusal
  <2> QED BY <1>4, <2>1, ReturnReplay DEF Fail, Steps
<1> QED BY <1>1, <1>2, <1>3, <1>4 DEF Revoke

\* Time only makes sessions die and results stale.
LEMMA ExpiryReplay ==
    ASSUME IInv, ReplayInv,
           \/ ExpireIdle \/ ExpireSession \/ ExpireResult \/ UNCHANGED vars
    PROVE  ReplayInv' /\ Persists
<1>1. /\ UNCHANGED <<session, token, overtaken, pc, op, answer>>
      /\ idle \subseteq idle' /\ expired \subseteq expired' /\ stale \subseteq stale'
  BY DEF ExpireIdle, ExpireSession, ExpireResult, vars, database
<1>2. \A s \in Ids : ~Alive(s) => ~Alive(s)'
  BY <1>1 DEF Alive
<1>3. Persists
  BY <1>1, <1>2 DEF Persists, Ended
<1>4. RequestsInTurn' /\ ConsumedByRefresh'
  BY <1>1 DEF ReplayInv, RequestsInTurn, ConsumedByRefresh
<1>5. InspectionsHold'
  BY <1>1 DEF ReplayInv, InspectionsHold, Alive
<1>6. RefusalsFinal'
  BY <1>1 DEF ReplayInv, RefusalsFinal, Alive
<1>7. ReplaysCaused'
  BY <1>1 DEF ReplayInv, ReplaysCaused, Misused
<1> QED BY <1>3, <1>4, <1>5, <1>6, <1>7 DEF ReplayInv

\* Every step keeps the account of replays, and undoes nothing.
LEMMA NextReplay ==
    IInv /\ ResultsInv /\ ReplayInv /\ [Next]_vars => ReplayInv' /\ Persists
BY LoginReplay, RefreshReplay, RevokingReplay, ExpiryReplay DEF Next

\* The account of replays holds throughout.
THEOREM AuthReplays == Spec => []ReplayInv
<1>1. Init => ReplayInv
  <2> SUFFICES ASSUME Init PROVE ReplayInv
    OBVIOUS
  <2>1. RequestsInTurn /\ InspectionsHold /\ RefusalsFinal
    BY DEF Init, NoOperation, NoAnswer, RequestsInTurn, InspectionsHold, RefusalsFinal
  <2>2. \A i \in Ids : token[i].status # "consumed" /\ session[i].status # "replayed"
    BY DEF Init, LiveToken, NoToken, NoSession
  <2> QED BY <2>1, <2>2 DEF ReplayInv, ConsumedByRefresh, ReplaysCaused
<1> QED BY <1>1, NextReplay, AuthInvariant, AuthResults, PTL DEF Spec

\* A session is revoked for a replay only when one of its tokens was misused.
THEOREM AuthReplayForCause == Spec => []ReplayForCause
<1>1. ReplayInv => ReplayForCause
  BY DEF ReplayInv, ReplaysCaused, Misused, ReplayForCause
<1> QED BY <1>1, AuthReplays, PTL

\* When a refresh of a consumed token is refused its session is dead, whoever
\* holds the successor, until a rotation that was under way overtakes it.
THEOREM AuthReplayEndsSession == Spec => []ReplayEndsSession
<1>1. ReplayInv => ReplayEndsSession
  BY DEF ReplayInv, RefusalsFinal, ReplayEndsSession
<1> QED BY <1>1, AuthReplays, PTL

\* No step brings back a session that was revoked or is past its absolute
\* lifetime; one that has idled out comes back only when a rotation commits
\* that had consumed its live token before (rotateRefreshToken's UPDATE of
\* idle_expires_at), and then that token is gone.  No step moves a token to
\* another session or changes the result a consumed token keeps for its retries.
THEOREM AuthPersists == Spec => [][Persists]_vars
<1>1. IInv /\ ResultsInv /\ ReplayInv /\ [Next]_vars => [Persists]_vars
  BY NextReplay
<1> QED BY <1>1, AuthInvariant, AuthResults, AuthReplays, PTL DEF Spec
-----------------------------------------------------------------------------
(* Results and answers name tokens that exist                              *)

\* A handler that returns, handing out only a token that exists.
LEMMA ReturnKnown ==
  ASSUME TypeOK, KnownResults, AnswersInTurn, NEW h \in Handlers, NEW a \in Answers,
         a.code = "ok" /\ op[h].kind \in {"login", "refresh"} => Known(a.token),
         Return(h, a), UNCHANGED <<token, login, op>>
  PROVE  (KnownResults /\ AnswersInTurn)'
  BY DEF TypeOK, Answers, KnownResults, AnswersInTurn, Known, Return, Goto

\* A handler that goes on with its request.
LEMMA MoveKnown ==
  ASSUME TypeOK, KnownResults, AnswersInTurn, NEW h \in Handlers, NEW label,
         label \in Labels \ {"done"}, pc[h] # "done",
         label \in {"read", "change", "revoke_all", "revoke"} =>
             op[h].kind \notin {"login", "refresh"},
         Goto(h, label), UNCHANGED <<token, login, op, answer>>
  PROVE  (KnownResults /\ AnswersInTurn)'
  BY DEF TypeOK, Answers, KnownResults, AnswersInTurn, Known, Goto

\* A request arrives.
LEMMA ReceiveKnown ==
  ASSUME TypeOK, KnownResults, AnswersInTurn, NEW h \in Handlers, NEW o, NEW label,
         label \in Labels \ {"done"},
         label \in {"read", "change", "revoke_all", "revoke"} =>
             o.kind \notin {"login", "refresh"},
         Receive(h, o, label)
  PROVE  (KnownResults /\ AnswersInTurn)'
  BY DEF TypeOK, Answers, KnownResults, AnswersInTurn, Known, Receive, Goto, database

\* A rotation consumes one token and inserts its successor.
LEMMA RotateRows ==
  ASSUME IInv, NEW h \in Handlers, RotateToken(h)
  PROVE  /\ h \in Ids /\ op[h].token \in Ids /\ op[h].token # h
         /\ token'[h].status = "live"
         /\ token'[op[h].token].status = "consumed" /\ token'[op[h].token].child = h
         /\ \A u \in Ids : u # op[h].token /\ u # h => token'[u] = token[u]
<1> DEFINE t == op[h].token
<1>1. h \in Ids /\ t \in Ids /\ t # h /\ pc[h] = "rotate"
  BY DEF IInv, StepsMatchRequests, TokenLockHeld, RowsNotYetInserted, Ids, RefreshSteps,
     RotateToken
<1>2. token'[h] = LiveToken(token[t].session)
  BY <1>1 DEF IInv, TypeOK, RotateToken
<1>3. token'[t] = [token[t] EXCEPT !.status = "consumed", !.child = h, !.key = op[h].key]
  BY <1>1 DEF IInv, TypeOK, RotateToken
<1>4. token[t] \in Token
  BY <1>1 DEF IInv, TypeOK
<1>5. \A u \in Ids : u # t /\ u # h => token'[u] = token[u]
  BY <1>1 DEF IInv, TypeOK, RotateToken
<1> QED
  BY <1>1, <1>2, <1>3, <1>4, <1>5 DEF LiveToken, NoToken, Token

\* No step removes a token.
LEMMA TokensStay ==
  ASSUME IInv, [Next]_vars PROVE \A t \in Ids : Known(t) => Known(t)'
<1>1. CASE UNCHANGED token
  BY <1>1 DEF Known
<1>2. ASSUME NEW h \in Handlers, CommitLogin(h) PROVE \A t \in Ids : Known(t) => Known(t)'
  BY <1>2 DEF CommitLogin, IInv, TypeOK, Known, LiveToken, NoToken, Ids
<1>3. ASSUME NEW h \in Handlers, RotateToken(h) PROVE \A t \in Ids : Known(t) => Known(t)'
  BY <1>3, RotateRows DEF Known
<1>4. \/ UNCHANGED token \/ \E h \in Handlers : CommitLogin(h) \/ RotateToken(h)
  BY DEF Next, vars, database, Login, Refresh, Revoke, ReceiveLogin, ReceiveRefresh,
     ReceiveChangePassword, ReceiveRevoke, Receive, LoadLoginResult, LockUser, InsertLogin,
     ReloadLoginResult, ConsumeToken, InspectToken, RevokeReplayed, ReadPassword,
     UpdatePassword, RevokeAllAndCommit, RevokeSessions, Fail,
     ExpireIdle, ExpireSession, ExpireResult
<1> QED
  BY <1>1, <1>2, <1>3, <1>4

\* login hands out what a result row names, or the token it inserts.
LEMMA LoginKnown ==
  ASSUME IInv, KnownResults, AnswersInTurn, NEW h \in Handlers, Login(h)
  PROVE  (KnownResults /\ AnswersInTurn)'
<1>0. TypeOK
  BY DEF IInv
<1>1. CASE ReceiveLogin(h)
  <2>1. PICK r \in Requests : Receive(h, [kind |-> "login", request |-> r], "lookup")
    BY <1>1 DEF ReceiveLogin
  <2> QED BY <1>0, <2>1, ReceiveKnown DEF Labels, Steps
<1>2. CASE LoadLoginResult(h)
  <2>1. pc[h] = "lookup" /\ op[h].request \in Requests
    BY <1>2 DEF LoadLoginResult, IInv, StepsMatchRequests, LoginSteps
  <2>2. CASE Recoverable(op[h].request)
    <3>1. Known(login[op[h].request])
      BY <2>1, <2>2 DEF Recoverable, KnownResults
    <3>2. Granted(login[op[h].request]) \in Answers
      BY <3>1 DEF Granted, Answers, Known
    <3> QED BY <1>0, <1>2, <2>2, <3>1, <3>2, ReturnKnown DEF LoadLoginResult, Granted, database
  <2>3. CASE ~Recoverable(op[h].request)
    BY <1>0, <1>2, <2>1, <2>3, MoveKnown DEF LoadLoginResult, database, Labels, Steps
  <2> QED BY <2>2, <2>3
<1>3. CASE LockUser(h)
  <2>1. Refusal("unauthorized") \in Answers /\ Refusal("unauthorized").code # "ok"
    BY DEF Refusal, Refusals, Answers
  <2>2. CASE password = seen[h]
    BY <1>0, <1>3, <2>2, MoveKnown DEF LockUser, database, Labels, Steps
  <2>3. CASE password # seen[h]
    BY <1>0, <1>3, <2>1, <2>3, ReturnKnown DEF LockUser, database
  <2> QED BY <2>2, <2>3
<1>4. CASE InsertLogin(h)
  <2>1. PICK label \in {"commit", "reload"} : Goto(h, label)
    BY <1>4 DEF InsertLogin
  <2>2. label \in Labels \ {"done"} /\ label \notin {"read", "change", "revoke_all", "revoke"}
    BY DEF Labels, Steps
  <2> QED BY <1>0, <1>4, <2>1, <2>2, MoveKnown DEF InsertLogin, database
<1>5. CASE ReloadLoginResult(h)
  <2>1. pc[h] = "reload" /\ op[h].request \in Requests
    BY <1>5 DEF ReloadLoginResult, IInv, StepsMatchRequests, LoginSteps
  <2>2. CASE Recoverable(op[h].request)
    <3>1. Known(login[op[h].request])
      BY <2>1, <2>2 DEF Recoverable, KnownResults
    <3>2. Granted(login[op[h].request]) \in Answers
      BY <3>1 DEF Granted, Answers, Known
    <3> QED BY <1>0, <1>5, <2>2, <3>1, <3>2, ReturnKnown
        DEF ReloadLoginResult, Granted, database
  <2>3. CASE ~Recoverable(op[h].request)
    <3>1. Refusal("conflict") \in Answers /\ Refusal("conflict").code # "ok"
      BY DEF Refusal, Refusals, Answers
    <3> QED BY <1>0, <1>5, <2>3, <3>1, ReturnKnown DEF ReloadLoginResult, database
  <2> QED BY <2>2, <2>3
<1>6. CASE CommitLogin(h)
  <2>1. PICK a \in {Granted(h), Refusal("lost")} : Return(h, a)
    BY <1>6 DEF CommitLogin, ReturnOrLose
  <2>2. a.code = "ok" => a.token = h
    BY DEF Granted, Refusal
  <2>3. h \in Ids /\ op[h].request \in Requests
    BY <1>6 DEF CommitLogin, IInv, StepsMatchRequests, LoginSteps, Ids
  <2>4. token'[h].status = "live" /\ \A t \in Ids : t # h => token'[t] = token[t]
    BY <1>6, <2>3 DEF CommitLogin, IInv, TypeOK, LiveToken, NoToken
  <2>5. \A t : Known(t) => Known(t)'
    BY <2>4 DEF Known
  <2>6. Known(h)'
    BY <2>3, <2>4 DEF Known
  <2>7. (\A r \in Requests : login[r] # None => Known(login[r]))'
    BY <1>6, <2>3, <2>5, <2>6 DEF CommitLogin, KnownResults, IInv, TypeOK
  <2>8. (\A t \in Ids : token[t].status = "consumed" => Known(token[t].child))'
    BY <2>4, <2>5 DEF KnownResults
  <2>9. /\ answer'[h] = a /\ \A g \in Handlers : g # h => answer'[g] = answer[g]
        /\ pc'[h] = "done" /\ \A g \in Handlers : g # h => pc'[g] = pc[g]
        /\ op' = op
    BY <1>6, <2>1 DEF CommitLogin, Return, Goto, IInv, TypeOK
  <2>10. (\A g \in Handlers : answer[g].code = "ok" /\ op[g].kind \in {"login", "refresh"}
            => Known(answer[g].token))'
    <3> SUFFICES ASSUME NEW g \in Handlers, answer'[g].code = "ok",
                        op'[g].kind \in {"login", "refresh"}
                 PROVE  Known(answer[g].token)'
      OBVIOUS
    <3>1. CASE g = h
      BY <3>1, <2>2, <2>6, <2>9 DEF Known
    <3>2. CASE g # h
      BY <3>2, <2>5, <2>9 DEF KnownResults, Known
    <3> QED BY <3>1, <3>2
  <2>11. AnswersInTurn'
    BY <2>9 DEF AnswersInTurn
  <2> QED BY <2>7, <2>8, <2>10, <2>11 DEF KnownResults
<1> QED
  BY <1>1, <1>2, <1>3, <1>4, <1>5, <1>6 DEF Login

\* refresh hands out the token it inserts, or the one a result names.
LEMMA RefreshKnown ==
  ASSUME IInv, KnownResults, AnswersInTurn, NEW h \in Handlers, Refresh(h)
  PROVE  (KnownResults /\ AnswersInTurn)'
<1>0. TypeOK
  BY DEF IInv
<1>1. CASE ReceiveRefresh(h)
  <2>1. PICK t \in Ids, k \in RefreshKeys :
            Receive(h, [kind |-> "refresh", token |-> t, key |-> k], "consume")
    BY <1>1 DEF ReceiveRefresh
  <2> QED BY <1>0, <2>1, ReceiveKnown DEF Labels, Steps
<1>2. CASE ConsumeToken(h)
  <2>1. PICK label \in {"rotate", "inspect"} : Goto(h, label)
    BY <1>2 DEF ConsumeToken
  <2>2. label \in Labels \ {"done"} /\ label \notin {"read", "change", "revoke_all", "revoke"}
    BY DEF Labels, Steps
  <2> QED BY <1>0, <1>2, <2>1, <2>2, MoveKnown DEF ConsumeToken, database
<1>3. CASE RotateToken(h)
  <2>1. PICK a \in {Granted(h), Refusal("lost")} : Return(h, a)
    BY <1>3 DEF RotateToken, ReturnOrLose
  <2>2. a.code = "ok" => a.token = h
    BY DEF Granted, Refusal
  <2>3. \A t : Known(t) => Known(t)'
    BY <1>3, RotateRows DEF Known
  <2>4. Known(h)'
    BY <1>3, RotateRows DEF Known
  <2>5. (\A r \in Requests : login[r] # None => Known(login[r]))'
    BY <1>3, <2>3 DEF RotateToken, KnownResults
  <2>6. (\A t \in Ids : token[t].status = "consumed" => Known(token[t].child))'
    BY <1>3, <2>3, <2>4, RotateRows DEF KnownResults
  <2>7. /\ answer'[h] = a /\ \A g \in Handlers : g # h => answer'[g] = answer[g]
        /\ pc'[h] = "done" /\ \A g \in Handlers : g # h => pc'[g] = pc[g]
        /\ op' = op
    BY <1>3, <2>1 DEF RotateToken, Return, Goto, IInv, TypeOK
  <2>8. (\A g \in Handlers : answer[g].code = "ok" /\ op[g].kind \in {"login", "refresh"}
            => Known(answer[g].token))'
    <3> SUFFICES ASSUME NEW g \in Handlers, answer'[g].code = "ok",
                        op'[g].kind \in {"login", "refresh"}
                 PROVE  Known(answer[g].token)'
      OBVIOUS
    <3>1. CASE g = h
      BY <3>1, <2>2, <2>4, <2>7 DEF Known
    <3>2. CASE g # h
      BY <3>2, <2>3, <2>7 DEF KnownResults, Known
    <3> QED BY <3>1, <3>2
  <2>9. AnswersInTurn'
    BY <2>7 DEF AnswersInTurn
  <2> QED BY <2>5, <2>6, <2>8, <2>9 DEF KnownResults
<1>4. CASE InspectToken(h)
  <2> DEFINE t == token[op[h].token]
  <2>1. pc[h] = "inspect" /\ op[h].token \in Ids
    BY <1>4 DEF InspectToken, IInv, StepsMatchRequests, RefreshSteps
  <2>2. CASE Return(h, Refusal("unauthorized"))
    <3>1. Refusal("unauthorized") \in Answers /\ Refusal("unauthorized").code # "ok"
      BY DEF Refusal, Refusals, Answers
    <3> QED BY <1>0, <1>4, <2>2, <3>1, ReturnKnown DEF InspectToken, database
  <2>3. CASE t.status = "consumed" /\ ReturnOrLose(h, Granted(t.child))
    <3>1. PICK a \in {Granted(t.child), Refusal("lost")} : Return(h, a)
      BY <2>3 DEF ReturnOrLose
    <3>2. Known(t.child)
      BY <2>1, <2>3 DEF KnownResults
    <3>3. a \in Answers /\ (a.code = "ok" => Known(a.token))
      BY <3>2 DEF Granted, Refusal, Refusals, Answers, Known
    <3> QED BY <1>0, <1>4, <3>1, <3>3, ReturnKnown DEF InspectToken, database
  <2>4. CASE Goto(h, "revoke_session") /\ UNCHANGED answer
    BY <1>0, <1>4, <2>1, <2>4, MoveKnown DEF InspectToken, database, Labels, Steps
  <2> QED BY <1>4, <2>2, <2>3, <2>4 DEF InspectToken
<1>5. CASE RevokeReplayed(h)
  <2>1. Refusal("unauthorized") \in Answers /\ Refusal("unauthorized").code # "ok"
    BY DEF Refusal, Refusals, Answers
  <2> QED BY <1>0, <1>5, <2>1, ReturnKnown DEF RevokeReplayed
<1> QED
  BY <1>1, <1>2, <1>3, <1>4, <1>5 DEF Refresh

\* The other requests hand out nothing.
LEMMA RevokingKnown ==
  ASSUME IInv, KnownResults, AnswersInTurn, NEW h \in Handlers, Revoke(h) \/ Fail(h)
  PROVE  (KnownResults /\ AnswersInTurn)'
<1>0. TypeOK
  BY DEF IInv
<1>1. \A code \in Refusals : Refusal(code) \in Answers /\ Refusal(code).code # "ok"
  BY DEF Refusal, Refusals, Answers
<1>2. CASE ReceiveChangePassword(h)
  <2>1. PICK s \in Ids : Receive(h, [kind |-> "change_password", session |-> s], "read")
    BY <1>2 DEF ReceiveChangePassword
  <2> QED BY <1>0, <2>1, ReceiveKnown DEF Labels, Steps
<1>3. CASE ReceiveRevoke(h)
  <2>1. PICK targets : Receive(h, [kind |-> "revoke", targets |-> targets], "revoke")
    BY <1>3 DEF ReceiveRevoke
  <2> QED BY <1>0, <2>1, ReceiveKnown DEF Labels, Steps
<1>4. CASE ReadPassword(h)
  <2>1. pc[h] = "read" /\ op[h].kind \notin {"login", "refresh"}
    BY <1>4 DEF ReadPassword, AnswersInTurn
  <2>2. CASE Goto(h, "change") /\ UNCHANGED answer
    BY <1>0, <1>4, <2>1, <2>2, MoveKnown DEF ReadPassword, database, Labels, Steps
  <2>3. CASE Return(h, Refusal("unauthorized"))
    BY <1>0, <1>1, <1>4, <2>3, ReturnKnown DEF ReadPassword, database, Refusals
  <2> QED BY <1>4, <2>2, <2>3 DEF ReadPassword
<1>5. CASE UpdatePassword(h)
  <2>1. pc[h] = "change" /\ op[h].kind \notin {"login", "refresh"}
    BY <1>5 DEF UpdatePassword, AnswersInTurn
  <2>2. CASE Goto(h, "revoke_all") /\ UNCHANGED answer
    BY <1>0, <1>5, <2>1, <2>2, MoveKnown DEF UpdatePassword, database, Labels, Steps
  <2>3. CASE Return(h, Refusal("conflict"))
    BY <1>0, <1>1, <1>5, <2>3, ReturnKnown DEF UpdatePassword, database, Refusals
  <2> QED BY <1>5, <2>2, <2>3 DEF UpdatePassword
<1>6. CASE RevokeAllAndCommit(h) \/ RevokeSessions(h)
  <2>1. op[h].kind \notin {"login", "refresh"}
    BY <1>6 DEF RevokeAllAndCommit, RevokeSessions, AnswersInTurn
  <2>2. PICK a \in {Granted(None), Refusal("lost")} : Return(h, a)
    BY <1>6 DEF RevokeAllAndCommit, RevokeSessions, ReturnOrLose
  <2>3. a \in Answers
    BY DEF Granted, Refusal, Refusals, Answers
  <2> QED BY <1>0, <1>6, <2>1, <2>2, <2>3, ReturnKnown DEF RevokeAllAndCommit, RevokeSessions
<1>7. CASE Fail(h)
  BY <1>0, <1>1, <1>7, ReturnKnown DEF Fail, database, Refusals
<1> QED
  BY <1>2, <1>3, <1>4, <1>5, <1>6, <1>7 DEF Revoke

\* Results and answers of AuthSession name tokens that exist.
LEMMA NextKnown ==
  ASSUME IInv, KnownResults, AnswersInTurn, [Next]_vars
  PROVE  (KnownResults /\ AnswersInTurn)'
<1>1. CASE UNCHANGED <<token, login, op, answer, pc>>
  BY <1>1 DEF KnownResults, AnswersInTurn, Known
<1> QED
  BY <1>1, LoginKnown, RefreshKnown, RevokingKnown
  DEF Next, ExpireIdle, ExpireSession, ExpireResult, vars, database
-----------------------------------------------------------------------------
(* The client                                                              *)

\* What a refresh of the client sends names a token that exists.
LEMMA BeginKnown ==
  ASSUME KnownFile, NEW k \in RefreshKeys, BeginRefresh(k)
  PROVE  Known(pending'.token) /\ pending'.key \in RefreshKeys
  BY DEF KnownFile, BeginRefresh, Known

\* Every step of the client and its server is a step of the server, or none.
LEMMA ClientStepServed ==
  ASSUME ClientIInv, [ClientNext]_clientVars PROVE [Next]_vars
<1>1. ASSUME NEW h \in Handlers, ClientRefresh(h) PROVE Next
  <2>1. PICK k \in RefreshKeys :
            /\ BeginRefresh(k)
            /\ Receive(h, [kind |-> "refresh", token |-> pending'.token,
                           key |-> pending'.key], "consume")
            /\ UNCHANGED seen
    BY <1>1 DEF ClientRefresh
  <2>2. Known(pending'.token) /\ pending'.key \in RefreshKeys
    BY <2>1, BeginKnown DEF ClientIInv
  <2>3. ReceiveRefresh(h)
    BY <2>1, <2>2 DEF ReceiveRefresh, Known
  <2> QED BY <2>3 DEF Next, Refresh
<1>2. ASSUME NEW h \in Handlers, ClientLogin(h) PROVE Next
  BY <1>2 DEF ClientLogin, Next, Login
<1>3. ASSUME NEW h \in Handlers, RefreshAnswered(h) \/ PersistAuth(h) \/ GiveUp(h)
      PROVE  UNCHANGED vars
  BY <1>3 DEF RefreshAnswered, PersistAuth, GiveUp
<1>4. RefreshNotSent => UNCHANGED vars
  BY DEF RefreshNotSent
<1>5. UNCHANGED clientVars => UNCHANGED vars
  BY DEF clientVars
<1> QED
  BY <1>1, <1>2, <1>3, <1>4, <1>5 DEF ClientNext

\* The state file keeps naming tokens that exist.
LEMMA FileKnown ==
  ASSUME ClientIInv, [ClientNext]_clientVars PROVE KnownFile'
<1>1. \A t : Known(t) => Known(t)'
  <2>1. IInv /\ [Next]_vars
    BY ClientStepServed DEF ClientIInv
  <2> QED BY <2>1, TokensStay DEF Known
<1>2. ASSUME UNCHANGED file PROVE KnownFile'
  BY <1>1, <1>2 DEF file, ClientIInv, KnownFile, NoPending, Known
<1>3. ASSUME NEW k \in RefreshKeys, BeginRefresh(k), UNCHANGED held PROVE KnownFile'
  <2>1. Known(pending'.token) /\ pending'.key \in RefreshKeys
    BY <1>3, BeginKnown DEF ClientIInv
  <2> QED BY <1>1, <1>3, <2>1 DEF ClientIInv, KnownFile, Known
<1>4. ASSUME NEW h \in Handlers, answer[h].code = "ok",
             op[h].kind \in {"login", "refresh"},
             held' = answer[h].token, pending' = NoPending
      PROVE  KnownFile'
  BY <1>1, <1>4 DEF ClientIInv, KnownResults, KnownFile, Known, NoPending
<1>5. ASSUME NEW h \in Handlers, ClientRefresh(h) PROVE KnownFile'
  BY <1>3, <1>5 DEF ClientRefresh
<1>6. CASE RefreshNotSent
  BY <1>3, <1>6 DEF RefreshNotSent
<1>7. ASSUME NEW h \in Handlers, RefreshAnswered(h) PROVE KnownFile'
  BY <1>2, <1>4, <1>7 DEF RefreshAnswered, CommitRefresh
<1>8. ASSUME NEW h \in Handlers, PersistAuth(h) PROVE KnownFile'
  BY <1>4, <1>8 DEF PersistAuth
<1>9. ASSUME NEW h \in Handlers, ClientLogin(h) \/ GiveUp(h) PROVE KnownFile'
  BY <1>2, <1>9 DEF ClientLogin, GiveUp
<1>10. UNCHANGED client \/ UNCHANGED clientVars => UNCHANGED file
  BY DEF client, clientVars
<1> QED
  BY <1>2, <1>5, <1>6, <1>7, <1>8, <1>9, <1>10 DEF ClientNext

\* The invariant of the composition holds initially.
LEMMA ClientInitially == ClientInit => ClientIInv
<1> SUFFICES ASSUME ClientInit PROVE ClientIInv
  OBVIOUS
<1>1. IInv
  BY InitIInv DEF ClientInit
<1>2. /\ \A t \in Ids : token[t].status = IF t = Registered THEN "live" ELSE "none"
      /\ Registered \in Ids
  BY DEF ClientInit, Init, LiveToken, NoToken, Ids
<1>3. \A h \in Handlers : pc[h] = "idle" /\ answer[h].code = "none"
  BY DEF ClientInit, Init, NoAnswer
<1>4. KnownResults
  BY <1>2, <1>3 DEF ClientInit, Init, KnownResults
<1>5. AnswersInTurn
  BY <1>3 DEF AnswersInTurn
<1>6. KnownFile
  BY <1>2 DEF ClientInit, KnownFile, Known
<1> QED BY <1>1, <1>4, <1>5, <1>6 DEF ClientIInv

\* It is preserved by every step of client and server.
LEMMA ClientStep == ClientIInv /\ [ClientNext]_clientVars => ClientIInv'
<1> SUFFICES ASSUME ClientIInv, [ClientNext]_clientVars PROVE ClientIInv'
  OBVIOUS
<1>1. [Next]_vars
  BY ClientStepServed
<1>2. IInv' /\ KnownResults' /\ AnswersInTurn'
  BY <1>1, NextIInv, NextKnown DEF ClientIInv
<1>3. KnownFile'
  BY FileKnown
<1> QED BY <1>2, <1>3 DEF ClientIInv

\* The client's state file, every stored result and every answer name refresh
\* tokens that exist.
THEOREM ClientInvariant == ClientSpec => []ClientIInv
  BY ClientInitially, ClientStep, PTL DEF ClientSpec

\* Client and server together implement AuthSession: whatever the client does,
\* its server sees requests that AuthSession serves.
THEOREM ClientImplementsAuth == ClientSpec => Spec
<1>1. ClientIInv /\ [ClientNext]_clientVars => [Next]_vars
  BY ClientStepServed
<1> QED
  BY ClientInvariant, <1>1, PTL DEF ClientSpec, ClientInit, Spec

\* A session never forks when the client retries, restarts and refreshes
\* concurrently with others.
THEOREM ClientOneLiveToken == ClientSpec => []OneLiveToken
  BY ClientImplementsAuth, AuthOneLiveToken, PTL
-----------------------------------------------------------------------------
(* The client never locks itself out                                       *)

\* How a step of the server concerns those who wait for it: a request stays
\* what it was once it has arrived, and a refresh names a token that exists.
ServerMoves ==
    \A g \in Handlers :
        /\ pc[g] # "idle" => pc'[g] # "idle" /\ op'[g] = op[g]
        /\ op'[g] # op[g] /\ op'[g].kind = "refresh" => Known(op'[g].token)

\* A request arrives.
LEMMA ReceiveMoves ==
  ASSUME IInv, NEW h \in Handlers, NEW o, NEW label, label # "idle",
         Receive(h, o, label), o.kind = "refresh" => Known(o.token)
  PROVE  ServerMoves
<1>1. /\ pc'[h] = label /\ pc[h] = "idle" /\ op'[h] = o
      /\ \A g \in Handlers : g # h => pc'[g] = pc[g] /\ op'[g] = op[g]
  BY DEF IInv, TypeOK, Receive, Goto
<1> QED BY <1>1 DEF ServerMoves

\* A handler goes on, or returns.
LEMMA MoveMoves ==
  ASSUME IInv, NEW h \in Handlers, NEW label, label # "idle", Goto(h, label),
         UNCHANGED op
  PROVE  ServerMoves
<1>1. pc'[h] = label /\ \A g \in Handlers : g # h => pc'[g] = pc[g]
  BY DEF IInv, TypeOK, Goto
<1> QED BY <1>1 DEF ServerMoves

\* The steps of a login handler.
LEMMA LoginMoves ==
  ASSUME IInv, NEW h \in Handlers, Login(h) PROVE ServerMoves
<1>1. CASE ReceiveLogin(h)
  BY <1>1, ReceiveMoves DEF ReceiveLogin
<1>2. CASE \/ LoadLoginResult(h) \/ LockUser(h) \/ InsertLogin(h)
           \/ ReloadLoginResult(h) \/ CommitLogin(h)
  <2>1. PICK label \in {"lock", "insert", "commit", "reload", "done"} : Goto(h, label)
    BY <1>2 DEF LoadLoginResult, LockUser, InsertLogin, ReloadLoginResult, CommitLogin,
       ReturnOrLose, Return
  <2>2. UNCHANGED op
    BY <1>2 DEF LoadLoginResult, LockUser, InsertLogin, ReloadLoginResult, CommitLogin
  <2> QED BY <2>1, <2>2, MoveMoves
<1> QED BY <1>1, <1>2 DEF Login

\* The steps of a refresh handler.
LEMMA RefreshMoves ==
  ASSUME IInv, NEW h \in Handlers, Refresh(h) PROVE ServerMoves
<1>1. CASE ReceiveRefresh(h)
  <2>1. PICK t \in {i \in Ids : token[i].status # "none"}, k \in RefreshKeys :
            Receive(h, [kind |-> "refresh", token |-> t, key |-> k], "consume")
    BY <1>1 DEF ReceiveRefresh
  <2> QED BY <2>1, ReceiveMoves DEF Known
<1>2. CASE ConsumeToken(h) \/ RotateToken(h) \/ InspectToken(h) \/ RevokeReplayed(h)
  <2>1. PICK label \in {"rotate", "inspect", "revoke_session", "done"} : Goto(h, label)
    BY <1>2 DEF ConsumeToken, RotateToken, InspectToken, RevokeReplayed, ReturnOrLose, Return
  <2>2. UNCHANGED op
    BY <1>2 DEF ConsumeToken, RotateToken, InspectToken, RevokeReplayed
  <2> QED BY <2>1, <2>2, MoveMoves
<1> QED BY <1>1, <1>2 DEF Refresh

\* The steps of a password change and a revocation, and the failure of any handler.
LEMMA RevokingMoves ==
  ASSUME IInv, NEW h \in Handlers, Revoke(h) \/ Fail(h) PROVE ServerMoves
<1>1. CASE ReceiveChangePassword(h)
  BY <1>1, ReceiveMoves DEF ReceiveChangePassword
<1>2. CASE ReceiveRevoke(h)
  BY <1>2, ReceiveMoves DEF ReceiveRevoke
<1>3. CASE \/ ReadPassword(h) \/ UpdatePassword(h) \/ RevokeAllAndCommit(h)
           \/ RevokeSessions(h) \/ Fail(h)
  <2>1. PICK label \in {"change", "revoke_all", "done"} : Goto(h, label)
    BY <1>3 DEF ReadPassword, UpdatePassword, RevokeAllAndCommit, RevokeSessions, Fail,
       ReturnOrLose, Return
  <2>2. UNCHANGED op
    BY <1>3 DEF ReadPassword, UpdatePassword, RevokeAllAndCommit, RevokeSessions, Fail
  <2> QED BY <2>1, <2>2, MoveMoves
<1> QED BY <1>1, <1>2, <1>3 DEF Revoke

\* What the server may do to the handlers in one step.
LEMMA NextMoves ==
  ASSUME IInv, [Next]_vars PROVE ServerMoves
<1>1. CASE UNCHANGED <<pc, op>>
  BY <1>1 DEF ServerMoves
<1> QED BY <1>1, LoginMoves, RefreshMoves, RevokingMoves
        DEF Next, ExpireIdle, ExpireSession, ExpireResult, vars

\* Which steps write tokens and results of logins, and what they write.
LEMMA NextRows ==
  ASSUME IInv, ResultsInv, [Next]_vars
  PROVE  \/ UNCHANGED <<token, login>>
         \/ \E h \in Handlers :
              /\ token[h].status = "none" /\ token'[h].status = "live"
              /\ token'[h].session = h
              /\ \A u \in Ids : u # h => token'[u] = token[u]
              /\ op[h].request \in Requests /\ login[op[h].request] = None
              /\ login' = [login EXCEPT ![op[h].request] = h]
         \/ \E h \in Handlers : RotateToken(h)
<1>1. \/ UNCHANGED <<token, login>> \/ \E h \in Handlers : CommitLogin(h) \/ RotateToken(h)
  BY DEF Next, vars, database, Login, Refresh, Revoke, ReceiveLogin, ReceiveRefresh,
     ReceiveChangePassword, ReceiveRevoke, Receive, LoadLoginResult, LockUser, InsertLogin,
     ReloadLoginResult, ConsumeToken, InspectToken, RevokeReplayed, ReadPassword,
     UpdatePassword, RevokeAllAndCommit, RevokeSessions, Fail,
     ExpireIdle, ExpireSession, ExpireResult
<1>2. ASSUME NEW h \in Handlers, CommitLogin(h)
      PROVE  /\ token[h].status = "none" /\ token'[h].status = "live"
             /\ token'[h].session = h
             /\ \A u \in Ids : u # h => token'[u] = token[u]
             /\ op[h].request \in Requests /\ login[op[h].request] = None
             /\ login' = [login EXCEPT ![op[h].request] = h]
  BY <1>2 DEF CommitLogin, IInv, TypeOK, RowsNotYetInserted, StepsMatchRequests, LoginSteps,
     LiveToken, NoToken, Ids, ResultsInv, RequestLockHeld
<1> QED BY <1>1, <1>2

\* A rotation stays within a session and consumes a live token.
LEMMA RotateLinks ==
  ASSUME IInv, NEW h \in Handlers, RotateToken(h)
  PROVE  /\ token[h].status = "none" /\ token[op[h].token].status = "live"
         /\ token'[h].session = token[op[h].token].session
         /\ op[h].kind = "refresh" /\ UNCHANGED login
<1>1. h \in Ids /\ op[h].token \in Ids /\ op[h].token # h
  BY RotateRows
<1>2. /\ token[h].status = "none" /\ token[op[h].token].status = "live"
      /\ op[h].kind = "refresh" /\ UNCHANGED login
  BY DEF IInv, StepsMatchRequests, TokenLockHeld, RowsNotYetInserted, RefreshSteps, RotateToken
<1>3. token'[h] = LiveToken(token[op[h].token].session)
  BY <1>1 DEF IInv, TypeOK, RotateToken
<1> QED BY <1>2, <1>3 DEF LiveToken, NoToken

\* Tokens stay linked to their sessions and successors.
LEMMA NextLinked ==
  ASSUME IInv, ResultsInv, KnownResults, RowsLinked, Persists, ServerMoves, [Next]_vars
  PROVE  RowsLinked'
<1>1. \A t : Known(t) => Known(t)' /\ SessionOf(t)' = SessionOf(t)
  BY DEF Persists, Known, SessionOf
<1>2. (\A h \in Handlers : op[h].kind = "refresh" => Known(op[h].token))'
  <2> SUFFICES ASSUME NEW g \in Handlers, op'[g].kind = "refresh"
               PROVE  Known(op[g].token)'
    OBVIOUS
  <2>1. Known(op'[g].token)
    BY DEF ServerMoves, RowsLinked
  <2> QED BY <1>1, <2>1 DEF Known
<1>3. CASE UNCHANGED <<token, login>>
  BY <1>2, <1>3 DEF RowsLinked, SessionOf
<1>4. ASSUME NEW h \in Handlers, token[h].status = "none", token'[h].status = "live",
             token'[h].session = h, \A u \in Ids : u # h => token'[u] = token[u],
             op[h].request \in Requests,
             login' = [login EXCEPT ![op[h].request] = h]
      PROVE  RowsLinked'
  <2>1. \A r \in Requests : login'[r] = login[r] \/ login'[r] = h
    BY <1>4 DEF IInv, TypeOK
  <2>2. (\A r \in Requests : login[r] # None => SessionOf(login[r]) = login[r])'
    BY <1>1, <1>4, <2>1 DEF KnownResults, RowsLinked, SessionOf
  <2>3. (\A t \in Ids : token[t].status = "consumed" =>
             SessionOf(token[t].child) = SessionOf(t))'
    BY <1>1, <1>4 DEF KnownResults, RowsLinked, SessionOf
  <2> QED BY <1>2, <2>2, <2>3 DEF RowsLinked
<1>5. ASSUME NEW h \in Handlers, RotateToken(h) PROVE RowsLinked'
  <2>1. (\A r \in Requests : login[r] # None => SessionOf(login[r]) = login[r])'
    BY <1>1, <1>5, RotateLinks DEF KnownResults, RowsLinked, SessionOf
  <2>2. (\A t \in Ids : token[t].status = "consumed" =>
             SessionOf(token[t].child) = SessionOf(t))'
    <3> SUFFICES ASSUME NEW t \in Ids, token'[t].status = "consumed"
                 PROVE  token'[token'[t].child].session = token'[t].session
      BY DEF SessionOf
    <3>1. CASE t = op[h].token
      <4>1. Known(t)
        BY <1>5, <3>1, RotateLinks DEF Known
      <4> QED BY <1>1, <1>5, <3>1, <4>1, RotateRows, RotateLinks DEF SessionOf
    <3>2. CASE t # op[h].token
      <4>1. t # h /\ token'[t] = token[t]
        BY <1>5, <3>2, RotateRows
      <4> QED BY <1>1, <4>1 DEF KnownResults, RowsLinked, SessionOf
    <3> QED BY <3>1, <3>2
  <2> QED BY <1>2, <2>1, <2>2 DEF RowsLinked
<1> QED BY <1>3, <1>4, <1>5, NextRows

\* What the proof knows of client and server together.
ClientFacts == ClientIInv /\ ResultsInv /\ ReplayInv /\ RecoveryInv

\* What a step does to what the client knows: the sessions of its tokens, its
\* requests and the results of logins stay.
LEMMA ClientSees ==
  ASSUME ClientFacts, [Next]_vars
  PROVE  /\ \A t : Known(t) => /\ Known(t)' /\ SessionOf(t)' = SessionOf(t)
         /\ \A g \in sent : g \in Handlers /\ op'[g] = op[g] /\ pc'[g] # "idle"
         /\ \A g \in Handlers : op[g].kind = "refresh" => op'[g] = op[g] /\ Known(op[g].token)
         /\ Known(held)
         /\ \A r \in Requests : login[r] # None => login'[r] = login[r]
<1>1. Persists /\ ServerMoves
  BY NextReplay, NextMoves DEF ClientFacts, ClientIInv
<1>2. \A t : Known(t) => Known(t)' /\ token'[t].session = token[t].session
  BY <1>1 DEF Known, Persists
<1>3. \A g \in sent : g \in Handlers /\ op'[g] = op[g] /\ pc'[g] # "idle"
  BY <1>1 DEF ClientFacts, RecoveryInv, CallsSent, ServerMoves
<1>4. \A g \in Handlers : op[g].kind = "refresh" => op'[g] = op[g] /\ Known(op[g].token)
  BY <1>1 DEF ClientFacts, RecoveryInv, RowsLinked, ReplayInv, RequestsInTurn, ServerMoves
<1>5. \A r \in Requests : login[r] # None => login'[r] = login[r]
  <2>1. ASSUME NEW h \in Handlers, RotateToken(h) PROVE UNCHANGED login
    BY <2>1 DEF RotateToken
  <2> QED BY <2>1, NextRows DEF ClientFacts, ClientIInv, IInv, TypeOK
<1> QED BY <1>2, <1>3, <1>4, <1>5 DEF ClientFacts, ClientIInv, KnownFile, SessionOf

\* If nobody else refreshes the client's session after a step that leaves the
\* token it holds, nobody did before.
LEMMA OwnBefore ==
  ASSUME ClientFacts, [Next]_vars, UNCHANGED held, OwnRefreshes(SessionOf(held))',
         \A g \in sent' : g \in sent \/ pc[g] = "idle"
  PROVE  OwnRefreshes(SessionOf(held))
<1>1. SessionOf(held)' = SessionOf(held)
  BY ClientSees DEF SessionOf
<1> SUFFICES ASSUME NEW g \in Handlers, op[g].kind = "refresh",
                    token[op[g].token].session = SessionOf(held)
             PROVE  g \in sent
  BY DEF OwnRefreshes
<1>2. op'[g] = op[g] /\ token'[op[g].token].session = SessionOf(held)
  BY ClientSees DEF SessionOf
<1>3. g \in sent'
  BY <1>1, <1>2 DEF OwnRefreshes
<1>4. pc[g] # "idle"
  BY DEF ClientFacts, ReplayInv, RequestsInTurn
<1> QED BY <1>3, <1>4

\* A session of the client stays one.
LEMMA MineStays ==
  ASSUME ClientFacts, [Next]_vars, spent \subseteq spent', NEW s, Mine(s)
  PROVE  Mine(s)'
BY ClientSees DEF Mine, ClientFacts, RecoveryInv, SessionsSpent

\* The server works while the client waits.
LEMMA ServerKeepsCalls ==
  ASSUME ClientFacts, [Next]_vars, UNCHANGED client
  PROVE  CallsSent' /\ SessionsSpent' /\ LoginsInTurn'
<1>0. UNCHANGED <<held, pending, waiting, spent, sent>>
  BY DEF client, file
<1>1. CallsSent'
  BY <1>0, ClientSees DEF ClientFacts, RecoveryInv, CallsSent
<1>2. SessionsSpent'
  <2>1. Mine(SessionOf(held))'
    <3>1. Mine(SessionOf(held)) /\ SessionOf(held)' = SessionOf(held)
      BY <1>0, ClientSees DEF ClientFacts, RecoveryInv, SessionsSpent, SessionOf
    <3>2. PICK s : s = SessionOf(held)
      OBVIOUS
    <3>3. Mine(s)'
      BY <1>0, <3>1, <3>2, MineStays
    <3> QED BY <3>1, <3>2, <3>3 DEF Mine
  <2>2. ASSUME NEW g \in sent, op'[g].kind = "refresh"
        PROVE  Mine(SessionOf(op[g].token))'
    <3>1. /\ op'[g] = op[g] /\ token'[op[g].token].session = token[op[g].token].session
      BY <2>2, ClientSees DEF SessionOf
    <3>2. PICK s : s = SessionOf(op[g].token)
      OBVIOUS
    <3>3. Mine(s)
      BY <2>2, <3>1, <3>2 DEF ClientFacts, RecoveryInv, SessionsSpent
    <3>4. Mine(s)'
      BY <1>0, <3>3, MineStays
    <3> QED BY <3>1, <3>2, <3>4 DEF Mine, SessionOf
  <2>3. spent' \subseteq Requests /\ \A r \in spent' : login'[r] # None
    BY <1>0, ClientSees DEF ClientFacts, RecoveryInv, SessionsSpent
  <2> QED BY <1>0, <2>1, <2>2, <2>3 DEF SessionsSpent
<1>3. LoginsInTurn'
  BY <1>0, ClientSees DEF ClientFacts, RecoveryInv, CallsSent, LoginsInTurn
<1> QED BY <1>1, <1>2, <1>3

\* A login that commits takes a request id that is free and names a session that
\* did not exist.
LEMMA LoginsStayDistinct ==
  ASSUME ClientFacts, [Next]_vars
  PROVE  LoginsDistinct'
<1>0. /\ IInv /\ ResultsInv /\ LoginsDistinct /\ login \in [Requests -> Ids \cup {None}]
  BY DEF ClientFacts, ClientIInv, RecoveryInv, IInv, TypeOK
<1>1. CASE UNCHANGED login
  BY <1>0, <1>1 DEF LoginsDistinct
<1>2. ASSUME NEW h \in Handlers, token[h].status = "none", op[h].request \in Requests,
             login' = [login EXCEPT ![op[h].request] = h]
      PROVE  LoginsDistinct'
  <2>1. \A q \in Requests : login[q] # h
    BY <1>2 DEF ClientFacts, ClientIInv, KnownResults, Known, Ids
  <2>2. \A q \in Requests : login'[q] = IF q = op[h].request THEN h ELSE login[q]
    BY <1>0, <1>2
  <2> QED BY <1>0, <1>2, <2>1, <2>2 DEF LoginsDistinct
<1>3. ASSUME NEW h \in Handlers, RotateToken(h) PROVE UNCHANGED login
  BY <1>3 DEF RotateToken
<1> QED BY <1>0, <1>1, <1>2, <1>3, NextRows

\* The server keeps a refresh of the client within its own session.
LEMMA ServerKeepsRefreshes ==
  ASSUME ClientFacts, [Next]_vars, UNCHANGED client
  PROVE  RefreshesInTurn'
<1>0. UNCHANGED <<held, pending, waiting, sent>>
  BY DEF client, file
<1> SUFFICES ASSUME OwnRefreshes(SessionOf(held))'
             PROVE  /\ \A g \in sent :
                         op'[g].kind = "refresh"
                           /\ SessionOf(op[g].token)' = SessionOf(held)' =>
                             \/ /\ op'[g].token = held
                                /\ pending = [token |-> held, key |-> op'[g].key]
                             \/ /\ op'[g].token # held
                                /\ token'[op'[g].token].status = "consumed"
                    /\ token'[held].status = "consumed" =>
                         token'[token'[held].child].status = "live"
  BY <1>0 DEF RefreshesInTurn
<1>1. OwnRefreshes(SessionOf(held))
  BY <1>0, OwnBefore
<1>2. /\ \A g \in sent :
           op[g].kind = "refresh" /\ SessionOf(op[g].token) = SessionOf(held) =>
             \/ op[g].token = held /\ pending = [token |-> held, key |-> op[g].key]
             \/ op[g].token # held /\ token[op[g].token].status = "consumed"
      /\ token[held].status = "consumed" => token[token[held].child].status = "live"
  BY <1>1 DEF ClientFacts, RecoveryInv, RefreshesInTurn
<1>3. SessionOf(held)' = SessionOf(held) /\ Known(held)
  BY <1>0, ClientSees DEF SessionOf
<1>4. IInv /\ ResultsInv /\ Persists
  BY NextReplay DEF ClientFacts, ClientIInv
<1>5. ASSUME NEW g \in sent, op'[g].kind = "refresh",
             SessionOf(op[g].token)' = SessionOf(held)'
      PROVE  \/ op'[g].token = held /\ pending = [token |-> held, key |-> op'[g].key]
             \/ op'[g].token # held /\ token'[op'[g].token].status = "consumed"
  <2>1. op'[g] = op[g] /\ Known(op[g].token)
    BY <1>5, ClientSees
  <2>2. SessionOf(op[g].token) = SessionOf(held)
    BY <1>3, <1>5, <2>1, ClientSees DEF SessionOf
  <2> QED BY <1>2, <1>4, <1>5, <2>1, <2>2 DEF Persists, Known
<1>6. ASSUME token'[held].status = "consumed"
      PROVE  token'[token'[held].child].status = "live"
  <2> DEFINE c == token[held].child
  <2>1. CASE UNCHANGED token
    BY <1>2, <1>6, <2>1
  <2>2. ASSUME NEW h \in Handlers, token[h].status = "none", token'[h].status = "live",
               \A u \in Ids : u # h => token'[u] = token[u]
        PROVE  token'[token'[held].child].status = "live"
    <3>1. token'[held] = token[held]
      BY <1>6, <2>2, <1>3 DEF Known
    <3>2. c \in Ids /\ token[c].status = "live"
      BY <1>2, <1>3, <1>6, <3>1 DEF ClientFacts, ClientIInv, KnownResults, Known
    <3> QED BY <2>2, <3>1, <3>2
  <2>3. ASSUME NEW h \in Handlers, RotateToken(h)
        PROVE  token'[token'[held].child].status = "live"
    <3>1. CASE op[h].token = held
      BY <1>4, <2>3, <3>1, RotateRows
    <3>2. CASE op[h].token # held
      <4>1. held # h /\ token'[held] = token[held]
        BY <1>3, <1>4, <2>3, <3>2, RotateRows, RotateLinks DEF Known
      <4>2. c \in Ids /\ token[c].status = "live" /\ token[held].status = "consumed"
        BY <1>2, <1>3, <1>6, <4>1 DEF ClientFacts, ClientIInv, KnownResults, Known
      <4>3. c # op[h].token
        <5> SUFFICES ASSUME c = op[h].token PROVE FALSE
          OBVIOUS
        <5>1. SessionOf(c) = SessionOf(held)
          BY <1>3, <4>2 DEF ClientFacts, RecoveryInv, RowsLinked, Known
        <5>2. h \in sent
          BY <1>1, <1>4, <2>3, <5>1, RotateLinks DEF OwnRefreshes, SessionOf
        <5> QED BY <1>2, <1>4, <2>3, <3>2, <4>2, <5>1, <5>2, RotateLinks
      <4>4. c # h
        BY <1>4, <2>3, <4>2, RotateLinks
      <4> QED BY <1>4, <2>3, <4>1, <4>2, <4>3, <4>4, RotateRows
    <3> QED BY <3>1, <3>2
  <2> QED BY <1>4, <2>1, <2>2, <2>3, NextRows
<1> QED BY <1>5, <1>6

\* A step of the client that only gives up a call.
LEMMA GiveUpKeeps ==
  ASSUME ClientFacts, UNCHANGED vars, UNCHANGED <<held, pending, spent, sent>>,
         waiting' \subseteq waiting
  PROVE  CallsSent' /\ SessionsSpent' /\ LoginsInTurn' /\ RefreshesInTurn'
<1>1. UNCHANGED <<token, login, pc, op, answer>>
  BY DEF vars, database
<1>2. CallsSent'
  BY <1>1 DEF ClientFacts, RecoveryInv, CallsSent
<1>3. SessionsSpent'
  BY <1>1 DEF ClientFacts, RecoveryInv, SessionsSpent, Mine, SessionOf
<1>4. LoginsInTurn'
  BY <1>1 DEF ClientFacts, RecoveryInv, LoginsInTurn
<1>5. RefreshesInTurn'
  BY <1>1 DEF ClientFacts, RecoveryInv, RefreshesInTurn, OwnRefreshes, SessionOf
<1> QED BY <1>2, <1>3, <1>4, <1>5

\* What the first Update writes, and what it does to requests that repeat it.
LEMMA BeginWrites ==
  ASSUME ClientFacts, NEW k \in RefreshKeys, BeginRefresh(k)
  PROVE  /\ pending'.token = held /\ pending' # NoPending
         /\ pending' = [token |-> held, key |-> pending'.key]
         /\ pending # NoPending => pending' = pending
         /\ \A q : pending = [token |-> held, key |-> q] => pending' = pending
<1>1. held # None
  BY AuthAssumption DEF ClientFacts, ClientIInv, KnownFile, Known
<1>2. \A q : [token |-> held, key |-> q] # NoPending
  BY <1>1 DEF NoPending
<1>3. CASE pending = NoPending
  BY <1>2, <1>3 DEF BeginRefresh
<1>4. CASE pending # NoPending
  <2>1. pending' = pending /\ pending = [token |-> held, key |-> pending.key]
    BY <1>4 DEF BeginRefresh, ClientFacts, RecoveryInv, CallsSent
  <2> QED BY <1>2, <1>4, <2>1
<1> QED BY <1>3, <1>4

\* A refresh is begun but not sent.
LEMMA NotSentKeeps ==
  ASSUME ClientFacts, RefreshNotSent
  PROVE  CallsSent' /\ SessionsSpent' /\ LoginsInTurn' /\ RefreshesInTurn'
<1>1. UNCHANGED <<token, login, pc, op, answer, held, waiting, spent,
                   sent>>
  BY DEF RefreshNotSent, vars, database
<1>2. /\ pending' = [token |-> held, key |-> pending'.key]
      /\ \A q : pending = [token |-> held, key |-> q] => pending' = pending
  BY BeginWrites DEF RefreshNotSent
<1>3. CallsSent'
  BY <1>1, <1>2 DEF ClientFacts, RecoveryInv, CallsSent
<1>4. SessionsSpent'
  BY <1>1 DEF ClientFacts, RecoveryInv, SessionsSpent, Mine, SessionOf
<1>5. LoginsInTurn'
  BY <1>1 DEF ClientFacts, RecoveryInv, LoginsInTurn
<1>6. RefreshesInTurn'
  BY <1>1, <1>2 DEF ClientFacts, RecoveryInv, RefreshesInTurn, OwnRefreshes, SessionOf
<1> QED BY <1>3, <1>4, <1>5, <1>6

\* What a request of the client changes.
LEMMA SubmitWrites ==
  ASSUME ClientFacts, NEW h \in Handlers, NEW o, NEW label, label # "idle",
         Receive(h, o, label), Submit(h)
  PROVE  /\ UNCHANGED <<token, login, answer>>
         /\ h \notin sent /\ op[h].kind = "none" /\ answer[h].code # "ok"
         /\ op'[h] = o /\ pc'[h] # "idle"
         /\ \A g \in Handlers : g # h => op'[g] = op[g] /\ pc'[g] = pc[g]
         /\ waiting' = waiting \cup {h} /\ sent' = sent \cup {h}
         /\ waiting \subseteq sent /\ sent \subseteq Handlers
<1>1. UNCHANGED <<token, login, answer>> /\ pc[h] = "idle"
  BY DEF Receive, database
<1>2. op'[h] = o /\ pc'[h] = label /\ \A g \in Handlers : g # h => op'[g] = op[g] /\ pc'[g] = pc[g]
  BY DEF Receive, Goto, ClientFacts, ClientIInv, IInv, TypeOK
<1>3. h \notin sent /\ waiting \subseteq sent /\ sent \subseteq Handlers
  BY <1>1 DEF ClientFacts, RecoveryInv, CallsSent
<1>4. op[h].kind = "none" /\ answer[h].code # "ok"
  BY <1>1 DEF ClientFacts, ReplayInv, RequestsInTurn, ResultsInv, AnswersInTurn
<1> QED BY <1>1, <1>2, <1>3, <1>4 DEF Submit

\* A refresh is sent.
LEMMA ClientRefreshKeeps ==
  ASSUME ClientFacts, NEW h \in Handlers, ClientRefresh(h)
  PROVE  CallsSent' /\ SessionsSpent' /\ LoginsInTurn' /\ RefreshesInTurn'
<1>1. PICK k \in RefreshKeys :
          /\ BeginRefresh(k)
          /\ Receive(h, [kind |-> "refresh", token |-> pending'.token,
                         key |-> pending'.key], "consume")
          /\ Submit(h)
          /\ UNCHANGED <<held, spent>>
  BY DEF ClientRefresh
<1>2. /\ pending' = [token |-> held, key |-> pending'.key] /\ pending'.token = held
      /\ \A q : pending = [token |-> held, key |-> q] => pending' = pending
  BY <1>1, BeginWrites
<1>3. /\ UNCHANGED <<token, login, answer, held, spent>>
      /\ h \notin sent /\ op[h].kind = "none" /\ answer[h].code # "ok"
      /\ op'[h].kind = "refresh" /\ op'[h].token = held /\ op'[h].key = pending'.key
      /\ pc'[h] # "idle"
      /\ \A g \in Handlers : g # h => op'[g] = op[g] /\ pc'[g] = pc[g]
      /\ waiting' = waiting \cup {h} /\ sent' = sent \cup {h}
      /\ waiting \subseteq sent /\ sent \subseteq Handlers
  BY <1>1, <1>2, SubmitWrites
<1>4. CallsSent'
  BY <1>2, <1>3 DEF ClientFacts, RecoveryInv, CallsSent
<1>5. SessionsSpent'
  BY <1>3 DEF ClientFacts, RecoveryInv, SessionsSpent, Mine, SessionOf
<1>6. LoginsInTurn'
  BY <1>3 DEF ClientFacts, RecoveryInv, LoginsInTurn
<1>7. OwnRefreshes(SessionOf(held))' => OwnRefreshes(SessionOf(held))
  BY <1>3 DEF OwnRefreshes, SessionOf
<1>8. RefreshesInTurn'
  BY <1>2, <1>3, <1>7 DEF ClientFacts, RecoveryInv, RefreshesInTurn, SessionOf
<1> QED BY <1>4, <1>5, <1>6, <1>8

\* A login is sent.
LEMMA ClientLoginKeeps ==
  ASSUME ClientFacts, NEW h \in Handlers, ClientLogin(h)
  PROVE  CallsSent' /\ SessionsSpent' /\ LoginsInTurn' /\ RefreshesInTurn'
<1>1. PICK r \in Requests :
          /\ Receive(h, [kind |-> "login", request |-> r], "lookup")
          /\ Submit(h)
  BY DEF ClientLogin, ReceiveLogin
<1>2. /\ UNCHANGED <<held, pending, spent>> /\ op'[h].request \notin spent
      /\ \A g \in waiting : op[g].kind # "login"
  BY DEF ClientLogin, file
<1>3. /\ UNCHANGED <<token, login, answer>>
      /\ h \notin sent /\ op[h].kind = "none" /\ answer[h].code # "ok"
      /\ op'[h].kind = "login" /\ op'[h].request \in Requests /\ pc'[h] # "idle"
      /\ \A g \in Handlers : g # h => op'[g] = op[g] /\ pc'[g] = pc[g]
      /\ waiting' = waiting \cup {h} /\ sent' = sent \cup {h}
      /\ waiting \subseteq sent /\ sent \subseteq Handlers
  BY <1>1, SubmitWrites
<1>4. CallsSent'
  BY <1>2, <1>3 DEF ClientFacts, RecoveryInv, CallsSent
<1>5. SessionsSpent'
  BY <1>2, <1>3 DEF ClientFacts, RecoveryInv, SessionsSpent, Mine, SessionOf
<1>6. LoginsInTurn'
  BY <1>2, <1>3 DEF ClientFacts, RecoveryInv, LoginsInTurn
<1>7. OwnRefreshes(SessionOf(held))' => OwnRefreshes(SessionOf(held))
  BY <1>2, <1>3 DEF OwnRefreshes, SessionOf
<1>8. RefreshesInTurn'
  BY <1>2, <1>3, <1>7 DEF ClientFacts, RecoveryInv, RefreshesInTurn, SessionOf
<1> QED BY <1>4, <1>5, <1>6, <1>8

\* The answer to the pending refresh is stored: the client moves on to the
\* successor, which none of its requests has used.
LEMMA AnsweredKeeps ==
  ASSUME ClientFacts, NEW h \in Handlers, RefreshAnswered(h)
  PROVE  CallsSent' /\ SessionsSpent' /\ LoginsInTurn' /\ RefreshesInTurn'
<1>0. UNCHANGED vars /\ UNCHANGED <<spent, sent>> /\ waiting' \subseteq waiting
  BY DEF RefreshAnswered
<1>1. CASE UNCHANGED file
  BY <1>0, <1>1, GiveUpKeeps DEF file
<1>2. CASE /\ pending = [token |-> op[h].token, key |-> op[h].key]
           /\ held' = answer[h].token /\ pending' = NoPending
  <2>1. UNCHANGED <<token, login, pc, op, answer, spent, sent>>
    BY <1>0 DEF vars, database
  <2>2. op[h].kind = "refresh" /\ answer[h].code = "ok"
    BY DEF RefreshAnswered
  <2>3. /\ op[h].token \in Ids /\ token[op[h].token].status = "consumed"
        /\ held' = token[op[h].token].child
    BY <1>2, <2>2 DEF ClientFacts, ResultsInv, AnswersFromResults
  <2>4. op[h].token = held
    <3>1. op[h].token # None
      BY <2>3, AuthAssumption
    <3>2. pending # NoPending
      BY <1>2, <3>1 DEF NoPending
    <3>3. pending.token = held
      BY <3>2 DEF ClientFacts, RecoveryInv, CallsSent
    <3> QED BY <1>2, <3>3
  <2>5. SessionOf(held)' = SessionOf(held)
    BY <2>1, <2>3, <2>4 DEF ClientFacts, RecoveryInv, RowsLinked, SessionOf
  <2>6. CallsSent'
    BY <1>0, <1>2, <2>1 DEF ClientFacts, RecoveryInv, CallsSent
  <2>7. SessionsSpent'
    BY <2>1, <2>5 DEF ClientFacts, RecoveryInv, SessionsSpent, Mine, SessionOf
  <2>8. LoginsInTurn'
    BY <1>0, <2>1, <2>5 DEF ClientFacts, RecoveryInv, LoginsInTurn
  <2>9. RefreshesInTurn'
    <3> SUFFICES ASSUME OwnRefreshes(SessionOf(held))'
                 PROVE  /\ \A g \in sent :
                             op[g].kind = "refresh" /\ SessionOf(op[g].token) = SessionOf(held) =>
                               op[g].token # held' /\ token[op[g].token].status = "consumed"
                        /\ token[held'].status = "live"
      BY <2>1, <2>5 DEF RefreshesInTurn, SessionOf
    <3>1. OwnRefreshes(SessionOf(held))
      BY <2>1, <2>5 DEF OwnRefreshes
    <3> QED BY <2>3, <2>4, <3>1 DEF ClientFacts, RecoveryInv, RefreshesInTurn
  <2> QED BY <2>6, <2>7, <2>8, <2>9
<1> QED BY <1>1, <1>2 DEF RefreshAnswered, CommitRefresh

\* A login is stored: its request id was not spent, so its session is none of
\* those the client has refreshed, and nobody has refreshed it while only the
\* client does.
LEMMA PersistKeeps ==
  ASSUME ClientFacts, NEW h \in Handlers, PersistAuth(h)
  PROVE  CallsSent' /\ SessionsSpent' /\ LoginsInTurn' /\ RefreshesInTurn'
<1>1. /\ UNCHANGED <<token, login, pc, op, answer, sent>>
      /\ h \in waiting /\ op[h].kind = "login" /\ answer[h].code = "ok"
      /\ held' = answer[h].token /\ pending' = NoPending /\ waiting' = waiting \ {h}
      /\ spent' = spent \cup {op[h].request}
  BY DEF PersistAuth, vars, database
<1>2. /\ op[h].request \in Requests \ spent
      /\ \A g \in waiting : op[g].kind = "login" => g = h
  BY <1>1 DEF ClientFacts, RecoveryInv, LoginsInTurn
<1>3. /\ login[op[h].request] # None /\ held' = login[op[h].request]
      /\ token[held'].session = held'
  BY <1>1 DEF ClientFacts, ResultsInv, AnswersFromResults, RecoveryInv, RowsLinked, SessionOf
<1>4. \A g \in sent : op[g].kind = "refresh" => token[op[g].token].session # held'
  <2>1. ASSUME Mine(held') PROVE FALSE
    BY <1>2, <1>3, <2>1, AuthAssumption
       DEF Mine, ClientFacts, RecoveryInv, LoginsDistinct, SessionsSpent
  <2> QED BY <2>1 DEF ClientFacts, RecoveryInv, SessionsSpent, SessionOf
<1>5. CallsSent'
  BY <1>1 DEF ClientFacts, RecoveryInv, CallsSent
<1>6. SessionsSpent'
  BY <1>1, <1>2, <1>3 DEF ClientFacts, RecoveryInv, SessionsSpent, Mine, SessionOf
<1>7. LoginsInTurn'
  BY <1>1, <1>2 DEF ClientFacts, RecoveryInv, LoginsInTurn
<1>8. RefreshesInTurn'
  <2> SUFFICES ASSUME OwnRefreshes(SessionOf(held))'
               PROVE  /\ \A g \in sent : op[g].kind = "refresh" =>
                           token[op[g].token].session # token[held'].session
                      /\ token[held'].status # "consumed"
    BY <1>1 DEF RefreshesInTurn, SessionOf
  <2>1. held' \in Ids
    BY <1>1 DEF ClientFacts, ClientIInv, KnownResults, Known
  <2>2. token[held'].status # "consumed"
    <3> SUFFICES ASSUME token[held'].status = "consumed" PROVE FALSE
      OBVIOUS
    <3>1. PICK g \in Handlers : op[g].kind = "refresh" /\ op[g].token = held'
      BY <2>1 DEF ClientFacts, ReplayInv, ConsumedByRefresh
    <3>2. g \in sent
      BY <1>1, <3>1 DEF OwnRefreshes, SessionOf
    <3> QED BY <1>3, <1>4, <3>1, <3>2
  <2> QED BY <1>3, <1>4, <2>2
<1> QED BY <1>5, <1>6, <1>7, <1>8

\* Every step of client and server keeps the account of the client's requests.
LEMMA RecoveryStep ==
  ClientFacts /\ [ClientNext]_clientVars => RecoveryInv'
<1> SUFFICES ASSUME ClientFacts, [ClientNext]_clientVars PROVE RecoveryInv'
  OBVIOUS
<1>1. [Next]_vars
  BY ClientStepServed DEF ClientFacts
<1>2. RowsLinked' /\ LoginsDistinct'
  BY <1>1, NextReplay, NextMoves, NextLinked, LoginsStayDistinct
  DEF ClientFacts, ClientIInv, RecoveryInv
<1>3. CASE UNCHANGED client
  BY <1>1, <1>2, <1>3, ServerKeepsCalls, ServerKeepsRefreshes DEF RecoveryInv
<1>4. CASE RefreshNotSent
  BY <1>2, <1>4, NotSentKeeps DEF RecoveryInv
<1>5. ASSUME NEW h \in Handlers, ClientRefresh(h) \/ ClientLogin(h) PROVE RecoveryInv'
  BY <1>2, <1>5, ClientRefreshKeeps, ClientLoginKeeps DEF RecoveryInv
<1>6. ASSUME NEW h \in Handlers, RefreshAnswered(h) \/ PersistAuth(h) PROVE RecoveryInv'
  BY <1>2, <1>6, AnsweredKeeps, PersistKeeps DEF RecoveryInv
<1>7. ASSUME NEW h \in Handlers, GiveUp(h) PROVE RecoveryInv'
  <2>1. UNCHANGED vars /\ UNCHANGED <<held, pending, spent, sent>> /\ waiting' \subseteq waiting
    BY <1>7 DEF GiveUp, file
  <2> QED BY <1>2, <2>1, GiveUpKeeps DEF RecoveryInv
<1> QED BY <1>3, <1>4, <1>5, <1>6, <1>7 DEF ClientNext, clientVars

\* The account of the client's requests holds initially.
LEMMA RecoveryInitially == ClientInit => RecoveryInv
<1> SUFFICES ASSUME ClientInit PROVE RecoveryInv
  OBVIOUS
<1>1. /\ held = Registered /\ pending = NoPending
      /\ waiting = {} /\ spent = {} /\ sent = {}
      /\ \A r \in Requests : login[r] = None
      /\ \A h \in Handlers : op[h].kind = "none"
  BY DEF ClientInit, Init, NoOperation
<1>2. \A t \in Ids : token[t].status # "consumed"
  BY DEF ClientInit, Init, LiveToken, NoToken
<1>3. Registered \in Ids /\ token[Registered].session = Registered
  BY DEF ClientInit, Init, Ids, LiveToken, NoToken
<1> QED BY <1>1, <1>2, <1>3
        DEF RecoveryInv, RowsLinked, CallsSent, LoginsDistinct, SessionsSpent, Mine,
            SessionOf, LoginsInTurn, RefreshesInTurn

\* Every request of the client is a refresh of the token it holds, one of a token
\* it has left behind, or a login whose session it has not had before.
THEOREM ClientRecovery == ClientSpec => []RecoveryInv
<1>1. ClientSpec => []ResultsInv /\ []ReplayInv
  BY ClientImplementsAuth, AuthResults, AuthReplays, PTL
<1> QED BY <1>1, ClientInvariant, RecoveryInitially, RecoveryStep, PTL
        DEF ClientSpec, ClientFacts

\* The client never locks itself out: while nobody else refreshes its session,
\* restarts, retries, lost answers and concurrent calls leave it with the live
\* token or with the very refresh that replaced it.
THEOREM ClientRefreshRecoverable == ClientSpec => []RefreshRecoverable
<1>1. ClientFacts => RefreshRecoverable
  <2> SUFFICES ASSUME ClientFacts, OwnRefreshes(token[held].session),
                      token[held].status # "live"
               PROVE  /\ pending = [token |-> held, key |-> token[held].key]
                      /\ token[token[held].child].status = "live"
    BY DEF RefreshRecoverable
  <2>1. held \in Ids /\ token[held].status = "consumed"
    BY DEF ClientFacts, ClientIInv, KnownFile, Known, IInv, TypeOK, Token
  <2>2. PICK g \in Handlers : /\ op[g].kind = "refresh" /\ op[g].token = held
                              /\ op[g].key = token[held].key
    BY <2>1 DEF ClientFacts, ReplayInv, ConsumedByRefresh
  <2>3. g \in sent
    BY <2>2 DEF OwnRefreshes
  <2> QED BY <2>1, <2>2, <2>3 DEF ClientFacts, RecoveryInv, RefreshesInTurn, SessionOf
<1>2. ClientSpec => []ResultsInv /\ []ReplayInv
  BY ClientImplementsAuth, AuthResults, AuthReplays, PTL
<1> QED BY <1>1, <1>2, ClientInvariant, ClientRecovery, PTL DEF ClientFacts

\* The state file holds a token and a well-formed refresh or none, and the client
\* waits only for requests it sent.
THEOREM ClientTypes == ClientSpec => []ClientTypeOK
<1>1. ClientIInv /\ RecoveryInv => ClientTypeOK
  BY DEF ClientIInv, KnownFile, Known, RecoveryInv, CallsSent, SessionsSpent, ClientTypeOK,
     PendingRefresh
<1> QED BY <1>1, ClientInvariant, ClientRecovery, PTL
=============================================================================
