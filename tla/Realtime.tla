------------------------------ MODULE Realtime ------------------------------
(***************************************************************************)
(* The WebSocket connections of one user: the handshake of serveWebSocket  *)
(* under a share lock of the session row, the hub of each instance, the    *)
(* record in Redis that says which connection owns a session, and the      *)
(* ways in which a connection ends: it is replaced, its session is         *)
(* revoked, it loses its ownership, it drops.                              *)
(*                                                                         *)
(* A Redis script is atomic.  Its answer may get lost, and a refresh that  *)
(* is under way when its connection closes may still run.  A lookup of the *)
(* user's connections reads the index of sessions, reads their records and *)
(* removes sessions without one, in three round trips.  Time is left out:  *)
(* a record expires when nobody renews it, or by a fault.                  *)
(***************************************************************************)
EXTENDS Integers

CONSTANTS
    Connections,    \* connection ids, each used for one handshake
    Sessions,       \* sessions of the user
    Instances,      \* server processes
    Revokers,       \* requests that revoke a session: logout and the like
    Lookups,        \* outbox batches that look the user up
    Home,           \* the instance that serves a connection or a revocation
    MaxFaults,      \* bound on failures of PostgreSQL, Redis and instances
    None

ASSUME RealtimeAssumption ==
    /\ MaxFaults \in Nat
    /\ None \notin Connections \cup Sessions
    /\ Revokers \cap Lookups = {}
    /\ Home \in [Connections \cup Revokers -> Instances]

VARIABLES
    revoked,        \* sessions.revoked_at is set
    presence,       \* the connection that owns a session, by the record in Redis
    index,          \* the sessions in the user's index in Redis
    commands,       \* connections that some instance was told to disconnect
    hub,            \* connections in the hub of their instance
    step,           \* where the goroutine of a connection is
    session,        \* the session of a connection
    replaced,       \* the connection whose record it has replaced
    down,           \* connections that were shut down
    locked,         \* connections whose handshake holds the session row
    refreshing,     \* connections with a refresh of their record under way
    call,           \* the revocations and lookups
    faults

redis == <<presence, index, commands>>
connection == <<hub, step, session, replaced, down, locked, refreshing>>
vars == <<revoked, redis, connection, call, faults>>
-----------------------------------------------------------------------------
(* Steps                                                                   *)

Handshake == {"hub", "presence", "replace", "commit"}
Steps == Handshake \cup {"new", "lock", "serving", "withdraw", "closed"}

NoCall == [step |-> "idle", session |-> None, found |-> None]
CallSteps == {"idle", "local", "members", "values", "prune", "send", "done"}
Call == [step : CallSteps, session : Sessions \cup {None},
         found : Connections \cup {None}]

Goto(c, label) == step' = [step EXCEPT ![c] = label]

Fault == faults < MaxFaults /\ faults' = faults + 1

\* A call of a connection fails: its context is cancelled, or by a fault.
CallFails(c) == (c \in down /\ UNCHANGED faults) \/ Fault

\* hub.removeClient: a client that is in the hub leaves it and is shut down.
RemoveClients(C) ==
    /\ hub' = hub \ C
    /\ down' = down \cup (C \cap hub)

\* DisconnectReplaced: through the hub of this instance, or by a command on
\* the channel of the other one.
DisconnectReplaced(c, here) ==
    IF Home[c] = here
      THEN RemoveClients({c}) /\ UNCHANGED commands
      ELSE commands' = commands \cup {c} /\ UNCHANGED <<hub, down>>
-----------------------------------------------------------------------------
(* serveWebSocket                                                          *)

\* requireAuthentication has found the session alive.
Accept(c) ==
    /\ step[c] = "new"
    /\ \E s \in Sessions \ revoked : session' = [session EXCEPT ![c] = s]
    /\ Goto(c, "lock")
    /\ UNCHANGED <<revoked, redis, hub, replaced, down, locked, refreshing, call, faults>>

\* SELECT ... FOR SHARE
LockSession(c) ==
    /\ step[c] = "lock"
    /\ IF session[c] \in revoked
         THEN Goto(c, "closed") /\ down' = down \cup {c} /\ UNCHANGED locked
         ELSE Goto(c, "hub") /\ locked' = locked \cup {c} /\ UNCHANGED down
    /\ UNCHANGED <<revoked, redis, hub, session, replaced, refreshing,
                   call, faults>>

\* The row cannot be read, or the hub does not take the client in time; the
\* deferred rollback releases the row.
RejectHandshake(c) ==
    /\ step[c] \in {"lock", "hub"} /\ Fault
    /\ Goto(c, "closed") /\ down' = down \cup {c}
    /\ locked' = locked \ {c}
    /\ UNCHANGED <<revoked, redis, hub, session, replaced, refreshing, call>>

\* The connection to PostgreSQL breaks and the transaction is gone.
LoseLock(c) ==
    /\ c \in locked /\ Fault
    /\ locked' = locked \ {c}
    /\ UNCHANGED <<revoked, redis, hub, step, session, replaced, down,
                   refreshing, call>>

Register(c) ==
    /\ step[c] = "hub"
    /\ hub' = hub \cup {c}
    /\ Goto(c, "presence")
    /\ UNCHANGED <<revoked, redis, session, replaced, down, locked,
                   refreshing, call, faults>>

\* registerWebSocketPresence
SetRecord(c) ==
    /\ presence' = [presence EXCEPT ![session[c]] = c]
    /\ index' = index \cup {session[c]}

RegisterPresence(c) ==
    /\ step[c] = "presence"
    /\ SetRecord(c)
    /\ replaced' = [replaced EXCEPT ![c] = presence[session[c]]]
    /\ Goto(c, IF presence[session[c]] \in {None, c} THEN "commit" ELSE "replace")
    /\ UNCHANGED <<revoked, commands, hub, session, down, locked,
                   refreshing, call, faults>>

\* The handshake goes on without presence, whether or not the script ran.
RegisterPresenceFails(c) ==
    /\ step[c] = "presence" /\ CallFails(c)
    /\ SetRecord(c) \/ UNCHANGED <<presence, index>>
    /\ Goto(c, "commit")
    /\ UNCHANGED <<revoked, commands, hub, session, replaced, down, locked,
                   refreshing, call>>

DisconnectOld(c) ==
    /\ step[c] = "replace"
    /\ \/ DisconnectReplaced(replaced[c], Home[c]) /\ UNCHANGED faults
       \/ UNCHANGED <<commands, hub, down>> /\ CallFails(c)
    /\ Goto(c, "commit")
    /\ UNCHANGED <<revoked, presence, index, session, replaced, locked,
                   refreshing, call>>

Commit(c) ==
    /\ step[c] = "commit" /\ c \in locked
    /\ locked' = locked \ {c}
    /\ Goto(c, "serving")
    /\ UNCHANGED <<revoked, redis, hub, session, replaced, down,
                   refreshing, call, faults>>

\* (faulty: the client stays in the hub)
CommitFailsSilently(c) ==
    /\ step[c] = "commit"
    /\ (c \notin locked /\ UNCHANGED faults) \/ CallFails(c)
    /\ down' = down \cup {c}
    /\ locked' = locked \ {c}
    /\ Goto(c, "withdraw")
    /\ UNCHANGED <<revoked, redis, hub, session, replaced, refreshing, call>>

\* The client is shut down and unregistered.
CommitFails(c) ==
    /\ step[c] = "commit"
    /\ (c \notin locked /\ UNCHANGED faults) \/ CallFails(c)
    /\ down' = down \cup {c}
    /\ hub' = hub \ {c}
    /\ locked' = locked \ {c}
    /\ Goto(c, "withdraw")
    /\ UNCHANGED <<revoked, redis, session, replaced, refreshing, call>>

\* client.run: a pump has ended, so the client is unregistered.
Finish(c) ==
    /\ step[c] = "serving"
    /\ down' = down \cup {c}
    /\ hub' = hub \ {c}
    /\ Goto(c, "withdraw")
    /\ UNCHANGED <<revoked, redis, session, replaced, locked, refreshing,
                   call, faults>>

\* The peer leaves, a ping fails, or the access token expires.
Leave(c) == c \notin down /\ Finish(c)

\* The context of a client that was shut down is cancelled.
Stop(c) == c \in down /\ Finish(c)

\* The deferred unregisterWebSocketPresence; its failure leaves the record.
Withdraw(c) ==
    /\ step[c] = "withdraw"
    /\ \/ /\ IF presence[session[c]] = c
               THEN /\ presence' = [presence EXCEPT ![session[c]] = None]
                    /\ index' = index \ {session[c]}
               ELSE UNCHANGED <<presence, index>>
          /\ UNCHANGED faults
       \/ Fault /\ UNCHANGED <<presence, index>>
    /\ Goto(c, "closed")
    /\ UNCHANGED <<revoked, commands, hub, session, replaced, down, locked,
                   refreshing, call>>
-----------------------------------------------------------------------------
(* The goroutines that maintain session and presence                       *)

\* (faulty: the answer of the query is ignored)
CheckNothing(c) ==
    /\ step[c] = "serving" /\ c \notin down /\ session[c] \in revoked
    /\ UNCHANGED vars

\* maintainWebSocketSession finds the session dead, or cannot find out.
CheckSession(c) ==
    /\ step[c] = "serving" /\ c \notin down
    /\ (session[c] \in revoked /\ UNCHANGED faults) \/ Fault
    /\ down' = down \cup {c}
    /\ UNCHANGED <<revoked, redis, hub, step, session, replaced, locked,
                   refreshing, call>>

\* maintainWebSocketPresence, when the ticker fires
StartRefresh(c) ==
    /\ step[c] \in {"commit", "serving"} /\ c \notin down /\ c \notin refreshing
    /\ refreshing' = refreshing \cup {c}
    /\ UNCHANGED <<revoked, redis, hub, step, session, replaced, down,
                   locked, call, faults>>

\* (faulty: the record is renewed whoever owns it)
RefreshAnyway(c) ==
    /\ c \in refreshing
    /\ refreshing' = refreshing \ {c}
    /\ SetRecord(c)
    /\ UNCHANGED <<revoked, commands, hub, down, step, session, replaced,
                   locked, call, faults>>

\* (faulty: a renewal does not put the session back into the index)
RefreshRecordOnly(c) ==
    /\ c \in refreshing
    /\ refreshing' = refreshing \ {c}
    /\ \/ /\ presence[session[c]] = None
          /\ SetRecord(c) /\ UNCHANGED <<hub, down>>
       \/ /\ presence[session[c]] = c
          /\ UNCHANGED <<presence, index, hub, down>>
       \/ /\ presence[session[c]] \notin {None, c}
          /\ RemoveClients({c}) /\ UNCHANGED <<presence, index>>
    /\ UNCHANGED <<revoked, commands, step, session, replaced, locked,
                   call, faults>>

\* refreshWebSocketPresence: recovered, renewed or lost
Refresh(c) ==
    /\ c \in refreshing
    /\ refreshing' = refreshing \ {c}
    /\ \/ /\ presence[session[c]] \in {None, c}
          /\ SetRecord(c) /\ UNCHANGED <<hub, down>>
       \/ /\ presence[session[c]] \notin {None, c}
          /\ RemoveClients({c}) /\ UNCHANGED <<presence, index>>
    /\ UNCHANGED <<revoked, commands, step, session, replaced, locked,
                   call, faults>>

\* The script may have run; the error is logged and the loop goes on.
RefreshFails(c) ==
    /\ c \in refreshing /\ CallFails(c)
    /\ refreshing' = refreshing \ {c}
    /\ \/ presence[session[c]] \in {None, c} /\ SetRecord(c)
       \/ UNCHANGED <<presence, index>>
    /\ UNCHANGED <<revoked, commands, hub, step, session, replaced, down,
                   locked, call>>
-----------------------------------------------------------------------------
(* Revocations and lookups                                                 *)

Locked(s) == \E c \in locked : session[c] = s

\* (faulty: the handshake reads the session without locking it)
RevokeWithoutWaiting(x) ==
    /\ call[x].step = "idle"
    /\ \E s \in Sessions :
           /\ revoked' = revoked \cup {s}
           /\ call' = [call EXCEPT ![x] = [step |-> "local", session |-> s,
                                           found |-> None]]
    /\ UNCHANGED <<redis, connection, faults>>

\* The UPDATE that sets revoked_at waits for handshakes that hold the row.
RevokeSession(x) ==
    /\ call[x].step = "idle"
    /\ \E s \in Sessions :
           /\ ~Locked(s)
           /\ revoked' = revoked \cup {s}
           /\ call' = [call EXCEPT ![x] = [step |-> "local", session |-> s,
                                           found |-> None]]
    /\ UNCHANGED <<redis, connection, faults>>

\* The answer of the UPDATE is lost: nothing is disconnected.
RevokeUnanswered(x) ==
    /\ call[x].step = "idle" /\ Fault
    /\ \E s \in Sessions : ~Locked(s) /\ revoked' = revoked \cup {s}
    /\ UNCHANGED <<redis, connection, call>>

\* hub.DisconnectSession
DisconnectSession(x) ==
    /\ call[x].step = "local"
    /\ RemoveClients({c \in Connections : /\ session[c] = call[x].session
                                          /\ Home[c] = Home[x]})
    /\ call' = [call EXCEPT ![x].step = "members"]
    /\ UNCHANGED <<revoked, redis, step, session, replaced, locked,
                   refreshing, faults>>

\* PrepareDeliveryBatch; a user's sessions are looked up independently.
StartLookup(x) ==
    /\ call[x].step = "idle"
    /\ \E s \in Sessions :
           call' = [call EXCEPT ![x].step = "members", ![x].session = s]
    /\ UNCHANGED <<revoked, redis, connection, faults>>

\* A lookup has no more to do; a revocation disconnects what it has found.
Returned(x, c) ==
    IF x \in Lookups THEN NoCall
    ELSE [call[x] EXCEPT !.step = IF c = None THEN "done" ELSE "send", !.found = c]

ReadMembers(x) ==
    /\ call[x].step = "members"
    /\ call' = [call EXCEPT ![x] = IF call[x].session \in index
                                     THEN [@ EXCEPT !.step = "values"]
                                     ELSE Returned(x, None)]
    /\ UNCHANGED <<revoked, redis, connection, faults>>

ReadValues(x) ==
    /\ call[x].step = "values"
    /\ LET c == presence[call[x].session] IN
           call' = [call EXCEPT ![x] = IF c = None
                                         THEN [@ EXCEPT !.step = "prune"]
                                         ELSE Returned(x, c)]
    /\ UNCHANGED <<revoked, redis, connection, faults>>

\* removeStaleMembersForUsers, whose errors are ignored
RemoveStaleMembers(x) ==
    /\ call[x].step = "prune"
    /\ \/ index' = index \ {call[x].session} /\ UNCHANGED faults
       \/ Fault /\ UNCHANGED index
    /\ call' = [call EXCEPT ![x] = Returned(x, None)]
    /\ UNCHANGED <<revoked, presence, commands, connection>>

LookupFails(x) ==
    /\ call[x].step \in {"members", "values"} /\ Fault
    /\ call' = [call EXCEPT ![x] = Returned(x, None)]
    /\ UNCHANGED <<revoked, redis, connection>>

DisconnectFound(x) ==
    /\ call[x].step = "send"
    /\ \/ DisconnectReplaced(call[x].found, Home[x]) /\ UNCHANGED faults
       \/ UNCHANGED <<commands, hub, down>> /\ Fault
    /\ call' = [call EXCEPT ![x].step = "done"]
    /\ UNCHANGED <<revoked, presence, index, step, session, replaced,
                   locked, refreshing>>
-----------------------------------------------------------------------------
(* Commands, time and faults                                               *)

\* handleCommand, or the instance was not subscribed
ReceiveCommand(c) ==
    /\ c \in commands
    /\ commands' = commands \ {c}
    /\ \/ RemoveClients({c}) /\ UNCHANGED faults
       \/ Fault /\ UNCHANGED <<hub, down>>
    /\ UNCHANGED <<revoked, presence, index, step, session, replaced,
                   locked, refreshing, call>>

\* The TTL of a record passes that nobody renews.
ExpireRecord(s) ==
    /\ presence[s] # None
    /\ step[presence[s]] = "closed" /\ presence[s] \notin refreshing
    /\ presence' = [presence EXCEPT ![s] = None]
    /\ UNCHANGED <<revoked, index, commands, connection, call, faults>>

\* The TTL of the index is set with that of every record.
ExpireIndex ==
    /\ index # {} /\ \A s \in Sessions : presence[s] = None
    /\ index' = {}
    /\ UNCHANGED <<revoked, presence, commands, connection, call, faults>>

\* Redis loses a record, alone or with the index, or its renewals fail for
\* the whole TTL.
LoseRecord(s) ==
    /\ presence[s] # None /\ Fault
    /\ presence' = [presence EXCEPT ![s] = None]
    /\ index' \in {index, index \ {s}}
    /\ UNCHANGED <<revoked, commands, connection, call>>

\* An instance dies with its hub, its handshakes and its requests.
Crash(i) ==
    LET lost == {c \in Connections : Home[c] = i /\ step[c] # "new"} IN
    /\ Fault
    /\ step' = [c \in Connections |-> IF c \in lost THEN "closed" ELSE step[c]]
    /\ hub' = hub \ lost
    /\ down' = down \cup lost
    /\ locked' = locked \ lost
    /\ call' = [x \in Revokers \cup Lookups |->
                  IF x \in Revokers /\ Home[x] = i /\ call[x].step # "idle"
                    THEN [call[x] EXCEPT !.step = "done"] ELSE call[x]]
    /\ UNCHANGED <<revoked, redis, session, replaced, refreshing>>
-----------------------------------------------------------------------------
(* The specification                                                       *)

Init ==
    /\ revoked = {}
    /\ presence = [s \in Sessions |-> None]
    /\ index = {}
    /\ commands = {}
    /\ hub = {}
    /\ step = [c \in Connections |-> "new"]
    /\ session = [c \in Connections |-> None]
    /\ replaced = [c \in Connections |-> None]
    /\ down = {}
    /\ locked = {}
    /\ refreshing = {}
    /\ call = [x \in Revokers \cup Lookups |-> NoCall]
    /\ faults = 0

\* What the goroutine of a connection does next, whatever happens to it.
Serve(c) ==
    \/ LockSession(c) \/ Register(c) \/ RegisterPresence(c) \/ DisconnectOld(c)
    \/ Commit(c) \/ CommitFails(c) \/ Stop(c) \/ Withdraw(c)

HandshakeFails(c) == RejectHandshake(c) \/ LoseLock(c) \/ RegisterPresenceFails(c)

Lookup(x) ==
    \/ ReadMembers(x) \/ ReadValues(x) \/ RemoveStaleMembers(x) \/ LookupFails(x)

Revocation(x) == DisconnectSession(x) \/ Lookup(x) \/ DisconnectFound(x)

Next ==
    \/ \E c \in Connections :
           \/ Accept(c) \/ Serve(c) \/ HandshakeFails(c) \/ Leave(c)
           \/ CheckSession(c) \/ StartRefresh(c) \/ Refresh(c) \/ RefreshFails(c)
           \/ ReceiveCommand(c)
    \/ \E x \in Revokers : RevokeSession(x) \/ RevokeUnanswered(x) \/ Revocation(x)
    \/ \E x \in Lookups : StartLookup(x) \/ Lookup(x)
    \/ \E s \in Sessions : ExpireRecord(s) \/ LoseRecord(s)
    \/ ExpireIndex
    \/ \E i \in Instances : Crash(i)

\* Goroutines run, tickers fire, calls end; whether clients connect, leave or
\* are looked up is open, and nothing is assumed of commands.
Fairness ==
    /\ \A c \in Connections :
           /\ WF_vars(Serve(c)) /\ WF_vars(CheckSession(c))
           /\ WF_vars(StartRefresh(c)) /\ WF_vars(Refresh(c))
    /\ \A x \in Revokers : WF_vars(Revocation(x))
    /\ \A x \in Lookups : WF_vars(Lookup(x))

Spec == Init /\ [][Next]_vars
FairSpec == Spec /\ Fairness
-----------------------------------------------------------------------------
(* Properties                                                              *)

\* Every variable has its type; a handshake replaces a connection of the same
\* session, never itself.
TypeOK ==
    /\ revoked \subseteq Sessions
    /\ presence \in [Sessions -> Connections \cup {None}]
    /\ index \subseteq Sessions
    /\ commands \subseteq Connections
    /\ hub \subseteq Connections
    /\ step \in [Connections -> Steps]
    /\ session \in [Connections -> Sessions \cup {None}]
    /\ replaced \in [Connections -> Connections \cup {None}]
    /\ \A c \in Connections : step[c] = "replace" =>
           replaced[c] \in Connections \ {c} /\ session[replaced[c]] = session[c]
    /\ down \subseteq Connections
    /\ locked \subseteq Connections
    /\ refreshing \subseteq Connections
    /\ call \in [Revokers \cup Lookups -> Call]
    /\ faults \in 0..MaxFaults

\* "Logout either wins this lock and rejects the handshake, or sees the
\* registered connection": once the request that revokes a session has gone
\* through the hub of its instance, no connection of the session is served
\* there, whatever was being registered and whatever failed.
RevocationSeesHandshakes ==
    \A x \in Revokers, c \in Connections :
        /\ call[x].step \in CallSteps \ {"idle", "local"}
        /\ session[c] = call[x].session /\ Home[c] = Home[x]
        /\ step[c] = "serving"
        => c \in down

\* The hub knows exactly the connections it should: a client that is served
\* gets what is published, and none is left behind by a handshake that failed
\* or a connection that ended.
HubMatchesConnections ==
    \A c \in Connections :
        /\ step[c] = "serving" /\ c \notin down => c \in hub
        /\ c \in hub => step[c] \in {"presence", "replace", "commit", "serving"}

\* The connection that owns a session loses its record only to a newer handshake
\* of the session, by its own end, or by a fault: a refresh or a withdrawal of an
\* older connection, however late its script runs, takes it from nobody.
OwnershipKept ==
    [][ \A s \in Sessions :
          presence[s] # None /\ presence'[s] # presence[s] =>
              \/ /\ presence'[s] \in Connections
                 /\ step[presence'[s]] = "presence" /\ session[presence'[s]] = s
              \/ /\ presence'[s] = None
                 /\ step[presence[s]] \in {"withdraw", "closed"} \/ faults' = faults + 1 ]_vars

\* No connection outlives its session, although commands get lost, lookups
\* miss it and Redis fails (maintainWebSocketSession).
RevokedCloses ==
    \A c \in Connections :
        session[c] \in revoked ~> step[c] = "closed"

\* A session does not keep two connections: the one that does not own the
\* record finds out when it refreshes (maintainWebSocketPresence).
OneSurvives ==
    \A c, d \in Connections :
        (c # d /\ step[c] = "serving" /\ step[d] = "serving"
           /\ session[c] = session[d])
        ~> (step[c] # "serving" \/ step[d] # "serving")

\* A lookup that races with a registration may remove the session from the
\* index; the session of a connection that stays gets back into it.
IndexRestored ==
    \A c \in Connections :
        step[c] = "serving" ~> (step[c] # "serving" \/ session[c] \in index)
-----------------------------------------------------------------------------
(* The inductive invariant of the safety properties                        *)

\* A connection has its session from Accept on, and nothing before.
SessionsKnown ==
    \A c \in Connections :
        /\ step[c] = "new" => session[c] = None /\ c \notin locked \cup refreshing
        /\ step[c] # "new" => session[c] \in Sessions

\* A record names a connection of its session.
RecordsMatch ==
    \A s \in Sessions : presence[s] # None => session[presence[s]] = s

\* A handshake that goes on has its client in the hub.
HandshakesInHub ==
    \A c \in Connections :
        step[c] \in {"presence", "replace", "commit"} /\ c \notin down => c \in hub

\* A locked row is that of a session that is not revoked.
LocksProtect ==
    \A c \in locked : step[c] \in Handshake /\ session[c] \notin revoked

\* A revocation has happened before its request goes on.
CallsFollowRevocation ==
    \A x \in Revokers \cup Lookups :
        /\ call[x].step # "idle" => call[x].session \in Sessions
        /\ call[x].step = "send" => call[x].found \in Connections
        /\ call[x].step \notin {"idle", "members", "values", "prune"} => x \in Revokers
        /\ x \in Revokers /\ call[x].step # "idle" => call[x].session \in revoked

IInv ==
    /\ TypeOK
    /\ SessionsKnown
    /\ RecordsMatch
    /\ LocksProtect
    /\ CallsFollowRevocation
    /\ HandshakesInHub
    /\ HubMatchesConnections
    /\ RevocationSeesHandshakes
=============================================================================
