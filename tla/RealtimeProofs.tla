-------------------------- MODULE RealtimeProofs --------------------------
(***************************************************************************)
(* Proofs about the safety of Realtime, for any number of connections,     *)
(* sessions, instances, revocations, lookups and faults.                   *)
(***************************************************************************)
EXTENDS Realtime, TLAPS

USE RealtimeAssumption

\* What the actions are built from.
USE DEF Goto, Fault, CallFails, redis, connection

-----------------------------------------------------------------------------
(* Each action keeps the types, what connections and calls know of their    *)
(* sessions, and what the hub has to do with them.                         *)

\* The handshake, and the end of a connection.
LEMMA ServeKeeps ==
    ASSUME IInv, NEW c \in Connections, Serve(c)
    PROVE  IInv'
<1> USE DEF IInv
<1>1. CASE LockSession(c)
  <2>1. TypeOK'
    BY <1>1 DEF LockSession, TypeOK, Steps, Handshake, CallSteps, Call,
       SessionsKnown, RecordsMatch, CallsFollowRevocation
  <2>2. SessionsKnown' /\ RecordsMatch' /\ LocksProtect' /\ CallsFollowRevocation'
    BY <1>1 DEF LockSession, TypeOK, SessionsKnown, RecordsMatch,
       LocksProtect, Handshake, CallsFollowRevocation
  <2>3. HandshakesInHub' /\ HubMatchesConnections' /\ RevocationSeesHandshakes'
    BY <1>1 DEF LockSession, TypeOK, HandshakesInHub, HubMatchesConnections,
       RevocationSeesHandshakes, LocksProtect, CallsFollowRevocation,
       Handshake, CallSteps
  <2> QED BY <2>1, <2>2, <2>3
<1>2. CASE Register(c)
  <2>1. TypeOK'
    BY <1>2 DEF Register, TypeOK, Steps, Handshake, CallSteps, Call,
       SessionsKnown, RecordsMatch, CallsFollowRevocation
  <2>2. SessionsKnown' /\ RecordsMatch' /\ LocksProtect' /\ CallsFollowRevocation'
    BY <1>2 DEF Register, TypeOK, SessionsKnown, RecordsMatch, LocksProtect,
       Handshake, CallsFollowRevocation
  <2>3. HandshakesInHub' /\ HubMatchesConnections' /\ RevocationSeesHandshakes'
    BY <1>2 DEF Register, TypeOK, HandshakesInHub, HubMatchesConnections,
       RevocationSeesHandshakes, LocksProtect, CallsFollowRevocation,
       Handshake, CallSteps
  <2> QED BY <2>1, <2>2, <2>3
<1>3. CASE RegisterPresence(c)
  <2>1. TypeOK'
    BY <1>3 DEF RegisterPresence, SetRecord, TypeOK, Steps, Handshake,
       CallSteps, Call, SessionsKnown, RecordsMatch, CallsFollowRevocation
  <2>2. SessionsKnown' /\ RecordsMatch' /\ LocksProtect' /\ CallsFollowRevocation'
    BY <1>3 DEF RegisterPresence, SetRecord, TypeOK, SessionsKnown,
       RecordsMatch, LocksProtect, Handshake, CallsFollowRevocation
  <2>3. HandshakesInHub' /\ HubMatchesConnections' /\ RevocationSeesHandshakes'
    BY <1>3 DEF RegisterPresence, SetRecord, TypeOK, HandshakesInHub,
       HubMatchesConnections, RevocationSeesHandshakes, LocksProtect,
       CallsFollowRevocation, Handshake, CallSteps
  <2> QED BY <2>1, <2>2, <2>3
<1>4. CASE DisconnectOld(c)
  <2>1. TypeOK'
    BY <1>4 DEF DisconnectOld, DisconnectReplaced, RemoveClients, TypeOK,
       Steps, Handshake, CallSteps, Call, SessionsKnown, RecordsMatch,
       CallsFollowRevocation
  <2>2. SessionsKnown' /\ RecordsMatch' /\ LocksProtect' /\ CallsFollowRevocation'
    BY <1>4 DEF DisconnectOld, DisconnectReplaced, RemoveClients, TypeOK,
       SessionsKnown, RecordsMatch, LocksProtect, Handshake,
       CallsFollowRevocation
  <2>3. HandshakesInHub' /\ HubMatchesConnections' /\ RevocationSeesHandshakes'
    BY <1>4 DEF DisconnectOld, DisconnectReplaced, RemoveClients, TypeOK,
       HandshakesInHub, HubMatchesConnections, RevocationSeesHandshakes,
       LocksProtect, CallsFollowRevocation, Handshake, CallSteps
  <2> QED BY <2>1, <2>2, <2>3
<1>5. CASE Commit(c)
  <2>1. TypeOK'
    BY <1>5 DEF Commit, TypeOK, Steps, Handshake, CallSteps, Call,
       SessionsKnown, RecordsMatch, CallsFollowRevocation
  <2>2. SessionsKnown' /\ RecordsMatch' /\ LocksProtect' /\ CallsFollowRevocation'
    BY <1>5 DEF Commit, TypeOK, SessionsKnown, RecordsMatch, LocksProtect,
       Handshake, CallsFollowRevocation
  <2>3. HandshakesInHub' /\ HubMatchesConnections' /\ RevocationSeesHandshakes'
    BY <1>5 DEF Commit, TypeOK, HandshakesInHub, HubMatchesConnections,
       RevocationSeesHandshakes, LocksProtect, CallsFollowRevocation,
       Handshake, CallSteps
  <2> QED BY <2>1, <2>2, <2>3
<1>6. CASE CommitFails(c)
  <2>1. TypeOK'
    BY <1>6 DEF CommitFails, TypeOK, Steps, Handshake, CallSteps, Call,
       SessionsKnown, RecordsMatch, CallsFollowRevocation
  <2>2. SessionsKnown' /\ RecordsMatch' /\ LocksProtect' /\ CallsFollowRevocation'
    BY <1>6 DEF CommitFails, TypeOK, SessionsKnown, RecordsMatch,
       LocksProtect, Handshake, CallsFollowRevocation
  <2>3. HandshakesInHub' /\ HubMatchesConnections' /\ RevocationSeesHandshakes'
    BY <1>6 DEF CommitFails, TypeOK, HandshakesInHub, HubMatchesConnections,
       RevocationSeesHandshakes, LocksProtect, CallsFollowRevocation,
       Handshake, CallSteps
  <2> QED BY <2>1, <2>2, <2>3
<1>7. CASE Stop(c)
  <2>1. TypeOK'
    BY <1>7 DEF Stop, Finish, TypeOK, Steps, Handshake, CallSteps, Call,
       SessionsKnown, RecordsMatch, CallsFollowRevocation
  <2>2. SessionsKnown' /\ RecordsMatch' /\ LocksProtect' /\ CallsFollowRevocation'
    BY <1>7 DEF Stop, Finish, TypeOK, SessionsKnown, RecordsMatch,
       LocksProtect, Handshake, CallsFollowRevocation
  <2>3. HandshakesInHub' /\ HubMatchesConnections' /\ RevocationSeesHandshakes'
    BY <1>7 DEF Stop, Finish, TypeOK, HandshakesInHub, HubMatchesConnections,
       RevocationSeesHandshakes, LocksProtect, CallsFollowRevocation,
       Handshake, CallSteps
  <2> QED BY <2>1, <2>2, <2>3
<1>8. CASE Withdraw(c)
  <2>1. TypeOK'
    BY <1>8 DEF Withdraw, TypeOK, Steps, Handshake, CallSteps, Call,
       SessionsKnown, RecordsMatch, CallsFollowRevocation
  <2>2. SessionsKnown' /\ RecordsMatch' /\ LocksProtect' /\ CallsFollowRevocation'
    BY <1>8 DEF Withdraw, TypeOK, SessionsKnown, RecordsMatch, LocksProtect,
       Handshake, CallsFollowRevocation
  <2>3. HandshakesInHub' /\ HubMatchesConnections' /\ RevocationSeesHandshakes'
    BY <1>8 DEF Withdraw, TypeOK, HandshakesInHub, HubMatchesConnections,
       RevocationSeesHandshakes, LocksProtect, CallsFollowRevocation,
       Handshake, CallSteps
  <2> QED BY <2>1, <2>2, <2>3
<1> QED BY <1>1, <1>2, <1>3, <1>4, <1>5, <1>6, <1>7, <1>8 DEF Serve

\* A handshake that meets a failing database or Redis.
LEMMA HandshakeFailsKeeps ==
    ASSUME IInv, NEW c \in Connections, HandshakeFails(c)
    PROVE  IInv'
<1> USE DEF IInv
<1>1. CASE RejectHandshake(c)
  <2>1. TypeOK'
    BY <1>1 DEF RejectHandshake, TypeOK, Steps, Handshake, CallSteps, Call,
       SessionsKnown, RecordsMatch, CallsFollowRevocation
  <2>2. SessionsKnown' /\ RecordsMatch' /\ LocksProtect' /\ CallsFollowRevocation'
    BY <1>1 DEF RejectHandshake, TypeOK, SessionsKnown, RecordsMatch, LocksProtect,
       Handshake, CallsFollowRevocation
  <2>3. HandshakesInHub' /\ HubMatchesConnections' /\ RevocationSeesHandshakes'
    BY <1>1 DEF RejectHandshake, TypeOK, HandshakesInHub, HubMatchesConnections,
       RevocationSeesHandshakes, LocksProtect, CallsFollowRevocation,
       Handshake, CallSteps
  <2> QED BY <2>1, <2>2, <2>3
<1>2. CASE LoseLock(c)
  <2>1. TypeOK'
    BY <1>2 DEF LoseLock, TypeOK, Steps, Handshake, CallSteps, Call,
       SessionsKnown, RecordsMatch, CallsFollowRevocation
  <2>2. SessionsKnown' /\ RecordsMatch' /\ LocksProtect' /\ CallsFollowRevocation'
    BY <1>2 DEF LoseLock, TypeOK, SessionsKnown, RecordsMatch, LocksProtect,
       Handshake, CallsFollowRevocation
  <2>3. HandshakesInHub' /\ HubMatchesConnections' /\ RevocationSeesHandshakes'
    BY <1>2 DEF LoseLock, TypeOK, HandshakesInHub, HubMatchesConnections,
       RevocationSeesHandshakes, LocksProtect, CallsFollowRevocation,
       Handshake, CallSteps
  <2> QED BY <2>1, <2>2, <2>3
<1>3. CASE RegisterPresenceFails(c)
  <2>1. TypeOK'
    BY <1>3 DEF RegisterPresenceFails, SetRecord, TypeOK, Steps, Handshake,
       CallSteps, Call, SessionsKnown, RecordsMatch, CallsFollowRevocation
  <2>2. SessionsKnown' /\ RecordsMatch' /\ LocksProtect' /\ CallsFollowRevocation'
    BY <1>3 DEF RegisterPresenceFails, SetRecord, TypeOK, SessionsKnown,
       RecordsMatch, LocksProtect, Handshake, CallsFollowRevocation
  <2>3. HandshakesInHub' /\ HubMatchesConnections' /\ RevocationSeesHandshakes'
    BY <1>3 DEF RegisterPresenceFails, SetRecord, TypeOK, HandshakesInHub,
       HubMatchesConnections, RevocationSeesHandshakes, LocksProtect,
       CallsFollowRevocation, Handshake, CallSteps
  <2> QED BY <2>1, <2>2, <2>3
<1> QED BY <1>1, <1>2, <1>3 DEF HandshakeFails

\* What else happens to a connection.
LEMMA ConnectionKeeps ==
    ASSUME IInv, NEW c \in Connections,
           \/ Accept(c) \/ Leave(c) \/ CheckSession(c) \/ StartRefresh(c)
           \/ Refresh(c) \/ RefreshFails(c) \/ ReceiveCommand(c)
    PROVE  IInv'
<1> USE DEF IInv
<1>1. CASE Accept(c)
  <2>1. TypeOK'
    BY <1>1 DEF Accept, TypeOK, Steps, Handshake, CallSteps, Call,
       SessionsKnown, RecordsMatch, CallsFollowRevocation
  <2>2. SessionsKnown' /\ RecordsMatch' /\ LocksProtect' /\ CallsFollowRevocation'
    BY <1>1 DEF Accept, TypeOK, SessionsKnown, RecordsMatch, LocksProtect,
       Handshake, CallsFollowRevocation
  <2>3. HandshakesInHub' /\ HubMatchesConnections' /\ RevocationSeesHandshakes'
    BY <1>1 DEF Accept, TypeOK, HandshakesInHub, HubMatchesConnections,
       RevocationSeesHandshakes, LocksProtect, CallsFollowRevocation,
       Handshake, CallSteps
  <2> QED BY <2>1, <2>2, <2>3
<1>2. CASE Leave(c)
  <2>1. TypeOK'
    BY <1>2 DEF Leave, Finish, TypeOK, Steps, Handshake, CallSteps, Call,
       SessionsKnown, RecordsMatch, CallsFollowRevocation
  <2>2. SessionsKnown' /\ RecordsMatch' /\ LocksProtect' /\ CallsFollowRevocation'
    BY <1>2 DEF Leave, Finish, TypeOK, SessionsKnown, RecordsMatch,
       LocksProtect, Handshake, CallsFollowRevocation
  <2>3. HandshakesInHub' /\ HubMatchesConnections' /\ RevocationSeesHandshakes'
    BY <1>2 DEF Leave, Finish, TypeOK, HandshakesInHub, HubMatchesConnections,
       RevocationSeesHandshakes, LocksProtect, CallsFollowRevocation,
       Handshake, CallSteps
  <2> QED BY <2>1, <2>2, <2>3
<1>3. CASE CheckSession(c)
  <2>1. TypeOK'
    BY <1>3 DEF CheckSession, TypeOK, Steps, Handshake, CallSteps, Call,
       SessionsKnown, RecordsMatch, CallsFollowRevocation
  <2>2. SessionsKnown' /\ RecordsMatch' /\ LocksProtect' /\ CallsFollowRevocation'
    BY <1>3 DEF CheckSession, TypeOK, SessionsKnown, RecordsMatch,
       LocksProtect, Handshake, CallsFollowRevocation
  <2>3. HandshakesInHub' /\ HubMatchesConnections' /\ RevocationSeesHandshakes'
    BY <1>3 DEF CheckSession, TypeOK, HandshakesInHub, HubMatchesConnections,
       RevocationSeesHandshakes, LocksProtect, CallsFollowRevocation,
       Handshake, CallSteps
  <2> QED BY <2>1, <2>2, <2>3
<1>4. CASE StartRefresh(c)
  <2>1. TypeOK'
    BY <1>4 DEF StartRefresh, TypeOK, Steps, Handshake, CallSteps, Call,
       SessionsKnown, RecordsMatch, CallsFollowRevocation
  <2>2. SessionsKnown' /\ RecordsMatch' /\ LocksProtect' /\ CallsFollowRevocation'
    BY <1>4 DEF StartRefresh, TypeOK, SessionsKnown, RecordsMatch,
       LocksProtect, Handshake, CallsFollowRevocation
  <2>3. HandshakesInHub' /\ HubMatchesConnections' /\ RevocationSeesHandshakes'
    BY <1>4 DEF StartRefresh, TypeOK, HandshakesInHub, HubMatchesConnections,
       RevocationSeesHandshakes, LocksProtect, CallsFollowRevocation,
       Handshake, CallSteps
  <2> QED BY <2>1, <2>2, <2>3
<1>5. CASE Refresh(c)
  <2>1. TypeOK'
    BY <1>5 DEF Refresh, SetRecord, RemoveClients, TypeOK, Steps, Handshake,
       CallSteps, Call, SessionsKnown, RecordsMatch, CallsFollowRevocation
  <2>2. SessionsKnown' /\ RecordsMatch' /\ LocksProtect' /\ CallsFollowRevocation'
    BY <1>5 DEF Refresh, SetRecord, RemoveClients, TypeOK, SessionsKnown,
       RecordsMatch, LocksProtect, Handshake, CallsFollowRevocation
  <2>3. HandshakesInHub' /\ HubMatchesConnections' /\ RevocationSeesHandshakes'
    BY <1>5 DEF Refresh, SetRecord, RemoveClients, TypeOK, HandshakesInHub,
       HubMatchesConnections, RevocationSeesHandshakes, LocksProtect,
       CallsFollowRevocation, Handshake, CallSteps
  <2> QED BY <2>1, <2>2, <2>3
<1>6. CASE RefreshFails(c)
  <2>1. TypeOK'
    BY <1>6 DEF RefreshFails, SetRecord, TypeOK, Steps, Handshake, CallSteps, Call,
       SessionsKnown, RecordsMatch, CallsFollowRevocation
  <2>2. SessionsKnown' /\ RecordsMatch' /\ LocksProtect' /\ CallsFollowRevocation'
    BY <1>6 DEF RefreshFails, SetRecord, TypeOK, SessionsKnown, RecordsMatch,
       LocksProtect, Handshake, CallsFollowRevocation
  <2>3. HandshakesInHub' /\ HubMatchesConnections' /\ RevocationSeesHandshakes'
    BY <1>6 DEF RefreshFails, SetRecord, TypeOK, HandshakesInHub, HubMatchesConnections,
       RevocationSeesHandshakes, LocksProtect, CallsFollowRevocation,
       Handshake, CallSteps
  <2> QED BY <2>1, <2>2, <2>3
<1>7. CASE ReceiveCommand(c)
  <2>1. TypeOK'
    BY <1>7 DEF ReceiveCommand, RemoveClients, TypeOK, Steps, Handshake,
       CallSteps, Call, SessionsKnown, RecordsMatch, CallsFollowRevocation
  <2>2. SessionsKnown' /\ RecordsMatch' /\ LocksProtect' /\ CallsFollowRevocation'
    BY <1>7 DEF ReceiveCommand, RemoveClients, TypeOK, SessionsKnown,
       RecordsMatch, LocksProtect, Handshake, CallsFollowRevocation
  <2>3. HandshakesInHub' /\ HubMatchesConnections' /\ RevocationSeesHandshakes'
    BY <1>7 DEF ReceiveCommand, RemoveClients, TypeOK, HandshakesInHub,
       HubMatchesConnections, RevocationSeesHandshakes, LocksProtect,
       CallsFollowRevocation, Handshake, CallSteps
  <2> QED BY <2>1, <2>2, <2>3
<1> QED BY <1>1, <1>2, <1>3, <1>4, <1>5, <1>6, <1>7

\* A lookup goes on with a call that has its type.
LEMMA ReturnedIsCall ==
    ASSUME IInv, NEW x \in Revokers \cup Lookups, NEW c \in Connections \cup {None}
    PROVE  /\ Returned(x, c) \in Call /\ NoCall \in Call
           /\ [call[x] EXCEPT !.step = "values"] \in Call
           /\ [call[x] EXCEPT !.step = "prune"] \in Call
<1>1. call[x] \in Call
  BY DEF IInv, TypeOK
<1> QED BY <1>1 DEF Returned, NoCall, Call, CallSteps

\* The round trips of a lookup.
LEMMA LookupKeeps ==
    ASSUME IInv, NEW x \in Revokers \cup Lookups, Lookup(x)
    PROVE  IInv'
<1> USE DEF IInv
<1>1. CASE ReadMembers(x)
  <2>0. call' \in [Revokers \cup Lookups -> Call]
    BY <1>1, ReturnedIsCall DEF ReadMembers, TypeOK, Call, CallSteps
  <2>1. TypeOK'
    BY <1>1, <2>0 DEF ReadMembers, TypeOK
  <2>2. SessionsKnown' /\ RecordsMatch' /\ LocksProtect' /\ CallsFollowRevocation'
    BY <1>1 DEF ReadMembers, Returned, NoCall, TypeOK, SessionsKnown,
       RecordsMatch, LocksProtect, Handshake, CallsFollowRevocation
  <2>3. HandshakesInHub' /\ HubMatchesConnections' /\ RevocationSeesHandshakes'
    BY <1>1 DEF ReadMembers, Returned, NoCall, TypeOK, HandshakesInHub,
       HubMatchesConnections, RevocationSeesHandshakes, LocksProtect,
       CallsFollowRevocation, Handshake, CallSteps
  <2> QED BY <2>1, <2>2, <2>3
<1>2. CASE ReadValues(x)
  <2> DEFINE c == presence[call[x].session]
  <2>a. call[x].session \in Sessions
    BY <1>2 DEF ReadValues, CallsFollowRevocation
  <2>b. c \in Connections \cup {None}
    BY <2>a DEF TypeOK
  <2>c. (IF c = None THEN [call[x] EXCEPT !.step = "prune"] ELSE Returned(x, c)) \in Call
    <3> HIDE DEF c
    <3> QED BY <2>b, ReturnedIsCall
  <2>0. call' \in [Revokers \cup Lookups -> Call]
    BY <1>2, <2>c DEF ReadValues, TypeOK
  <2>1. TypeOK'
    BY <1>2, <2>0 DEF ReadValues, TypeOK
  <2>2. SessionsKnown' /\ RecordsMatch' /\ LocksProtect' /\ CallsFollowRevocation'
    BY <1>2 DEF ReadValues, Returned, NoCall, TypeOK, SessionsKnown,
       RecordsMatch, LocksProtect, Handshake, CallsFollowRevocation
  <2>3. HandshakesInHub' /\ HubMatchesConnections' /\ RevocationSeesHandshakes'
    BY <1>2 DEF ReadValues, Returned, NoCall, TypeOK, HandshakesInHub,
       HubMatchesConnections, RevocationSeesHandshakes, LocksProtect,
       CallsFollowRevocation, Handshake, CallSteps
  <2> QED BY <2>1, <2>2, <2>3
<1>3. CASE RemoveStaleMembers(x)
  <2>0. call' \in [Revokers \cup Lookups -> Call]
    BY <1>3, ReturnedIsCall DEF RemoveStaleMembers, TypeOK, Call, CallSteps
  <2>1. TypeOK'
    BY <1>3, <2>0 DEF RemoveStaleMembers, TypeOK
  <2>2. SessionsKnown' /\ RecordsMatch' /\ LocksProtect' /\ CallsFollowRevocation'
    BY <1>3 DEF RemoveStaleMembers, Returned, NoCall, TypeOK, SessionsKnown,
       RecordsMatch, LocksProtect, Handshake, CallsFollowRevocation
  <2>3. HandshakesInHub' /\ HubMatchesConnections' /\ RevocationSeesHandshakes'
    BY <1>3 DEF RemoveStaleMembers, Returned, NoCall, TypeOK, HandshakesInHub,
       HubMatchesConnections, RevocationSeesHandshakes, LocksProtect,
       CallsFollowRevocation, Handshake, CallSteps
  <2> QED BY <2>1, <2>2, <2>3
<1>4. CASE LookupFails(x)
  <2>0. call' \in [Revokers \cup Lookups -> Call]
    BY <1>4, ReturnedIsCall DEF LookupFails, TypeOK, Call, CallSteps
  <2>1. TypeOK'
    BY <1>4, <2>0 DEF LookupFails, TypeOK
  <2>2. SessionsKnown' /\ RecordsMatch' /\ LocksProtect' /\ CallsFollowRevocation'
    BY <1>4 DEF LookupFails, Returned, NoCall, TypeOK, SessionsKnown,
       RecordsMatch, LocksProtect, Handshake, CallsFollowRevocation
  <2>3. HandshakesInHub' /\ HubMatchesConnections' /\ RevocationSeesHandshakes'
    BY <1>4 DEF LookupFails, Returned, NoCall, TypeOK, HandshakesInHub,
       HubMatchesConnections, RevocationSeesHandshakes, LocksProtect,
       CallsFollowRevocation, Handshake, CallSteps
  <2> QED BY <2>1, <2>2, <2>3
<1> QED BY <1>1, <1>2, <1>3, <1>4 DEF Lookup

\* A revocation and what it disconnects.
LEMMA RevocationKeeps ==
    ASSUME IInv, NEW x \in Revokers,
           \/ RevokeSession(x) \/ RevokeUnanswered(x)
           \/ DisconnectSession(x) \/ DisconnectFound(x)
    PROVE  IInv'
<1> USE DEF IInv
<1>1. CASE RevokeSession(x)
  <2>1. TypeOK'
    BY <1>1 DEF RevokeSession, Locked, TypeOK, Steps, Handshake, CallSteps,
       Call, SessionsKnown, RecordsMatch, CallsFollowRevocation
  <2>2. SessionsKnown' /\ RecordsMatch' /\ LocksProtect' /\ CallsFollowRevocation'
    BY <1>1 DEF RevokeSession, Locked, TypeOK, SessionsKnown, RecordsMatch,
       LocksProtect, Handshake, CallsFollowRevocation
  <2>3. HandshakesInHub' /\ HubMatchesConnections' /\ RevocationSeesHandshakes'
    BY <1>1 DEF RevokeSession, Locked, TypeOK, HandshakesInHub,
       HubMatchesConnections, RevocationSeesHandshakes, LocksProtect,
       CallsFollowRevocation, Handshake, CallSteps
  <2> QED BY <2>1, <2>2, <2>3
<1>2. CASE DisconnectSession(x)
  <2>1. TypeOK'
    BY <1>2 DEF DisconnectSession, RemoveClients, TypeOK, Steps, Handshake,
       CallSteps, Call, SessionsKnown, RecordsMatch, CallsFollowRevocation
  <2>2. SessionsKnown' /\ RecordsMatch' /\ LocksProtect' /\ CallsFollowRevocation'
    BY <1>2 DEF DisconnectSession, RemoveClients, TypeOK, SessionsKnown,
       RecordsMatch, LocksProtect, Handshake, CallsFollowRevocation
  <2>3. HandshakesInHub' /\ HubMatchesConnections' /\ RevocationSeesHandshakes'
    BY <1>2 DEF DisconnectSession, RemoveClients, TypeOK, HandshakesInHub,
       HubMatchesConnections, RevocationSeesHandshakes, LocksProtect,
       CallsFollowRevocation, Handshake, CallSteps
  <2> QED BY <2>1, <2>2, <2>3
<1>3. CASE DisconnectFound(x)
  <2>1. TypeOK'
    BY <1>3 DEF DisconnectFound, DisconnectReplaced, RemoveClients, TypeOK,
       Steps, Handshake, CallSteps, Call, SessionsKnown, RecordsMatch,
       CallsFollowRevocation
  <2>2. SessionsKnown' /\ RecordsMatch' /\ LocksProtect' /\ CallsFollowRevocation'
    BY <1>3 DEF DisconnectFound, DisconnectReplaced, RemoveClients, TypeOK,
       SessionsKnown, RecordsMatch, LocksProtect, Handshake,
       CallsFollowRevocation
  <2>3. HandshakesInHub' /\ HubMatchesConnections' /\ RevocationSeesHandshakes'
    BY <1>3 DEF DisconnectFound, DisconnectReplaced, RemoveClients, TypeOK,
       HandshakesInHub, HubMatchesConnections, RevocationSeesHandshakes,
       LocksProtect, CallsFollowRevocation, Handshake, CallSteps
  <2> QED BY <2>1, <2>2, <2>3
<1>4. CASE RevokeUnanswered(x)
  <2>1. TypeOK'
    BY <1>4 DEF RevokeUnanswered, TypeOK
  <2>2. SessionsKnown' /\ RecordsMatch' /\ LocksProtect' /\ CallsFollowRevocation'
    BY <1>4 DEF RevokeUnanswered, Locked, TypeOK, SessionsKnown, RecordsMatch,
       LocksProtect, CallsFollowRevocation
  <2>3. HandshakesInHub' /\ HubMatchesConnections' /\ RevocationSeesHandshakes'
    BY <1>4 DEF RevokeUnanswered, HandshakesInHub, HubMatchesConnections,
       RevocationSeesHandshakes
  <2> QED BY <2>1, <2>2, <2>3
<1> QED BY <1>1, <1>2, <1>3, <1>4

\* Lookups begin, records expire, instances crash.
LEMMA EnvironmentKeeps ==
    ASSUME IInv,
           \/ \E x \in Lookups : StartLookup(x)
           \/ \E s \in Sessions : ExpireRecord(s) \/ LoseRecord(s)
           \/ ExpireIndex
           \/ \E i \in Instances : Crash(i)
    PROVE  IInv'
<1> USE DEF IInv
<1>1. ASSUME NEW x \in Lookups, StartLookup(x) PROVE IInv'
  <2>0. call' \in [Revokers \cup Lookups -> Call]
    BY <1>1 DEF StartLookup, TypeOK, Call, CallSteps
  <2>1. TypeOK'
    BY <1>1, <2>0 DEF StartLookup, TypeOK
  <2>2. SessionsKnown' /\ RecordsMatch' /\ LocksProtect' /\ CallsFollowRevocation'
    BY <1>1 DEF StartLookup, TypeOK, SessionsKnown, RecordsMatch,
       LocksProtect, Handshake, CallsFollowRevocation
  <2>3. HandshakesInHub' /\ HubMatchesConnections' /\ RevocationSeesHandshakes'
    BY <1>1 DEF StartLookup, TypeOK, HandshakesInHub, HubMatchesConnections,
       RevocationSeesHandshakes, LocksProtect, CallsFollowRevocation,
       Handshake, CallSteps
  <2> QED BY <2>1, <2>2, <2>3
<1>2. ASSUME NEW s \in Sessions, ExpireRecord(s) PROVE IInv'
  <2>1. TypeOK'
    BY <1>2 DEF ExpireRecord, TypeOK, Steps, Handshake, CallSteps, Call,
       SessionsKnown, RecordsMatch, CallsFollowRevocation
  <2>2. SessionsKnown' /\ RecordsMatch' /\ LocksProtect' /\ CallsFollowRevocation'
    BY <1>2 DEF ExpireRecord, TypeOK, SessionsKnown, RecordsMatch,
       LocksProtect, Handshake, CallsFollowRevocation
  <2>3. HandshakesInHub' /\ HubMatchesConnections' /\ RevocationSeesHandshakes'
    BY <1>2 DEF ExpireRecord, TypeOK, HandshakesInHub, HubMatchesConnections,
       RevocationSeesHandshakes, LocksProtect, CallsFollowRevocation,
       Handshake, CallSteps
  <2> QED BY <2>1, <2>2, <2>3
<1>3. ASSUME NEW s \in Sessions, LoseRecord(s) PROVE IInv'
  <2>1. TypeOK'
    BY <1>3 DEF LoseRecord, TypeOK, Steps, Handshake, CallSteps, Call,
       SessionsKnown, RecordsMatch, CallsFollowRevocation
  <2>2. SessionsKnown' /\ RecordsMatch' /\ LocksProtect' /\ CallsFollowRevocation'
    BY <1>3 DEF LoseRecord, TypeOK, SessionsKnown, RecordsMatch, LocksProtect,
       Handshake, CallsFollowRevocation
  <2>3. HandshakesInHub' /\ HubMatchesConnections' /\ RevocationSeesHandshakes'
    BY <1>3 DEF LoseRecord, TypeOK, HandshakesInHub, HubMatchesConnections,
       RevocationSeesHandshakes, LocksProtect, CallsFollowRevocation,
       Handshake, CallSteps
  <2> QED BY <2>1, <2>2, <2>3
<1>4. ASSUME NEW i \in Instances, Crash(i) PROVE IInv'
  <2>1. TypeOK'
    BY <1>4 DEF Crash, TypeOK, Steps, Handshake, CallSteps, Call,
       SessionsKnown, RecordsMatch, CallsFollowRevocation
  <2>2. SessionsKnown' /\ RecordsMatch' /\ LocksProtect' /\ CallsFollowRevocation'
    BY <1>4 DEF Crash, TypeOK, SessionsKnown, RecordsMatch, LocksProtect,
       Handshake, CallsFollowRevocation
  <2>3. HandshakesInHub' /\ HubMatchesConnections' /\ RevocationSeesHandshakes'
    BY <1>4 DEF Crash, TypeOK, HandshakesInHub, HubMatchesConnections,
       RevocationSeesHandshakes, LocksProtect, CallsFollowRevocation,
       Handshake, CallSteps
  <2> QED BY <2>1, <2>2, <2>3
<1>5. CASE ExpireIndex
  BY <1>5 DEF ExpireIndex, TypeOK, SessionsKnown, RecordsMatch, LocksProtect,
     CallsFollowRevocation, HandshakesInHub, HubMatchesConnections,
     RevocationSeesHandshakes
<1> QED BY <1>1, <1>2, <1>3, <1>4, <1>5
-----------------------------------------------------------------------------
(* The theorems                                                            *)

\* Nobody is connected and nothing is announced yet.
LEMMA InitIInv == Init => IInv
<1>1. Init => TypeOK
  BY DEF Init, TypeOK, Steps, Call, CallSteps, NoCall
<1>2. Init => SessionsKnown /\ RecordsMatch /\ LocksProtect /\ CallsFollowRevocation
  BY DEF Init, SessionsKnown, RecordsMatch, LocksProtect, CallsFollowRevocation, NoCall
<1>3. Init => HandshakesInHub /\ HubMatchesConnections /\ RevocationSeesHandshakes
  BY DEF Init, HandshakesInHub, HubMatchesConnections, RevocationSeesHandshakes
<1> QED BY <1>1, <1>2, <1>3 DEF IInv

\* Every step of a connection, the router or Redis preserves the invariant.
LEMMA NextIInv == IInv /\ [Next]_vars => IInv'
<1> SUFFICES ASSUME IInv, [Next]_vars PROVE IInv'
  OBVIOUS
<1>1. CASE UNCHANGED vars
  BY <1>1 DEF vars, IInv, TypeOK, SessionsKnown, RecordsMatch, LocksProtect,
     CallsFollowRevocation, HandshakesInHub, HubMatchesConnections,
     RevocationSeesHandshakes
<1>2. CASE Next
  BY <1>2, ServeKeeps, HandshakeFailsKeeps, ConnectionKeeps, LookupKeeps,
     RevocationKeeps, EnvironmentKeeps DEF Next, Revocation
<1> QED BY <1>1, <1>2

\* What connections, records, locks and requests know of their sessions, and
\* the safety properties, hold in every reachable state.
THEOREM RealtimeInvariant == Spec => []IInv
  BY InitIInv, NextIInv, PTL DEF Spec

\* Type correctness: a handshake never disconnects itself or a connection of
\* another session.
THEOREM RealtimeTypes == Spec => []TypeOK
  BY RealtimeInvariant, PTL DEF IInv

\* No handshake escapes a revocation on its own instance, although locks get
\* lost, Redis fails and instances crash (the comment in serveWebSocket).
THEOREM RealtimeRevocationSeesHandshakes == Spec => []RevocationSeesHandshakes
  BY RealtimeInvariant, PTL DEF IInv

\* The hub holds every client that is served and none that is not.
THEOREM RealtimeHubMatchesConnections == Spec => []HubMatchesConnections
  BY RealtimeInvariant, PTL DEF IInv

\* No refresh or withdrawal of an older connection takes the record of a session
\* from the connection that owns it, however late its script runs.
THEOREM RealtimeOwnershipKept == Spec => OwnershipKept
<1> DEFINE Kept(s) ==
        presence[s] # None /\ presence'[s] # presence[s] =>
            \/ /\ presence'[s] \in Connections
               /\ step[presence'[s]] = "presence" /\ session[presence'[s]] = s
            \/ /\ presence'[s] = None
               /\ step[presence[s]] \in {"withdraw", "closed"} \/ faults' = faults + 1
<1>1. ASSUME IInv, [Next]_vars PROVE [\A s \in Sessions : Kept(s)]_vars
  <2> SUFFICES ASSUME NEW s \in Sessions, Next PROVE Kept(s)
    BY <1>1
  <2>0. TypeOK
    BY <1>1 DEF IInv
  <2>1. presence' = presence => Kept(s)
    OBVIOUS
  <2>2. ASSUME NEW c \in Connections, SetRecord(c),
               step[c] = "presence" \/ presence[session[c]] \in {None, c}
        PROVE  Kept(s)
    BY <2>0, <2>2 DEF SetRecord, TypeOK
  <2>3. ASSUME NEW c \in Connections, RegisterPresence(c) \/ RegisterPresenceFails(c)
        PROVE  Kept(s)
    <3>1. step[c] = "presence" /\ (SetRecord(c) \/ presence' = presence)
      BY <2>3 DEF RegisterPresence, RegisterPresenceFails
    <3> HIDE DEF Kept
    <3> QED BY <2>1, <2>2, <3>1
  <2>4. ASSUME NEW c \in Connections, Refresh(c) \/ RefreshFails(c) PROVE Kept(s)
    <3>1. \/ presence[session[c]] \in {None, c} /\ SetRecord(c)
          \/ presence' = presence
      BY <2>4 DEF Refresh, RefreshFails
    <3> HIDE DEF Kept
    <3> QED BY <2>1, <2>2, <3>1
  <2>5. ASSUME NEW c \in Connections, Withdraw(c) PROVE Kept(s)
    BY <2>0, <2>5 DEF Withdraw, TypeOK
  <2>6. ASSUME NEW r \in Sessions, ExpireRecord(r) \/ LoseRecord(r) PROVE Kept(s)
    BY <2>0, <2>6 DEF ExpireRecord, LoseRecord, Fault, TypeOK
  <2>7. ASSUME NEW c \in Connections,
               \/ Accept(c) \/ LockSession(c) \/ Register(c) \/ DisconnectOld(c)
               \/ Commit(c) \/ CommitFails(c) \/ Stop(c) \/ Leave(c)
               \/ RejectHandshake(c) \/ LoseLock(c)
               \/ CheckSession(c) \/ StartRefresh(c) \/ ReceiveCommand(c)
        PROVE  presence' = presence
    BY <2>7 DEF Accept, LockSession, Register, DisconnectOld, Commit, CommitFails, Stop,
                Leave, Finish, RejectHandshake, LoseLock, CheckSession, StartRefresh,
                ReceiveCommand, redis
  <2>8. ASSUME NEW x \in Revokers \cup Lookups,
               \/ RevokeSession(x) \/ RevokeUnanswered(x) \/ Revocation(x)
               \/ StartLookup(x) \/ Lookup(x)
        PROVE  presence' = presence
    BY <2>8 DEF RevokeSession, RevokeUnanswered, Revocation, StartLookup, Lookup,
                DisconnectSession, DisconnectFound, ReadMembers, ReadValues,
                RemoveStaleMembers, LookupFails, redis
  <2>9. ASSUME ExpireIndex \/ \E i \in Instances : Crash(i) PROVE presence' = presence
    BY <2>9 DEF ExpireIndex, Crash, redis
  <2> HIDE DEF Kept
  <2> QED BY <2>1, <2>3, <2>4, <2>5, <2>6, <2>7, <2>8, <2>9 DEF Next, Serve, HandshakeFails
<1> QED BY <1>1, RealtimeInvariant, PTL DEF Spec, OwnershipKept
=============================================================================
