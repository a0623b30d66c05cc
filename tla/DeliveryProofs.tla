--------------------------- MODULE DeliveryProofs ---------------------------
(***************************************************************************)
(* Proofs about Delivery, for any number of clients, events, users and     *)
(* instances and for queues of any length: an event that is reported as    *)
(* published has reached its audience, and an instance stops in order.     *)
(***************************************************************************)
EXTENDS Delivery, TLAPS

USE DeliveryAssumption
-----------------------------------------------------------------------------
(* Types                                                                   *)

\* A publication that has not begun, or has failed.
LEMMA IdleTypes ==
  /\ Idle \in Publication /\ Idle.step = "idle" /\ Idle.audience = {}
  /\ [Idle EXCEPT !.step = "failed"] \in Publication
  /\ [Idle EXCEPT !.step = "failed"].step = "failed"
  /\ [Idle EXCEPT !.step = "failed"].audience = {}
  BY DEF Idle, Publication

\* A publication that has succeeded.
LEMMA DoneTypes ==
  ASSUME NEW A \in SUBSET Clients
  PROVE  /\ [Idle EXCEPT !.step = "ok", !.audience = A] \in Publication
         /\ [Idle EXCEPT !.step = "ok", !.audience = A].step = "ok"
         /\ [Idle EXCEPT !.step = "ok", !.audience = A].audience = A
  BY DEF Idle, Publication

\* The clients C are shut down.
LEMMA ShutdownWrites ==
  ASSUME TypeOK, NEW C \in SUBSET Clients, Shutdown(C)
  PROVE  /\ step' \in [Clients -> Steps] /\ accepted' \in [Clients -> SUBSET Events]
         /\ pending' \in [Clients -> 0 .. SendBuffer]
         /\ \A c \in Clients \ C : step'[c] = step[c] /\ accepted'[c] = accepted[c]
         /\ \A c \in C : step'[c] = "closed"
<1>1. step' \in [Clients -> Steps]
  BY DEF TypeOK, Shutdown, Steps
<1>2. accepted' \in [Clients -> SUBSET Events]
  BY DEF TypeOK, Shutdown
<1>3. pending' \in [Clients -> 0 .. SendBuffer]
  BY DEF TypeOK, Shutdown
<1>4. /\ \A c \in Clients \ C : step'[c] = step[c] /\ accepted'[c] = accepted[c]
      /\ \A c \in C : step'[c] = "closed"
  BY DEF Shutdown
<1> QED BY <1>1, <1>2, <1>3, <1>4

\* Nobody waits for the requests of event e any more.
LEMMA OrphanWrites ==
  ASSUME TypeOK, NEW i \in Instances, NEW e \in Events, Orphan(i, e)
  PROVE  /\ queue' \in [Instances -> Seq(Request)]
         /\ \A j \in Instances :
              /\ DOMAIN queue'[j] = DOMAIN queue[j]
              /\ \A n \in DOMAIN queue[j] :
                   /\ queue'[j][n].event = queue[j][n].event
                   /\ queue'[j][n].user = queue[j][n].user
                   /\ queue'[j][n].by = "worker" => queue'[j][n] = queue[j][n]
                   /\ j = i /\ queue[j][n].event = e => queue'[j][n].by # "worker"
<1> DEFINE q == queue[i]
           Over(r) == IF r.event = e /\ r.by = "worker" THEN [r EXCEPT !.by = "nobody"] ELSE r
<1>1. queue \in [Instances -> Seq(Request)] /\ q \in Seq(Request)
  BY DEF TypeOK
<1>2. \A r \in Request : /\ Over(r) \in Request /\ Over(r).event = r.event
                         /\ Over(r).user = r.user
                         /\ Over(r).by = "worker" => Over(r) = r
                         /\ r.event = e => Over(r).by # "worker"
  BY DEF Request
<1>3. queue'[i] = [n \in DOMAIN q |-> Over(q[n])]
  BY <1>1 DEF Orphan
<1> HIDE DEF Over
<1>4. \A n \in DOMAIN q : q[n] \in Request
  BY <1>1
<1>5. queue'[i] \in Seq(Request) /\ DOMAIN queue'[i] = DOMAIN q
  <2>1. DOMAIN q = 1 .. Len(q) /\ Len(q) \in Nat
    BY <1>1
  <2>2. queue'[i] \in [1 .. Len(q) -> Request]
    BY <1>2, <1>3, <1>4, <2>1
  <2> QED BY <1>3, <2>1, <2>2
<1>6. \A j \in Instances : j # i => queue'[j] = queue[j]
  BY <1>1 DEF Orphan
<1>7. queue' \in [Instances -> Seq(Request)]
  BY <1>1, <1>5 DEF Orphan
<1>8. \A n \in DOMAIN q : /\ queue'[i][n].event = q[n].event
                          /\ queue'[i][n].user = q[n].user
                          /\ queue'[i][n].by = "worker" => queue'[i][n] = q[n]
                          /\ q[n].event = e => queue'[i][n].by # "worker"
  BY <1>2, <1>3, <1>4
<1> QED BY <1>5, <1>6, <1>7, <1>8

\* A publication fails.
LEMMA FailWrites ==
  ASSUME TypeOK, NEW e \in Events, Active(e), publishing[e].at \in Instances, Fail(e)
  PROVE  /\ publishing' \in [Events -> Publication]
         /\ publishing'[e].step = "failed" /\ publishing'[e].audience = {}
         /\ \A d \in Events : d # e => publishing'[d] = publishing[d]
         /\ Orphan(publishing[e].at, e)
<1>1. [Idle EXCEPT !.step = "failed"] \in Publication
  BY IdleTypes
<1>2. publishing' = [publishing EXCEPT ![e] = [Idle EXCEPT !.step = "failed"]]
  BY DEF Fail
<1> QED BY <1>1, <1>2, IdleTypes DEF TypeOK, Fail

\* The next recipient of a publication.
LEMMA NextWrites ==
  ASSUME NEW p \in Publication
  PROVE  /\ NextRecipient(p) \in Publication
         /\ NextRecipient(p).audience = p.audience
         /\ p.todo = {} => NextRecipient(p).step = "ok"
         /\ p.todo # {} => /\ NextRecipient(p).step = "offer" /\ NextRecipient(p).at = p.at
                           /\ NextRecipient(p).todo = p.todo
                           /\ NextRecipient(p).lookupFailed = p.lookupFailed
                           /\ NextRecipient(p).found = p.found
<1>1. CASE p.todo = {}
  <2>1. NextRecipient(p) = [Idle EXCEPT !.step = "ok", !.audience = p.audience]
    BY <1>1 DEF NextRecipient
  <2>2. p.audience \in SUBSET Clients
    BY DEF Publication
  <2> QED BY <1>1, <2>1, <2>2, DoneTypes
<1>2. CASE p.todo # {}
  <2>1. NextRecipient(p) = [p EXCEPT !.step = "offer", !.user = None]
    BY <1>2 DEF NextRecipient
  <2> QED BY <1>2, <2>1 DEF Publication
<1> QED BY <1>1, <1>2

\* Steps of a client.
LEMMA ClientTypes ==
  ASSUME TypeOK, NEW c \in Clients, ClientNext(c) \/ RegisterStopped(c) \/ HubRegister(c)
  PROVE  TypeOK'
<1>1. CASE Register(c) \/ RegisterStopped(c) \/ RegisterPresence(c) \/ Leave(c) \/ HubRegister(c)
  <2>1. step' \in [Clients -> Steps] /\ hub' \in SUBSET Clients /\ presence' \in SUBSET Clients
    BY <1>1 DEF TypeOK, Register, RegisterStopped, RegisterPresence, Leave, HubRegister, Steps
  <2>2. UNCHANGED <<process, pending, accepted, queue, publishing, router, faults>>
    BY <1>1 DEF Register, RegisterStopped, RegisterPresence, Leave, HubRegister
  <2> QED BY <2>1, <2>2 DEF TypeOK, process, router
<1>2. CASE Write(c)
  <2>1. pending' \in [Clients -> 0 .. SendBuffer]
    BY <1>2 DEF TypeOK, Write
  <2>2. UNCHANGED <<process, hub, step, presence, accepted, queue, publishing, router, faults>>
    BY <1>2 DEF Write
  <2> QED BY <2>1, <2>2 DEF TypeOK, process, router
<1>3. CASE Withdraw(c)
  <2>1. presence' \in SUBSET Clients
    BY <1>3 DEF TypeOK, Withdraw
  <2>2. UNCHANGED <<process, hub, step, pending, accepted, queue, publishing, router, faults>>
    BY <1>3 DEF Withdraw
  <2> QED BY <2>1, <2>2 DEF TypeOK, process, router
<1> QED BY <1>1, <1>2, <1>3 DEF ClientNext

\* A hub shuts clients down.
LEMMA HubLeaveTypes ==
  ASSUME TypeOK, NEW C \in SUBSET Clients, hub' = hub \ C, Shutdown(C),
         done' \in SUBSET Instances,
         UNCHANGED <<stage, overdue, presence, queue, publishing, router, faults>>
  PROVE  TypeOK'
<1>1. /\ step' \in [Clients -> Steps] /\ accepted' \in [Clients -> SUBSET Events]
      /\ pending' \in [Clients -> 0 .. SendBuffer]
  BY ShutdownWrites
<1>2. hub' \in SUBSET Clients
  BY DEF TypeOK
<1> QED BY <1>1, <1>2 DEF TypeOK, router

\* What deliver does to the clients of its hub.
LEMMA DeliverWrites ==
  ASSUME TypeOK, NEW i \in Instances, NEW r \in Request, deliver(i, r)
  PROVE  /\ hub' \in SUBSET Clients /\ hub' \subseteq hub
         /\ step' \in [Clients -> Steps] /\ accepted' \in [Clients -> SUBSET Events]
         /\ pending' \in [Clients -> 0 .. SendBuffer]
         /\ \A c \in Clients : step'[c] \in {step[c], "closed"}
         /\ \A c \in hub' : /\ step'[c] = step[c] /\ accepted[c] \subseteq accepted'[c]
                            /\ Home[c] = i /\ Owner[c] = r.user => r.event \in accepted'[c]
<1> DEFINE to == Receivers(i, r.user)
           slow == Slow(to)
<1>1. r.event \in Events /\ to \subseteq Clients /\ slow \subseteq to
  BY DEF Request, Receivers, Slow, TypeOK
<1>2. /\ hub' = hub \ slow
      /\ step' = [c \in Clients |-> IF c \in slow THEN "closed" ELSE step[c]]
      /\ pending' = [c \in Clients |-> IF c \in slow THEN 0
                                       ELSE IF c \in to THEN pending[c] + 1
                                       ELSE pending[c]]
      /\ accepted' = [c \in Clients |-> IF c \in slow THEN {}
                                        ELSE IF c \in to THEN accepted[c] \cup {r.event}
                                        ELSE accepted[c]]
  BY DEF deliver
<1>3. \A c \in to \ slow : pending[c] # SendBuffer
  BY DEF Slow
<1>4. \A c \in hub : Home[c] = i /\ Owner[c] = r.user => c \in to
  BY DEF Receivers
<1> HIDE DEF to, slow
<1>5. step' \in [Clients -> Steps]
  BY <1>2 DEF TypeOK, Steps
<1>6. accepted' \in [Clients -> SUBSET Events]
  BY <1>1, <1>2 DEF TypeOK
<1>7. pending' \in [Clients -> 0 .. SendBuffer]
  <2>1. \A c \in Clients : pending[c] \in 0 .. SendBuffer
    BY DEF TypeOK
  <2>2. \A c \in to : c \notin slow => pending[c] + 1 \in 0 .. SendBuffer
    BY <1>1, <1>3, <2>1
  <2> QED BY <1>2, <2>1, <2>2
<1>8. hub \subseteq Clients
  BY DEF TypeOK
<1> QED BY <1>1, <1>2, <1>4, <1>5, <1>6, <1>7, <1>8

\* The hub takes a request off its publish channel.
LEMMA HubPublishWrites ==
  ASSUME TypeOK, NEW i \in Instances, HubPublish(i)
  PROVE  LET r == Head(queue[i]) IN
         /\ TypeOK' /\ r \in Request /\ deliver(i, r)
         /\ queue[i] # <<>> /\ queue'[i] = Tail(queue[i])
         /\ \A j \in Instances : j # i => queue'[j] = queue[j]
         /\ \A d \in Events : d # r.event => publishing'[d] = publishing[d]
         /\ publishing'[r.event] = IF r.by = "worker"
                                   THEN [publishing[r.event] EXCEPT !.step = "answered"]
                                   ELSE publishing[r.event]
         /\ waiting' \subseteq waiting
         /\ UNCHANGED <<process, presence, channel, lost, faults>>
<1> DEFINE r == Head(queue[i])
<1>1. queue[i] \in Seq(Request) /\ queue[i] # <<>>
  BY DEF TypeOK, HubPublish
<1>2. r \in Request /\ Tail(queue[i]) \in Seq(Request)
  BY <1>1
<1>3. /\ deliver(i, r) /\ queue' = [queue EXCEPT ![i] = Tail(queue[i])]
      /\ publishing' = [publishing EXCEPT ![r.event].step =
                          IF r.by = "worker" THEN "answered" ELSE publishing[r.event].step]
      /\ waiting' \in {waiting, waiting \ {i}}
      /\ UNCHANGED <<process, presence, channel, lost, faults>>
  BY DEF HubPublish
<1> HIDE DEF r
<1>4. queue' \in [Instances -> Seq(Request)] /\ queue'[i] = Tail(queue[i])
      /\ \A j \in Instances : j # i => queue'[j] = queue[j]
  BY <1>2, <1>3 DEF TypeOK
<1>5. r.event \in Events
  BY <1>2 DEF Request
<1>6. publishing[r.event] \in Publication
  BY <1>5 DEF TypeOK
<1>7. /\ publishing'[r.event] = IF r.by = "worker"
                                THEN [publishing[r.event] EXCEPT !.step = "answered"]
                                ELSE publishing[r.event]
      /\ publishing'[r.event] \in Publication
  <2>1. publishing'[r.event] = [publishing[r.event] EXCEPT !.step =
                          IF r.by = "worker" THEN "answered" ELSE publishing[r.event].step]
    BY <1>3, <1>5 DEF TypeOK
  <2> QED BY <1>6, <2>1 DEF Publication
<1>8. /\ publishing' \in [Events -> Publication]
      /\ \A d \in Events : d # r.event => publishing'[d] = publishing[d]
  BY <1>3, <1>5, <1>7 DEF TypeOK
<1>9. /\ hub' \in SUBSET Clients
      /\ step' \in [Clients -> Steps] /\ accepted' \in [Clients -> SUBSET Events]
      /\ pending' \in [Clients -> 0 .. SendBuffer]
  BY <1>2, <1>3, DeliverWrites
<1>10. TypeOK'
  BY <1>3, <1>4, <1>8, <1>9 DEF TypeOK, process
<1> QED BY <1>1, <1>2, <1>3, <1>4, <1>7, <1>8, <1>10 DEF r

\* A worker begins with an event.
LEMMA PrepareWrites ==
  ASSUME TypeOK, NEW e \in Events, NEW i \in Instances, PrepareDeliveryBatch(e, i)
  PROVE  /\ TypeOK' /\ UNCHANGED <<process, client, queue, router>>
         /\ \A d \in Events : d # e => publishing'[d] = publishing[d]
         /\ publishing[e].step \in {"idle", "failed"} /\ stage[i] = "serving"
         /\ publishing'[e].step = "offer" /\ publishing'[e].at = i
         /\ publishing'[e].todo = Users
         /\ publishing'[e].audience = {c \in hub : c \in presence \/ Home[c] = i}
         /\ ~publishing'[e].lookupFailed =>
              \A u \in Users : publishing'[e].found[u] = {Home[c] : c \in {d \in presence : Owner[d] = u}}
<1>1. PICK failed \in BOOLEAN :
        /\ IF failed THEN Fault ELSE UNCHANGED faults
        /\ publishing' = [publishing EXCEPT ![e] =
             [Idle EXCEPT !.step = "offer", !.at = i, !.todo = Users,
                          !.lookupFailed = failed,
                          !.found = [u \in Users |->
                             IF failed THEN {}
                             ELSE {Home[c] : c \in {d \in presence : Owner[d] = u}}],
                          !.audience = {c \in hub : c \in presence \/ Home[c] = i}]]
  BY DEF PrepareDeliveryBatch
<1> DEFINE F == [u \in Users |-> IF failed THEN {}
                                 ELSE {Home[c] : c \in {d \in presence : Owner[d] = u}}]
           A == {c \in hub : c \in presence \/ Home[c] = i}
           p == [Idle EXCEPT !.step = "offer", !.at = i, !.todo = Users,
                             !.lookupFailed = failed, !.found = F, !.audience = A]
<1>2. F \in [Users -> SUBSET Instances] /\ A \in SUBSET Clients
  BY DEF TypeOK
<1>3. ~failed => \A u \in Users : F[u] = {Home[c] : c \in {d \in presence : Owner[d] = u}}
  OBVIOUS
<1> HIDE DEF F
<1>4. /\ p \in Publication /\ p.step = "offer" /\ p.at = i /\ p.todo = Users
      /\ p.audience = A /\ p.lookupFailed = failed /\ p.found = F
  BY <1>2 DEF Idle, Publication
<1>5. publishing' = [publishing EXCEPT ![e] = p]
  BY <1>1 DEF F
<1> HIDE DEF p, A
<1>6. /\ publishing' \in [Events -> Publication] /\ publishing'[e] = p
      /\ \A d \in Events : d # e => publishing'[d] = publishing[d]
  BY <1>4, <1>5 DEF TypeOK
<1>7. faults' \in 0 .. MaxFaults
  BY <1>1 DEF Fault, TypeOK
<1>8. /\ UNCHANGED <<process, client, queue, router>>
      /\ publishing[e].step \in {"idle", "failed"} /\ stage[i] = "serving"
  BY DEF PrepareDeliveryBatch
<1>9. TypeOK'
  BY <1>6, <1>7, <1>8 DEF TypeOK, process, client, router
<1> QED BY <1>3, <1>4, <1>6, <1>8, <1>9 DEF A

\* publishLocal puts a request into the publish channel.
LEMMA OfferWrites ==
  ASSUME TypeOK, NEW e \in Events, publishing[e].at \in Instances, OfferLocal(e)
  PROVE  LET i == publishing[e].at IN
         \E u \in publishing[e].todo :
           /\ u \in Users
           /\ TypeOK' /\ UNCHANGED <<process, client, router, faults>>
           /\ \A d \in Events : d # e => publishing'[d] = publishing[d]
           /\ publishing[e].step = "offer"
           /\ publishing'[e].step = "wait" /\ publishing'[e].user = u
           /\ publishing'[e].todo = publishing[e].todo \ {u}
           /\ publishing'[e].at = i
           /\ publishing'[e].lookupFailed = publishing[e].lookupFailed
           /\ publishing'[e].found = publishing[e].found
           /\ publishing'[e].audience = publishing[e].audience
           /\ queue'[i] = Append(queue[i], [event |-> e, user |-> u, by |-> "worker"])
           /\ \A j \in Instances : j # i => queue'[j] = queue[j]
<1> DEFINE i == publishing[e].at
<1>1. PICK u \in publishing[e].todo :
        /\ queue' = [queue EXCEPT ![i] =
                       Append(queue[i], [event |-> e, user |-> u, by |-> "worker"])]
        /\ publishing' = [publishing EXCEPT ![e].step = "wait", ![e].user = u,
                                            ![e].todo = @ \ {u}]
  BY DEF OfferLocal
<1>2. publishing[e] \in Publication
  BY DEF TypeOK
<1>3. u \in Users
  BY <1>2 DEF Publication
<1>4. publishing'[e] = [publishing[e] EXCEPT !.step = "wait", !.user = u,
                                             !.todo = publishing[e].todo \ {u}]
  BY <1>1 DEF TypeOK
<1>5. /\ publishing'[e] \in Publication
      /\ publishing'[e].step = "wait" /\ publishing'[e].user = u
      /\ publishing'[e].todo = publishing[e].todo \ {u}
      /\ publishing'[e].at = i
      /\ publishing'[e].lookupFailed = publishing[e].lookupFailed
      /\ publishing'[e].found = publishing[e].found
      /\ publishing'[e].audience = publishing[e].audience
  BY <1>2, <1>3, <1>4 DEF Publication
<1>6. /\ publishing' \in [Events -> Publication]
      /\ \A d \in Events : d # e => publishing'[d] = publishing[d]
  BY <1>1, <1>5 DEF TypeOK
<1>7. [event |-> e, user |-> u, by |-> "worker"] \in Request
  BY <1>3 DEF Request
<1>8. queue[i] \in Seq(Request)
  BY DEF TypeOK
<1>9. Append(queue[i], [event |-> e, user |-> u, by |-> "worker"]) \in Seq(Request)
  BY <1>7, <1>8
<1>10. /\ queue' \in [Instances -> Seq(Request)]
       /\ queue'[i] = Append(queue[i], [event |-> e, user |-> u, by |-> "worker"])
       /\ \A j \in Instances : j # i => queue'[j] = queue[j]
  BY <1>1, <1>9 DEF TypeOK
<1>11. UNCHANGED <<process, client, router, faults>> /\ publishing[e].step = "offer"
  BY DEF OfferLocal
<1>12. TypeOK'
  BY <1>6, <1>10, <1>11 DEF TypeOK, process, client, router
<1> QED BY <1>3, <1>5, <1>6, <1>10, <1>11, <1>12

\* publishRemote: the instances that are still to be told.
LEMMA RemoteWrites ==
  ASSUME TypeOK, NEW e \in Events, publishing[e].user \in Users, PublishRemote(e)
  PROVE  /\ TypeOK' /\ UNCHANGED <<process, client, queue, router, faults>>
         /\ \A d \in Events : d # e => publishing'[d] = publishing[d]
         /\ publishing[e].step = "answered" /\ ~publishing[e].lookupFailed
         /\ RemoteInstances(e) = {} => publishing'[e] = NextRecipient(publishing[e])
         /\ RemoteInstances(e) # {} =>
              /\ publishing'[e].step = "remote" /\ publishing'[e].remote = RemoteInstances(e)
              /\ publishing'[e].user = publishing[e].user
              /\ publishing'[e].todo = publishing[e].todo
              /\ publishing'[e].at = publishing[e].at
              /\ publishing'[e].lookupFailed = publishing[e].lookupFailed
              /\ publishing'[e].found = publishing[e].found
              /\ publishing'[e].audience = publishing[e].audience
<1> DEFINE q == IF RemoteInstances(e) = {} THEN NextRecipient(publishing[e])
                ELSE [publishing[e] EXCEPT !.step = "remote", !.remote = RemoteInstances(e)]
<1>1. publishing[e] \in Publication
  BY DEF TypeOK
<1>2. /\ publishing' = [publishing EXCEPT ![e] = q]
      /\ publishing[e].step = "answered" /\ ~publishing[e].lookupFailed
      /\ UNCHANGED <<process, client, queue, router, faults>>
  BY DEF PublishRemote
<1>3. publishing'[e] = q
  BY <1>2 DEF TypeOK
<1>4. CASE RemoteInstances(e) = {}
  <2>1. q = NextRecipient(publishing[e]) /\ q \in Publication
    BY <1>1, <1>4, NextWrites
  <2> HIDE DEF q
  <2>2. publishing' \in [Events -> Publication] /\ \A d \in Events : d # e => publishing'[d] = publishing[d]
    BY <1>2, <2>1 DEF TypeOK
  <2>3. TypeOK'
    BY <1>2, <2>2 DEF TypeOK, process, client, router
  <2> QED BY <1>2, <1>3, <1>4, <2>1, <2>2, <2>3
<1>5. CASE RemoteInstances(e) # {}
  <2>1. q = [publishing[e] EXCEPT !.step = "remote", !.remote = RemoteInstances(e)]
    BY <1>5
  <2> HIDE DEF q
  <2>0. RemoteInstances(e) \in SUBSET Instances
    BY <1>1 DEF RemoteInstances, Publication
  <2>2. /\ q \in Publication
        /\ q.step = "remote" /\ q.remote = RemoteInstances(e)
        /\ q.user = publishing[e].user
        /\ q.todo = publishing[e].todo
        /\ q.at = publishing[e].at
        /\ q.lookupFailed = publishing[e].lookupFailed
        /\ q.found = publishing[e].found
        /\ q.audience = publishing[e].audience
    BY <1>1, <2>0, <2>1 DEF Publication
  <2>3. publishing' \in [Events -> Publication] /\ \A d \in Events : d # e => publishing'[d] = publishing[d]
    BY <1>2, <2>2 DEF TypeOK
  <2>4. TypeOK'
    BY <1>2, <2>3 DEF TypeOK, process, client, router
  <2> QED BY <1>2, <1>3, <1>5, <2>2, <2>3, <2>4
<1> QED BY <1>4, <1>5

\* A command goes to the router of another instance, or gets lost.
LEMMA SendWrites ==
  ASSUME TypeOK, NEW e \in Events, publishing[e].user \in Users,
         NEW j \in Instances, Send(e, j)
  PROVE  /\ channel' \in [Instances -> Seq(Command)] /\ lost' \in SUBSET (Events \X Instances)
         /\ faults' \in 0 .. MaxFaults /\ lost \subseteq lost'
         /\ \A k \in Instances : k # j => channel'[k] = channel[k]
         /\ \/ channel'[j] = Append(channel[j], [event |-> e, user |-> publishing[e].user])
            \/ channel'[j] = channel[j] /\ <<e, j>> \in lost'
<1> DEFINE command == [event |-> e, user |-> publishing[e].user]
<1>1. command \in Command /\ channel[j] \in Seq(Command)
  BY DEF Command, TypeOK
<1>2. Append(channel[j], command) \in Seq(Command)
  BY <1>1
<1>3. CASE channel' = [channel EXCEPT ![j] = Append(channel[j], command)] /\ UNCHANGED <<lost, faults>>
  BY <1>2, <1>3 DEF TypeOK
<1>4. CASE /\ lost' = lost \cup {<<e, j>>} /\ UNCHANGED channel
           /\ Fault \/ UNCHANGED faults
  <2>1. faults' \in 0 .. MaxFaults
    BY <1>4 DEF Fault, TypeOK
  <2>2. lost' \in SUBSET (Events \X Instances) /\ <<e, j>> \in lost'
    BY <1>4 DEF TypeOK
  <2> QED BY <1>4, <2>1, <2>2 DEF TypeOK
<1> QED BY <1>3, <1>4 DEF Send

\* publishRemote goes on with the next instance, or with the next recipient.
LEMMA SendCommandWrites ==
  ASSUME TypeOK, NEW e \in Events, publishing[e].user \in Users, SendCommand(e)
  PROVE  \E j \in publishing[e].remote :
           /\ j \in Instances /\ Send(e, j)
           /\ TypeOK' /\ UNCHANGED <<process, client, queue, waiting>>
           /\ \A d \in Events : d # e => publishing'[d] = publishing[d]
           /\ publishing[e].step = "remote"
           /\ publishing'[e].audience = publishing[e].audience
           /\ publishing[e].remote = {j} /\ publishing[e].todo = {} => publishing'[e].step = "ok"
           /\ ~(publishing[e].remote = {j} /\ publishing[e].todo = {}) =>
                /\ publishing'[e].step = IF publishing[e].remote = {j} THEN "offer" ELSE "remote"
                /\ publishing'[e].todo = publishing[e].todo
                /\ publishing'[e].at = publishing[e].at
                /\ publishing'[e].lookupFailed = publishing[e].lookupFailed
                /\ publishing'[e].found = publishing[e].found
           /\ publishing[e].remote # {j} =>
                /\ publishing'[e].user = publishing[e].user
                /\ publishing'[e].remote = publishing[e].remote \ {j}
<1> DEFINE p == publishing[e]
<1>1. p \in Publication
  BY DEF TypeOK
<1>2. PICK j \in p.remote :
        Send(e, j) /\ publishing' = [publishing EXCEPT ![e] = Told(p, j)]
  BY DEF SendCommand
<1> DEFINE q == Told(p, j)
<1>3. j \in Instances
  BY <1>1, <1>2 DEF Publication
<1>4. /\ publishing[e].step = "remote" /\ UNCHANGED <<process, client, queue, waiting>>
  BY DEF SendCommand
<1>5. /\ q \in Publication /\ q.audience = p.audience
      /\ p.remote = {j} /\ p.todo = {} => q.step = "ok"
      /\ ~(p.remote = {j} /\ p.todo = {}) =>
           /\ q.step = IF p.remote = {j} THEN "offer" ELSE "remote"
           /\ q.todo = p.todo /\ q.at = p.at /\ q.lookupFailed = p.lookupFailed
           /\ q.found = p.found
      /\ p.remote # {j} => q.user = p.user /\ q.remote = p.remote \ {j}
  <2>1. CASE p.remote = {j}
    <3> DEFINE rest == [p EXCEPT !.remote = {}]
    <3>1. /\ rest \in Publication /\ rest.todo = p.todo /\ rest.at = p.at
          /\ rest.lookupFailed = p.lookupFailed /\ rest.found = p.found
          /\ rest.audience = p.audience
      BY <1>1 DEF Publication
    <3>2. q = NextRecipient(rest)
      BY <2>1 DEF Told
    <3> HIDE DEF q, rest
    <3> QED BY <2>1, <3>1, <3>2, NextWrites
  <2>2. CASE p.remote # {j}
    <3>1. q = [p EXCEPT !.remote = p.remote \ {j}]
      BY <2>2 DEF Told
    <3> HIDE DEF q
    <3>2. /\ q \in Publication /\ q.audience = p.audience /\ q.step = p.step
          /\ q.todo = p.todo /\ q.at = p.at /\ q.lookupFailed = p.lookupFailed
          /\ q.found = p.found /\ q.user = p.user /\ q.remote = p.remote \ {j}
      BY <1>1, <3>1 DEF Publication
    <3> QED BY <1>4, <2>2, <3>2
  <2> QED BY <2>1, <2>2
<1> HIDE DEF q
<1>6. /\ publishing' \in [Events -> Publication] /\ publishing'[e] = q
      /\ \A d \in Events : d # e => publishing'[d] = publishing[d]
  BY <1>2, <1>5 DEF TypeOK, q
<1>7. /\ channel' \in [Instances -> Seq(Command)] /\ lost' \in SUBSET (Events \X Instances)
      /\ faults' \in 0 .. MaxFaults
  BY <1>2, <1>3, SendWrites
<1>8. TypeOK'
  BY <1>4, <1>6, <1>7 DEF TypeOK, process, client
<1> QED BY <1>2, <1>3, <1>4, <1>5, <1>6, <1>8

\* The router hands a command to its hub.
LEMMA ReceiveWrites ==
  ASSUME TypeOK, NEW i \in Instances, ReceiveCommand(i)
  PROVE  LET command == Head(channel[i]) IN
         /\ TypeOK' /\ UNCHANGED <<process, client, publishing, lost, faults>>
         /\ stage[i] \in {"serving", "worker", "router"}
         /\ channel[i] # <<>> /\ command \in Command
         /\ queue'[i] = Append(queue[i], [event |-> command.event, user |-> command.user,
                                          by |-> "router"])
         /\ channel'[i] = Tail(channel[i])
         /\ \A j \in Instances : j # i => queue'[j] = queue[j] /\ channel'[j] = channel[j]
         /\ waiting' = waiting \cup {i}
<1> DEFINE command == Head(channel[i])
           r == [event |-> command.event, user |-> command.user, by |-> "router"]
<1>1. channel[i] \in Seq(Command) /\ channel[i] # <<>>
  BY DEF TypeOK, ReceiveCommand
<1>2. command \in Command /\ Tail(channel[i]) \in Seq(Command)
  BY <1>1
<1>3. /\ queue' = [queue EXCEPT ![i] = Append(queue[i], r)]
      /\ channel' = [channel EXCEPT ![i] = Tail(channel[i])]
      /\ waiting' = waiting \cup {i} /\ stage[i] \in {"serving", "worker", "router"}
      /\ UNCHANGED <<process, client, publishing, lost, faults>>
  BY DEF ReceiveCommand
<1>4. r \in Request
  BY <1>2 DEF Request, Command
<1> HIDE DEF r
<1>5. queue[i] \in Seq(Request)
  BY DEF TypeOK
<1>6. Append(queue[i], r) \in Seq(Request)
  BY <1>4, <1>5
<1>7. /\ queue' \in [Instances -> Seq(Request)] /\ queue'[i] = Append(queue[i], r)
      /\ \A j \in Instances : j # i => queue'[j] = queue[j]
  BY <1>3, <1>6 DEF TypeOK
<1>8. /\ channel' \in [Instances -> Seq(Command)] /\ channel'[i] = Tail(channel[i])
      /\ \A j \in Instances : j # i => channel'[j] = channel[j]
  BY <1>2, <1>3 DEF TypeOK
<1>9. TypeOK'
  BY <1>3, <1>7, <1>8 DEF TypeOK, process, client
<1> QED BY <1>1, <1>2, <1>3, <1>7, <1>8, <1>9 DEF r

\* The router does not wait for its hub any more.
LEMMA ReceiveStoppedWrites ==
  ASSUME TypeOK, NEW i \in Instances, ReceiveStopped(i)
  PROVE  /\ TypeOK' /\ UNCHANGED <<process, client, publishing, channel, lost, faults>>
         /\ waiting' \subseteq waiting
         /\ \A j \in Instances :
              /\ DOMAIN queue'[j] = DOMAIN queue[j]
              /\ \A n \in DOMAIN queue[j] :
                   /\ queue'[j][n].event = queue[j][n].event
                   /\ queue'[j][n].user = queue[j][n].user
                   /\ queue'[j][n].by = "worker" => queue'[j][n] = queue[j][n]
<1> DEFINE q == queue[i]
           Over(r) == IF r.by = "router" THEN [r EXCEPT !.by = "nobody"] ELSE r
<1>1. queue \in [Instances -> Seq(Request)] /\ q \in Seq(Request)
  BY DEF TypeOK
<1>2. \A r \in Request : /\ Over(r) \in Request /\ Over(r).event = r.event
                         /\ Over(r).user = r.user
                         /\ Over(r).by = "worker" => Over(r) = r
  BY DEF Request
<1>3. queue'[i] = [n \in DOMAIN q |-> Over(q[n])]
  BY <1>1 DEF ReceiveStopped
<1> HIDE DEF Over
<1>4. \A n \in DOMAIN q : q[n] \in Request
  BY <1>1
<1>5. queue'[i] \in Seq(Request) /\ DOMAIN queue'[i] = DOMAIN q
  <2>1. DOMAIN q = 1 .. Len(q) /\ Len(q) \in Nat
    BY <1>1
  <2>2. queue'[i] \in [1 .. Len(q) -> Request]
    BY <1>2, <1>3, <1>4, <2>1
  <2> QED BY <1>3, <2>1, <2>2
<1>6. \A j \in Instances : j # i => queue'[j] = queue[j]
  BY <1>1 DEF ReceiveStopped
<1>7. queue' \in [Instances -> Seq(Request)]
  BY <1>1, <1>5 DEF ReceiveStopped
<1>8. \A n \in DOMAIN q : /\ queue'[i][n].event = q[n].event
                          /\ queue'[i][n].user = q[n].user
                          /\ queue'[i][n].by = "worker" => queue'[i][n] = q[n]
  BY <1>2, <1>3, <1>4
<1>9. /\ UNCHANGED <<process, client, publishing, channel, lost, faults>>
      /\ waiting' \subseteq waiting
  BY DEF ReceiveStopped
<1>10. TypeOK'
  BY <1>7, <1>9 DEF TypeOK, process, client
<1> QED BY <1>5, <1>6, <1>8, <1>9, <1>10

-----------------------------------------------------------------------------
(* What a step leaves as it was                                            *)

\* The members of a queue after a request has been added or taken off.
LEMMA AppendMembers ==
  ASSUME NEW S, NEW s \in Seq(S), NEW x \in S
  PROVE  /\ ToSet(s) \subseteq ToSet(Append(s, x)) /\ x \in ToSet(Append(s, x))
         /\ \A n \in DOMAIN Append(s, x) :
              \/ n \in DOMAIN s /\ Append(s, x)[n] = s[n]
              \/ n = Len(s) + 1 /\ Append(s, x)[n] = x
<1> DEFINE t == Append(s, x)
<1>1. /\ Len(s) \in Nat /\ DOMAIN s = 1 .. Len(s) /\ DOMAIN t = 1 .. Len(s) + 1
      /\ t[Len(s) + 1] = x /\ \A n \in 1 .. Len(s) : t[n] = s[n]
  OBVIOUS
<1> HIDE DEF t
<1>2. \A n \in DOMAIN s : n \in DOMAIN t /\ t[n] = s[n]
  BY <1>1
<1>3. Len(s) + 1 \in DOMAIN t
  BY <1>1
<1>4. \A n \in DOMAIN t : n \in DOMAIN s \/ n = Len(s) + 1
  BY <1>1
<1> QED BY <1>1, <1>2, <1>3, <1>4 DEF ToSet, t

\* Taking the first request out of a channel leaves the others in their order.
LEMMA TailMembers ==
  ASSUME NEW S, NEW s \in Seq(S), s # <<>>
  PROVE  /\ \A x \in ToSet(s) : x = Head(s) \/ x \in ToSet(Tail(s))
         /\ \A n \in DOMAIN Tail(s) : /\ n + 1 \in DOMAIN s /\ Tail(s)[n] = s[n + 1]
                                      /\ n \in Nat \ {0}
         /\ 1 \in DOMAIN s /\ Head(s) = s[1]
<1>1. /\ Len(s) \in Nat /\ Len(s) > 0 /\ DOMAIN s = 1 .. Len(s) /\ Head(s) = s[1]
      /\ DOMAIN Tail(s) = 1 .. Len(s) - 1
      /\ \A n \in 1 .. Len(s) - 1 : Tail(s)[n] = s[n + 1]
  OBVIOUS
<1>2. ASSUME NEW n \in DOMAIN s, n # 1  PROVE n - 1 \in DOMAIN Tail(s) /\ Tail(s)[n - 1] = s[n]
  BY <1>1, <1>2
<1>3. \A n \in DOMAIN Tail(s) : n + 1 \in DOMAIN s /\ Tail(s)[n] = s[n + 1] /\ n \in Nat \ {0}
  BY <1>1
<1>4. 1 \in DOMAIN s
  BY <1>1
<1>5. ASSUME NEW x \in ToSet(s)  PROVE x = Head(s) \/ x \in ToSet(Tail(s))
  <2>1. PICK n \in DOMAIN s : x = s[n]
    BY <1>5 DEF ToSet
  <2>2. CASE n = 1
    BY <1>1, <2>1, <2>2
  <2>3. CASE n # 1
    <3>1. PICK k \in DOMAIN Tail(s) : Tail(s)[k] = x
      BY <1>2, <2>1, <2>3
    <3> QED BY <3>1 DEF ToSet
  <2> QED BY <2>2, <2>3
<1> QED BY <1>1, <1>3, <1>4, <1>5

\* A stage that has been passed stays passed: work begins only on an instance
\* that serves, and a router waits only before it is stopped.
LEMMA OrderKept ==
  ASSUME TypeOK, StagesInOrder, UNCHANGED process,
         \A i \in waiting' : i \in waiting \/ stage[i] \in {"serving", "worker", "router"},
         \A e \in Events : Active(e)' =>
            \/ Active(e) /\ publishing'[e].at = publishing[e].at
            \/ stage[publishing'[e].at] = "serving"
  PROVE  StagesInOrder'
<1> SUFFICES ASSUME NEW i \in Instances
             PROVE  /\ i \in done => stage[i] \in {"hub", "stopped"}
                    /\ stage[i] \in {"router", "hub", "stopped"} => i \in overdue \/ WorkerDone(i)'
                    /\ stage[i] \in {"hub", "stopped"} => i \in overdue \/ i \notin waiting'
  BY DEF StagesInOrder, process
<1>1. /\ i \in done => stage[i] \in {"hub", "stopped"}
      /\ stage[i] \in {"router", "hub", "stopped"} => i \in overdue \/ WorkerDone(i)
      /\ stage[i] \in {"hub", "stopped"} => i \in overdue \/ i \notin waiting
  BY DEF StagesInOrder
<1>2. WorkerDone(i) /\ stage[i] # "serving" => WorkerDone(i)'
  BY DEF WorkerDone
<1> QED BY <1>1, <1>2

\* No request that a worker waits for appears or is forgotten.
LEMMA RequestsKept ==
  ASSUME OneRequest,
         \A j \in Instances : \A n \in DOMAIN queue'[j] : queue'[j][n].by = "worker" =>
            /\ n \in DOMAIN queue[j] /\ queue'[j][n] = queue[j][n]
            /\ publishing[queue[j][n].event].step = "wait" =>
                 publishing'[queue[j][n].event] = publishing[queue[j][n].event]
  PROVE  OneRequest'
  BY DEF OneRequest

\* The parts of a step that keep every event on its way: nobody joins a hub but
\* a client that is registering, and what covers a client goes on covering it.
Settled ==
    /\ \A c \in Clients : step[c] \notin {"new", "registering"} =>
                          step'[c] \notin {"new", "registering"}
    /\ \A c \in hub' : c \in hub \/ step[c] \in {"new", "registering"}
    /\ \A e \in Events : \A c \in hub' : Covered(e, c) => Covered(e, c)'

\* An event that a settled step does not touch goes on reaching its audience.
LEMMA ReachingKept ==
  ASSUME TypeOK, NEW e \in Events, Reaching(e), Settled, publishing'[e] = publishing[e]
  PROVE  Reaching(e)'
<1> DEFINE p == publishing[e]
<1>1. p.audience \subseteq Clients
  BY DEF TypeOK, Publication
<1>2. \A c \in p.audience : step'[c] \notin {"new", "registering"}
  BY <1>1 DEF Reaching, Settled
<1>3. \A c \in p.audience \cap hub' : c \in hub
  BY DEF Reaching, Settled
<1>4. \A c \in p.audience : TurnAhead(e, c) => TurnAhead(e, c)'
  BY DEF TurnAhead
<1>5. Active(e) <=> Active(e)'
  BY DEF Active
<1>6. \A c \in hub' : Covered(e, c) => Covered(e, c)'
  BY DEF Settled
<1> QED BY <1>2, <1>3, <1>4, <1>5, <1>6 DEF Reaching

\* Enough for a step to be settled: nothing leaves a queue or a channel.
LEMMA SettledIf ==
  ASSUME TypeOK,
         \A c \in Clients : step[c] \notin {"new", "registering"} =>
                            step'[c] \notin {"new", "registering"},
         \A c \in hub' : c \in hub \/ step[c] \in {"new", "registering"},
         hub' \subseteq Clients,
         \A c \in hub' : accepted[c] \subseteq accepted'[c],
         lost \subseteq lost',
         \A j \in Instances : ToSet(channel[j]) \subseteq ToSet(channel'[j]),
         \A j \in Instances : \A n \in DOMAIN queue[j] : \E k \in DOMAIN queue'[j] :
            /\ queue'[j][k].event = queue[j][n].event
            /\ queue'[j][k].user = queue[j][n].user
  PROVE  Settled
<1> SUFFICES ASSUME NEW e \in Events, NEW c \in hub', Covered(e, c)
             PROVE  Covered(e, c)'
  BY DEF Settled
<1>1. Home[c] \in Instances
  OBVIOUS
<1>2. UnderWay(e, c) => UnderWay(e, c)'
  BY <1>1 DEF UnderWay, ToSet
<1> QED BY <1>2 DEF Covered

\* What a publish channel holds.
LEMMA RequestTypes ==
  ASSUME TypeOK, NEW j \in Instances, NEW n \in DOMAIN queue[j]
  PROVE  /\ queue[j][n] \in Request /\ queue[j][n].event \in Events
         /\ queue[j][n].user \in Users
<1>1. queue[j] \in Seq(Request)
  BY DEF TypeOK
<1>2. queue[j][n] \in Request
  BY <1>1
<1> QED BY <1>2 DEF Request
-----------------------------------------------------------------------------
(* Every step keeps the invariant                                          *)

\* A step of a client, and its entry into the hub.
LEMMA ClientStep ==
  ASSUME DeliveryInv, NEW c \in Clients,
         ClientNext(c) \/ RegisterStopped(c) \/ HubRegister(c)
  PROVE  DeliveryInv'
<1> USE DEF DeliveryInv
<1>1. TypeOK'
  BY ClientTypes
<1>2. UNCHANGED <<process, accepted, queue, publishing, router, faults>>
  BY DEF ClientNext, Register, RegisterStopped, RegisterPresence, Write, Leave, Withdraw,
         HubRegister
<1>3. /\ \A d \in Clients : step[d] \notin {"new", "registering"} =>
                            step'[d] \notin {"new", "registering"}
      /\ \A d \in hub' : d \in hub \/ step[d] \in {"new", "registering"}
      /\ HubServes'
  BY DEF ClientNext, Register, RegisterStopped, RegisterPresence, Write, Leave, Withdraw,
         HubRegister, HubServes, TypeOK
<1>4. Settled
  BY <1>1, <1>2, <1>3, SettledIf DEF TypeOK, router
<1>5. AudienceReached'
  BY <1>2, <1>4, ReachingKept DEF AudienceReached
<1>6. StagesInOrder'
  BY <1>2, OrderKept DEF router, Active
<1>7. OneRequest'
  BY <1>2 DEF OneRequest
<1> QED BY <1>1, <1>3, <1>5, <1>6, <1>7

\* A hub shuts clients down.
LEMMA HubLeaveStep ==
  ASSUME DeliveryInv, \E C \in SUBSET Clients : hub' = hub \ C /\ Shutdown(C),
         UNCHANGED <<stage, overdue, presence, queue, publishing, router, faults>>,
         done' \in SUBSET Instances, \A i \in done' : i \in done \/ stage[i] = "hub"
  PROVE  DeliveryInv'
<1> USE DEF DeliveryInv
<1>1. PICK C \in SUBSET Clients : hub' = hub \ C /\ Shutdown(C)
  OBVIOUS
<1>2. UNCHANGED <<stage, overdue, presence, queue, publishing, router, faults>>
  OBVIOUS
<1>3. \A i \in done' : i \in done \/ stage[i] = "hub"
  OBVIOUS
<1>4. TypeOK'
  BY <1>1, <1>2, HubLeaveTypes
<1>5. /\ \A d \in Clients \ C : step'[d] = step[d] /\ accepted'[d] = accepted[d]
      /\ \A d \in C : step'[d] = "closed"
  BY <1>1, ShutdownWrites
<1>6. HubServes'
  BY <1>1, <1>4, <1>5 DEF HubServes, TypeOK
<1>7. Settled
  BY <1>1, <1>2, <1>4, <1>5, SettledIf DEF TypeOK, router
<1>8. AudienceReached'
  BY <1>2, <1>7, ReachingKept DEF AudienceReached
<1>9. StagesInOrder'
  <2>1. \A j \in Instances : WorkerDone(j)' <=> WorkerDone(j)
    BY <1>2 DEF WorkerDone, Active
  <2> QED BY <1>2, <1>3, <2>1 DEF StagesInOrder, router
<1>10. OneRequest'
  BY <1>2 DEF OneRequest
<1> QED BY <1>4, <1>6, <1>8, <1>9, <1>10

\* The hub removes a client, which ends its membership of any audience.
LEMMA HubUnregisterStep ==
  ASSUME DeliveryInv, NEW c \in Clients, HubUnregister(c)
  PROVE  DeliveryInv'
<1>1. {c} \in SUBSET Clients /\ hub' = hub \ {c} /\ Shutdown({c})
  BY DEF HubUnregister
<1>2. /\ UNCHANGED <<stage, overdue, presence, queue, publishing, router, faults>>
      /\ done' = done /\ done \in SUBSET Instances
  BY DEF HubUnregister, process, DeliveryInv, TypeOK
<1> QED BY <1>1, <1>2, HubLeaveStep

\* The hub stops and shuts its clients down.
LEMMA HubStopsStep ==
  ASSUME DeliveryInv, NEW i \in Instances, HubStops(i)
  PROVE  DeliveryInv'
<1>1. \E C \in SUBSET Clients : hub' = hub \ C /\ Shutdown(C)
  BY DEF HubStops, DeliveryInv, TypeOK
<1>2. /\ UNCHANGED <<stage, overdue, presence, queue, publishing, router, faults>>
      /\ done' \in SUBSET Instances /\ \A j \in done' : j \in done \/ stage[j] = "hub"
  BY DEF HubStops, DeliveryInv, TypeOK
<1> QED BY <1>1, <1>2, HubLeaveStep

\* A publication fails.
LEMMA FailStep ==
  ASSUME DeliveryInv, NEW e \in Events,
         LookupFailed(e) \/ PublishFails(e) \/ PublishStopped(e)
  PROVE  DeliveryInv'
<1> USE DEF DeliveryInv
<1>1. /\ Active(e) /\ Fail(e) /\ UNCHANGED <<process, client, router>>
  BY DEF LookupFailed, PublishFails, PublishStopped, Active
<1>2. faults' \in 0 .. MaxFaults
  BY DEF LookupFailed, PublishFails, PublishStopped, Fault, TypeOK
<1>3. PICK i \in Instances : i = publishing[e].at
  BY <1>1 DEF AudienceReached, Reaching
<1>4. /\ publishing' \in [Events -> Publication]
      /\ publishing'[e].step = "failed" /\ publishing'[e].audience = {}
      /\ \A d \in Events : d # e => publishing'[d] = publishing[d]
      /\ Orphan(i, e)
  BY <1>1, <1>3, FailWrites
<1>5. /\ queue' \in [Instances -> Seq(Request)]
      /\ \A j \in Instances :
           /\ DOMAIN queue'[j] = DOMAIN queue[j]
           /\ \A n \in DOMAIN queue[j] :
                /\ queue'[j][n].event = queue[j][n].event
                /\ queue'[j][n].user = queue[j][n].user
                /\ queue'[j][n].by = "worker" => queue'[j][n] = queue[j][n]
                /\ j = i /\ queue[j][n].event = e => queue'[j][n].by # "worker"
  BY <1>4, OrphanWrites
<1>6. TypeOK'
  BY <1>1, <1>2, <1>4, <1>5 DEF TypeOK, process, client, router
<1>7. HubServes'
  BY <1>1 DEF HubServes, client
<1>8. Settled
  <2>1. \A j \in Instances : ToSet(channel[j]) \subseteq ToSet(channel'[j])
    BY <1>1 DEF router
  <2>2. /\ step' = step /\ hub' = hub /\ accepted' = accepted /\ lost' = lost
        /\ hub' \subseteq Clients
    BY <1>1 DEF client, router, TypeOK
  <2> QED BY <1>5, <2>1, <2>2, SettledIf
<1>9. AudienceReached'
  <2>1. Reaching(e)'
    BY <1>4 DEF Reaching, Active
  <2>2. \A d \in Events \ {e} : Reaching(d)'
    BY <1>4, <1>8, ReachingKept DEF AudienceReached
  <2> QED BY <2>1, <2>2 DEF AudienceReached
<1>10. StagesInOrder'
  <2>1. \A d \in Events : Active(d)' => Active(d) /\ publishing'[d].at = publishing[d].at
    BY <1>4 DEF Active
  <2> QED BY <1>1, <2>1, OrderKept DEF router
<1>11. OneRequest'
  <2> SUFFICES ASSUME NEW j \in Instances, NEW n \in DOMAIN queue'[j], queue'[j][n].by = "worker"
               PROVE  /\ n \in DOMAIN queue[j] /\ queue'[j][n] = queue[j][n]
                      /\ publishing'[queue[j][n].event] = publishing[queue[j][n].event]
    BY RequestsKept
  <2>1. n \in DOMAIN queue[j] /\ queue'[j][n] = queue[j][n] /\ (j = i => queue[j][n].event # e)
    BY <1>5
  <2>2. publishing[queue[j][n].event].at = j
    BY <2>1 DEF OneRequest
  <2>3. queue[j][n].event # e
    BY <1>3, <2>1, <2>2
  <2>4. queue[j][n].event \in Events
    BY <2>1, RequestTypes
  <2> QED BY <1>4, <2>1, <2>3, <2>4
<1> QED BY <1>6, <1>7, <1>9, <1>10, <1>11

\* The router does not wait for its hub any more.
LEMMA ReceiveStoppedStep ==
  ASSUME DeliveryInv, NEW i \in Instances, ReceiveStopped(i)
  PROVE  DeliveryInv'
<1> USE DEF DeliveryInv
<1>1. /\ TypeOK' /\ UNCHANGED <<process, client, publishing, channel, lost, faults>>
      /\ waiting' \subseteq waiting
      /\ \A j \in Instances :
           /\ DOMAIN queue'[j] = DOMAIN queue[j]
           /\ \A n \in DOMAIN queue[j] :
                /\ queue'[j][n].event = queue[j][n].event
                /\ queue'[j][n].user = queue[j][n].user
                /\ queue'[j][n].by = "worker" => queue'[j][n] = queue[j][n]
  BY ReceiveStoppedWrites
<1>2. HubServes'
  BY <1>1 DEF HubServes, client
<1>3. Settled
  <2>1. /\ step' = step /\ hub' = hub /\ accepted' = accepted /\ lost' = lost
        /\ hub' \subseteq Clients /\ channel' = channel
    BY <1>1 DEF client, TypeOK
  <2> QED BY <1>1, <2>1, SettledIf
<1>4. AudienceReached'
  BY <1>1, <1>3, ReachingKept DEF AudienceReached
<1>5. StagesInOrder'
  BY <1>1, OrderKept DEF Active
<1>6. OneRequest'
  BY <1>1, RequestsKept
<1> QED BY <1>1, <1>2, <1>4, <1>5, <1>6

\* A worker begins with an event: its audience is in some hub, and found there.
LEMMA PrepareStep ==
  ASSUME DeliveryInv, NEW e \in Events, NEW i \in Instances, PrepareDeliveryBatch(e, i)
  PROVE  DeliveryInv'
<1> USE DEF DeliveryInv
<1>1. /\ TypeOK' /\ UNCHANGED <<process, client, queue, router>>
      /\ \A d \in Events : d # e => publishing'[d] = publishing[d]
      /\ publishing[e].step \in {"idle", "failed"} /\ stage[i] = "serving"
      /\ publishing'[e].step = "offer" /\ publishing'[e].at = i
      /\ publishing'[e].todo = Users
      /\ publishing'[e].audience = {c \in hub : c \in presence \/ Home[c] = i}
      /\ ~publishing'[e].lookupFailed =>
           \A u \in Users : publishing'[e].found[u] = {Home[c] : c \in {d \in presence : Owner[d] = u}}
  BY PrepareWrites
<1>2. HubServes'
  BY <1>1 DEF HubServes, client
<1>3. Settled
  <2>1. /\ step' = step /\ hub' = hub /\ accepted' = accepted /\ lost' = lost
        /\ hub' \subseteq Clients /\ channel' = channel /\ queue' = queue
    BY <1>1 DEF client, router, TypeOK
  <2> QED BY <2>1, SettledIf
<1>4. AudienceReached'
  <2>1. Reaching(e)'
    <3> DEFINE p == publishing'[e]
    <3>1. \A c \in p.audience : c \in hub /\ c \in Clients /\ (c \in presence \/ Home[c] = i)
      BY <1>1 DEF TypeOK
    <3>2. \A c \in p.audience : step'[c] \notin {"new", "registering"}
      BY <1>1, <3>1 DEF HubServes, client
    <3>3. \A c \in p.audience : ~p.lookupFailed => Home[c] \in p.found[Owner[c]] \cup {p.at}
      BY <1>1, <3>1
    <3>4. \A c \in p.audience : TurnAhead(e, c)'
      BY <1>1, <3>1 DEF TurnAhead
    <3> HIDE DEF p
    <3>5. p.step = "offer" /\ p.at \in Instances
      BY <1>1 DEF p
    <3> QED BY <3>2, <3>3, <3>4, <3>5 DEF p, Reaching, Active
  <2>2. \A d \in Events \ {e} : Reaching(d)'
    BY <1>1, <1>3, ReachingKept DEF AudienceReached
  <2> QED BY <2>1, <2>2 DEF AudienceReached
<1>5. StagesInOrder'
  <2>1. \A d \in Events : Active(d)' =>
           \/ Active(d) /\ publishing'[d].at = publishing[d].at
           \/ stage[publishing'[d].at] = "serving"
    BY <1>1 DEF Active
  <2> QED BY <1>1, <2>1, OrderKept DEF router
<1>6. OneRequest'
  <2> SUFFICES ASSUME NEW j \in Instances, NEW n \in DOMAIN queue[j], queue[j][n].by = "worker"
               PROVE  publishing'[queue[j][n].event] = publishing[queue[j][n].event]
    BY <1>1, RequestsKept
  <2>1. queue[j][n].event \in Events /\ publishing[queue[j][n].event].step = "wait"
    BY RequestTypes DEF OneRequest
  <2> QED BY <1>1, <2>1
<1> QED BY <1>1, <1>2, <1>4, <1>5, <1>6

\* publishLocal: the recipient's clients on this instance are covered by the
\* request, those on other instances have their turn after it.
LEMMA OfferStep ==
  ASSUME DeliveryInv, NEW e \in Events, OfferLocal(e)
  PROVE  DeliveryInv'
<1> USE DEF DeliveryInv
<1>0. publishing[e].step = "offer" /\ Active(e)
  BY DEF OfferLocal, Active
<1>1. PICK i \in Instances : i = publishing[e].at
  BY <1>0 DEF AudienceReached, Reaching
<1>2. PICK u \in publishing[e].todo :
        /\ u \in Users
        /\ TypeOK' /\ UNCHANGED <<process, client, router, faults>>
        /\ \A d \in Events : d # e => publishing'[d] = publishing[d]
        /\ publishing'[e].step = "wait" /\ publishing'[e].user = u
        /\ publishing'[e].todo = publishing[e].todo \ {u}
        /\ publishing'[e].at = i
        /\ publishing'[e].lookupFailed = publishing[e].lookupFailed
        /\ publishing'[e].found = publishing[e].found
        /\ publishing'[e].audience = publishing[e].audience
        /\ queue'[i] = Append(queue[i], [event |-> e, user |-> u, by |-> "worker"])
        /\ \A j \in Instances : j # i => queue'[j] = queue[j]
  BY <1>1, OfferWrites
<1> DEFINE r == [event |-> e, user |-> u, by |-> "worker"]
<1>3. r \in Request /\ r.event = e /\ r.user = u /\ r.by = "worker"
  BY <1>2 DEF Request
<1>4. queue'[i] = Append(queue[i], r)
  BY <1>2
<1> HIDE DEF r
<1>5. queue[i] \in Seq(Request)
  BY DEF TypeOK
<1>6. /\ ToSet(queue[i]) \subseteq ToSet(queue'[i]) /\ r \in ToSet(queue'[i])
      /\ \A n \in DOMAIN queue'[i] : \/ n \in DOMAIN queue[i] /\ queue'[i][n] = queue[i][n]
                                     \/ n = Len(queue[i]) + 1 /\ queue'[i][n] = r
  BY <1>3, <1>4, <1>5, AppendMembers
<1>7. HubServes'
  BY <1>2 DEF HubServes, client
<1>8. Settled
  <2>1. /\ step' = step /\ hub' = hub /\ accepted' = accepted /\ lost' = lost
        /\ hub' \subseteq Clients /\ channel' = channel
    BY <1>2 DEF client, router, TypeOK
  <2>2. \A j \in Instances : ToSet(queue[j]) \subseteq ToSet(queue'[j])
    BY <1>2, <1>6
  <2>3. \A j \in Instances : \A n \in DOMAIN queue[j] : \E k \in DOMAIN queue'[j] :
           queue'[j][k] = queue[j][n]
    BY <2>2 DEF ToSet
  <2> QED BY <2>1, <2>3, SettledIf
<1>9. AudienceReached'
  <2>1. Reaching(e)'
    <3>1. publishing[e].audience \subseteq Clients
      BY DEF TypeOK, Publication
    <3>2. ASSUME ~publishing[e].lookupFailed, NEW c \in publishing[e].audience, c \in hub'
          PROVE  Covered(e, c)' \/ TurnAhead(e, c)'
      <4>1. c \in hub
        BY <1>2, <3>2 DEF client
      <4>2. CASE Covered(e, c)
        BY <1>8, <3>2, <4>2 DEF Settled
      <4>3. CASE TurnAhead(e, c)
        <5>1. Owner[c] \in publishing[e].todo
          BY <1>0, <4>3 DEF TurnAhead
        <5>2. CASE Owner[c] # u
          BY <1>2, <5>1, <5>2 DEF TurnAhead
        <5>3. CASE Owner[c] = u /\ Home[c] = i
          BY <1>3, <1>6, <5>3 DEF Covered, UnderWay
        <5>4. CASE Owner[c] = u /\ Home[c] # i
          BY <1>2, <5>4 DEF TurnAhead
        <5> QED BY <5>2, <5>3, <5>4
      <4>4. Covered(e, c) \/ TurnAhead(e, c)
        BY <1>0, <3>2, <4>1 DEF AudienceReached, Reaching
      <4> QED BY <4>2, <4>3, <4>4
    <3>3. \A c \in publishing[e].audience : step'[c] \notin {"new", "registering"}
      BY <1>2 DEF AudienceReached, Reaching, client
    <3>4. ~publishing[e].lookupFailed =>
            \A c \in publishing[e].audience : Home[c] \in publishing[e].found[Owner[c]] \cup {i}
      BY <1>0, <1>1 DEF AudienceReached, Reaching
    <3> QED BY <1>2, <3>2, <3>3, <3>4 DEF Reaching
  <2>2. \A d \in Events \ {e} : Reaching(d)'
    BY <1>2, <1>8, ReachingKept DEF AudienceReached
  <2> QED BY <2>1, <2>2 DEF AudienceReached
<1>10. StagesInOrder'
  <2>1. \A d \in Events : Active(d)' => Active(d) /\ publishing'[d].at = publishing[d].at
    BY <1>0, <1>1, <1>2 DEF Active
  <2> QED BY <1>2, <2>1, OrderKept DEF router
<1>11. OneRequest'
  <2>1. \A j \in Instances : \A n \in DOMAIN queue[j] :
          queue[j][n].by = "worker" => queue[j][n].event # e
    BY <1>0 DEF OneRequest
  <2>2. \A j \in Instances : \A n \in DOMAIN queue'[j] :
          \/ n \in DOMAIN queue[j] /\ queue'[j][n] = queue[j][n]
          \/ j = i /\ n = Len(queue[i]) + 1 /\ queue'[j][n] = r
    BY <1>2, <1>6
  <2>3. ASSUME NEW j \in Instances, NEW n \in DOMAIN queue'[j], queue'[j][n].by = "worker"
        PROVE  /\ publishing'[queue'[j][n].event].step = "wait"
               /\ publishing'[queue'[j][n].event].at = j
               /\ publishing'[queue'[j][n].event].user = queue'[j][n].user
               /\ \A k \in DOMAIN queue'[j] :
                    queue'[j][k].by = "worker" /\ queue'[j][k].event = queue'[j][n].event => k = n
    <3>1. CASE n \in DOMAIN queue[j] /\ queue'[j][n] = queue[j][n]
      <4>1. queue[j][n].event \in Events \ {e}
        BY <2>1, <2>3, <3>1, RequestTypes
      <4>2. publishing'[queue[j][n].event] = publishing[queue[j][n].event]
        BY <1>2, <4>1
      <4>3. \A k \in DOMAIN queue'[j] : queue'[j][k].event = queue'[j][n].event =>
                k \in DOMAIN queue[j] /\ queue'[j][k] = queue[j][k]
        BY <1>3, <2>2, <3>1, <4>1
      <4> QED BY <2>3, <3>1, <4>2, <4>3 DEF OneRequest
    <3>2. CASE j = i /\ n = Len(queue[i]) + 1 /\ queue'[j][n] = r
      <4>1. \A k \in DOMAIN queue'[j] :
                queue'[j][k].by = "worker" /\ queue'[j][k].event = e => k = n
        BY <2>1, <2>2, <3>2
      <4> QED BY <1>2, <1>3, <3>2, <4>1
    <3> QED BY <2>2, <3>1, <3>2
  <2> QED BY <2>3 DEF OneRequest
<1> QED BY <1>2, <1>7, <1>9, <1>10, <1>11

\* The hub delivers a request to the clients of its user, and answers.
LEMMA HubPublishStep ==
  ASSUME DeliveryInv, NEW i \in Instances, HubPublish(i)
  PROVE  DeliveryInv'
<1> USE DEF DeliveryInv
<1>1. PICK r \in Request :
         /\ r = Head(queue[i])
         /\ TypeOK' /\ deliver(i, r)
         /\ queue[i] # <<>> /\ queue'[i] = Tail(queue[i])
         /\ \A j \in Instances : j # i => queue'[j] = queue[j]
         /\ \A d \in Events : d # r.event => publishing'[d] = publishing[d]
         /\ publishing'[r.event] = IF r.by = "worker"
                                   THEN [publishing[r.event] EXCEPT !.step = "answered"]
                                   ELSE publishing[r.event]
         /\ waiting' \subseteq waiting
         /\ UNCHANGED <<process, presence, channel, lost, faults>>
  BY HubPublishWrites
<1>2. queue[i] \in Seq(Request)
  BY DEF TypeOK
<1>3. /\ \A x \in ToSet(queue[i]) : x = r \/ x \in ToSet(queue'[i])
      /\ \A n \in DOMAIN queue'[i] : /\ n + 1 \in DOMAIN queue[i]
                                     /\ queue'[i][n] = queue[i][n + 1] /\ n \in Nat \ {0}
      /\ 1 \in DOMAIN queue[i] /\ r = queue[i][1]
  BY <1>1, <1>2, TailMembers
<1>4. /\ hub' \in SUBSET Clients /\ hub' \subseteq hub
      /\ \A c \in Clients : step'[c] \in {step[c], "closed"}
      /\ \A c \in hub' : /\ step'[c] = step[c] /\ accepted[c] \subseteq accepted'[c]
                         /\ Home[c] = i /\ Owner[c] = r.user => r.event \in accepted'[c]
  BY <1>1, DeliverWrites
<1> DEFINE e == r.event
<1>5. e \in Events
  BY DEF Request
<1>6. r.by = "worker" => publishing[e].step = "wait" /\ publishing[e].at = i
  BY <1>3 DEF OneRequest
<1>7. r.by = "worker" =>
        /\ publishing'[e].step = "answered" /\ publishing'[e].at = publishing[e].at
        /\ publishing'[e].user = publishing[e].user
        /\ publishing'[e].todo = publishing[e].todo
        /\ publishing'[e].lookupFailed = publishing[e].lookupFailed
        /\ publishing'[e].found = publishing[e].found
        /\ publishing'[e].audience = publishing[e].audience
  <2>1. publishing[e] \in Publication
    BY <1>5 DEF TypeOK
  <2> QED BY <1>1, <2>1 DEF Publication
<1>8. HubServes'
  BY <1>4 DEF HubServes
<1>9. Settled
  <2>1. /\ \A c \in Clients : step[c] \notin {"new", "registering"} =>
                              step'[c] \notin {"new", "registering"}
        /\ \A c \in hub' : c \in hub
    BY <1>4
  <2>2. ASSUME NEW d \in Events, NEW c \in hub', Covered(d, c)
        PROVE  Covered(d, c)'
    <3>1. c \in Clients /\ Home[c] \in Instances
      BY <1>4
    <3>2. CASE d \in accepted[c] \/ <<d, Home[c]>> \in lost
      BY <1>1, <1>4, <3>2 DEF Covered
    <3>3. CASE \E command \in ToSet(channel[Home[c]]) :
                  command.event = d /\ command.user = Owner[c]
      BY <1>1, <3>3 DEF Covered, UnderWay
    <3>4. CASE \E x \in ToSet(queue[Home[c]]) : x.event = d /\ x.user = Owner[c]
      <4>1. PICK x \in ToSet(queue[Home[c]]) : x.event = d /\ x.user = Owner[c]
        BY <3>4
      <4>2. CASE x \in ToSet(queue'[Home[c]])
        BY <4>1, <4>2 DEF Covered, UnderWay
      <4>3. CASE Home[c] = i /\ x = r
        BY <1>4, <4>1, <4>3 DEF Covered
      <4> QED BY <1>1, <1>3, <3>1, <4>1, <4>2, <4>3
    <3> QED BY <2>2, <3>2, <3>3, <3>4 DEF Covered, UnderWay
  <2> QED BY <2>1, <2>2 DEF Settled
<1>10. AudienceReached'
  <2>1. \A d \in Events : publishing'[d] = publishing[d] => Reaching(d)'
    BY <1>9, ReachingKept DEF AudienceReached
  <2>2. ASSUME r.by = "worker"  PROVE Reaching(e)'
    <3>1. publishing[e].audience \subseteq Clients
      BY <1>5 DEF TypeOK, Publication
    <3>2. Active(e) /\ Reaching(e)
      BY <1>5, <1>6, <2>2 DEF Active, AudienceReached
    <3>3. \A c \in publishing[e].audience : step'[c] \notin {"new", "registering"}
      BY <1>9, <3>1, <3>2 DEF Settled, Reaching
    <3>4. ASSUME ~publishing[e].lookupFailed, NEW c \in publishing[e].audience, c \in hub'
          PROVE  Covered(e, c)' \/ TurnAhead(e, c)'
      <4>1. Covered(e, c) \/ TurnAhead(e, c)
        BY <1>4, <3>2, <3>4 DEF Reaching
      <4>2. Covered(e, c) => Covered(e, c)'
        BY <1>5, <1>9, <3>4 DEF Settled
      <4>3. TurnAhead(e, c) => TurnAhead(e, c)'
        BY <1>6, <1>7, <2>2 DEF TurnAhead
      <4> QED BY <4>1, <4>2, <4>3
    <3> QED BY <1>6, <1>7, <2>2, <3>2, <3>3, <3>4 DEF Reaching
  <2> QED BY <1>1, <1>5, <2>1, <2>2 DEF AudienceReached
<1>11. StagesInOrder'
  <2>1. \A d \in Events : Active(d)' => Active(d) /\ publishing'[d].at = publishing[d].at
    BY <1>1, <1>6, <1>7 DEF Active
  <2> QED BY <1>1, <2>1, OrderKept
<1>12. OneRequest'
  <2>1. ASSUME NEW j \in Instances, NEW n \in DOMAIN queue'[j], queue'[j][n].by = "worker"
        PROVE  /\ publishing'[queue'[j][n].event].step = "wait"
               /\ publishing'[queue'[j][n].event].at = j
               /\ publishing'[queue'[j][n].event].user = queue'[j][n].user
               /\ \A k \in DOMAIN queue'[j] :
                    queue'[j][k].by = "worker" /\ queue'[j][k].event = queue'[j][n].event => k = n
    <3>1. CASE j # i
      <4>1. queue'[j] = queue[j]
        BY <1>1, <3>1
      <4>2. queue[j][n].event \in Events /\ publishing[queue[j][n].event].at = j
        BY <2>1, <4>1, RequestTypes DEF OneRequest
      <4>3. publishing'[queue[j][n].event] = publishing[queue[j][n].event]
        BY <1>1, <1>6, <3>1, <4>2
      <4> QED BY <2>1, <4>1, <4>3 DEF OneRequest
    <3>2. CASE j = i
      <4>1. /\ n + 1 \in DOMAIN queue[i] /\ queue'[i][n] = queue[i][n + 1]
            /\ n \in Nat \ {0} /\ n + 1 # 1
        BY <1>3, <3>2
      <4>2. queue[i][n + 1].event \in Events
        BY <4>1, RequestTypes
      <4>3. \A k \in DOMAIN queue[i] :
              queue[i][k].by = "worker" /\ queue[i][k].event = queue[i][n + 1].event => k = n + 1
        BY <2>1, <3>2, <4>1 DEF OneRequest
      <4>4. r.by = "worker" => queue[i][n + 1].event # e
        BY <1>3, <4>1, <4>3
      <4>5. publishing'[queue[i][n + 1].event] = publishing[queue[i][n + 1].event]
        BY <1>1, <4>2, <4>4
      <4>6. ASSUME NEW k \in DOMAIN queue'[i], queue'[i][k].by = "worker",
                   queue'[i][k].event = queue'[i][n].event
            PROVE  k = n
        BY <1>3, <4>1, <4>3, <4>6
      <4> QED BY <2>1, <3>2, <4>1, <4>5, <4>6 DEF OneRequest
    <3> QED BY <3>1, <3>2
  <2> QED BY <2>1 DEF OneRequest
<1> QED BY <1>1, <1>8, <1>10, <1>11, <1>12

\* publishRemote: the instances where the recipient has clients are told, all
\* of them, before the next recipient has its turn.
LEMMA RemoteStep ==
  ASSUME DeliveryInv, NEW e \in Events, PublishRemote(e)
  PROVE  DeliveryInv'
<1> USE DEF DeliveryInv
<1>0. /\ publishing[e].step = "answered" /\ ~publishing[e].lookupFailed /\ Active(e)
      /\ Reaching(e)
  BY DEF PublishRemote, Active, AudienceReached
<1>1. publishing[e].user \in Users /\ publishing[e].at \in Instances
  BY <1>0 DEF Reaching
<1>2. /\ TypeOK' /\ UNCHANGED <<process, client, queue, router, faults>>
      /\ \A d \in Events : d # e => publishing'[d] = publishing[d]
      /\ RemoteInstances(e) = {} => publishing'[e] = NextRecipient(publishing[e])
      /\ RemoteInstances(e) # {} =>
           /\ publishing'[e].step = "remote" /\ publishing'[e].remote = RemoteInstances(e)
           /\ publishing'[e].user = publishing[e].user
           /\ publishing'[e].todo = publishing[e].todo
           /\ publishing'[e].at = publishing[e].at
           /\ publishing'[e].lookupFailed = publishing[e].lookupFailed
           /\ publishing'[e].found = publishing[e].found
           /\ publishing'[e].audience = publishing[e].audience
  BY <1>1, RemoteWrites
<1>3. publishing[e] \in Publication
  BY DEF TypeOK
<1>4. RemoteInstances(e) = {} =>
        /\ publishing'[e].audience = publishing[e].audience
        /\ publishing[e].todo = {} => publishing'[e].step = "ok"
        /\ publishing[e].todo # {} =>
             /\ publishing'[e].step = "offer" /\ publishing'[e].at = publishing[e].at
             /\ publishing'[e].todo = publishing[e].todo
             /\ publishing'[e].lookupFailed = publishing[e].lookupFailed
             /\ publishing'[e].found = publishing[e].found
  BY <1>2, <1>3, NextWrites
<1>5. HubServes'
  BY <1>2 DEF HubServes, client
<1>6. Settled
  <2>1. /\ step' = step /\ hub' = hub /\ accepted' = accepted /\ lost' = lost
        /\ hub' \subseteq Clients /\ channel' = channel /\ queue' = queue
    BY <1>2 DEF client, router, TypeOK
  <2> QED BY <2>1, SettledIf
<1>7. AudienceReached'
  <2>1. Reaching(e)'
    <3> DEFINE p == publishing[e]
    <3>1. p.audience \subseteq Clients /\ publishing'[e].audience = p.audience
      BY <1>2, <1>3, <1>4 DEF Publication
    <3>2. \A c \in p.audience : step'[c] \notin {"new", "registering"}
      BY <1>0, <1>6, <3>1 DEF Settled, Reaching
    <3>3. \A c \in p.audience : Home[c] \in p.found[Owner[c]] \cup {p.at}
      BY <1>0 DEF Reaching
    <3>4. ASSUME NEW c \in p.audience, c \in hub'
          PROVE  \/ Covered(e, c)'
                 \/ Owner[c] \in p.todo
                 \/ Owner[c] = p.user /\ Home[c] # p.at /\ Home[c] \in RemoteInstances(e)
      <4>1. c \in hub
        BY <1>2, <3>4 DEF client
      <4>2. Covered(e, c) \/ TurnAhead(e, c)
        BY <1>0, <4>1 DEF Reaching
      <4>3. Covered(e, c) => Covered(e, c)'
        BY <1>6, <3>4 DEF Settled
      <4>4. TurnAhead(e, c) =>
              Owner[c] \in p.todo \/ (Owner[c] = p.user /\ Home[c] # p.at)
        BY DEF TurnAhead
      <4>5. Owner[c] = p.user /\ Home[c] # p.at => Home[c] \in RemoteInstances(e)
        BY <3>3 DEF RemoteInstances
      <4> QED BY <4>2, <4>3, <4>4, <4>5
    <3>5. CASE RemoteInstances(e) = {} /\ p.todo = {}
      <4>1. publishing'[e].step = "ok"
        BY <1>4, <3>5
      <4>2. \A c \in p.audience \cap hub' : Covered(e, c)'
        BY <3>4, <3>5
      <4> QED BY <3>1, <3>2, <4>1, <4>2 DEF Reaching, Active
    <3>6. CASE RemoteInstances(e) = {} /\ p.todo # {}
      <4>1. \A c \in p.audience \cap hub' : Covered(e, c)' \/ TurnAhead(e, c)'
        BY <1>4, <3>4, <3>6 DEF TurnAhead
      <4> QED BY <1>1, <1>4, <3>1, <3>2, <3>3, <3>6, <4>1 DEF Reaching, Active
    <3>7. CASE RemoteInstances(e) # {}
      <4>1. \A c \in p.audience \cap hub' : Covered(e, c)' \/ TurnAhead(e, c)'
        BY <1>2, <3>4, <3>7 DEF TurnAhead
      <4> QED BY <1>0, <1>1, <1>2, <3>1, <3>2, <3>3, <3>7, <4>1 DEF Reaching, Active
    <3> QED BY <3>5, <3>6, <3>7
  <2>2. \A d \in Events \ {e} : Reaching(d)'
    BY <1>2, <1>6, ReachingKept DEF AudienceReached
  <2> QED BY <2>1, <2>2 DEF AudienceReached
<1>8. StagesInOrder'
  <2>1. Active(e)' => publishing'[e].at = publishing[e].at
    BY <1>2, <1>4 DEF Active
  <2>2. \A d \in Events : Active(d)' => Active(d) /\ publishing'[d].at = publishing[d].at
    BY <1>0, <1>2, <2>1 DEF Active
  <2> QED BY <1>2, <2>2, OrderKept DEF router
<1>9. OneRequest'
  <2> SUFFICES ASSUME NEW j \in Instances, NEW n \in DOMAIN queue[j], queue[j][n].by = "worker"
               PROVE  publishing'[queue[j][n].event] = publishing[queue[j][n].event]
    BY <1>2, RequestsKept
  <2>1. queue[j][n].event \in Events /\ publishing[queue[j][n].event].step = "wait"
    BY RequestTypes DEF OneRequest
  <2> QED BY <1>0, <1>2, <2>1
<1> QED BY <1>2, <1>5, <1>7, <1>8, <1>9

\* A command is sent: its clients are covered by it, or the command is lost.
LEMMA SendStep ==
  ASSUME DeliveryInv, NEW e \in Events, SendCommand(e)
  PROVE  DeliveryInv'
<1> USE DEF DeliveryInv
<1>0. publishing[e].step = "remote" /\ Active(e) /\ Reaching(e)
  BY DEF SendCommand, Active, AudienceReached
<1>1. publishing[e].user \in Users /\ publishing[e].at \in Instances /\ ~publishing[e].lookupFailed
  BY <1>0 DEF Reaching
<1>2. PICK j \in publishing[e].remote :
        /\ j \in Instances /\ Send(e, j)
        /\ TypeOK' /\ UNCHANGED <<process, client, queue, waiting>>
        /\ \A d \in Events : d # e => publishing'[d] = publishing[d]
        /\ publishing[e].step = "remote"
        /\ publishing'[e].audience = publishing[e].audience
        /\ publishing[e].remote = {j} /\ publishing[e].todo = {} => publishing'[e].step = "ok"
        /\ ~(publishing[e].remote = {j} /\ publishing[e].todo = {}) =>
             /\ publishing'[e].step = IF publishing[e].remote = {j} THEN "offer" ELSE "remote"
             /\ publishing'[e].todo = publishing[e].todo
             /\ publishing'[e].at = publishing[e].at
             /\ publishing'[e].lookupFailed = publishing[e].lookupFailed
             /\ publishing'[e].found = publishing[e].found
        /\ publishing[e].remote # {j} =>
             /\ publishing'[e].user = publishing[e].user
             /\ publishing'[e].remote = publishing[e].remote \ {j}
  BY <1>1, SendCommandWrites
<1> DEFINE command == [event |-> e, user |-> publishing[e].user]
<1>3. /\ lost \subseteq lost' /\ \A k \in Instances : k # j => channel'[k] = channel[k]
      /\ \/ channel'[j] = Append(channel[j], command)
         \/ channel'[j] = channel[j] /\ <<e, j>> \in lost'
  BY <1>1, <1>2, SendWrites
<1>4. command \in Command /\ command.event = e /\ command.user = publishing[e].user
  BY <1>1 DEF Command
<1> HIDE DEF command
<1>5. /\ ToSet(channel[j]) \subseteq ToSet(channel'[j])
      /\ command \in ToSet(channel'[j]) \/ <<e, j>> \in lost'
  <2>1. channel[j] \in Seq(Command)
    BY <1>2 DEF TypeOK
  <2>2. /\ ToSet(channel[j]) \subseteq ToSet(Append(channel[j], command))
        /\ command \in ToSet(Append(channel[j], command))
    BY <1>4, <2>1, AppendMembers
  <2> QED BY <1>3, <2>2
<1>6. HubServes'
  BY <1>2 DEF HubServes, client
<1>7. Settled
  <2>1. /\ step' = step /\ hub' = hub /\ accepted' = accepted
        /\ hub' \subseteq Clients /\ queue' = queue
    BY <1>2 DEF client, TypeOK
  <2>2. \A k \in Instances : ToSet(channel[k]) \subseteq ToSet(channel'[k])
    BY <1>3, <1>5
  <2> QED BY <1>3, <2>1, <2>2, SettledIf
<1>8. AudienceReached'
  <2>1. Reaching(e)'
    <3> DEFINE p == publishing[e]
    <3>1. p.audience \subseteq Clients
      BY DEF TypeOK, Publication
    <3>2. \A c \in p.audience : step'[c] \notin {"new", "registering"}
      BY <1>0, <1>7, <3>1 DEF Settled, Reaching
    <3>3. \A c \in p.audience : Home[c] \in p.found[Owner[c]] \cup {p.at}
      BY <1>0, <1>1 DEF Reaching
    <3>4. ASSUME NEW c \in p.audience, c \in hub'
          PROVE  \/ Covered(e, c)'
                 \/ Owner[c] \in p.todo
                 \/ Owner[c] = p.user /\ Home[c] # p.at /\ Home[c] \in p.remote \ {j}
      <4>1. c \in hub
        BY <1>2, <3>4 DEF client
      <4>2. Covered(e, c) \/ TurnAhead(e, c)
        BY <1>0, <1>1, <4>1 DEF Reaching
      <4>3. Covered(e, c) => Covered(e, c)'
        BY <1>7, <3>4 DEF Settled
      <4>4. TurnAhead(e, c) =>
              Owner[c] \in p.todo \/ (Owner[c] = p.user /\ Home[c] # p.at /\ Home[c] \in p.remote)
        BY <1>0 DEF TurnAhead
      <4>5. Owner[c] = p.user /\ Home[c] = j => Covered(e, c)'
        BY <1>4, <1>5 DEF Covered, UnderWay
      <4> QED BY <4>2, <4>3, <4>4, <4>5
    <3>5. CASE p.remote = {j} /\ p.todo = {}
      <4>1. publishing'[e].step = "ok"
        BY <1>2, <3>5
      <4>2. \A c \in p.audience \cap hub' : Covered(e, c)'
        BY <3>4, <3>5
      <4> QED BY <1>2, <3>2, <4>1, <4>2 DEF Reaching, Active
    <3>6. CASE p.remote = {j} /\ p.todo # {}
      <4>1. \A c \in p.audience \cap hub' : Covered(e, c)' \/ TurnAhead(e, c)'
        BY <1>2, <3>4, <3>6 DEF TurnAhead
      <4> QED BY <1>1, <1>2, <3>2, <3>3, <3>6, <4>1 DEF Reaching, Active
    <3>7. CASE p.remote # {j}
      <4>1. \A c \in p.audience \cap hub' : Covered(e, c)' \/ TurnAhead(e, c)'
        BY <1>2, <3>4, <3>7 DEF TurnAhead
      <4> QED BY <1>1, <1>2, <3>2, <3>3, <3>7, <4>1 DEF Reaching, Active
    <3> QED BY <3>5, <3>6, <3>7
  <2>2. \A d \in Events \ {e} : Reaching(d)'
    BY <1>2, <1>7, ReachingKept DEF AudienceReached
  <2> QED BY <2>1, <2>2 DEF AudienceReached
<1>9. StagesInOrder'
  <2>1. Active(e)' => publishing'[e].at = publishing[e].at
    BY <1>2 DEF Active
  <2>2. \A d \in Events : Active(d)' => Active(d) /\ publishing'[d].at = publishing[d].at
    BY <1>0, <1>2, <2>1 DEF Active
  <2> QED BY <1>2, <2>2, OrderKept
<1>10. OneRequest'
  <2> SUFFICES ASSUME NEW k \in Instances, NEW n \in DOMAIN queue[k], queue[k][n].by = "worker"
               PROVE  publishing'[queue[k][n].event] = publishing[queue[k][n].event]
    BY <1>2, RequestsKept
  <2>1. queue[k][n].event \in Events /\ publishing[queue[k][n].event].step = "wait"
    BY RequestTypes DEF OneRequest
  <2> QED BY <1>0, <1>2, <2>1
<1> QED BY <1>2, <1>6, <1>8, <1>9, <1>10

\* A command goes from the channel of an instance into its hub's.
LEMMA ReceiveStep ==
  ASSUME DeliveryInv, NEW i \in Instances, ReceiveCommand(i)
  PROVE  DeliveryInv'
<1> USE DEF DeliveryInv
<1>1. PICK command \in Command :
        /\ command = Head(channel[i])
        /\ TypeOK' /\ UNCHANGED <<process, client, publishing, lost, faults>>
        /\ stage[i] \in {"serving", "worker", "router"} /\ channel[i] # <<>>
        /\ queue'[i] = Append(queue[i], [event |-> command.event, user |-> command.user,
                                         by |-> "router"])
        /\ channel'[i] = Tail(channel[i])
        /\ \A j \in Instances : j # i => queue'[j] = queue[j] /\ channel'[j] = channel[j]
        /\ waiting' = waiting \cup {i}
  BY ReceiveWrites
<1> DEFINE r == [event |-> command.event, user |-> command.user, by |-> "router"]
<1>2. /\ r \in Request /\ r.event = command.event /\ r.user = command.user /\ r.by # "worker"
      /\ queue'[i] = Append(queue[i], r)
  BY <1>1 DEF Request, Command
<1> HIDE DEF r
<1>3. queue[i] \in Seq(Request) /\ channel[i] \in Seq(Command)
  BY DEF TypeOK
<1>4. /\ ToSet(queue[i]) \subseteq ToSet(queue'[i]) /\ r \in ToSet(queue'[i])
      /\ \A n \in DOMAIN queue'[i] : \/ n \in DOMAIN queue[i] /\ queue'[i][n] = queue[i][n]
                                     \/ queue'[i][n] = r
  BY <1>2, <1>3, AppendMembers
<1>5. \A x \in ToSet(channel[i]) : x = command \/ x \in ToSet(channel'[i])
  BY <1>1, <1>3, TailMembers
<1>6. HubServes'
  BY <1>1 DEF HubServes, client
<1>7. Settled
  <2>1. step' = step /\ hub' = hub /\ accepted' = accepted /\ lost' = lost /\ hub \subseteq Clients
    BY <1>1 DEF client, TypeOK
  <2>2. ASSUME NEW d \in Events, NEW c \in hub', UnderWay(d, c)
        PROVE  UnderWay(d, c)'
    <3>1. Home[c] \in Instances
      BY <2>1
    <3>2. CASE \E x \in ToSet(queue[Home[c]]) : x.event = d /\ x.user = Owner[c]
      BY <1>1, <1>4, <3>1, <3>2 DEF UnderWay
    <3>3. CASE \E x \in ToSet(channel[Home[c]]) : x.event = d /\ x.user = Owner[c]
      <4>1. PICK x \in ToSet(channel[Home[c]]) : x.event = d /\ x.user = Owner[c]
        BY <3>3
      <4>2. CASE x \in ToSet(channel'[Home[c]])
        BY <4>1, <4>2 DEF UnderWay
      <4>3. CASE Home[c] = i /\ x = command
        BY <1>2, <1>4, <4>1, <4>3 DEF UnderWay
      <4> QED BY <1>1, <1>5, <3>1, <4>1, <4>2, <4>3
    <3> QED BY <2>2, <3>2, <3>3 DEF UnderWay
  <2> QED BY <2>1, <2>2 DEF Settled, Covered
<1>8. AudienceReached'
  BY <1>1, <1>7, ReachingKept DEF AudienceReached
<1>9. StagesInOrder'
  BY <1>1, OrderKept DEF Active
<1>10. OneRequest'
  <2>1. \A j \in Instances : \A n \in DOMAIN queue'[j] : queue'[j][n].by = "worker" =>
          n \in DOMAIN queue[j] /\ queue'[j][n] = queue[j][n]
    BY <1>1, <1>2, <1>4
  <2> QED BY <1>1, <2>1, RequestsKept
<1> QED BY <1>1, <1>6, <1>8, <1>9, <1>10

\* main stops the worker, then the router.
LEMMA StopStep ==
  ASSUME DeliveryInv, NEW i \in Instances, StopWorker(i) \/ StopRouter(i)
  PROVE  DeliveryInv'
<1> USE DEF DeliveryInv
<1>1. UNCHANGED <<done, client, queue, publishing, router>>
  BY DEF StopWorker, StopRouter
<1>3. /\ overdue' \in SUBSET Instances /\ faults' \in 0 .. MaxFaults /\ overdue \subseteq overdue'
      /\ stage[i] \in {"serving", "worker"}
      /\ \/ stage' = [stage EXCEPT ![i] = "worker"]
         \/ stage' = [stage EXCEPT ![i] = "router"] /\ (WorkerDone(i) \/ i \in overdue')
  <2>1. CASE StopWorker(i)
    BY <2>1 DEF StopWorker, TypeOK
  <2>2. CASE StopRouter(i)
    BY <2>2 DEF StopRouter, Awaited, Fault, TypeOK
  <2> QED BY <2>1, <2>2
<1>4. stage' \in [Instances -> Stages]
  BY <1>3 DEF TypeOK, Stages
<1>5. TypeOK'
  BY <1>1, <1>3, <1>4 DEF TypeOK, client, router
<1>6. HubServes'
  BY <1>1 DEF HubServes, client
<1>7. Settled
  <2>1. /\ step' = step /\ hub' = hub /\ accepted' = accepted /\ lost' = lost
        /\ hub' \subseteq Clients /\ channel' = channel /\ queue' = queue
    BY <1>1 DEF client, router, TypeOK
  <2> QED BY <2>1, SettledIf
<1>8. AudienceReached'
  BY <1>1, <1>7, ReachingKept DEF AudienceReached
<1>9. StagesInOrder'
  <2>1. \A j \in Instances : WorkerDone(j)' <=> WorkerDone(j)
    BY <1>1 DEF WorkerDone, Active
  <2>2. \A j \in Instances : stage'[j] = stage[j] \/ (j = i /\ stage'[j] \in {"worker", "router"})
    BY <1>3 DEF TypeOK
  <2>3. stage'[i] = "router" => WorkerDone(i) \/ i \in overdue'
    BY <1>3 DEF TypeOK
  <2>4. i \notin done
    BY <1>3 DEF StagesInOrder
  <2> QED BY <1>1, <1>3, <2>1, <2>2, <2>3, <2>4 DEF StagesInOrder, router
<1>10. OneRequest'
  BY <1>1 DEF OneRequest
<1> QED BY <1>5, <1>6, <1>8, <1>9, <1>10

\* The hub is to stop: the commands that the router has not read are lost.
LEMMA StopHubStep ==
  ASSUME DeliveryInv, NEW i \in Instances, StopHub(i)
  PROVE  DeliveryInv'
<1> USE DEF DeliveryInv
<1>1. /\ UNCHANGED <<done, client, queue, publishing, waiting>> /\ stage[i] = "router"
      /\ stage' = [stage EXCEPT ![i] = "hub"]
      /\ channel' = [channel EXCEPT ![i] = <<>>]
      /\ lost' = lost \cup {<<command.event, i>> : command \in ToSet(channel[i])}
  BY DEF StopHub
<1>2. /\ overdue' \in SUBSET Instances /\ faults' \in 0 .. MaxFaults
      /\ overdue \subseteq overdue' /\ (i \notin waiting \/ i \in overdue')
  BY DEF StopHub, Awaited, Fault, TypeOK
<1>3. \A x \in ToSet(channel[i]) : x.event \in Events
  <2>1. channel[i] \in Seq(Command)
    BY DEF TypeOK
  <2>2. \A n \in DOMAIN channel[i] : channel[i][n] \in Command
    BY <2>1
  <2> QED BY <2>2 DEF ToSet, Command
<1>4. TypeOK'
  <2>1. stage' \in [Instances -> Stages]
    BY <1>1 DEF TypeOK, Stages
  <2>2. <<>> \in Seq(Command)
    OBVIOUS
  <2>3. channel' \in [Instances -> Seq(Command)]
    BY <1>1, <2>2 DEF TypeOK
  <2>4. lost' \in SUBSET (Events \X Instances)
    BY <1>1, <1>3 DEF TypeOK
  <2> QED BY <1>1, <1>2, <2>1, <2>3, <2>4 DEF TypeOK, client
<1>5. HubServes'
  BY <1>1 DEF HubServes, client
<1>6. Settled
  <2>1. /\ step' = step /\ hub' = hub /\ accepted' = accepted /\ queue' = queue
        /\ lost \subseteq lost' /\ hub \subseteq Clients
    BY <1>1 DEF client, TypeOK
  <2>2. \A j \in Instances : j # i => channel'[j] = channel[j]
    BY <1>1 DEF TypeOK
  <2>3. ASSUME NEW d \in Events, NEW c \in hub', UnderWay(d, c)
        PROVE  UnderWay(d, c)' \/ <<d, Home[c]>> \in lost'
    <3>1. Home[c] \in Instances
      BY <2>1
    <3>2. CASE \E x \in ToSet(queue[Home[c]]) : x.event = d /\ x.user = Owner[c]
      BY <2>1, <3>2 DEF UnderWay
    <3>3. CASE \E x \in ToSet(channel[Home[c]]) : x.event = d /\ x.user = Owner[c]
      <4>1. CASE Home[c] = i
        BY <1>1, <3>3, <4>1
      <4>2. CASE Home[c] # i
        BY <2>2, <3>1, <3>3, <4>2 DEF UnderWay
      <4> QED BY <4>1, <4>2
    <3> QED BY <2>3, <3>2, <3>3 DEF UnderWay
  <2> QED BY <2>1, <2>3 DEF Settled, Covered
<1>7. AudienceReached'
  BY <1>1, <1>6, ReachingKept DEF AudienceReached
<1>8. StagesInOrder'
  <2>1. \A j \in Instances : WorkerDone(j)' <=> WorkerDone(j)
    BY <1>1 DEF WorkerDone, Active
  <2>2. \A j \in Instances : stage'[j] = stage[j] \/ (j = i /\ stage'[j] = "hub")
    BY <1>1 DEF TypeOK
  <2> QED BY <1>1, <1>2, <2>1, <2>2 DEF StagesInOrder
<1>9. OneRequest'
  BY <1>1 DEF OneRequest
<1> QED BY <1>4, <1>5, <1>7, <1>8, <1>9

\* The process ends, with its clients, its requests and its publications.
LEMMA ExitStep ==
  ASSUME DeliveryInv, NEW i \in Instances, Exit(i)
  PROVE  DeliveryInv'
<1> USE DEF DeliveryInv
<1> DEFINE mine == {c \in Clients : Home[c] = i /\ step[c] # "new"}
           gone == [Idle EXCEPT !.step = "failed"]
<1>1. /\ UNCHANGED <<presence, channel, lost>> /\ stage[i] = "hub"
      /\ stage' = [stage EXCEPT ![i] = "stopped"] /\ done' = done \cup {i}
      /\ hub' = hub \ mine /\ Shutdown(mine)
      /\ queue' = [queue EXCEPT ![i] = <<>>] /\ waiting' = waiting \ {i}
  BY DEF Exit
<1>2. publishing' = [e \in Events |->
         IF Active(e) /\ publishing[e].at = i THEN gone ELSE publishing[e]]
  BY DEF Exit
<1>3. /\ overdue' \in SUBSET Instances /\ faults' \in 0 .. MaxFaults /\ overdue \subseteq overdue'
  BY DEF Exit, Awaited, Fault, TypeOK
<1>4. gone \in Publication /\ gone.step = "failed" /\ gone.audience = {}
  BY IdleTypes
<1> HIDE DEF gone
<1>5. \A e \in Events : publishing'[e] = IF Active(e) /\ publishing[e].at = i THEN gone
                                         ELSE publishing[e]
  BY <1>2
<1>6. publishing' \in [Events -> Publication]
  BY <1>2, <1>4 DEF TypeOK
<1>7. /\ queue' \in [Instances -> Seq(Request)] /\ queue'[i] = <<>>
      /\ \A j \in Instances : j # i => queue'[j] = queue[j]
  <2>1. <<>> \in Seq(Request)
    OBVIOUS
  <2> QED BY <1>1, <2>1 DEF TypeOK
<1>8. mine \in SUBSET Clients
  OBVIOUS
<1>9. /\ step' \in [Clients -> Steps] /\ accepted' \in [Clients -> SUBSET Events]
      /\ pending' \in [Clients -> 0 .. SendBuffer]
      /\ \A c \in Clients \ mine : step'[c] = step[c] /\ accepted'[c] = accepted[c]
      /\ \A c \in mine : step'[c] = "closed"
  BY <1>1, <1>8, ShutdownWrites
<1>10. \A c \in hub' : c \in hub /\ c \in Clients \ mine /\ Home[c] # i
  BY <1>1 DEF HubServes, TypeOK
<1> HIDE DEF mine
<1>11. TypeOK'
  <2>1. stage' \in [Instances -> Stages]
    BY <1>1 DEF TypeOK, Stages
  <2>2. hub' \in SUBSET Clients /\ done' \in SUBSET Instances /\ waiting' \in SUBSET Instances
    BY <1>1 DEF TypeOK
  <2> QED BY <1>1, <1>3, <1>6, <1>7, <1>9, <2>1, <2>2 DEF TypeOK
<1>12. HubServes'
  BY <1>9, <1>10 DEF HubServes
<1>13. Settled
  <2>1. \A c \in Clients : step[c] \notin {"new", "registering"} =>
                           step'[c] \notin {"new", "registering"}
    BY <1>8, <1>9
  <2>2. ASSUME NEW d \in Events, NEW c \in hub', Covered(d, c)
        PROVE  Covered(d, c)'
    <3>1. Home[c] \in Instances /\ queue'[Home[c]] = queue[Home[c]] /\ accepted'[c] = accepted[c]
      BY <1>7, <1>9, <1>10
    <3> QED BY <1>1, <2>2, <3>1 DEF Covered, UnderWay
  <2> QED BY <1>10, <2>1, <2>2 DEF Settled
<1>14. AudienceReached'
  <2>1. ASSUME NEW e \in Events  PROVE Reaching(e)'
    <3>1. CASE publishing'[e] = publishing[e]
      BY <1>13, <3>1, ReachingKept DEF AudienceReached
    <3>2. CASE publishing'[e] = gone
      BY <1>4, <3>2 DEF Reaching, Active
    <3> QED BY <1>5, <3>1, <3>2
  <2> QED BY <2>1 DEF AudienceReached
<1>15. StagesInOrder'
  <2>1. \A e \in Events : Active(e)' => Active(e) /\ publishing'[e].at = publishing[e].at
    BY <1>4, <1>5 DEF Active
  <2>2. \A j \in Instances : WorkerDone(j) => WorkerDone(j)'
    BY <2>1 DEF WorkerDone
  <2>3. \A j \in Instances : stage'[j] = stage[j] \/ (j = i /\ stage'[j] = "stopped")
    BY <1>1 DEF TypeOK
  <2>4. stage'[i] = "stopped"
    BY <1>1 DEF TypeOK
  <2> QED BY <1>1, <1>3, <2>2, <2>3, <2>4 DEF StagesInOrder
<1>16. OneRequest'
  <2> SUFFICES ASSUME NEW j \in Instances, NEW n \in DOMAIN queue'[j], queue'[j][n].by = "worker"
               PROVE  /\ n \in DOMAIN queue[j] /\ queue'[j][n] = queue[j][n]
                      /\ publishing'[queue[j][n].event] = publishing[queue[j][n].event]
    BY RequestsKept
  <2>1. j # i
    <3>1. DOMAIN queue'[i] = {}
      BY <1>7
    <3> QED BY <3>1
  <2>2. queue'[j] = queue[j]
    BY <1>7, <2>1
  <2>3. queue[j][n].event \in Events /\ publishing[queue[j][n].event].at = j
    BY <2>2, RequestTypes DEF OneRequest
  <2> QED BY <1>5, <2>1, <2>2, <2>3
<1> QED BY <1>11, <1>12, <1>14, <1>15, <1>16

-----------------------------------------------------------------------------
(* Theorems                                                                *)

\* No event is being published yet.
LEMMA InitHolds == Init => DeliveryInv
<1> SUFFICES ASSUME Init  PROVE DeliveryInv
  OBVIOUS
<1>1. TypeOK
  <2>1. Idle \in Publication /\ 0 \in 0 .. SendBuffer /\ 0 \in 0 .. MaxFaults
    BY IdleTypes
  <2>2. <<>> \in Seq(Request) /\ <<>> \in Seq(Command)
    OBVIOUS
  <2>3. publishing \in [Events -> Publication]
    BY <2>1 DEF Init
  <2>4. queue \in [Instances -> Seq(Request)] /\ channel \in [Instances -> Seq(Command)]
    BY <2>2 DEF Init
  <2> QED BY <2>1, <2>3, <2>4 DEF Init, TypeOK, Stages, Steps
<1>2. \A e \in Events : publishing[e].step = "idle" /\ publishing[e].audience = {}
  BY IdleTypes DEF Init
<1>3. AudienceReached
  BY <1>2 DEF AudienceReached, Reaching, Active
<1>4. StagesInOrder
  BY <1>2 DEF Init, StagesInOrder
<1>5. OneRequest
  <2>1. \A i \in Instances : DOMAIN queue[i] = {}
    BY DEF Init
  <2> QED BY <2>1 DEF OneRequest
<1> QED BY <1>1, <1>3, <1>4, <1>5 DEF DeliveryInv, HubServes, Init

\* Every step of a worker, a hub, a router, a client or main preserves it.
LEMMA NextKeeps == DeliveryInv /\ [Next]_vars => DeliveryInv'
<1> SUFFICES ASSUME DeliveryInv, [Next]_vars  PROVE DeliveryInv'
  OBVIOUS
<1>1. CASE UNCHANGED vars
  <2>1. /\ UNCHANGED <<stage, overdue, done, hub, step, presence, pending, accepted>>
        /\ UNCHANGED <<queue, publishing, channel, waiting, lost, faults>>
    BY <1>1 DEF vars, process, client, router
  <2>2. TypeOK' /\ HubServes' /\ OneRequest'
    BY <2>1 DEF DeliveryInv, TypeOK, HubServes, OneRequest
  <2>3. Settled
    BY <2>1, SettledIf DEF DeliveryInv, TypeOK
  <2>4. AudienceReached'
    BY <2>1, <2>3, ReachingKept DEF DeliveryInv, AudienceReached
  <2>5. StagesInOrder'
    BY <2>1, OrderKept DEF DeliveryInv, Active, process
  <2> QED BY <2>2, <2>4, <2>5 DEF DeliveryInv
<1>2. ASSUME NEW c \in Clients, ClientNext(c) \/ RegisterStopped(c)  PROVE DeliveryInv'
  BY <1>2, ClientStep
<1>3. ASSUME NEW i \in Instances, HubNext(i)  PROVE DeliveryInv'
  <2>1. CASE HubPublish(i)
    BY <2>1, HubPublishStep
  <2>2. CASE HubStops(i)
    BY <2>2, HubStopsStep
  <2>3. ASSUME NEW c \in Clients, HubRegister(c) \/ HubUnregister(c)  PROVE DeliveryInv'
    BY <2>3, ClientStep, HubUnregisterStep
  <2> QED BY <1>3, <2>1, <2>2, <2>3 DEF HubNext
<1>4. ASSUME NEW i \in Instances, RouterNext(i) \/ StopWorker(i) \/ MainNext(i)  PROVE DeliveryInv'
  BY <1>4, ReceiveStep, ReceiveStoppedStep, StopStep, StopHubStep, ExitStep
     DEF RouterNext, MainNext
<1>5. ASSUME NEW e \in Events, PublishNext(e)  PROVE DeliveryInv'
  BY <1>5, OfferStep, RemoteStep, SendStep, FailStep DEF PublishNext
<1>6. ASSUME NEW e \in Events, NEW i \in Instances, PrepareDeliveryBatch(e, i)  PROVE DeliveryInv'
  BY <1>6, PrepareStep
<1> QED BY <1>1, <1>2, <1>3, <1>4, <1>5, <1>6 DEF Next

\* The inductive invariant: a client of an event's audience that is still in its
\* hub is covered, or its user or its instance has its turn ahead.
THEOREM DeliveryInvariant == Spec => []DeliveryInv
<1> QED BY InitHolds, NextKeeps, PTL DEF Spec

\* Every variable keeps its type: no send queue outgrows its buffer.
THEOREM DeliveryTypes == Spec => []TypeOK
<1>1. DeliveryInv => TypeOK
  BY DEF DeliveryInv
<1> QED BY <1>1, DeliveryInvariant, PTL

\* An event that Publish reports as published has reached, is on its way to, or
\* was lost on the way to, every client that was connected at the lookup and
\* has not been removed, on any number of instances.
THEOREM DeliveryReportedIsDelivered == Spec => []ReportedIsDelivered
<1>1. DeliveryInv => ReportedIsDelivered
  BY DEF DeliveryInv, AudienceReached, Reaching, Covered, ReportedIsDelivered
<1> QED BY <1>1, DeliveryInvariant, PTL

\* Within the shutdown deadline no Publish and no router is left waiting for a
\* hub that main has stopped.
THEOREM DeliveryStopsInOrder == Spec => []StopsInOrder
<1>1. DeliveryInv => StopsInOrder
  BY DEF DeliveryInv, TypeOK, StagesInOrder, StopsInOrder
<1> QED BY <1>1, DeliveryInvariant, PTL
=============================================================================
