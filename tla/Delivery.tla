------------------------------ MODULE Delivery ------------------------------
(***************************************************************************)
(* How an outbox event reaches the connections of its recipients.  The     *)
(* worker of an instance looks up where the recipients are connected,      *)
(* hands the event to its own hub and sends a command to the routers of    *)
(* the other instances, which hand it to theirs.  A hub is one goroutine   *)
(* that serves its channels; a client whose send queue is full is removed  *)
(* and never waited for.  main stops the worker, the router and the hub of *)
(* an instance in this order, each within what is left of one deadline.    *)
(*                                                                         *)
(* A payload is its event; what a send queue holds matters only by its     *)
(* length.  Connecting is reduced to its order (hub, then presence): the   *)
(* handshake, replacement and revocation are those of module Realtime.     *)
(***************************************************************************)
EXTENDS Integers, Sequences, SequencesExt

CONSTANTS
    Clients,        \* connections, each used once
    Events,         \* outbox events
    Users,          \* the recipients of every event
    Instances,      \* server processes
    Stopping,       \* bound: those that are told to stop
    Owner,          \* the user of a client
    Home,           \* the instance that serves a client
    SendBuffer,     \* capacity of a client's send queue
    PublishBuffer,  \* capacity of a hub's publish channel
    MaxFaults,      \* bound on time-outs, failing calls and lost commands
    None

ASSUME DeliveryAssumption ==
    /\ Owner \in [Clients -> Users]
    /\ Home \in [Clients -> Instances]
    /\ Stopping \subseteq Instances
    /\ SendBuffer \in Nat \ {0} /\ PublishBuffer \in Nat \ {0}
    /\ MaxFaults \in Nat
    /\ None \notin Users \cup Instances

VARIABLES
    stage,          \* what main of an instance is waiting for
    overdue,        \* instances whose shutdown deadline has passed
    done,           \* instances whose hub has stopped (hub.done is closed)
    hub,            \* clients in the map of their hub
    step,           \* where the goroutine of a client is
    presence,       \* clients with a record in Redis
    pending,        \* length of a client's send queue
    accepted,       \* events the hub has put into a client's send queue
    queue,          \* the publish channel of a hub
    publishing,     \* Publish of an event by the worker that has claimed it
    channel,        \* commands on the way to an instance
    waiting,        \* instances whose router waits for its hub
    lost,           \* <<event, instance>>: commands that got lost
    faults

client == <<hub, step, presence, pending, accepted>>
process == <<stage, overdue, done>>
router == <<channel, waiting, lost>>
vars == <<process, client, queue, publishing, router, faults>>
-----------------------------------------------------------------------------
(* State                                                                   *)

Stages == {"serving", "worker", "router", "hub", "stopped"}
Steps == {"new", "registering", "registered", "serving", "leaving", "closed"}

\* A request in a publish channel and who reads its result: a worker, a
\* router, or nobody any more.
Request == [event : Events, user : Users, by : {"worker", "router", "nobody"}]
Command == [event : Events, user : Users]

\* todo: recipients that are still to come after user; found: the instances
\* in the batch's snapshot of presence; remote: those still to be told;
\* audience: the clients that were connected when the snapshot was taken.
Publication == [
    step : {"idle", "offer", "wait", "answered", "remote", "failed", "ok"},
    at : Instances \cup {None}, user : Users \cup {None}, todo : SUBSET Users,
    lookupFailed : BOOLEAN, found : [Users -> SUBSET Instances],
    remote : SUBSET Instances, audience : SUBSET Clients]

Idle == [step |-> "idle", at |-> None, user |-> None, todo |-> {},
         lookupFailed |-> FALSE, found |-> [u \in Users |-> {}],
         remote |-> {}, audience |-> {}]

Active(e) == publishing[e].step \in {"offer", "wait", "answered", "remote"}

Fault == faults < MaxFaults /\ faults' = faults + 1

\* shutdown of the clients C: their context is cancelled and what their send
\* queues hold is dropped.
Shutdown(C) ==
    /\ step' = [c \in Clients |-> IF c \in C THEN "closed" ELSE step[c]]
    /\ accepted' = [c \in Clients |-> IF c \in C THEN {} ELSE accepted[c]]
    /\ pending' = [c \in Clients |-> IF c \in C THEN 0 ELSE pending[c]]

\* The waiting of event e for a result is over.
Orphan(i, e) ==
    queue' = [queue EXCEPT ![i] =
                [n \in DOMAIN @ |-> IF @[n].event = e /\ @[n].by = "worker"
                                      THEN [@[n] EXCEPT !.by = "nobody"]
                                      ELSE @[n]]]

Fail(e) ==
    /\ publishing' = [publishing EXCEPT ![e] = [Idle EXCEPT !.step = "failed"]]
    /\ Orphan(publishing[e].at, e)
-----------------------------------------------------------------------------
(* Clients                                                                 *)

\* serveWebSocket calls hub.Register; the channel takes it.
Register(c) ==
    /\ step[c] = "new"
    /\ stage[Home[c]] = "serving"
    /\ step' = [step EXCEPT ![c] = "registering"]
    /\ UNCHANGED <<process, hub, presence, pending, accepted, queue,
                   publishing, router, faults>>

\* The hub stops before it has taken the registration.
RegisterStopped(c) ==
    /\ step[c] = "registering"
    /\ Home[c] \in done
    /\ step' = [step EXCEPT ![c] = "closed"]
    /\ UNCHANGED <<process, hub, presence, pending, accepted, queue,
                   publishing, router, faults>>

\* Register has returned; the client's record is written and the client served.
RegisterPresence(c) ==
    /\ step[c] = "registered"
    /\ step' = [step EXCEPT ![c] = "serving"]
    /\ presence' = presence \cup {c}
    /\ UNCHANGED <<process, hub, pending, accepted, queue, publishing, router,
                   faults>>

\* writePump takes a payload from the queue and writes it.
Write(c) ==
    /\ step[c] = "serving" /\ pending[c] > 0
    /\ pending' = [pending EXCEPT ![c] = @ - 1]
    /\ UNCHANGED <<process, hub, step, presence, accepted, queue, publishing,
                   router, faults>>

\* The peer leaves, a write fails or takes too long: run calls Unregister.  (If
\* the hub stops first it has shut the client down itself.)
Leave(c) ==
    /\ step[c] = "serving"
    /\ step' = [step EXCEPT ![c] = "leaving"]
    /\ UNCHANGED <<process, hub, presence, pending, accepted, queue,
                   publishing, router, faults>>

\* The record of a closed client is withdrawn, or expires.
Withdraw(c) ==
    /\ step[c] = "closed" /\ c \in presence
    /\ presence' = presence \ {c}
    /\ UNCHANGED <<process, hub, step, pending, accepted, queue, publishing,
                   router, faults>>
-----------------------------------------------------------------------------
(* webSocketHub.Run                                                        *)

HubRegister(c) ==
    /\ step[c] = "registering" /\ Home[c] \notin done
    /\ hub' = hub \cup {c}
    /\ step' = [step EXCEPT ![c] = "registered"]
    /\ UNCHANGED <<process, presence, pending, accepted, queue, publishing,
                   router, faults>>

HubUnregister(c) ==
    /\ step[c] = "leaving" /\ Home[c] \notin done
    /\ hub' = hub \ {c}
    /\ Shutdown({c})
    /\ UNCHANGED <<process, presence, queue, publishing, router, faults>>

Receivers(i, u) == {c \in hub : Home[c] = i /\ Owner[c] = u}
Slow(C) == {c \in C : pending[c] = SendBuffer}

\* (faulty: sends without the default branch)
DeliverBlocking(i, r) ==
    LET to == Receivers(i, r.user)
    IN  /\ Slow(to) = {}
        /\ hub' = hub /\ step' = step
        /\ pending' = [c \in Clients |-> IF c \in to THEN pending[c] + 1 ELSE pending[c]]
        /\ accepted' = [c \in Clients |-> IF c \in to THEN accepted[c] \cup {r.event}
                                                      ELSE accepted[c]]

\* deliver: to every client of the user; one with a full queue is removed.
deliver(i, r) ==
    LET to == Receivers(i, r.user)
        slow == Slow(to)
    IN  /\ hub' = hub \ slow
        /\ step' = [c \in Clients |-> IF c \in slow THEN "closed" ELSE step[c]]
        /\ pending' = [c \in Clients |-> IF c \in slow THEN 0
                                         ELSE IF c \in to THEN pending[c] + 1
                                         ELSE pending[c]]
        /\ accepted' = [c \in Clients |-> IF c \in slow THEN {}
                                          ELSE IF c \in to THEN accepted[c] \cup {r.event}
                                          ELSE accepted[c]]

\* The next request of the publish channel; its result channel has room.
HubPublish(i) ==
    /\ i \notin done /\ queue[i] # <<>>
    /\ LET r == Head(queue[i])
       IN  /\ deliver(i, r)
           /\ publishing' = [publishing EXCEPT ![r.event].step =
                               IF r.by = "worker" THEN "answered" ELSE @]
           /\ waiting' = IF r.by = "router" THEN waiting \ {i} ELSE waiting
    /\ queue' = [queue EXCEPT ![i] = Tail(@)]
    /\ UNCHANGED <<process, presence, channel, lost, faults>>

\* ctx.Done: every client is shut down and forgotten.
HubStops(i) ==
    /\ stage[i] = "hub" /\ i \notin done
    /\ done' = done \cup {i}
    /\ LET mine == {c \in hub : Home[c] = i}
       IN  /\ hub' = hub \ mine
           /\ Shutdown(mine)
    /\ UNCHANGED <<stage, overdue, presence, queue, publishing, router, faults>>
-----------------------------------------------------------------------------
(* webSocketOutboxPublisher and the router of the instance that publishes  *)

\* The worker of instance i has claimed e: PreparePublishBatch and
\* PrepareDeliveryBatch; a failed lookup is kept for Publish.
PrepareDeliveryBatch(e, i) ==
    /\ publishing[e].step \in {"idle", "failed"}
    /\ stage[i] = "serving"
    /\ \E failed \in BOOLEAN :
        /\ IF failed THEN Fault ELSE UNCHANGED faults
        /\ publishing' = [publishing EXCEPT ![e] =
             [Idle EXCEPT !.step = "offer", !.at = i, !.todo = Users,
                          !.lookupFailed = failed,
                          !.found = [u \in Users |->
                             IF failed THEN {}
                             ELSE {Home[c] : c \in {d \in presence : Owner[d] = u}}],
                          !.audience = {c \in hub : c \in presence \/ Home[c] = i}]]
    /\ UNCHANGED <<process, client, queue, router>>

\* publishLocal of the next recipient: the request fits into the channel.
OfferLocal(e) ==
    /\ publishing[e].step = "offer"
    /\ LET i == publishing[e].at
       IN  \E u \in publishing[e].todo :
            /\ Len(queue[i]) < PublishBuffer
            /\ queue' = [queue EXCEPT ![i] =
                           Append(@, [event |-> e, user |-> u, by |-> "worker"])]
            /\ publishing' = [publishing EXCEPT ![e].step = "wait", ![e].user = u,
                                                ![e].todo = @ \ {u}]
    /\ UNCHANGED <<process, client, router, faults>>

\* The next recipient, or the event is published.
NextRecipient(p) ==
    IF p.todo = {} THEN [Idle EXCEPT !.step = "ok", !.audience = p.audience]
    ELSE [p EXCEPT !.step = "offer", !.user = None]

\* (faulty: a message that a local client has taken is not sent on)
RemoteUnlessLocal(e) ==
    IF \E c \in hub : Home[c] = publishing[e].at /\ e \in accepted[c]
      THEN {}
      ELSE publishing[e].found[publishing[e].user] \ {publishing[e].at}

\* publishRemote: the other instances in the snapshot, each once.
RemoteInstances(e) == publishing[e].found[publishing[e].user] \ {publishing[e].at}

PublishRemote(e) ==
    /\ publishing[e].step = "answered" /\ ~publishing[e].lookupFailed
    /\ publishing' = [publishing EXCEPT ![e] =
         IF RemoteInstances(e) = {} THEN NextRecipient(@)
         ELSE [@ EXCEPT !.step = "remote", !.remote = RemoteInstances(e)]]
    /\ UNCHANGED <<process, client, queue, router, faults>>

\* The lookup of the batch had failed: the event is retried as a whole.
LookupFailed(e) ==
    /\ publishing[e].step = "answered" /\ publishing[e].lookupFailed
    /\ Fail(e)
    /\ UNCHANGED <<process, client, router, faults>>

\* A command on the channel of instance j; nobody may be listening there.
Send(e, j) ==
    IF stage[j] \in {"serving", "worker", "router"}
      THEN \/ /\ channel' = [channel EXCEPT ![j] =
                   Append(@, [event |-> e, user |-> publishing[e].user])]
              /\ UNCHANGED <<lost, faults>>
           \/ Fault /\ lost' = lost \cup {<<e, j>>} /\ UNCHANGED channel
      ELSE lost' = lost \cup {<<e, j>>} /\ UNCHANGED <<channel, faults>>

\* Instance j has been told, and the next instance or recipient is due.
Told(p, j) ==
    IF p.remote = {j} THEN NextRecipient([p EXCEPT !.remote = {}])
    ELSE [p EXCEPT !.remote = p.remote \ {j}]

SendCommand(e) ==
    /\ publishing[e].step = "remote"
    /\ \E j \in publishing[e].remote :
        /\ Send(e, j)
        /\ publishing' = [publishing EXCEPT ![e] = Told(publishing[e], j)]
    /\ UNCHANGED <<process, client, queue, waiting>>

\* The attempt runs out of time, Redis fails, or the worker is cancelled.
PublishFails(e) ==
    /\ Active(e)
    /\ IF stage[publishing[e].at] = "serving" THEN Fault ELSE UNCHANGED faults
    /\ Fail(e)
    /\ UNCHANGED <<process, client, router>>

\* hub.Publish finds the hub stopped.
PublishStopped(e) ==
    /\ publishing[e].step \in {"offer", "wait"} /\ publishing[e].at \in done
    /\ Fail(e)
    /\ UNCHANGED <<process, client, router, faults>>
-----------------------------------------------------------------------------
(* redisRealtimeRouter.Run                                                 *)

\* receive, handleCommand: one command at a time goes through the hub.
ReceiveCommand(i) ==
    /\ stage[i] \in {"serving", "worker", "router"} /\ i \notin waiting
    /\ channel[i] # <<>> /\ Len(queue[i]) < PublishBuffer
    /\ LET command == Head(channel[i])
       IN  queue' = [queue EXCEPT ![i] =
             Append(@, [event |-> command.event, user |-> command.user, by |-> "router"])]
    /\ channel' = [channel EXCEPT ![i] = Tail(@)]
    /\ waiting' = waiting \cup {i}
    /\ UNCHANGED <<process, client, publishing, lost, faults>>

\* The router's context is cancelled, or the hub has stopped.
ReceiveStopped(i) ==
    /\ i \in waiting
    /\ stage[i] = "router" \/ i \in done
    /\ waiting' = waiting \ {i}
    /\ queue' = [queue EXCEPT ![i] =
         [n \in DOMAIN @ |-> IF @[n].by = "router" THEN [@[n] EXCEPT !.by = "nobody"]
                                                   ELSE @[n]]]
    /\ UNCHANGED <<process, client, publishing, channel, lost, faults>>
-----------------------------------------------------------------------------
(* main                                                                    *)

\* A signal: server.Shutdown, cancelWorker.
StopWorker(i) ==
    /\ i \in Stopping /\ stage[i] = "serving"
    /\ stage' = [stage EXCEPT ![i] = "worker"]
    /\ UNCHANGED <<overdue, done, client, queue, publishing, router, faults>>

WorkerDone(i) == \A e \in Events : Active(e) => publishing[e].at # i

\* main goes on when what it waits for has ended, or the deadline passes.
Awaited(i, ended) ==
    \/ ended /\ UNCHANGED <<overdue, faults>>
    \/ ~ended /\ i \in overdue /\ UNCHANGED <<overdue, faults>>
    \/ ~ended /\ i \notin overdue /\ Fault /\ overdue' = overdue \cup {i}

\* (faulty: does not wait for the worker)
StopRouterAtOnce(i) ==
    /\ stage[i] = "worker"
    /\ stage' = [stage EXCEPT ![i] = "router"]
    /\ UNCHANGED <<overdue, faults, done, client, queue, publishing, router>>

\* cancelRouter
StopRouter(i) ==
    /\ stage[i] = "worker"
    /\ Awaited(i, WorkerDone(i))
    /\ stage' = [stage EXCEPT ![i] = "router"]
    /\ UNCHANGED <<done, client, queue, publishing, router>>

\* cancelHub; the router has ended and what it has not read is lost.
StopHub(i) ==
    /\ stage[i] = "router"
    /\ Awaited(i, i \notin waiting)
    /\ stage' = [stage EXCEPT ![i] = "hub"]
    /\ channel' = [channel EXCEPT ![i] = <<>>]
    /\ lost' = lost \cup {<<command.event, i>> : command \in ToSet(channel[i])}
    /\ UNCHANGED <<done, client, queue, publishing, waiting>>

\* main returns, the process ends with everything that still ran in it.
Exit(i) ==
    /\ stage[i] = "hub"
    /\ Awaited(i, i \in done)
    /\ stage' = [stage EXCEPT ![i] = "stopped"]
    /\ done' = done \cup {i}
    /\ LET mine == {c \in Clients : Home[c] = i /\ step[c] # "new"}
       IN  /\ hub' = hub \ mine
           /\ Shutdown(mine)
    /\ publishing' = [e \in Events |->
         IF Active(e) /\ publishing[e].at = i THEN [Idle EXCEPT !.step = "failed"]
         ELSE publishing[e]]
    /\ queue' = [queue EXCEPT ![i] = <<>>]
    /\ waiting' = waiting \ {i}
    /\ UNCHANGED <<presence, channel, lost>>
-----------------------------------------------------------------------------
Init ==
    /\ stage = [i \in Instances |-> "serving"]
    /\ overdue = {} /\ done = {}
    /\ hub = {} /\ presence = {}
    /\ step = [c \in Clients |-> "new"]
    /\ pending = [c \in Clients |-> 0]
    /\ accepted = [c \in Clients |-> {}]
    /\ queue = [i \in Instances |-> <<>>]
    /\ publishing = [e \in Events |-> Idle]
    /\ channel = [i \in Instances |-> <<>>]
    /\ waiting = {} /\ lost = {}
    /\ faults = 0

ClientNext(c) ==
    \/ Register(c) \/ RegisterPresence(c) \/ Write(c) \/ Leave(c) \/ Withdraw(c)

HubNext(i) ==
    \/ HubPublish(i) \/ HubStops(i)
    \/ \E c \in Clients : Home[c] = i /\ (HubRegister(c) \/ HubUnregister(c))

RouterNext(i) == ReceiveCommand(i) \/ ReceiveStopped(i)

MainNext(i) == StopRouter(i) \/ StopHub(i) \/ Exit(i)

PublishNext(e) ==
    \/ OfferLocal(e) \/ PublishRemote(e) \/ LookupFailed(e)
    \/ SendCommand(e) \/ PublishFails(e) \/ PublishStopped(e)

Next ==
    \/ \E c \in Clients : ClientNext(c) \/ RegisterStopped(c)
    \/ \E i \in Instances : HubNext(i) \/ RouterNext(i) \/ StopWorker(i) \/ MainNext(i)
    \/ \E e \in Events : PublishNext(e) \/ \E i \in Instances : PrepareDeliveryBatch(e, i)

Spec == Init /\ [][Next]_vars

\* The goroutines of the hubs and of the workers run.  Nothing is assumed of
\* clients, which need not read, nor of routers, main and time-outs.
Fairness ==
    /\ \A i \in Instances : WF_vars(HubPublish(i) \/ HubStops(i))
    /\ \A e \in Events : WF_vars(\/ OfferLocal(e) \/ PublishRemote(e) \/ LookupFailed(e)
                                 \/ SendCommand(e) \/ PublishStopped(e))

FairSpec == Spec /\ Fairness
-----------------------------------------------------------------------------
(* Properties                                                              *)

TypeOK ==
    /\ stage \in [Instances -> Stages]
    /\ overdue \in SUBSET Instances /\ done \in SUBSET Instances
    /\ hub \in SUBSET Clients /\ presence \in SUBSET Clients
    /\ step \in [Clients -> Steps]
    /\ pending \in [Clients -> 0 .. SendBuffer]
    /\ accepted \in [Clients -> SUBSET Events]
    /\ queue \in [Instances -> Seq(Request)]
    /\ publishing \in [Events -> Publication]
    /\ channel \in [Instances -> Seq(Command)]
    /\ waiting \in SUBSET Instances
    /\ lost \in SUBSET (Events \X Instances)
    /\ faults \in 0 .. MaxFaults

\* The event is on its way to the hub that serves client c.
UnderWay(e, c) ==
    \/ \E command \in ToSet(channel[Home[c]]) :
          command.event = e /\ command.user = Owner[c]
    \/ \E r \in ToSet(queue[Home[c]]) : r.event = e /\ r.user = Owner[c]

\* An event that Publish reports as published misses nobody who was there: a
\* client that was connected when the batch looked its recipients up, on
\* whichever instance, and has not been removed since, has the event in its
\* send queue or will get it from its hub, unless the command got lost on
\* the way (publishLocal, publishRemote, handleCommand, deliver).
ReportedIsDelivered ==
    \A e \in Events : publishing[e].step = "ok" =>
        \A c \in publishing[e].audience \cap hub :
            e \in accepted[c] \/ UnderWay(e, c) \/ <<e, Home[c]>> \in lost

\* main stops the worker and the router before the hub they need: unless the
\* shutdown deadline has passed, no Publish and no command is still waiting
\* for a hub that has stopped, so none fails with errWebSocketHubStopped.
StopsInOrder ==
    \A i \in done \ overdue : WorkerDone(i) /\ i \notin waiting

\* Every Publish returns, and not because its time-out ends it: neither a
\* client that has stopped reading, nor the requests that others put into the
\* channel of the hub, nor a hub that stops under it keeps a worker waiting
\* (the default branch of deliver, hub.done in hub.Publish).
PublishReturns == \A e \in Events : Active(e) ~> ~Active(e)
-----------------------------------------------------------------------------
(* The inductive invariant                                                 *)

\* main goes past a stage when what it waited for has ended, or too late.
StagesInOrder ==
    \A i \in Instances :
        /\ i \in done => stage[i] \in {"hub", "stopped"}
        /\ stage[i] \in {"router", "hub", "stopped"} => i \in overdue \/ WorkerDone(i)
        /\ stage[i] \in {"hub", "stopped"} => i \in overdue \/ i \notin waiting

\* A hub serves the clients that have registered and not been shut down.
HubServes == \A c \in hub : step[c] \in {"registered", "serving", "leaving"}

\* A worker waits for one request of an event at a time, that of its recipient.
OneRequest ==
    \A i \in Instances : \A n \in DOMAIN queue[i] : queue[i][n].by = "worker" =>
        /\ publishing[queue[i][n].event].step = "wait"
        /\ publishing[queue[i][n].event].at = i
        /\ publishing[queue[i][n].event].user = queue[i][n].user
        /\ \A k \in DOMAIN queue[i] :
               queue[i][k].by = "worker" /\ queue[i][k].event = queue[i][n].event => k = n

Covered(e, c) == e \in accepted[c] \/ UnderWay(e, c) \/ <<e, Home[c]>> \in lost

\* A client of the audience that is not covered yet has its turn ahead: its user
\* is a later recipient, or its instance is still to be told.
TurnAhead(e, c) ==
    LET p == publishing[e] IN
    \/ Owner[c] \in p.todo
    \/ /\ Owner[c] = p.user /\ p.step \in {"wait", "answered", "remote"}
       /\ Home[c] # p.at
       /\ p.step = "remote" => Home[c] \in p.remote

\* Nobody of the audience of event e is forgotten.
Reaching(e) ==
    LET p == publishing[e] IN
    /\ \A c \in p.audience : step[c] \notin {"new", "registering"}
    /\ p.step \in {"wait", "answered", "remote"} => p.user \in Users
    /\ p.step = "remote" => ~p.lookupFailed
    /\ Active(e) => p.at \in Instances
    /\ Active(e) /\ ~p.lookupFailed =>
           /\ \A c \in p.audience : Home[c] \in p.found[Owner[c]] \cup {p.at}
           /\ \A c \in p.audience \cap hub : Covered(e, c) \/ TurnAhead(e, c)
    /\ p.step = "ok" => \A c \in p.audience \cap hub : Covered(e, c)

AudienceReached == \A e \in Events : Reaching(e)

DeliveryInv ==
    TypeOK /\ StagesInOrder /\ HubServes /\ OneRequest /\ AudienceReached
=============================================================================
