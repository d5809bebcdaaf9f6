--------------------------- MODULE OutboundSession ---------------------------
(***************************************************************************)
(* The outbound half of the MQTT client: what TaskHub, the tasks it spawns *)
(* and TaskNetwork do with the publish, subscribe and unsubscribe requests *)
(* of a Client, from the call to the acknowledgement of the broker, with   *)
(* connections that are lost and re-established (auto_reconnect = true).   *)
(*                                                                         *)
(* The event bus is a FIFO queue per subscriber: hubQ is the `identity` of *)
(* the hub (ClientData and HubMsg), netEvents its `identity_network`, netQ *)
(* the `identity_data` of the TaskNetwork.  The queue of acknowledgements  *)
(* of a task is `acked`, a matching packet is in it, and `refused`, what   *)
(* the first such packet says.                                             *)
(***************************************************************************)
EXTENDS Naturals, Sequences, SequencesExt

CONSTANTS
    Requests,       \* the requests the user may issue (trace ids)
    KindOf,         \* what each request is
    Refusable,      \* the requests the broker may refuse: with MQTT 5 any, with
                    \* MQTT 3.1.1 only subscriptions
    MaxPacketId,    \* packet ids are 1..MaxPacketId; u16::MAX in the code
    MaxAttempts,    \* bound: how many TaskNetworks the hub starts
    MaxResends      \* bound: retransmissions of one task after a timeout

Tracked == {"QoS1", "QoS2", "Sub", "Unsub"}
RequestKinds == Tracked \cup {"QoS0"}
TaskKinds == RequestKinds \cup {"PubRel"}
EntryKinds == Tracked \cup {"PubRel"}

ASSUME KindAssumption == KindOf \in [Requests -> RequestKinds]
ASSUME RefusableAssumption == Refusable \subseteq Requests
ASSUME PoolAssumption == MaxPacketId \in Nat \ {0}
ASSUME BoundAssumption == MaxAttempts \in Nat \ {0} /\ MaxResends \in Nat

VARIABLES
    hub,            \* TaskHub.state; "WaitNetwork": in run_to_connect's recv
    hubQ,           \* HubMsg::RecoverId and ClientData events not yet read
    freeIds,        \* the ring buffer of packet ids
    clientData,     \* TaskHub.client_data
    tasks,          \* the live publish/subscribe/unsubscribe tasks
    net,            \* the TaskNetwork: none, connecting or up
    netQ,           \* the DataWaitingToBeSend events it has not read
    netEvents,      \* the NetworkEvents the hub has not read
    attempt,        \* how many TaskNetworks have been started
    toBroker, fromBroker,   \* the two directions of the TCP stream
    brokerHeld,     \* broker: QoS 2 messages received and not yet released
    accepted,       \* broker: how often it took each request as a new one
    released,       \* broker: QoS 2 requests whose PUBREL it processed
    refused,        \* broker: requests it refused at least once
    stage,          \* where each request is, for the properties
    notified,       \* how often the user was answered about each request
    claimed         \* the requests of which an answer said that they succeeded

hubVars == <<hub, hubQ, freeIds, clientData, stage>>
netVars == <<net, netQ, netEvents, attempt>>
wireVars == <<toBroker, fromBroker>>
brokerVars == <<brokerHeld, accepted, released, refused>>
vars == <<hubVars, tasks, netVars, wireVars, brokerVars, notified, claimed>>

-----------------------------------------------------------------------------
\* A task is known by what it sends, for which request, on which connection
\* the hub spawned it.
TaskKey(t) == [kind |-> t.kind, req |-> t.req, id |-> t.id, born |-> t.born]

NewTask(kind, r, id) ==
    [kind |-> kind, req |-> r, id |-> id, born |-> attempt,
     pc |-> "send", acked |-> FALSE, refused |-> FALSE, resends |-> 0]

\* UnacknowledgedClientData::to_acknowledge: the task of an entry.
TaskOf(e) == NewTask(e.kind, e.req, e.id)

Entry(kind, r, id) == [kind |-> kind, req |-> r, id |-> id]

DataMsg(r) == [type |-> "Data", arg |-> r]
RecoverMsg(id) == [type |-> "RecoverId", arg |-> id]

\* Replaces task t by the same task with another pc.
Goto(t, pc) == (tasks \ {t}) \cup {[t EXCEPT !.pc = pc]}

\* The ring buffer as connect fills it.
FullPoolFromZero == [i \in 1..MaxPacketId |-> i - 1]      \* mutant
FullPool == [i \in 1..MaxPacketId |-> i]

Entries == [kind : EntryKinds, req : Requests, id : 1..MaxPacketId]
HubMessages == [type : {"Data"}, arg : Requests]
                    \cup [type : {"RecoverId"}, arg : 0..MaxPacketId]
Tasks == [kind : TaskKinds, req : Requests, id : 0..MaxPacketId,
          born : 0..MaxAttempts, acked : BOOLEAN, refused : BOOLEAN,
          resends : 0..MaxResends,
          pc : {"send", "receipt", "await", "again", "notify"}]
TaskKeys == [kind : TaskKinds, req : Requests, id : 0..MaxPacketId,
             born : 0..MaxAttempts]
Packets == [kind : TaskKinds, req : Requests, id : 0..MaxPacketId]
Acks == [kind : TaskKinds, id : 0..MaxPacketId, refused : BOOLEAN]

TypeOK ==
    /\ hub \in {"ToConnect", "WaitNetwork", "Connected"}
    /\ hubQ \in Seq(HubMessages)
    /\ freeIds \in Seq(1..MaxPacketId)
    /\ clientData \in Seq(Entries)
    /\ tasks \subseteq Tasks
    /\ net \in {"none", "connecting", "up"}
    /\ netQ \in Seq(TaskKeys)
    /\ netEvents \in Seq({"Connected", "ConnectFail", "ConnectedErr"})
    /\ attempt \in 0..MaxAttempts
    /\ toBroker \in Seq(Packets)
    /\ fromBroker \in Seq(Acks)
    /\ brokerHeld \subseteq [req : Requests, id : 0..MaxPacketId]
    /\ accepted \in [Requests -> Nat]
    /\ released \subseteq Requests
    /\ refused \subseteq Requests
    /\ stage \in [Requests -> {"idle", "queued", "taken", "dropped"}]
    /\ notified \in [Requests -> Nat]
    /\ claimed \subseteq Requests

Init ==
    /\ hub = "ToConnect" /\ hubQ = <<>>
    /\ freeIds = FullPool
    /\ clientData = <<>>
    /\ tasks = {}
    /\ net = "none" /\ netQ = <<>> /\ netEvents = <<>> /\ attempt = 0
    /\ toBroker = <<>> /\ fromBroker = <<>>
    /\ brokerHeld = {} /\ released = {} /\ refused = {}
    /\ accepted = [r \in Requests |-> 0]
    /\ stage = [r \in Requests |-> "idle"]
    /\ notified = [r \in Requests |-> 0]
    /\ claimed = {}

-----------------------------------------------------------------------------
(* The user.  Client::publish, to_subscribe and unsubscribe dispatch one   *)
(* ClientData event, whatever the state of the connection.                 *)

ClientRequest(r) ==
    /\ stage[r] = "idle"
    /\ stage' = [stage EXCEPT ![r] = "queued"]
    /\ hubQ' = Append(hubQ, DataMsg(r))
    /\ UNCHANGED <<hub, freeIds, clientData, tasks, netVars, wireVars,
                   brokerVars, notified, claimed>>

-----------------------------------------------------------------------------
(* TaskHub, not connected.                                                 *)

\* run_to_connect: a new TaskNetwork logs in on the bus and starts.
HubStartNetwork ==
    /\ hub = "ToConnect"
    /\ attempt < MaxAttempts
    /\ hub' = "WaitNetwork"
    /\ attempt' = attempt + 1
    /\ net' = "connecting" /\ netQ' = <<>>
    /\ UNCHANGED <<hubQ, freeIds, clientData, stage, tasks, netEvents,
                   wireVars, brokerVars, notified, claimed>>

\* The loop of run after run_to_connect: a task for every entry.
NotRespawned == {}                                       \* mutant
Respawned == {TaskOf(e) : e \in Range(clientData)}

\* run_to_connect reads Connected.
HubConnected ==
    /\ hub = "WaitNetwork" /\ netEvents # <<>>
    /\ Head(netEvents) = "Connected"
    /\ netEvents' = Tail(netEvents)
    /\ hub' = "Connected"
    /\ tasks' = tasks \cup Respawned
    /\ UNCHANGED <<hubQ, freeIds, clientData, stage, net, netQ, attempt,
                   wireVars, brokerVars, notified, claimed>>

\* run_to_connect reads ConnectFail and goes round its loop, after 30 s.
HubConnectFail ==
    /\ hub = "WaitNetwork" /\ netEvents # <<>>
    /\ Head(netEvents) = "ConnectFail"
    /\ netEvents' = Tail(netEvents)
    /\ hub' = "ToConnect"
    /\ UNCHANGED <<hubQ, freeIds, clientData, stage, tasks, net, netQ,
                   attempt, wireVars, brokerVars, notified, claimed>>

-----------------------------------------------------------------------------
(* TaskHub, connected: one event per step, in any order of the two queues. *)

\* ConnectedErr: ToDisconnect(NetworkErr), the Disconnect command that no
\* TaskNetwork receives any more, and back to ToConnect.
HubLost ==
    /\ hub = "Connected" /\ netEvents # <<>>
    /\ Head(netEvents) = "ConnectedErr"
    /\ netEvents' = Tail(netEvents)
    /\ hub' = "ToConnect"
    /\ UNCHANGED <<hubQ, freeIds, clientData, stage, tasks, net, netQ,
                   attempt, wireVars, brokerVars, notified, claimed>>

HubReads(type) ==
    /\ hub = "Connected" /\ hubQ # <<>>
    /\ Head(hubQ).type = type
    /\ hubQ' = Tail(hubQ)
    /\ UNCHANGED <<hub, netVars, wireVars, brokerVars, notified, claimed>>

\* PublishQoS0 is neither numbered nor kept.
HubTakeQos0 ==
    /\ HubReads("Data")
    /\ LET r == Head(hubQ).arg IN
        /\ KindOf[r] = "QoS0"
        /\ stage' = [stage EXCEPT ![r] = "taken"]
        /\ tasks' = tasks \cup {NewTask("QoS0", r, 0)}
    /\ UNCHANGED <<freeIds, clientData>>

\* Every other request gets the oldest free id, is kept and gets a task.
HubTakeTracked ==
    /\ HubReads("Data")
    /\ freeIds # <<>>
    /\ LET r == Head(hubQ).arg
           e == Entry(KindOf[r], r, Head(freeIds))
       IN
        /\ KindOf[r] \in Tracked
        /\ freeIds' = Tail(freeIds)
        /\ clientData' = Append(clientData, e)
        /\ tasks' = tasks \cup {TaskOf(e)}
        /\ stage' = [stage EXCEPT ![r] = "taken"]

\* request_id on an empty pool: the error leaves run, the loop in connect
\* calls run again, the request is gone.
HubPoolEmpty ==
    /\ HubReads("Data")
    /\ freeIds = <<>>
    /\ LET r == Head(hubQ).arg IN
        /\ KindOf[r] \in Tracked
        /\ stage' = [stage EXCEPT ![r] = "dropped"]
    /\ UNCHANGED <<freeIds, clientData, tasks>>

\* The first entry with this packet id.
FirstWith(id, i) ==
    /\ i \in DOMAIN clientData /\ clientData[i].id = id
    /\ \A j \in DOMAIN clientData : clientData[j].id = id => i <= j

\* The push of a freed id: the ring buffer refuses it when it is full.
PushOneLess(id) ==                                       \* mutant
    IF Len(freeIds) < MaxPacketId - 1 THEN Append(freeIds, id) ELSE freeIds
Push(id) == IF Len(freeIds) < MaxPacketId THEN Append(freeIds, id) ELSE freeIds

\* acknowledge(): a QoS 2 publish goes on as its PUBREL, all else is complete.
CompletedBeforeComp(e) == e.kind \notin {"QoS2", "PubRel"} \* mutant
Completed(e) == e.kind # "QoS2"

\* RecoverId of a QoS 2 publish: to_acknowledge() sends its PUBREL.
HubRecoverRec ==
    /\ HubReads("RecoverId")
    /\ \E i \in DOMAIN clientData :
        /\ FirstWith(Head(hubQ).arg, i)
        /\ ~Completed(clientData[i])
        /\ LET e == [clientData[i] EXCEPT !.kind = "PubRel"] IN
            /\ clientData' = [clientData EXCEPT ![i] = e]
            /\ tasks' = tasks \cup {TaskOf(e)}
    /\ UNCHANGED <<freeIds, stage>>

\* RecoverId of any other entry: it is complete, its id is free again.
HubRecoverDone ==
    /\ HubReads("RecoverId")
    /\ \E i \in DOMAIN clientData :
        /\ FirstWith(Head(hubQ).arg, i)
        /\ Completed(clientData[i])
        /\ clientData' = RemoveAt(clientData, i)
        /\ freeIds' = Push(Head(hubQ).arg)
    /\ UNCHANGED <<tasks, stage>>

HubRecoverUnknown ==
    /\ HubReads("RecoverId")
    /\ \A e \in Range(clientData) : e.id # Head(hubQ).arg
    /\ UNCHANGED <<freeIds, clientData, tasks, stage>>

-----------------------------------------------------------------------------
(* The tasks: complete_to_tx_packet and what each does with its result.    *)

\* tx_network_default: the bytes go to the TaskNetwork.  Nobody receives
\* them when there is none: the receipter is dropped and the task ends.
Transmit(t, resends) ==
    IF net = "none"
    THEN /\ tasks' = tasks \ {t}
         /\ netQ' = netQ
    ELSE /\ tasks' = (tasks \ {t})
                        \cup {[t EXCEPT !.pc = "receipt", !.resends = resends]}
         /\ netQ' = Append(netQ, TaskKey(t))

TaskSend(t) ==
    /\ t.pc = "send"
    /\ Transmit(t, t.resends)
    /\ UNCHANGED <<hubVars, net, netEvents, attempt, wireVars, brokerVars,
                   notified, claimed>>

\* The timeout of complete_to_tx_packet, and the packet again.
TaskTimeout(t) ==
    /\ t.pc = "await" /\ ~t.acked
    /\ t.resends < MaxResends
    /\ Transmit(t, t.resends + 1)
    /\ UNCHANGED <<hubVars, net, netEvents, attempt, wireVars, brokerVars,
                   notified, claimed>>

\* timeout_rx returns.
WrittenIsEnough(t) == t.pc = "await"                     \* mutant
AckReceived(t) == t.pc = "await" /\ t.acked

\* TaskPublishQos1 dispatches RecoverId a second time, TaskPublishQos2 is over,
\* the others report to the user.
GoesOnResending(t) ==                                    \* mutant
    IF t.kind = "QoS2" THEN (tasks \ {t}) \cup {[t EXCEPT !.acked = FALSE]}
                       ELSE Goto(t, "notify")
AfterRecover(t) ==
    CASE t.kind = "QoS1" -> Goto(t, "again")
      [] t.kind = "QoS2" -> tasks \ {t}
      [] OTHER -> Goto(t, "notify")

TaskAcked(t) ==
    /\ AckReceived(t)
    /\ hubQ' = Append(hubQ, RecoverMsg(t.id))
    /\ tasks' = AfterRecover(t)
    /\ UNCHANGED <<hub, freeIds, clientData, stage, netVars, wireVars,
                   brokerVars, notified, claimed>>

TaskRecoverAgain(t) ==
    /\ t.pc = "again"
    /\ hubQ' = Append(hubQ, RecoverMsg(t.id))
    /\ tasks' = Goto(t, "notify")
    /\ UNCHANGED <<hub, freeIds, clientData, stage, netVars, wireVars,
                   brokerVars, notified, claimed>>

\* What tx_to_user says of a success: SubscribeAck and UnsubscribeAck pass on
\* the reasons of the acknowledgement, PublishSuccess is sent whatever it said.
ClaimsAnything(t) == TRUE                                \* mutant
Claims(t) == t.kind \in {"Sub", "Unsub"} => ~t.refused

TaskNotify(t) ==
    /\ t.pc = "notify"
    /\ notified' = [notified EXCEPT ![t.req] = @ + 1]
    /\ claimed' = IF Claims(t) THEN claimed \cup {t.req} ELSE claimed
    /\ tasks' = tasks \ {t}
    /\ UNCHANGED <<hubVars, netVars, wireVars, brokerVars>>

-----------------------------------------------------------------------------
(* TaskNetwork.                                                            *)

\* CONNECT and CONNACK: Connected is dispatched.
NetConnected ==
    /\ net = "connecting"
    /\ net' = "up"
    /\ netEvents' = Append(netEvents, "Connected")
    /\ UNCHANGED <<hubVars, tasks, netQ, attempt, wireVars, brokerVars,
                   notified, claimed>>

\* What was waiting in the queue of a TaskNetwork that ends: the receipter of
\* each packet is dropped, and the task waiting for it ends.
WithoutQueued == {t \in tasks : t.pc # "receipt"}

\* The connection is refused, or it fails before CONNACK.
NetConnectFail ==
    /\ net = "connecting" /\ attempt < MaxAttempts
    /\ net' = "none" /\ netQ' = <<>>
    /\ netEvents' = Append(netEvents, "ConnectFail")
    /\ tasks' = WithoutQueued
    /\ UNCHANGED <<hubVars, attempt, wireVars, brokerVars, notified, claimed>>

\* A read of 0 bytes or an error: ConnectedErr is dispatched, the TaskNetwork
\* ends, and what either side had not read is lost.
NetLost ==
    /\ net = "up" /\ attempt < MaxAttempts
    /\ net' = "none" /\ netQ' = <<>>
    /\ netEvents' = Append(netEvents, "ConnectedErr")
    /\ tasks' = WithoutQueued
    /\ toBroker' = <<>> /\ fromBroker' = <<>>
    /\ UNCHANGED <<hubVars, attempt, brokerVars, notified, claimed>>

\* deal_inner_msg: write_all, then the receipt.
NetWrite ==
    /\ net = "up" /\ netQ # <<>>
    /\ LET k == Head(netQ) IN
        /\ toBroker' = Append(toBroker,
                              [kind |-> k.kind, req |-> k.req, id |-> k.id])
        /\ tasks' = {IF TaskKey(t) = k
                     THEN [t EXCEPT !.pc = IF t.kind = "QoS0" THEN "notify"
                                                              ELSE "await"]
                     ELSE t : t \in tasks}
    /\ netQ' = Tail(netQ)
    /\ UNCHANGED <<hubVars, net, netEvents, attempt, fromBroker, brokerVars,
                   notified, claimed>>

\* A task subscribes to one type of acknowledgement, and is_rel tells it
\* whether the id is its own.
IsRelIdOnly(a, t) == t.id = a.id                         \* mutant
IsRel(a, t) == t.kind = a.kind /\ t.id = a.id

\* deal_connected_network_packet.  A task takes the first acknowledgement of its
\* own that it finds, whatever its reason.
NetForward ==
    /\ net = "up" /\ fromBroker # <<>>
    /\ LET a == Head(fromBroker) IN
        tasks' = {IF IsRel(a, t) /\ ~t.acked
                  THEN [t EXCEPT !.acked = TRUE, !.refused = a.refused]
                  ELSE t : t \in tasks}
    /\ fromBroker' = Tail(fromBroker)
    /\ UNCHANGED <<hubVars, netVars, toBroker, brokerVars, notified, claimed>>

-----------------------------------------------------------------------------
(* The broker (external): it keeps the session over reconnections, takes   *)
(* a QoS 2 publish once per packet id until PUBREL, acknowledges all else, *)
(* or refuses what it does not hold yet.                                   *)

Ack(p, no) == [kind |-> p.kind, id |-> p.id, refused |-> no]

BrokerTake ==
    /\ toBroker # <<>>
    /\ LET p == Head(toBroker)
           held == {h \in brokerHeld : h.id = p.id}
       IN
        /\ accepted' = IF \/ p.kind = "PubRel"
                          \/ (p.kind = "QoS2" /\ held # {})
                       THEN accepted
                       ELSE [accepted EXCEPT ![p.req] = @ + 1]
        /\ brokerHeld' = CASE p.kind = "PubRel" -> brokerHeld \ held
                           [] p.kind = "QoS2" /\ held = {} ->
                                brokerHeld \cup {[req |-> p.req, id |-> p.id]}
                           [] OTHER -> brokerHeld
        /\ released' = IF p.kind = "PubRel"
                       THEN released \cup {h.req : h \in held} ELSE released
        /\ fromBroker' = IF p.kind = "QoS0" THEN fromBroker
                         ELSE Append(fromBroker, Ack(p, FALSE))
    /\ toBroker' = Tail(toBroker)
    /\ UNCHANGED <<hubVars, tasks, netVars, refused, notified, claimed>>

\* A reason of 128 or above: for PUBREL only that there is no such id.
BrokerRefuse ==
    /\ toBroker # <<>>
    /\ LET p == Head(toBroker) IN
        /\ p.req \in Refusable /\ p.kind # "QoS0"
        /\ p.kind \in {"QoS2", "PubRel"} => \A h \in brokerHeld : h.id # p.id
        /\ refused' = IF p.kind = "PubRel" THEN refused
                                          ELSE refused \cup {p.req}
        /\ fromBroker' = Append(fromBroker, Ack(p, TRUE))
    /\ toBroker' = Tail(toBroker)
    /\ UNCHANGED <<hubVars, tasks, netVars, brokerHeld, accepted, released,
                   notified, claimed>>

BrokerStep == BrokerTake \/ BrokerRefuse

-----------------------------------------------------------------------------
HubStep ==
    \/ HubStartNetwork \/ HubConnected \/ HubConnectFail \/ HubLost
    \/ HubTakeQos0 \/ HubTakeTracked \/ HubPoolEmpty
    \/ HubRecoverRec \/ HubRecoverDone \/ HubRecoverUnknown

TaskStep == \E t \in tasks :
    TaskSend(t) \/ TaskAcked(t) \/ TaskRecoverAgain(t) \/ TaskNotify(t)

NetStep == NetConnected \/ NetWrite \/ NetForward

Next ==
    \/ \E r \in Requests : ClientRequest(r)
    \/ HubStep
    \/ TaskStep
    \/ \E t \in tasks : TaskTimeout(t)
    \/ NetStep \/ NetConnectFail \/ NetLost
    \/ BrokerStep

Spec == Init /\ [][Next]_vars

(* The tokio runtime runs every task that is ready; a task takes a bounded *)
(* number of steps, so that fairness to all of them together is enough.    *)
(* Nothing is assumed of the user, of timeouts or of failures.             *)
Fairness ==
    /\ WF_vars(HubStep) /\ WF_vars(TaskStep)
    /\ WF_vars(NetStep) /\ WF_vars(BrokerStep)

FairSpec == Spec /\ Fairness

-----------------------------------------------------------------------------
(* Properties.                                                             *)

HeldIds == {clientData[i].id : i \in DOMAIN clientData}
Held(r) == \E i \in DOMAIN clientData : clientData[i].req = r

\* The broker has done its part of the handshake of request r.
Finished(r) == IF KindOf[r] = "QoS2" THEN r \in released ELSE accepted[r] > 0

\* Packet ids are neither lost nor given out twice: at every moment each id of
\* 1..MaxPacketId is either once in the pool or in exactly one entry of
\* client_data, so that `find` in RecoverId is unambiguous and the push of a
\* recovered id is never refused (task_hub/mod.rs 376-397, request_id).
IdsConserved ==
    /\ \A i, j \in DOMAIN freeIds : freeIds[i] = freeIds[j] => i = j
    /\ \A i, j \in DOMAIN clientData :
            clientData[i].id = clientData[j].id => i = j
    /\ Range(freeIds) \cap HeldIds = {}
    /\ Range(freeIds) \cup HeldIds = 1..MaxPacketId
    /\ Len(freeIds) + Len(clientData) = MaxPacketId

\* A request the hub has numbered stays in client_data, to be sent again on
\* the next connection, until the broker has done its part: taken the
\* message, or for QoS 2 processed the PUBREL, or has refused the request
\* (acknowledge, is_completed).
HeldUntilFinished ==
    \A r \in Requests :
        KindOf[r] \in Tracked /\ stage[r] = "taken"
            => Held(r) \/ Finished(r) \/ r \in refused

\* The user is told of a success only if the broker has done its part: no
\* refusal, no acknowledgement of another request or of an earlier use of the
\* packet id is taken for the one awaited (timeout_rx, tx_to_user).
NoFalseSuccess ==
    \A r \in Requests :
        KindOf[r] \in Tracked /\ r \in claimed => Finished(r)

\* The user is answered only when the broker has decided about the very request:
\* it has done its part of the handshake or it has refused the request; no
\* acknowledgement of anything else ends it (timeout_rx, is_rel).
AnsweredByBroker ==
    \A r \in Requests :
        KindOf[r] \in Tracked /\ notified[r] > 0
            => Finished(r) \/ r \in refused

\* A QoS 2 message is taken by the broker at most once, whatever is
\* retransmitted (TaskPublishQos2, TaskPublishQos2Rel).
ExactlyOnce ==
    \A r \in Requests : KindOf[r] = "QoS2" => accepted[r] <= 1

\* The user gets one answer per request (tx_to_user).
NotifiedOnce == \A r \in Requests : notified[r] <= 1

\* Over reconnections an old task and the respawned one can both report one
\* request; but the tasks of one connection report it once at most (run,
\* RecoverId, tx_to_user).
AnsweredOncePerConnection == \A r \in Requests : notified[r] <= attempt

\* While connected no entry is forgotten: a task works on it, its RecoverId is
\* on the way, or the loss of the connection is about to be read, after which
\* every entry gets a task (run 125-129, deal_hub_msg 376-397).
EntryAttended ==
    hub = "Connected" =>
        \A e \in Range(clientData) :
            \/ \E t \in tasks : t.req = e.req /\ t.kind = e.kind
            \/ RecoverMsg(e.id) \in Range(hubQ)
            \/ "ConnectedErr" \in Range(netEvents)

\* Every request the user issues is in the end answered, over any losses of
\* the connection, unless the pool of packet ids was empty.
EveryRequestAnswered ==
    \A r \in Requests :
        stage[r] = "queued" /\ KindOf[r] \in Tracked
            ~> notified[r] > 0 \/ stage[r] = "dropped"

=============================================================================
