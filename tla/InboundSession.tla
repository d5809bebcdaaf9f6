---------------------------- MODULE InboundSession ----------------------------
(***************************************************************************)
(* The inbound half of the MQTT client: the publishes of the broker, from  *)
(* the TaskNetwork that parses them through TaskHub.rx_publish and         *)
(* rx_publish_id and the tasks TaskPublishRxQos1 and TaskPublishRxQos2 to  *)
(* the Publish event of the user, over losses of the connection.           *)
(*                                                                         *)
(* What the hub does when the connection comes and goes is OutboundSession *)
(* and Connection; here it is one variable:                                *)
(*   "up"    the hub is Connected and so is its TaskNetwork,               *)
(*   "lost"  the TaskNetwork is gone, the hub has not read ConnectedErr,   *)
(*   "down"  the hub is in run_to_connect and does not read its queue,     *)
(*   "connecting"  so it is, and a new TaskNetwork has logged in.          *)
(***************************************************************************)
EXTENDS Naturals, Sequences, SequencesExt

CONSTANTS
    Messages,       \* the messages the broker has for this client
    QosOf,          \* their quality of service: 0, 1 or 2
    MaxBrokerId,    \* the broker numbers its publishes 1..MaxBrokerId
    MaxLosses,      \* bound: losses of the connection
    MaxResends      \* bound: retransmissions of one PUBREC after a timeout

ASSUME QosAssumption == QosOf \in [Messages -> 0..2]
ASSUME IdAssumption == MaxBrokerId \in Nat \ {0}
ASSUME BoundAssumption == MaxLosses \in Nat /\ MaxResends \in Nat

BrokerIds == 1..MaxBrokerId

VARIABLES
    conn,           \* the connection, see above
    losses,         \* how often it was lost
    hubQ,           \* the HubMsg events the hub has not read
    rxPublish,      \* TaskHub.rx_publish: packet id -> publish
    rxIds,          \* TaskHub.rx_publish_id
    rxTasks,        \* the live TaskPublishRxQos1 and TaskPublishRxQos2
    netQ,           \* the packets the TaskNetwork has to write
    toBroker, fromBroker,   \* the two directions of the TCP stream
    inflight,       \* broker: publishes not finished, in the order sent
    sent,           \* broker: the messages it has published
    nextId,         \* broker: the packet id of its next publish
    delivered       \* how often the user got each message

hubVars == <<hubQ, rxPublish, rxIds, delivered>>
wireVars == <<toBroker, fromBroker>>
brokerVars == <<inflight, sent, nextId>>
vars == <<conn, losses, hubVars, rxTasks, netQ, wireVars, brokerVars>>

-----------------------------------------------------------------------------
Publish(m, id) == [type |-> "Publish", id |-> id, msg |-> m]
Packet(type, id) == [type |-> type, id |-> id]

\* A task: the publish it acknowledges, and where its run function is.
NewTask(m, id) == [msg |-> m, id |-> id, pc |-> "send", acked |-> FALSE,
                   resends |-> 0]

PacketTypes == {"PubAck", "PubRec", "PubComp", "PubRel"}
Publishes == [type : {"Publish"}, id : 0..MaxBrokerId, msg : Messages]
Packets == [type : PacketTypes, id : BrokerIds]

TypeOK ==
    /\ conn \in {"up", "lost", "down", "connecting"}
    /\ losses \in 0..MaxLosses
    /\ hubQ \in Seq(Publishes \cup
                    [type : {"AffirmRxPublish", "AffirmRxId"}, id : BrokerIds])
    /\ rxIds \subseteq BrokerIds
    /\ DOMAIN rxPublish \subseteq BrokerIds
    /\ Range(rxPublish) \subseteq Messages
    /\ rxTasks \subseteq
        [msg : Messages, id : BrokerIds, acked : BOOLEAN,
         resends : 0..MaxResends,
         pc : {"send", "receipt", "await", "comp", "compReceipt", "affirm",
               "affirmId"}]
    /\ netQ \in Seq([type : PacketTypes, id : BrokerIds, msg : Messages])
    /\ toBroker \in Seq(Packets) /\ fromBroker \in Seq(Publishes \cup Packets)
    /\ inflight \in Seq([msg : Messages, id : BrokerIds, rel : BOOLEAN])
    /\ sent \subseteq Messages /\ nextId \in BrokerIds
    /\ delivered \in [Messages -> Nat]

Init ==
    /\ conn = "up" /\ losses = 0
    /\ hubQ = <<>> /\ rxPublish = <<>> /\ rxIds = {} /\ rxTasks = {}
    /\ netQ = <<>> /\ toBroker = <<>> /\ fromBroker = <<>>
    /\ inflight = <<>> /\ sent = {} /\ nextId = 1
    /\ delivered = [m \in Messages |-> 0]

-----------------------------------------------------------------------------
(* TaskHub.deal_hub_msg: it reads its queue while it is Connected.         *)

HubReads(type) ==
    /\ conn \in {"up", "lost"} /\ hubQ # <<>>
    /\ Head(hubQ).type = type
    /\ hubQ' = Tail(hubQ)
    /\ UNCHANGED <<conn, losses, netQ, wireVars, brokerVars>>

Deliver(m) == delivered' = [delivered EXCEPT ![m] = @ + 1]

HubRxQos0 ==
    /\ HubReads("Publish")
    /\ QosOf[Head(hubQ).msg] = 0
    /\ Deliver(Head(hubQ).msg)
    /\ UNCHANGED <<rxPublish, rxIds, rxTasks>>

\* PUBLISH of QoS 1 and 2 has a handshake, and a task that sees to it.
AllTracked(m) == TRUE                                    \* mutant
IsTracked(m) == QosOf[m] # 0

\* contains_key: a publish with an id that is in use is a duplicate.
NeverDup(id) == FALSE                                    \* mutant
IsDup(id) == id \in rxIds

\* A new publish of QoS 1 or 2 is kept and gets a task.
HubRxNew ==
    /\ HubReads("Publish")
    /\ LET m == Head(hubQ).msg
           id == Head(hubQ).id
       IN
        /\ IsTracked(m) /\ ~IsDup(id)
        /\ rxPublish' = [i \in DOMAIN rxPublish \cup {id} |->
                            IF i = id THEN m ELSE rxPublish[i]]
        /\ rxIds' = rxIds \cup {id}
        /\ rxTasks' = rxTasks \cup {NewTask(m, id)}
    /\ UNCHANGED delivered

HubRxDup ==
    /\ HubReads("Publish")
    /\ IsTracked(Head(hubQ).msg) /\ IsDup(Head(hubQ).id)
    /\ UNCHANGED <<rxPublish, rxIds, rxTasks, delivered>>

\* The handshake has got far enough: the user gets the publish.
HubAffirmPublish ==
    /\ HubReads("AffirmRxPublish")
    /\ LET id == Head(hubQ).id IN
        IF id \in DOMAIN rxPublish
        THEN /\ Deliver(rxPublish[id])
             /\ rxPublish' = [i \in DOMAIN rxPublish \ {id} |-> rxPublish[i]]
        ELSE UNCHANGED <<rxPublish, delivered>>
    /\ UNCHANGED <<rxIds, rxTasks>>

\* The handshake is over: the id may be used again.
HubAffirmId ==
    /\ HubReads("AffirmRxId")
    /\ rxIds' = rxIds \ {Head(hubQ).id}
    /\ UNCHANGED <<rxPublish, rxTasks, delivered>>

-----------------------------------------------------------------------------
(* The tasks.  QoS 1: PUBACK, then AffirmRxPublish and AffirmRxId.         *)
(* QoS 2: PUBREC until PUBREL, AffirmRxPublish, PUBCOMP, AffirmRxId.       *)

TaskVars == <<conn, losses, rxPublish, rxIds, delivered, wireVars, brokerVars>>
Become(t, u) == rxTasks' = (rxTasks \ {t}) \cup {u}
AtPc(t, pc) == [t EXCEPT !.pc = pc]

\* tx_network_default: without a TaskNetwork there is no receipt, and the
\* task ends.
Transmit(t, type, u) ==
    /\ IF conn \in {"up", "connecting"}
       THEN /\ netQ' = Append(netQ, [type |-> type, id |-> t.id, msg |-> t.msg])
            /\ Become(t, u)
       ELSE /\ rxTasks' = rxTasks \ {t}
            /\ netQ' = netQ
    /\ UNCHANGED <<hubQ, TaskVars>>

TaskSend(t) ==
    /\ t.pc = "send"
    /\ Transmit(t, IF QosOf[t.msg] = 1 THEN "PubAck" ELSE "PubRec",
                AtPc(t, "receipt"))

TaskTimeout(t) ==
    /\ t.pc = "await" /\ ~t.acked /\ t.resends < MaxResends
    /\ Transmit(t, "PubRec", [t EXCEPT !.pc = "receipt", !.resends = @ + 1])

\* PUBACK is written, or PUBREL has come: the publish is the user's.
AffirmBeforeRel(t) == t.pc \in {"affirm", "await"}       \* mutant
MayAffirm(t) == t.pc = "affirm" \/ (t.pc = "await" /\ t.acked)

TaskAffirm(t) ==
    /\ MayAffirm(t)
    /\ hubQ' = Append(hubQ, Packet("AffirmRxPublish", t.id))
    /\ Become(t, AtPc(t, IF QosOf[t.msg] = 1 THEN "affirmId" ELSE "comp"))
    /\ UNCHANGED <<netQ, TaskVars>>

TaskComp(t) ==
    /\ t.pc = "comp"
    /\ Transmit(t, "PubComp", AtPc(t, "compReceipt"))

TaskAffirmId(t) ==
    /\ t.pc = "affirmId"
    /\ hubQ' = Append(hubQ, Packet("AffirmRxId", t.id))
    /\ rxTasks' = rxTasks \ {t}
    /\ UNCHANGED <<netQ, TaskVars>>

-----------------------------------------------------------------------------
(* TaskNetwork.                                                            *)

\* The packet is written and the receipt wakes its task.
AfterAckIdFirst(t) ==                                    \* mutant
    CASE t.pc = "compReceipt" -> "affirmId"
      [] t.pc = "receipt" -> IF QosOf[t.msg] = 1 THEN "affirmId" ELSE "await"
      [] OTHER -> t.pc
AfterCompNothing(t) ==                                   \* mutant
    CASE t.pc = "compReceipt" -> t.pc
      [] t.pc = "receipt" -> IF QosOf[t.msg] = 1 THEN "affirm" ELSE "await"
      [] OTHER -> t.pc
AfterReceipt(t) ==
    CASE t.pc = "compReceipt" -> "affirmId"
      [] t.pc = "receipt" /\ QosOf[t.msg] = 1 -> "affirm"
      [] t.pc = "receipt" /\ QosOf[t.msg] = 2 -> "await"
      [] OTHER -> t.pc

NetWrite ==
    /\ conn = "up" /\ netQ # <<>>
    /\ LET p == Head(netQ) IN
        /\ toBroker' = Append(toBroker, Packet(p.type, p.id))
        /\ rxTasks' = {IF t.id = p.id /\ t.msg = p.msg
                       THEN AtPc(t, AfterReceipt(t)) ELSE t : t \in rxTasks}
    /\ netQ' = Tail(netQ)
    /\ UNCHANGED <<conn, losses, hubVars, fromBroker, brokerVars>>

\* A PUBLISH goes to the hub, a PUBREL to the tasks that have its id.
NetForward ==
    /\ conn = "up" /\ fromBroker # <<>>
    /\ LET p == Head(fromBroker) IN
        IF p.type = "Publish"
        THEN hubQ' = Append(hubQ, p) /\ UNCHANGED rxTasks
        ELSE /\ rxTasks' = {IF t.id = p.id /\ QosOf[t.msg] = 2
                            THEN [t EXCEPT !.acked = TRUE] ELSE t : t \in rxTasks}
             /\ UNCHANGED hubQ
    /\ fromBroker' = Tail(fromBroker)
    /\ UNCHANGED <<conn, losses, rxPublish, rxIds, delivered, netQ, toBroker,
                   brokerVars>>

\* What was waiting in the queue of a TaskNetwork that ends: the tasks of
\* these packets get no receipt and end.
WithoutQueued == {t \in rxTasks : t.pc \notin {"receipt", "compReceipt"}}

\* The connection is lost, and with it all that was not read.
NetLost ==
    /\ conn = "up" /\ losses < MaxLosses
    /\ conn' = "lost" /\ losses' = losses + 1
    /\ netQ' = <<>> /\ toBroker' = <<>> /\ fromBroker' = <<>>
    /\ rxTasks' = WithoutQueued
    /\ UNCHANGED <<hubVars, brokerVars>>

NetConnectFail ==
    /\ conn = "connecting" /\ losses < MaxLosses
    /\ conn' = "down" /\ losses' = losses + 1
    /\ netQ' = <<>>
    /\ rxTasks' = WithoutQueued
    /\ UNCHANGED <<hubVars, wireVars, brokerVars>>

\* run_to_connect starts a TaskNetwork.
HubStartNetwork ==
    /\ conn = "down"
    /\ conn' = "connecting"
    /\ UNCHANGED <<losses, hubVars, rxTasks, netQ, wireVars, brokerVars>>

\* The hub reads ConnectedErr and stops reading its queue.
HubLost ==
    /\ conn = "lost"
    /\ conn' = "down"
    /\ UNCHANGED <<losses, hubVars, rxTasks, netQ, wireVars, brokerVars>>

-----------------------------------------------------------------------------
(* The broker (external).  It keeps the session: after a reconnection it   *)
(* publishes again what was not acknowledged and repeats each PUBREL.  It  *)
(* numbers its publishes cyclically and skips no id.                       *)

InUse == {inflight[i].id : i \in DOMAIN inflight}

BrokerPublish(m) ==
    /\ conn = "up" /\ m \notin sent
    /\ sent' = sent \cup {m}
    /\ IF QosOf[m] = 0
       THEN fromBroker' = Append(fromBroker, Publish(m, 0)) /\ UNCHANGED inflight
       ELSE /\ nextId \notin InUse
            /\ fromBroker' = Append(fromBroker, Publish(m, nextId))
            /\ inflight' = Append(inflight,
                                  [msg |-> m, id |-> nextId, rel |-> FALSE])
    /\ nextId' = IF QosOf[m] = 0 THEN nextId ELSE (nextId % MaxBrokerId) + 1
    /\ UNCHANGED <<conn, losses, hubVars, rxTasks, netQ, toBroker>>

\* PUBACK or PUBCOMP ends the handshake of f, PUBREC of a QoS 2 publish is
\* answered with PUBREL; all else is ignored.
Ends(p, f) ==
    /\ f.id = p.id
    /\ \/ p.type = "PubAck" /\ QosOf[f.msg] = 1
       \/ p.type = "PubComp" /\ QosOf[f.msg] = 2 /\ f.rel

Releases(p, f) == p.type = "PubRec" /\ f.id = p.id /\ QosOf[f.msg] = 2

BrokerEnds(p) ==
    /\ \E i \in DOMAIN inflight :
        Ends(p, inflight[i]) /\ inflight' = RemoveAt(inflight, i)
    /\ UNCHANGED fromBroker

BrokerReleases(p) ==
    /\ \E i \in DOMAIN inflight :
        Releases(p, inflight[i]) /\ inflight' = [inflight EXCEPT ![i].rel = TRUE]
    /\ fromBroker' = Append(fromBroker, Packet("PubRel", p.id))

BrokerIgnores(p) ==
    /\ \A f \in Range(inflight) : ~Ends(p, f) /\ ~Releases(p, f)
    /\ UNCHANGED <<inflight, fromBroker>>

BrokerTake ==
    /\ toBroker # <<>>
    /\ \/ BrokerEnds(Head(toBroker))
       \/ BrokerReleases(Head(toBroker))
       \/ BrokerIgnores(Head(toBroker))
    /\ toBroker' = Tail(toBroker)
    /\ UNCHANGED <<conn, losses, hubVars, rxTasks, netQ, sent, nextId>>

\* CONNACK: the hub is Connected; it starts no task for what is in rx_publish.
NetConnected ==
    /\ conn = "connecting"
    /\ conn' = "up"
    /\ fromBroker' = [i \in DOMAIN inflight |->
                        LET f == inflight[i] IN
                        IF f.rel THEN Packet("PubRel", f.id)
                                 ELSE Publish(f.msg, f.id)]
    /\ UNCHANGED <<losses, hubVars, rxTasks, netQ, toBroker, brokerVars>>

-----------------------------------------------------------------------------
HubStep == \/ HubRxQos0 \/ HubRxNew \/ HubRxDup
           \/ HubAffirmPublish \/ HubAffirmId

TaskStep == \E t \in rxTasks :
    TaskSend(t) \/ TaskAffirm(t) \/ TaskComp(t) \/ TaskAffirmId(t)

Next ==
    \/ HubStep
    \/ TaskStep
    \/ \E t \in rxTasks : TaskTimeout(t)
    \/ NetWrite \/ NetForward \/ NetLost \/ NetConnectFail
    \/ HubLost \/ HubStartNetwork \/ NetConnected
    \/ \E m \in Messages : BrokerPublish(m)
    \/ BrokerTake

Spec == Init /\ [][Next]_vars

\* The runtime runs what is ready, the client reconnects; nothing is assumed
\* of timeouts, of losses, or that the broker ever publishes.
Fairness ==
    /\ WF_vars(HubStep) /\ WF_vars(TaskStep)
    /\ WF_vars(NetWrite) /\ WF_vars(NetForward)
    /\ WF_vars(HubLost) /\ WF_vars(HubStartNetwork) /\ WF_vars(NetConnected)
    /\ WF_vars(BrokerTake)

FairSpec == Spec /\ Fairness

-----------------------------------------------------------------------------
(* Properties.                                                             *)

Finished(m) == m \in sent /\ \A i \in DOMAIN inflight : inflight[i].msg # m

\* What the broker has been told is received is not lost: it was delivered,
\* or it is in rx_publish with an AffirmRxPublish on its way or a task that
\* will dispatch it (TaskPublishRxQos1 acknowledges before it delivers).
AcknowledgedIsNotLost ==
    \A m \in Messages :
        QosOf[m] # 0 /\ Finished(m) /\ delivered[m] = 0 =>
            \E id \in DOMAIN rxPublish :
                /\ rxPublish[id] = m
                /\ \/ Packet("AffirmRxPublish", id) \in Range(hubQ)
                   \/ \E t \in rxTasks : t.msg = m /\ t.pc = "affirm"

\* A QoS 2 message reaches the user at most once, whatever the broker sends
\* again (rx_publish_id, deal_hub_msg 444-475).
DeliveredAtMostOnce ==
    \A m \in Messages : QosOf[m] = 2 => delivered[m] <= 1

\* A QoS 2 message is delivered only after the broker has got the PUBREC and
\* released the message, so that it will not send the PUBLISH again.
DeliveredAfterRelease ==
    \A m \in Messages : QosOf[m] = 2 /\ delivered[m] > 0 =>
        \A i \in DOMAIN inflight : inflight[i].msg = m => inflight[i].rel

\* The user is given no message that was not sent, none of QoS 0 or QoS 2 twice,
\* and none of QoS 2 before its release: deal_hub_msg and the two tasks do what
\* MessageDelivery promises.
Released ==
    {m \in sent : QosOf[m] = 2 /\
                    \A i \in DOMAIN inflight : inflight[i].msg = m => inflight[i].rel}

Delivery == INSTANCE MessageDelivery WITH released <- Released

ImplementsDelivery == Delivery!Spec

\* Every QoS 1 and QoS 2 message the broker publishes reaches the user, over
\* any losses of the connection.
EveryMessageDelivered ==
    \A m \in Messages : m \in sent /\ QosOf[m] # 0 ~> delivered[m] > 0

\* Every handshake the broker begins comes to its end, and the id is free for
\* the broker and for the client again.
EveryHandshakeEnds ==
    \A m \in Messages :
        m \in sent ~> Finished(m) /\ \A id \in rxIds : id \in InUse

=============================================================================
