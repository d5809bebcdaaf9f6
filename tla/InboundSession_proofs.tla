------------------------ MODULE InboundSession_proofs ------------------------
(* Theorems about InboundSession, for every set of messages, every number  *)
(* of broker ids and every bound on losses and retransmissions.            *)
EXTENDS InboundSession, SequenceLemmas, FiniteSetTheorems

-----------------------------------------------------------------------------
(* Type correctness.                                                       *)

Ids == 0..MaxBrokerId
Affirms == [type : {"AffirmRxPublish", "AffirmRxId"}, id : BrokerIds]
HubEvents == Publishes \cup Affirms
Pcs == {"send", "receipt", "await", "comp", "compReceipt", "affirm", "affirmId"}
RxTasks == [msg : Messages, id : BrokerIds, acked : BOOLEAN,
            resends : 0..MaxResends, pc : Pcs]
ToWrite == [type : PacketTypes, id : BrokerIds, msg : Messages]
FromBroker == Publishes \cup Packets
Unfinished == [msg : Messages, id : BrokerIds, rel : BOOLEAN]

\* A publish with a handshake has an id.
Numbered(q) ==
    \A k \in 1..Len(q) :
        q[k].type = "Publish" /\ QosOf[q[k].msg] # 0 => q[k].id \in BrokerIds

\* The type invariant, and that.
TypeInv ==
    /\ conn \in {"up", "lost", "down", "connecting"}
    /\ losses \in 0..MaxLosses
    /\ hubQ \in Seq(HubEvents)
    /\ rxIds \subseteq BrokerIds
    /\ DOMAIN rxPublish \subseteq BrokerIds
    /\ \A i \in DOMAIN rxPublish : rxPublish[i] \in Messages
    /\ rxTasks \subseteq RxTasks
    /\ netQ \in Seq(ToWrite)
    /\ toBroker \in Seq(Packets) /\ fromBroker \in Seq(FromBroker)
    /\ inflight \in Seq(Unfinished)
    /\ sent \subseteq Messages /\ nextId \in BrokerIds
    /\ delivered \in [Messages -> Nat]
    /\ Numbered(hubQ) /\ Numbered(fromBroker)

USE QosAssumption, IdAssumption, BoundAssumption

LEMMA IdsInRange == BrokerIds \subseteq Ids /\ 0 \in Ids
  BY DEF BrokerIds, Ids

LEMMA TypesOK == TypeInv => TypeOK
<1>1. (\A i \in DOMAIN rxPublish : rxPublish[i] \in Messages)
        => Range(rxPublish) \subseteq Messages
  BY DEF Range
<1> QED
  BY Zenon, <1>1
  DEF TypeInv, TypeOK, HubEvents, Affirms, RxTasks, Pcs, ToWrite, FromBroker, Unfinished

LEMMA InitType == Init => TypeInv
  BY DEF Init, TypeInv, Numbered, BrokerIds

\* What the sets of records say, field by field.
LEMMA PublishType ==
    ASSUME NEW p \in HubEvents \cup FromBroker
    PROVE  p.type = "Publish" => p \in Publishes /\ p.msg \in Messages /\ p.id \in Ids
  BY DEF HubEvents, FromBroker, Affirms, Publishes, Packets, PacketTypes, Ids

LEMMA OtherType ==
    ASSUME NEW p \in HubEvents \cup FromBroker
    PROVE  p.type # "Publish" => p.id \in BrokerIds
  BY DEF HubEvents, FromBroker, Affirms, Publishes, Packets, PacketTypes

LEMMA NumberedTail ==
    ASSUME NEW S, NEW q \in Seq(S), q # <<>>, Numbered(q)
    PROVE  Numbered(Tail(q))
  BY TailElements DEF Numbered

LEMMA NumberedAppend ==
    ASSUME NEW S, NEW q \in Seq(S), NEW p \in S, Numbered(q),
           p.type = "Publish" /\ QosOf[p.msg] # 0 => p.id \in BrokerIds
    PROVE  Numbered(Append(q, p))
<1>1. ASSUME NEW k \in 1..Len(Append(q, p))
      PROVE  k \in 1..Len(q) \/ (k = Len(q) + 1 /\ Append(q, p)[k] = p)
  BY AppendElements
<1> QED
  BY <1>1, AppendElements DEF Numbered

-----------------------------------------------------------------------------

LEMMA HubType == TypeInv /\ HubStep => TypeInv'
<1> SUFFICES ASSUME TypeInv, HubStep PROVE TypeInv'
  OBVIOUS
<1>1. ASSUME NEW type \in {"Publish", "AffirmRxPublish", "AffirmRxId"}, HubReads(type)
      PROVE  /\ hubQ' \in Seq(HubEvents) /\ Numbered(hubQ')
             /\ Numbered(fromBroker')
             /\ Head(hubQ) \in HubEvents /\ Head(hubQ).type = type
             /\ Head(hubQ) = hubQ[1] /\ 1 \in 1..Len(hubQ)
             /\ UNCHANGED <<conn, losses, netQ, toBroker, fromBroker, inflight,
                            sent, nextId>>
  <2>1. hubQ \in Seq(HubEvents) /\ hubQ # <<>> /\ hubQ' = Tail(hubQ)
    BY <1>1 DEF HubReads, TypeInv
  <2> QED
    BY <1>1, <2>1, TailElements, NumberedTail
    DEF HubReads, wireVars, brokerVars, Numbered, TypeInv
<1>2. ASSUME HubReads("Publish") PROVE Head(hubQ).msg \in Messages
  BY <1>1, <1>2, PublishType
<1>3. CASE HubRxQos0
  <2>1. delivered' \in [Messages -> Nat]
    BY <1>2, <1>3 DEF HubRxQos0, Deliver, TypeInv
  <2> QED
    BY <1>1, <1>3, <2>1 DEF HubRxQos0, TypeInv
<1>4. CASE HubRxNew
  <2> DEFINE m == Head(hubQ).msg
             id == Head(hubQ).id
  <2>1. HubReads("Publish") /\ QosOf[m] # 0
    BY <1>4 DEF HubRxNew, IsTracked
  <2>2. m \in Messages /\ id \in BrokerIds
    BY <1>1, <1>2, <2>1 DEF Numbered, TypeInv
  <2>3. NewTask(m, id) \in RxTasks
    BY <2>2 DEF NewTask, RxTasks, Pcs
  <2>4. /\ rxPublish' = [i \in DOMAIN rxPublish \cup {id} |->
                            IF i = id THEN m ELSE rxPublish[i]]
        /\ rxIds' = rxIds \cup {id}
        /\ rxTasks' = rxTasks \cup {NewTask(m, id)}
        /\ delivered' = delivered
    BY <1>4 DEF HubRxNew
  <2>5. /\ DOMAIN rxPublish' \subseteq BrokerIds
        /\ \A i \in DOMAIN rxPublish' : rxPublish'[i] \in Messages
    BY <2>2, <2>4 DEF TypeInv
  <2> HIDE DEF m, id
  <2> QED
    BY <1>1, <2>1, <2>2, <2>3, <2>4, <2>5 DEF TypeInv
<1>5. CASE HubRxDup
  BY <1>1, <1>5 DEF HubRxDup, TypeInv
<1>6. CASE HubAffirmPublish
  <2> DEFINE id == Head(hubQ).id
  <2>1. CASE id \in DOMAIN rxPublish
    <3>1. /\ rxPublish' = [i \in DOMAIN rxPublish \ {id} |-> rxPublish[i]]
          /\ delivered' = [delivered EXCEPT ![rxPublish[id]] = @ + 1]
      BY <1>6, <2>1 DEF HubAffirmPublish, Deliver
    <3>2. delivered' \in [Messages -> Nat]
      BY <2>1, <3>1 DEF TypeInv
    <3>3. /\ DOMAIN rxPublish' \subseteq BrokerIds
          /\ \A i \in DOMAIN rxPublish' : rxPublish'[i] \in Messages
      BY <3>1 DEF TypeInv
    <3> QED
      BY <1>1, <1>6, <3>2, <3>3 DEF HubAffirmPublish, TypeInv
  <2>2. CASE id \notin DOMAIN rxPublish
    BY <1>1, <1>6, <2>2 DEF HubAffirmPublish, TypeInv
  <2> QED
    BY <2>1, <2>2
<1>7. CASE HubAffirmId
  <2>1. rxIds' \subseteq BrokerIds
    BY <1>7 DEF HubAffirmId, TypeInv
  <2> QED
    BY <1>1, <1>7, <2>1 DEF HubAffirmId, TypeInv
<1> QED
  BY <1>3, <1>4, <1>5, <1>6, <1>7 DEF HubStep

\* A task that goes on, and the packet it writes.
LEMMA TaskType ==
    ASSUME NEW t \in RxTasks, NEW pc \in Pcs
    PROVE  /\ AtPc(t, pc) \in RxTasks
           /\ AtPc(t, pc).msg = t.msg /\ AtPc(t, pc).id = t.id
           /\ AtPc(t, pc).acked = t.acked /\ AtPc(t, pc).pc = pc
  BY DEF AtPc, RxTasks, Pcs

LEMMA TransmitType ==
    ASSUME TypeInv, NEW t \in rxTasks, NEW type \in PacketTypes, NEW u \in RxTasks,
           Transmit(t, type, u)
    PROVE  TypeInv'
<1>1. t \in RxTasks
  BY DEF TypeInv
<1> DEFINE p == [type |-> type, id |-> t.id, msg |-> t.msg]
<1>2. p \in ToWrite
  BY <1>1 DEF RxTasks, ToWrite
<1>3. netQ' \in Seq(ToWrite)
  <2>1. netQ' = Append(netQ, p) \/ netQ' = netQ
    BY DEF Transmit
  <2>2. netQ \in Seq(ToWrite)
    BY DEF TypeInv
  <2> HIDE DEF p
  <2>3. Append(netQ, p) \in Seq(ToWrite)
    BY <1>2, <2>2, AppendElements
  <2> QED
    BY <2>1, <2>2, <2>3
<1>4. rxTasks' \subseteq RxTasks
  BY DEF Transmit, Become, TypeInv
<1>5. UNCHANGED <<hubQ, conn, losses, rxPublish, rxIds, delivered, toBroker,
                  fromBroker, inflight, sent, nextId>>
  BY DEF Transmit, TaskVars, wireVars, brokerVars
<1> QED
  BY <1>3, <1>4, <1>5 DEF TypeInv, Numbered

LEMMA AffirmType ==
    ASSUME TypeInv, NEW t \in RxTasks, NEW type \in {"AffirmRxPublish", "AffirmRxId"}
    PROVE  /\ Packet(type, t.id) \in Affirms
           /\ Append(hubQ, Packet(type, t.id)) \in Seq(HubEvents)
           /\ Numbered(Append(hubQ, Packet(type, t.id)))
<1> DEFINE p == Packet(type, t.id)
<1>1. p \in Affirms /\ p \in HubEvents /\ p.type # "Publish"
  BY DEF Packet, Affirms, HubEvents, RxTasks
<1> HIDE DEF p
<1>2. hubQ \in Seq(HubEvents) /\ Numbered(hubQ)
  BY DEF TypeInv
<1>3. Append(hubQ, p) \in Seq(HubEvents)
  BY <1>1, <1>2
<1>4. Numbered(Append(hubQ, p))
  BY <1>1, <1>2, NumberedAppend
<1> QED
  BY <1>1, <1>3, <1>4 DEF p

LEMMA TasksType ==
    ASSUME TypeInv, NEW t \in rxTasks,
           TaskSend(t) \/ TaskTimeout(t) \/ TaskAffirm(t) \/ TaskComp(t) \/ TaskAffirmId(t)
    PROVE  TypeInv'
<1>0. t \in RxTasks
  BY DEF TypeInv
<1>1. CASE TaskSend(t)
  <2>1. AtPc(t, "receipt") \in RxTasks
    BY <1>0, TaskType DEF Pcs
  <2>2. Transmit(t, IF QosOf[t.msg] = 1 THEN "PubAck" ELSE "PubRec", AtPc(t, "receipt"))
    BY <1>1 DEF TaskSend
  <2>3. (IF QosOf[t.msg] = 1 THEN "PubAck" ELSE "PubRec") \in PacketTypes
    BY DEF PacketTypes
  <2> QED
    BY <2>1, <2>2, <2>3, TransmitType
<1>2. CASE TaskTimeout(t)
  <2>1. [t EXCEPT !.pc = "receipt", !.resends = @ + 1] \in RxTasks
    <3>1. t.resends + 1 \in 0..MaxResends
      BY <1>0, <1>2 DEF TaskTimeout, RxTasks
    <3>2. "receipt" \in Pcs
      BY DEF Pcs
    <3> QED
      BY <1>0, <3>1, <3>2 DEF RxTasks
  <2>2. "PubRec" \in PacketTypes
    BY DEF PacketTypes
  <2> QED
    BY <1>2, <2>1, <2>2, TransmitType DEF TaskTimeout
<1>3. CASE TaskAffirm(t)
  <2>1. AtPc(t, IF QosOf[t.msg] = 1 THEN "affirmId" ELSE "comp") \in RxTasks
    BY <1>0, TaskType DEF Pcs
  <2>2. rxTasks' \subseteq RxTasks
    BY <1>3, <2>1 DEF TaskAffirm, Become, TypeInv
  <2>3. hubQ' \in Seq(HubEvents) /\ Numbered(hubQ')
    BY <1>0, <1>3, AffirmType DEF TaskAffirm
  <2> QED
    BY <1>3, <2>2, <2>3 DEF TaskAffirm, TaskVars, wireVars, brokerVars, TypeInv, Numbered
<1>4. CASE TaskComp(t)
  <2>1. AtPc(t, "compReceipt") \in RxTasks /\ "PubComp" \in PacketTypes
    BY <1>0, TaskType DEF Pcs, PacketTypes
  <2> QED
    BY <1>4, <2>1, TransmitType DEF TaskComp
<1>5. CASE TaskAffirmId(t)
  <2>1. hubQ' \in Seq(HubEvents) /\ Numbered(hubQ')
    BY <1>0, <1>5, AffirmType DEF TaskAffirmId
  <2> QED
    BY <1>5, <2>1 DEF TaskAffirmId, TaskVars, wireVars, brokerVars, TypeInv, Numbered
<1> QED
  BY <1>1, <1>2, <1>3, <1>4, <1>5

LEMMA NetType ==
    ASSUME TypeInv,
           \/ NetWrite \/ NetForward \/ NetLost \/ NetConnectFail
           \/ HubLost \/ HubStartNetwork \/ NetConnected
    PROVE  TypeInv'
<1>1. CASE NetWrite
  <2> DEFINE p == Head(netQ)
  <2>1. p \in ToWrite /\ netQ' \in Seq(ToWrite)
    BY <1>1, TailElements DEF NetWrite, TypeInv
  <2>2. Packet(p.type, p.id) \in Packets
    BY <2>1 DEF Packet, Packets, ToWrite
  <2>3. toBroker' \in Seq(Packets)
    BY <1>1, <2>2 DEF NetWrite, TypeInv
  <2>4. ASSUME NEW t \in rxTasks PROVE AtPc(t, AfterReceipt(t)) \in RxTasks
    <3>1. t \in RxTasks
      BY DEF TypeInv
    <3>2. AfterReceipt(t) \in Pcs
      BY <3>1 DEF AfterReceipt, Pcs, RxTasks
    <3> QED
      BY <3>1, <3>2, TaskType
  <2>5. rxTasks' \subseteq RxTasks
    BY <1>1, <2>4 DEF NetWrite, TypeInv
  <2> QED
    BY <1>1, <2>1, <2>3, <2>5 DEF NetWrite, hubVars, brokerVars, TypeInv, Numbered
<1>2. CASE NetForward
  <2> DEFINE p == Head(fromBroker)
  <2>1. /\ p \in FromBroker /\ p = fromBroker[1] /\ 1 \in 1..Len(fromBroker)
        /\ fromBroker' \in Seq(FromBroker) /\ Numbered(fromBroker')
    BY <1>2, TailElements, NumberedTail DEF NetForward, TypeInv
  <2>2. CASE p.type = "Publish"
    <3>1. p \in HubEvents
      BY <2>1, <2>2, PublishType DEF HubEvents
    <3>2. QosOf[p.msg] # 0 => p.id \in BrokerIds
      BY <2>1, <2>2 DEF TypeInv, Numbered
    <3>3. hubQ' = Append(hubQ, p) /\ UNCHANGED rxTasks
      BY <1>2, <2>2 DEF NetForward
    <3>4. hubQ \in Seq(HubEvents) /\ Numbered(hubQ)
      BY DEF TypeInv
    <3> HIDE DEF p
    <3>5. hubQ' \in Seq(HubEvents) /\ Numbered(hubQ')
      BY <3>1, <3>2, <3>3, <3>4, NumberedAppend
    <3> QED
      BY <1>2, <2>1, <3>3, <3>5 DEF NetForward, brokerVars, TypeInv
  <2>3. CASE p.type # "Publish"
    <3>1. rxTasks' = {IF t.id = p.id /\ QosOf[t.msg] = 2
                      THEN [t EXCEPT !.acked = TRUE] ELSE t : t \in rxTasks}
      BY <1>2, <2>3 DEF NetForward
    <3>2. \A t \in rxTasks : t \in RxTasks /\ [t EXCEPT !.acked = TRUE] \in RxTasks
      BY DEF TypeInv, RxTasks
    <3>3. rxTasks' \subseteq RxTasks
      BY <3>1, <3>2
    <3> QED
      BY <1>2, <2>1, <2>3, <3>3 DEF NetForward, brokerVars, TypeInv, Numbered
  <2> QED
    BY <2>2, <2>3
<1>3. CASE NetLost
  <2>1. losses' \in 0..MaxLosses
    BY <1>3 DEF NetLost, TypeInv
  <2> QED
    BY <1>3, <2>1 DEF NetLost, WithoutQueued, hubVars, brokerVars, TypeInv, Numbered
<1>4. CASE NetConnectFail
  <2>1. losses' \in 0..MaxLosses
    BY <1>4 DEF NetConnectFail, TypeInv
  <2> QED
    BY <1>4, <2>1 DEF NetConnectFail, WithoutQueued, hubVars, wireVars, brokerVars,
                      TypeInv, Numbered
<1>5. CASE HubLost
  BY <1>5 DEF HubLost, hubVars, wireVars, brokerVars, TypeInv, Numbered
<1>6. CASE HubStartNetwork
  BY <1>6 DEF HubStartNetwork, hubVars, wireVars, brokerVars, TypeInv, Numbered
<1>7. CASE NetConnected
  <2> DEFINE again(f) == IF f.rel THEN Packet("PubRel", f.id) ELSE Publish(f.msg, f.id)
  <2>1. ASSUME NEW f \in Unfinished
        PROVE  /\ again(f) \in FromBroker
               /\ again(f).type = "Publish" => again(f).id \in BrokerIds
    <3>1. CASE f.rel
      BY <3>1 DEF Packet, Packets, PacketTypes, FromBroker, Unfinished
    <3>2. CASE ~f.rel
      BY <3>2, IdsInRange DEF Publish, Publishes, FromBroker, Unfinished, Ids
    <3> QED
      BY <3>1, <3>2
  <2>2. fromBroker' = [i \in DOMAIN inflight |-> again(inflight[i])]
    BY <1>7 DEF NetConnected
  <2> HIDE DEF again
  <2>3. inflight \in Seq(Unfinished) /\ DOMAIN inflight = 1..Len(inflight)
    BY DEF TypeInv
  <2>4. fromBroker' \in Seq(FromBroker) /\ Numbered(fromBroker')
    BY <2>1, <2>2, <2>3 DEF Numbered
  <2> QED
    BY <1>7, <2>4 DEF NetConnected, hubVars, brokerVars, TypeInv
<1> QED
  BY <1>1, <1>2, <1>3, <1>4, <1>5, <1>6, <1>7

LEMMA BrokerType ==
    ASSUME TypeInv, BrokerTake \/ \E m \in Messages : BrokerPublish(m)
    PROVE  TypeInv'
<1>1. ASSUME NEW m \in Messages, BrokerPublish(m) PROVE TypeInv'
  <2>1. nextId' \in BrokerIds
    <3>1. nextId % MaxBrokerId \in 0..(MaxBrokerId - 1)
      BY DEF TypeInv, BrokerIds
    <3>2. nextId' = nextId \/ nextId' = (nextId % MaxBrokerId) + 1
      BY <1>1 DEF BrokerPublish
    <3> QED
      BY <3>1, <3>2 DEF BrokerIds, TypeInv
  <2>2. ASSUME NEW id \in Ids, QosOf[m] # 0 => id \in BrokerIds,
               fromBroker' = Append(fromBroker, Publish(m, id))
        PROVE  fromBroker' \in Seq(FromBroker) /\ Numbered(fromBroker')
    <3>1. /\ Publish(m, id) \in FromBroker
          /\ Publish(m, id).msg = m /\ Publish(m, id).id = id
      BY DEF Publish, FromBroker, Publishes, Ids
    <3>2. fromBroker \in Seq(FromBroker) /\ Numbered(fromBroker)
      BY DEF TypeInv
    <3> QED
      BY <2>2, <3>1, <3>2, NumberedAppend
  <2>3. UNCHANGED <<conn, losses, hubQ, rxPublish, rxIds, delivered, rxTasks,
                    netQ, toBroker>>
    BY <1>1 DEF BrokerPublish, hubVars
  <2>4. sent' \subseteq Messages
    BY <1>1 DEF BrokerPublish, TypeInv
  <2>5. CASE QosOf[m] = 0
    <3>1. fromBroker' = Append(fromBroker, Publish(m, 0)) /\ UNCHANGED inflight
      BY <1>1, <2>5 DEF BrokerPublish
    <3>2. fromBroker' \in Seq(FromBroker) /\ Numbered(fromBroker')
      BY <2>2, <2>5, <3>1, IdsInRange
    <3> QED
      BY <2>1, <2>3, <2>4, <3>1, <3>2 DEF TypeInv, Numbered
  <2>6. CASE QosOf[m] # 0
    <3>1. /\ fromBroker' = Append(fromBroker, Publish(m, nextId))
          /\ inflight' = Append(inflight, [msg |-> m, id |-> nextId, rel |-> FALSE])
      BY <1>1, <2>6 DEF BrokerPublish
    <3>2. nextId \in BrokerIds /\ nextId \in Ids
      BY IdsInRange DEF TypeInv
    <3>3. fromBroker' \in Seq(FromBroker) /\ Numbered(fromBroker')
      BY <2>2, <3>1, <3>2
    <3>4. [msg |-> m, id |-> nextId, rel |-> FALSE] \in Unfinished
      BY <3>2 DEF Unfinished
    <3>5. inflight' \in Seq(Unfinished)
      BY <3>1, <3>4 DEF TypeInv
    <3> QED
      BY <2>1, <2>3, <2>4, <3>3, <3>5 DEF TypeInv, Numbered
  <2> QED
    BY <2>5, <2>6
<1>2. CASE BrokerTake
  <2> DEFINE p == Head(toBroker)
  <2>1. p \in Packets /\ toBroker' \in Seq(Packets)
    BY <1>2, TailElements DEF BrokerTake, TypeInv
  <2>2. UNCHANGED <<conn, losses, hubQ, rxPublish, rxIds, delivered, rxTasks,
                    netQ, sent, nextId>>
    BY <1>2 DEF BrokerTake, hubVars
  <2>3. inflight \in Seq(Unfinished) /\ DOMAIN inflight = 1..Len(inflight)
    BY DEF TypeInv
  <2>4. CASE BrokerEnds(p)
    <3>1. PICK i \in DOMAIN inflight : inflight' = RemoveAt(inflight, i)
      BY <2>4 DEF BrokerEnds
    <3>2. inflight' \in Seq(Unfinished)
      BY <2>3, <3>1, RemoveAtElements
    <3> QED
      BY <2>1, <2>2, <2>4, <3>2 DEF BrokerEnds, TypeInv, Numbered
  <2>5. CASE BrokerReleases(p)
    <3>1. PICK i \in DOMAIN inflight : inflight' = [inflight EXCEPT ![i].rel = TRUE]
      BY <2>5 DEF BrokerReleases
    <3>2. [inflight[i] EXCEPT !.rel = TRUE] \in Unfinished
      <4>1. inflight[i] \in Unfinished
        BY <2>3
      <4> QED
        BY <4>1 DEF Unfinished
    <3>3. inflight' \in Seq(Unfinished)
      BY <2>3, <3>1, <3>2
    <3>4. Packet("PubRel", p.id) \in FromBroker /\ Packet("PubRel", p.id).type = "PubRel"
      BY <2>1 DEF Packet, FromBroker, Packets, PacketTypes
    <3>5. fromBroker' = Append(fromBroker, Packet("PubRel", p.id))
      BY <2>5 DEF BrokerReleases
    <3>6. fromBroker \in Seq(FromBroker) /\ Numbered(fromBroker)
      BY DEF TypeInv
    <3>7. fromBroker' \in Seq(FromBroker) /\ Numbered(fromBroker')
      BY <3>4, <3>5, <3>6, NumberedAppend
    <3> QED
      BY <2>1, <2>2, <3>3, <3>7 DEF TypeInv, Numbered
  <2>6. CASE BrokerIgnores(p)
    BY <2>1, <2>2, <2>6 DEF BrokerIgnores, TypeInv, Numbered
  <2> QED
    BY <1>2, <2>4, <2>5, <2>6 DEF BrokerTake
<1> QED
  BY <1>1, <1>2

LEMMA NextType == TypeInv /\ [Next]_vars => TypeInv'
<1> SUFFICES ASSUME TypeInv, [Next]_vars PROVE TypeInv'
  OBVIOUS
<1>1. CASE UNCHANGED vars
  BY <1>1 DEF vars, hubVars, wireVars, brokerVars, TypeInv, Numbered
<1> QED
  BY <1>1, HubType, TasksType, NetType, BrokerType DEF Next, TaskStep

\* Every variable of the inbound session keeps its type (TaskHub, the two tasks).
THEOREM TypeCorrect == Spec => []TypeOK
  BY InitType, NextType, TypesOK, PTL DEF Spec

-----------------------------------------------------------------------------
(* The inductive invariant.                                                *)

Late == {"comp", "compReceipt", "affirmId"}

IsPublish(p, m, i) == p.type = "Publish" /\ p.msg = m /\ p.id = i

At(m, i) ==
    \/ \E t \in rxTasks : t.msg = m /\ t.id = i
    \/ i \in DOMAIN rxPublish /\ rxPublish[i] = m
    \/ \E k \in 1..Len(hubQ) : IsPublish(hubQ[k], m, i)
    \/ \E k \in 1..Len(fromBroker) : IsPublish(fromBroker[k], m, i)
    \/ \E k \in 1..Len(inflight) : inflight[k].msg = m /\ inflight[k].id = i

SentInv ==
    /\ \A m \in Messages, i \in Ids : At(m, i) => m \in sent
    /\ \A m \in Messages : \A i, j \in Ids : At(m, i) /\ At(m, j) => i = j
    /\ \A m \in Messages : delivered[m] > 0 => m \in sent
    /\ \A k, l \in 1..Len(inflight) : inflight[k].id = inflight[l].id => k = l
    /\ \A k \in 1..Len(inflight) : QosOf[inflight[k].msg] # 0

\* There is one task for an id; while it lives the id is in use.
OneTask ==
    /\ \A t, u \in rxTasks : t.id = u.id => t = u
    /\ \A t \in rxTasks : t.id \in rxIds

\* A task that has not affirmed its publish has it in rx_publish.
KeepsPublish ==
    \A t \in rxTasks :
        /\ t.pc \notin Late => t.id \in DOMAIN rxPublish /\ rxPublish[t.id] = t.msg
        /\ QosOf[t.msg] = 2 => t.pc # "affirm"
        /\ QosOf[t.msg] # 0

\* A task sends AffirmRxPublish, and AffirmRxId when it ends.
TaskAffirms ==
    \A t \in rxTasks : \A k \in 1..Len(hubQ) :
        hubQ[k].id = t.id =>
            /\ hubQ[k].type # "AffirmRxId"
            /\ hubQ[k].type = "AffirmRxPublish" => t.pc \in Late

\* An id is in use until its AffirmRxId, the last it is affirmed with, is read.
AffirmsInUse ==
    \A k \in 1..Len(hubQ) : hubQ[k].type # "Publish" => hubQ[k].id \in rxIds
AffirmsInOrder ==
    \A j, k \in 1..Len(hubQ) :
        j < k /\ hubQ[j].type = "AffirmRxId" /\ hubQ[k].type # "Publish"
            => hubQ[j].id # hubQ[k].id

HandshakeInv ==
    OneTask /\ KeepsPublish /\ TaskAffirms /\ AffirmsInUse /\ AffirmsInOrder

Early(m) ==
    /\ delivered[m] = 0
    /\ \A t \in rxTasks : t.msg = m => ~t.acked /\ t.pc \notin Late
    /\ \A k \in 1..Len(hubQ) :
        hubQ[k].type = "AffirmRxPublish" /\ hubQ[k].id \in DOMAIN rxPublish
            => rxPublish[hubQ[k].id] # m

Unseen(m) ==
    /\ \A t \in rxTasks : t.msg # m
    /\ \A k \in 1..Len(hubQ) : hubQ[k].type = "Publish" => hubQ[k].msg # m

\* While the broker may send m, or has sent it again, the client has not affirmed it.
WireEarly(m) ==
    /\ \A k \in 1..Len(fromBroker) :
        fromBroker[k].type = "Publish" /\ fromBroker[k].msg = m => Early(m)
    /\ \A k \in 1..Len(inflight) :
        inflight[k].msg = m /\ ~inflight[k].rel => Early(m)

\* When it has, what is left of m in the queue will be taken for a duplicate.
QueuedIsDup(m) ==
    \A k \in 1..Len(hubQ) :
        hubQ[k].type = "Publish" /\ hubQ[k].msg = m /\ ~Early(m) =>
            /\ hubQ[k].id \in rxIds
            /\ \A j \in 1..Len(hubQ) :
                j < k /\ hubQ[j].type = "AffirmRxId" => hubQ[j].id # hubQ[k].id

KeptIsNew(m) == \A i \in DOMAIN rxPublish : rxPublish[i] = m => delivered[m] = 0

OnceInv ==
    \A m \in Messages :
        QosOf[m] = 2 => WireEarly(m) /\ QueuedIsDup(m) /\ KeptIsNew(m)

\* A publish of m with the id of the PUBREL at place p is behind that PUBREL, or to
\* be sent again.
Pending(p, m) ==
    \/ \E k \in 1..Len(fromBroker) :
        k > p /\ IsPublish(fromBroker[k], m, fromBroker[p].id)
    \/ \E k \in 1..Len(inflight) :
        /\ inflight[k].msg = m /\ inflight[k].id = fromBroker[p].id
        /\ ~inflight[k].rel

\* The client has not seen m, and will not before the PUBREL at place p.
UnseenAt(p, m) ==
    /\ Unseen(m)
    /\ \A k \in 1..Len(fromBroker) :
        k < p /\ fromBroker[k].type = "Publish" => fromBroker[k].msg # m

RelInv ==
    \A p \in 1..Len(fromBroker), m \in Messages :
        fromBroker[p].type # "Publish" /\ QosOf[m] = 2 /\ Pending(p, m)
            => UnseenAt(p, m)

\* A message of QoS 0 is in one place, until it is delivered.
IsOf(p, m) == p.type = "Publish" /\ p.msg = m

Single(q, m) ==
    \A k \in 1..Len(q) : IsOf(q[k], m) =>
        delivered[m] = 0 /\ \A j \in 1..Len(q) : IsOf(q[j], m) => j = k

OnePlace(m) ==
    /\ Single(hubQ, m)
    /\ Single(fromBroker, m)
    /\ \A k \in 1..Len(hubQ), j \in 1..Len(fromBroker) :
        ~(IsOf(hubQ[k], m) /\ IsOf(fromBroker[j], m))
    /\ \A i \in DOMAIN rxPublish : rxPublish[i] # m

Qos0Inv == \A m \in Messages : QosOf[m] = 0 => OnePlace(m)

IInv == SentInv /\ HandshakeInv /\ OnceInv /\ RelInv /\ Qos0Inv

LEMMA InitInv == Init => IInv
<1> SUFFICES ASSUME Init PROVE IInv
  OBVIOUS
<1>1. /\ rxTasks = {} /\ DOMAIN rxPublish = {} /\ sent = {}
      /\ Len(hubQ) = 0 /\ Len(fromBroker) = 0 /\ Len(inflight) = 0
      /\ \A m \in Messages : delivered[m] = 0
  BY DEF Init
<1>2. 1..0 = {}
  OBVIOUS
<1> QED
  BY <1>1, <1>2 DEF IInv, SentInv, HandshakeInv, OneTask, KeepsPublish, TaskAffirms,
     AffirmsInUse, AffirmsInOrder, OnceInv, WireEarly, QueuedIsDup, KeptIsNew,
     RelInv, Qos0Inv, OnePlace, Single, At

\* What is in the queues and in the sets.
Fields ==
    /\ \A t \in rxTasks : t \in RxTasks /\ t.msg \in Messages /\ t.id \in BrokerIds
    /\ \A i \in DOMAIN rxPublish : i \in BrokerIds /\ rxPublish[i] \in Messages
    /\ \A k \in 1..Len(hubQ) :
        /\ hubQ[k].type = "Publish" => hubQ[k].msg \in Messages
        /\ hubQ[k].id \in Ids
    /\ \A k \in 1..Len(fromBroker) :
        /\ fromBroker[k].type = "Publish" => fromBroker[k].msg \in Messages
        /\ fromBroker[k].id \in Ids
    /\ \A k \in 1..Len(inflight) :
        inflight[k].msg \in Messages /\ inflight[k].id \in BrokerIds
    /\ Len(hubQ) \in Nat /\ Len(fromBroker) \in Nat /\ Len(inflight) \in Nat

LEMMA FieldsType == TypeInv => Fields
<1> SUFFICES ASSUME TypeInv PROVE Fields
  OBVIOUS
<1>1. \A t \in rxTasks : t \in RxTasks /\ t.msg \in Messages /\ t.id \in BrokerIds
  BY DEF TypeInv, RxTasks
<1>2. ASSUME NEW p \in HubEvents \cup FromBroker
      PROVE  /\ p.type = "Publish" => p.msg \in Messages
             /\ p.id \in Ids
  BY PublishType, OtherType, IdsInRange
<1>3. /\ \A k \in 1..Len(hubQ) : hubQ[k] \in HubEvents
      /\ \A k \in 1..Len(fromBroker) : fromBroker[k] \in FromBroker
      /\ \A k \in 1..Len(inflight) : inflight[k] \in Unfinished
      /\ Len(hubQ) \in Nat /\ Len(fromBroker) \in Nat /\ Len(inflight) \in Nat
  BY DEF TypeInv
<1>4. \A k \in 1..Len(inflight) :
        inflight[k].msg \in Messages /\ inflight[k].id \in BrokerIds
  BY <1>3 DEF Unfinished
<1> QED
  BY <1>1, <1>2, <1>3, <1>4 DEF TypeInv, Fields

-----------------------------------------------------------------------------
(* Steps in which tasks and the network go on, but nothing reaches the hub,*)
(* a task or the broker.                                                   *)

\* Each task was there before, and has not affirmed its publish meanwhile.
GoesOn(u, t) ==
    /\ u.msg = t.msg /\ u.id = t.id /\ u.acked = t.acked
    /\ u.pc \in Late <=> t.pc \in Late
    /\ QosOf[t.msg] = 2 /\ t.pc # "affirm" => u.pc # "affirm"

Quiet ==
    /\ \A u \in rxTasks' : \E t \in rxTasks : GoesOn(u, t)
    /\ \A u, v \in rxTasks' : u.id = v.id => u = v
    /\ UNCHANGED <<hubQ, rxPublish, rxIds, delivered, inflight, sent>>
    /\ fromBroker' = fromBroker \/ fromBroker' = <<>>

LEMMA QuietKeeps ==
    ASSUME Fields, IInv, Quiet
    PROVE  IInv'
<1>1. /\ \A u \in rxTasks' : \E t \in rxTasks : GoesOn(u, t)
      /\ \A u, v \in rxTasks' : u.id = v.id => u = v
      /\ UNCHANGED <<hubQ, rxPublish, rxIds, delivered, inflight, sent>>
  BY DEF Quiet
<1>2. /\ \A k \in 1..Len(fromBroker') :
            k \in 1..Len(fromBroker) /\ fromBroker'[k] = fromBroker[k]
      /\ Len(fromBroker') \in Nat /\ Len(fromBroker') <= Len(fromBroker)
  BY DEF Quiet, Fields
<1>3. \A m, i : At(m, i)' => At(m, i)
  BY <1>1, <1>2 DEF At, GoesOn
<1>4. SentInv'
  BY <1>1, <1>3 DEF SentInv, IInv
<1>5. HandshakeInv'
  BY <1>1 DEF HandshakeInv, OneTask, KeepsPublish, TaskAffirms, AffirmsInUse,
              AffirmsInOrder, IInv, GoesOn, Fields
<1>6. \A m : Early(m) => Early(m)'
  BY <1>1 DEF Early, GoesOn
<1>7. \A m : Unseen(m) => Unseen(m)'
  BY <1>1 DEF Unseen, GoesOn
<1>8. OnceInv'
  BY <1>1, <1>2, <1>6 DEF OnceInv, WireEarly, QueuedIsDup, KeptIsNew, IInv
<1>9. RelInv'
  <2>1. ASSUME NEW p \in 1..Len(fromBroker'), NEW m \in Messages, Pending(p, m)'
        PROVE  p \in 1..Len(fromBroker) /\ Pending(p, m) /\ fromBroker'[p] = fromBroker[p]
    BY <1>1, <1>2, <2>1 DEF Pending, IsPublish
  <2>2. ASSUME NEW p \in 1..Len(fromBroker'), NEW m \in Messages, UnseenAt(p, m)
        PROVE  UnseenAt(p, m)'
    BY <1>2, <1>7, <2>2 DEF UnseenAt
  <2> QED
    BY <2>1, <2>2 DEF RelInv, IInv
<1>10. Qos0Inv'
  BY <1>1, <1>2 DEF Qos0Inv, OnePlace, Single, IInv
<1> QED
  BY <1>4, <1>5, <1>8, <1>9, <1>10 DEF IInv

-----------------------------------------------------------------------------
(* The hub reads an event.                                                 *)

HubTakes(type) ==
    /\ Len(hubQ) >= 1 /\ Head(hubQ) = hubQ[1] /\ hubQ[1].type = type
    /\ Len(hubQ') = Len(hubQ) - 1
    /\ \A k \in 1..Len(hubQ') : k + 1 \in 1..Len(hubQ) /\ hubQ'[k] = hubQ[k + 1]
    /\ UNCHANGED <<fromBroker, inflight, sent>>

LEMMA HubReadsTakes ==
    ASSUME TypeInv, NEW type, HubReads(type)
    PROVE  HubTakes(type)
<1>1. hubQ \in Seq(HubEvents) /\ hubQ # <<>> /\ hubQ' = Tail(hubQ)
  BY DEF HubReads, TypeInv
<1> QED
  BY <1>1, TailElements DEF HubReads, HubTakes, wireVars, brokerVars

\* What holds whatever the event was: of the queue, and of PUBRELs on the way.
LEMMA HubTakesKeeps ==
    ASSUME Fields, IInv, NEW type, HubTakes(type), RelInv,
           \A m \in Messages : Unseen(m) => Unseen(m)'
    PROVE  RelInv'
  BY DEF RelInv, HubTakes, Pending, UnseenAt

LEMMA HubTakesKeepsDups ==
    ASSUME Fields, NEW type, HubTakes(type), NEW m, QueuedIsDup(m),
           Early(m) => Early(m)',
           \A i \in rxIds : i \in rxIds' \/ (type = "AffirmRxId" /\ i = hubQ[1].id)
    PROVE  QueuedIsDup(m)'
<1> SUFFICES ASSUME NEW k \in 1..Len(hubQ'), ~Early(m)',
                    hubQ'[k].type = "Publish" /\ hubQ'[k].msg = m
             PROVE  /\ hubQ'[k].id \in rxIds'
                    /\ \A j \in 1..Len(hubQ') :
                        j < k /\ hubQ'[j].type = "AffirmRxId" => hubQ'[j].id # hubQ'[k].id
  BY DEF QueuedIsDup
<1>0. Len(hubQ) \in Nat /\ 1 \in 1..Len(hubQ) /\ hubQ[1].type = type
  BY DEF Fields, HubTakes
<1>1. k + 1 \in 1..Len(hubQ) /\ hubQ'[k] = hubQ[k + 1] /\ ~Early(m) /\ 1 < k + 1
  BY <1>0 DEF HubTakes
<1>2. /\ hubQ[k + 1].id \in rxIds
      /\ \A j \in 1..Len(hubQ) :
            j < k + 1 /\ hubQ[j].type = "AffirmRxId" => hubQ[j].id # hubQ[k + 1].id
  BY <1>1 DEF QueuedIsDup
<1>3. hubQ'[k].id \in rxIds'
  BY <1>0, <1>1, <1>2
<1>4. ASSUME NEW j \in 1..Len(hubQ'), j < k
      PROVE  j + 1 \in 1..Len(hubQ) /\ j + 1 < k + 1 /\ hubQ'[j] = hubQ[j + 1]
  BY <1>0, <1>4 DEF HubTakes
<1> QED
  BY <1>1, <1>2, <1>3, <1>4

LEMMA HubTakesKeepsOrder ==
    ASSUME Fields, NEW type, HubTakes(type), AffirmsInOrder
    PROVE  AffirmsInOrder'
<1>1. ASSUME NEW j \in 1..Len(hubQ'), NEW k \in 1..Len(hubQ'), j < k
      PROVE  /\ j + 1 \in 1..Len(hubQ) /\ k + 1 \in 1..Len(hubQ) /\ j + 1 < k + 1
             /\ hubQ'[j] = hubQ[j + 1] /\ hubQ'[k] = hubQ[k + 1]
  BY <1>1 DEF HubTakes, Fields
<1> QED
  BY <1>1 DEF AffirmsInOrder

LEMMA HubTakesKeepsQos0 ==
    ASSUME Fields, NEW type, HubTakes(type), Qos0Inv,
           \A i \in DOMAIN rxPublish' :
              \/ i \in DOMAIN rxPublish /\ rxPublish'[i] = rxPublish[i]
              \/ QosOf[rxPublish'[i]] # 0,
           \A m \in Messages : QosOf[m] = 0 =>
              delivered'[m] = delivered[m] \/ IsOf(hubQ[1], m)
    PROVE  Qos0Inv'
<1> SUFFICES ASSUME NEW m \in Messages, QosOf[m] = 0
             PROVE  OnePlace(m)'
  BY DEF Qos0Inv
<1>1. /\ Single(hubQ, m) /\ Single(fromBroker, m)
      /\ \A k \in 1..Len(hubQ), j \in 1..Len(fromBroker) :
            ~(IsOf(hubQ[k], m) /\ IsOf(fromBroker[j], m))
      /\ \A i \in DOMAIN rxPublish : rxPublish[i] # m
  BY DEF Qos0Inv, OnePlace
<1>2. Len(hubQ) \in Nat /\ 1 \in 1..Len(hubQ)
  BY DEF Fields, HubTakes
<1>3. ASSUME NEW k \in 1..Len(hubQ')
      PROVE  k + 1 \in 1..Len(hubQ) /\ hubQ'[k] = hubQ[k + 1] /\ k + 1 # 1
  BY DEF HubTakes
<1>4. ASSUME NEW k \in 1..Len(hubQ'), IsOf(hubQ'[k], m)
      PROVE  delivered'[m] = 0 /\ \A j \in 1..Len(hubQ') : IsOf(hubQ'[j], m) => j = k
  <2>1. IsOf(hubQ[k + 1], m)
    BY <1>3, <1>4
  <2>2. ASSUME NEW j \in 1..Len(hubQ), IsOf(hubQ[j], m) PROVE j = k + 1
    BY <1>1, <1>3, <2>1, <2>2 DEF Single
  <2>3. delivered[m] = 0 /\ ~IsOf(hubQ[1], m)
    BY <1>1, <1>2, <1>3, <2>1, <2>2 DEF Single
  <2>4. ASSUME NEW j \in 1..Len(hubQ'), IsOf(hubQ'[j], m) PROVE j = k
    <3>1. j + 1 = k + 1
      BY <1>3, <2>2, <2>4
    <3> QED
      BY <3>1
  <2> QED
    BY <2>3, <2>4
<1>5. Single(hubQ, m)'
  BY <1>4 DEF Single
<1>6. fromBroker' = fromBroker
  BY DEF HubTakes
<1>7. Single(fromBroker, m)'
  BY <1>1, <1>2, <1>6 DEF Single
<1>8. \A k \in 1..Len(hubQ'), j \in 1..Len(fromBroker') :
         ~(IsOf(hubQ'[k], m) /\ IsOf(fromBroker'[j], m))
  BY <1>1, <1>3, <1>6
<1>9. \A i \in DOMAIN rxPublish' : rxPublish'[i] # m
  BY <1>1
<1> QED
  BY <1>5, <1>7, <1>8, <1>9 DEF OnePlace

\* A publish of QoS 0, or a duplicate, is taken off the queue.
LEMMA HubRxOther ==
    ASSUME Fields, TypeInv, IInv, HubTakes("Publish"),
           UNCHANGED <<rxTasks, rxPublish, rxIds>>,
           \/ UNCHANGED delivered
           \/ QosOf[hubQ[1].msg] = 0 /\ Deliver(hubQ[1].msg)
    PROVE  IInv'
<1> DEFINE m0 == hubQ[1].msg
<1>0. /\ m0 \in Messages /\ hubQ[1].id \in Ids /\ 1 \in 1..Len(hubQ)
      /\ Len(hubQ) \in Nat /\ hubQ[1].type = "Publish"
  BY DEF Fields, HubTakes
<1>1. /\ Len(hubQ') = Len(hubQ) - 1
      /\ \A k \in 1..Len(hubQ') : k + 1 \in 1..Len(hubQ) /\ hubQ'[k] = hubQ[k + 1]
      /\ UNCHANGED <<fromBroker, inflight, sent, rxTasks, rxPublish, rxIds>>
  BY DEF HubTakes
<1>2. delivered \in [Messages -> Nat]
  BY DEF TypeInv
<1>3. \A m \in Messages :
        \/ delivered'[m] = delivered[m]
        \/ m = m0 /\ QosOf[m] = 0
  BY <1>0, <1>2 DEF Deliver
<1>4. \A m, i : At(m, i)' => At(m, i)
  BY <1>1 DEF At
<1>5. SentInv'
  <2>1. m0 \in sent
    BY <1>0 DEF IInv, SentInv, At, IsPublish
  <2> QED
    BY <1>1, <1>3, <1>4, <2>1 DEF SentInv, IInv
<1>6. HandshakeInv'
  <2>1. OneTask' /\ KeepsPublish'
    BY <1>1 DEF OneTask, KeepsPublish, HandshakeInv, IInv
  <2>2. TaskAffirms' /\ AffirmsInUse'
    BY <1>1 DEF TaskAffirms, AffirmsInUse, HandshakeInv, IInv
  <2>3. AffirmsInOrder'
    BY HubTakesKeepsOrder DEF HandshakeInv, IInv
  <2> QED
    BY <2>1, <2>2, <2>3 DEF HandshakeInv
<1>7. \A m \in Messages : QosOf[m] = 2 /\ Early(m) => Early(m)'
  BY <1>1, <1>3 DEF Early
<1>8. OnceInv'
  <2> SUFFICES ASSUME NEW m \in Messages, QosOf[m] = 2
               PROVE  (WireEarly(m) /\ QueuedIsDup(m) /\ KeptIsNew(m))'
    BY DEF OnceInv
  <2>0. WireEarly(m) /\ QueuedIsDup(m) /\ KeptIsNew(m)
    BY DEF OnceInv, IInv
  <2>1. WireEarly(m)'
    BY <2>0, <1>1, <1>7 DEF WireEarly
  <2>2. QueuedIsDup(m)'
    BY <2>0, <1>1, <1>7, HubTakesKeepsDups
  <2>3. KeptIsNew(m)'
    BY <2>0, <1>1, <1>3 DEF KeptIsNew
  <2> QED
    BY <2>1, <2>2, <2>3
<1>9. RelInv'
  <2>1. \A m \in Messages : Unseen(m) => Unseen(m)'
    BY <1>1 DEF Unseen
  <2> QED
    BY <2>1, HubTakesKeeps DEF IInv
<1>10. Qos0Inv'
  BY <1>0, <1>1, <1>3, HubTakesKeepsQos0 DEF IsOf, IInv
<1> QED
  BY <1>5, <1>6, <1>8, <1>9, <1>10 DEF IInv

\* A new publish is kept and gets a task.
LEMMA HubRxNewKeeps ==
    ASSUME Fields, TypeInv, IInv, HubRxNew
    PROVE  IInv'
<1> DEFINE m0 == hubQ[1].msg
           id0 == hubQ[1].id
           n == NewTask(m0, id0)
<1>0. HubTakes("Publish")
  BY HubReadsTakes DEF HubRxNew
<1>1. /\ m0 \in Messages /\ id0 \in Ids /\ 1 \in 1..Len(hubQ)
      /\ Len(hubQ) \in Nat /\ hubQ[1].type = "Publish"
  BY <1>0 DEF Fields, HubTakes
<1>2. /\ QosOf[m0] # 0 /\ id0 \notin rxIds
      /\ DOMAIN rxPublish' = DOMAIN rxPublish \cup {id0}
      /\ rxPublish'[id0] = m0
      /\ \A i \in DOMAIN rxPublish : i # id0 => rxPublish'[i] = rxPublish[i]
      /\ rxIds' = rxIds \cup {id0}
      /\ rxTasks' = rxTasks \cup {n}
      /\ UNCHANGED delivered
  <2>1. Head(hubQ) = hubQ[1]
    BY <1>0 DEF HubTakes
  <2> QED
    BY <2>1 DEF HubRxNew, IsTracked, IsDup
<1>3. /\ Len(hubQ') = Len(hubQ) - 1
      /\ \A k \in 1..Len(hubQ') : k + 1 \in 1..Len(hubQ) /\ hubQ'[k] = hubQ[k + 1]
      /\ UNCHANGED <<fromBroker, inflight, sent>>
  BY <1>0 DEF HubTakes
<1>4. n.msg = m0 /\ n.id = id0 /\ n.acked = FALSE /\ n.pc = "send"
  BY DEF NewTask
<1> HIDE DEF n, m0, id0
<1>5. OneTask /\ KeepsPublish /\ TaskAffirms /\ AffirmsInUse /\ AffirmsInOrder
  BY DEF IInv, HandshakeInv
<1>6. \A m, i : At(m, i)' => At(m, i)
  <2>1. At(m0, id0)
    BY <1>1 DEF At, IsPublish, m0, id0
  <2>2. \A t \in rxTasks' : t \in rxTasks \/ (t.msg = m0 /\ t.id = id0)
    BY <1>2, <1>4
  <2>3. \A i \in DOMAIN rxPublish' :
          \/ i \in DOMAIN rxPublish /\ rxPublish'[i] = rxPublish[i]
          \/ i = id0 /\ rxPublish'[i] = m0
    BY <1>2
  <2> SUFFICES ASSUME NEW m, NEW i, At(m, i)' PROVE At(m, i)
    OBVIOUS
  <2>4. (\E t \in rxTasks' : t.msg = m /\ t.id = i) => At(m, i)
    BY <2>1, <2>2 DEF At
  <2>5. i \in DOMAIN rxPublish' /\ rxPublish'[i] = m => At(m, i)
    BY <2>1, <2>3 DEF At
  <2>6. (\E k \in 1..Len(hubQ') : IsPublish(hubQ'[k], m, i)) => At(m, i)
    BY <1>3 DEF At
  <2> QED
    BY <1>3, <2>4, <2>5, <2>6 DEF At
<1>7. SentInv'
  BY <1>2, <1>3, <1>6 DEF SentInv, IInv
<1>8. HandshakeInv'
  <2>1. OneTask'
    BY <1>2, <1>4, <1>5 DEF OneTask
  <2>2. KeepsPublish'
    BY <1>2, <1>4, <1>5 DEF OneTask, KeepsPublish, Late
  <2>3. AffirmsInUse'
    BY <1>2, <1>3, <1>5 DEF AffirmsInUse
  <2>4. TaskAffirms'
    <3>1. ASSUME NEW k \in 1..Len(hubQ'), hubQ'[k].type # "Publish"
          PROVE  hubQ'[k].id # id0
      BY <1>2, <1>3, <1>5, <3>1 DEF AffirmsInUse
    <3>2. \A t \in rxTasks' : t.id # id0 => t \in rxTasks
      BY <1>2, <1>4
    <3> QED
      BY <1>3, <1>5, <3>1, <3>2 DEF TaskAffirms
  <2>5. AffirmsInOrder'
    BY <1>0, <1>5, HubTakesKeepsOrder
  <2> QED
    BY <2>1, <2>2, <2>3, <2>4, <2>5 DEF HandshakeInv
<1>9. \A m \in Messages : Early(m) => Early(m)'
  BY <1>2, <1>3, <1>4, <1>5 DEF Early, Late, AffirmsInUse
<1>10. OnceInv'
  <2> SUFFICES ASSUME NEW m \in Messages, QosOf[m] = 2
               PROVE  (WireEarly(m) /\ QueuedIsDup(m) /\ KeptIsNew(m))'
    BY DEF OnceInv
  <2>0. WireEarly(m) /\ QueuedIsDup(m) /\ KeptIsNew(m)
    BY DEF OnceInv, IInv
  <2>1. WireEarly(m)'
    BY <2>0, <1>3, <1>9 DEF WireEarly
  <2>2. QueuedIsDup(m)'
    BY <2>0, <1>0, <1>2, <1>9, HubTakesKeepsDups
  <2>3. KeptIsNew(m)'
    <3>1. m = m0 => delivered[m] = 0
      BY <2>0, <1>1, <1>2 DEF QueuedIsDup, Early, m0, id0
    <3> QED
      BY <2>0, <1>2, <3>1 DEF KeptIsNew
  <2> QED
    BY <2>1, <2>2, <2>3
<1>11. RelInv'
  <2>1. \A m \in Messages : Unseen(m) => Unseen(m)'
    BY <1>1, <1>2, <1>3, <1>4 DEF Unseen, m0
  <2> QED
    BY <1>0, <2>1, HubTakesKeeps DEF IInv
<1>12. Qos0Inv'
  <2>1. \A i \in DOMAIN rxPublish' :
            \/ i \in DOMAIN rxPublish /\ rxPublish'[i] = rxPublish[i]
            \/ QosOf[rxPublish'[i]] # 0
    BY <1>2
  <2> QED
    BY <1>0, <1>2, <2>1, HubTakesKeepsQos0 DEF IInv
<1> QED
  BY <1>7, <1>8, <1>10, <1>11, <1>12 DEF IInv

\* The user gets a publish.
LEMMA HubAffirmPublishKeeps ==
    ASSUME Fields, TypeInv, IInv, HubAffirmPublish
    PROVE  IInv'
<1> DEFINE id0 == hubQ[1].id
           m0 == rxPublish[id0]
<1>0. HubTakes("AffirmRxPublish")
  BY HubReadsTakes DEF HubAffirmPublish
<1>1. /\ id0 \in Ids /\ 1 \in 1..Len(hubQ)
      /\ Len(hubQ) \in Nat /\ hubQ[1].type = "AffirmRxPublish"
  BY <1>0 DEF Fields, HubTakes
<1>2. /\ Len(hubQ') = Len(hubQ) - 1
      /\ \A k \in 1..Len(hubQ') : k + 1 \in 1..Len(hubQ) /\ hubQ'[k] = hubQ[k + 1]
      /\ UNCHANGED <<fromBroker, inflight, sent, rxIds, rxTasks>>
  BY <1>0 DEF HubTakes, HubAffirmPublish
<1>3. /\ \A i \in DOMAIN rxPublish' :
            i \in DOMAIN rxPublish /\ i # id0 /\ rxPublish'[i] = rxPublish[i]
      /\ \A i \in DOMAIN rxPublish : i # id0 => i \in DOMAIN rxPublish'
      /\ \A m \in Messages :
            delivered'[m] = delivered[m] \/ (id0 \in DOMAIN rxPublish /\ m = m0)
  <2>1. Head(hubQ) = hubQ[1] /\ delivered \in [Messages -> Nat]
    BY <1>0 DEF HubTakes, TypeInv
  <2>2. CASE id0 \in DOMAIN rxPublish
    <3>1. /\ rxPublish' = [i \in DOMAIN rxPublish \ {id0} |-> rxPublish[i]]
          /\ delivered' = [delivered EXCEPT ![m0] = @ + 1]
      BY <2>1, <2>2 DEF HubAffirmPublish, Deliver
    <3> HIDE DEF id0, m0
    <3> QED
      BY <2>1, <2>2, <3>1
  <2>3. CASE id0 \notin DOMAIN rxPublish
    <3>1. UNCHANGED <<rxPublish, delivered>>
      BY <2>1, <2>3 DEF HubAffirmPublish
    <3> HIDE DEF id0, m0
    <3> QED
      BY <2>3, <3>1
  <2> QED
    BY <2>2, <2>3
<1>4. id0 \in DOMAIN rxPublish => m0 \in Messages /\ At(m0, id0)
  BY DEF Fields, At
<1>5. OneTask /\ KeepsPublish /\ TaskAffirms /\ AffirmsInUse /\ AffirmsInOrder
  BY DEF IInv, HandshakeInv
<1>6. \A m, i : At(m, i)' => At(m, i)
  BY <1>2, <1>3 DEF At
<1>7. SentInv'
  <2>1. id0 \in DOMAIN rxPublish => m0 \in sent
    BY <1>1, <1>4 DEF SentInv, IInv
  <2> QED
    BY <1>2, <1>3, <1>6, <2>1 DEF SentInv, IInv
<1>8. HandshakeInv'
  <2>1. \A t \in rxTasks : t.id = id0 => t.pc \in Late
    BY <1>1, <1>5 DEF TaskAffirms
  <2>2. OneTask' /\ KeepsPublish'
    BY <1>2, <1>3, <1>5, <2>1 DEF OneTask, KeepsPublish
  <2>3. TaskAffirms' /\ AffirmsInUse'
    BY <1>2, <1>5 DEF TaskAffirms, AffirmsInUse
  <2>4. AffirmsInOrder'
    BY <1>0, <1>5, HubTakesKeepsOrder
  <2> QED
    BY <2>2, <2>3, <2>4 DEF HandshakeInv
<1>9. \A m \in Messages : Early(m) => Early(m)'
  <2> SUFFICES ASSUME NEW m \in Messages, Early(m) PROVE Early(m)'
    OBVIOUS
  <2>1. ~(id0 \in DOMAIN rxPublish /\ m = m0)
    BY <1>1 DEF Early
  <2> QED
    BY <1>2, <1>3, <2>1 DEF Early
<1>10. OnceInv'
  <2> SUFFICES ASSUME NEW m \in Messages, QosOf[m] = 2
               PROVE  (WireEarly(m) /\ QueuedIsDup(m) /\ KeptIsNew(m))'
    BY DEF OnceInv
  <2>0. WireEarly(m) /\ QueuedIsDup(m) /\ KeptIsNew(m)
    BY DEF OnceInv, IInv
  <2>1. WireEarly(m)'
    BY <2>0, <1>2, <1>9 DEF WireEarly
  <2>2. QueuedIsDup(m)'
    BY <2>0, <1>0, <1>2, <1>9, HubTakesKeepsDups
  <2>3. KeptIsNew(m)'
    <3> SUFFICES ASSUME NEW i \in DOMAIN rxPublish', rxPublish'[i] = m
                 PROVE  delivered'[m] = 0
      BY DEF KeptIsNew
    <3>1. i \in DOMAIN rxPublish /\ i # id0 /\ rxPublish[i] = m /\ i \in Ids
      BY <1>3, IdsInRange DEF Fields
    <3>2. At(m, i) /\ delivered[m] = 0
      BY <2>0, <3>1 DEF At, KeptIsNew
    <3>3. ~(id0 \in DOMAIN rxPublish /\ m = m0)
      BY <1>1, <1>4, <3>1, <3>2 DEF SentInv, IInv
    <3> QED
      BY <1>3, <3>2, <3>3
  <2> QED
    BY <2>1, <2>2, <2>3
<1>11. RelInv'
  <2>1. \A m \in Messages : Unseen(m) => Unseen(m)'
    BY <1>2 DEF Unseen
  <2> QED
    BY <1>0, <2>1, HubTakesKeeps DEF IInv
<1>12. Qos0Inv'
  <2>1. id0 \in DOMAIN rxPublish => QosOf[m0] # 0
    BY <1>4 DEF Qos0Inv, OnePlace, IInv
  <2> QED
    BY <1>0, <1>3, <2>1, HubTakesKeepsQos0 DEF IInv
<1> QED
  BY <1>7, <1>8, <1>10, <1>11, <1>12 DEF IInv

\* An id is free again.
LEMMA HubAffirmIdKeeps ==
    ASSUME Fields, TypeInv, IInv, HubAffirmId
    PROVE  IInv'
<1> DEFINE id0 == hubQ[1].id
<1>0. HubTakes("AffirmRxId")
  BY HubReadsTakes DEF HubAffirmId
<1>1. 1 \in 1..Len(hubQ) /\ Len(hubQ) \in Nat /\ hubQ[1].type = "AffirmRxId"
  BY <1>0 DEF Fields, HubTakes
<1>2. /\ Len(hubQ') = Len(hubQ) - 1
      /\ \A k \in 1..Len(hubQ') : k + 1 \in 1..Len(hubQ) /\ hubQ'[k] = hubQ[k + 1]
      /\ UNCHANGED <<fromBroker, inflight, sent, rxPublish, rxTasks, delivered>>
      /\ rxIds' = rxIds \ {id0}
  BY <1>0 DEF HubTakes, HubAffirmId
<1> HIDE DEF id0
<1>3. OneTask /\ KeepsPublish /\ TaskAffirms /\ AffirmsInUse /\ AffirmsInOrder
  BY DEF IInv, HandshakeInv
<1>4. \A m, i : At(m, i)' => At(m, i)
  BY <1>2 DEF At
<1>5. SentInv'
  BY <1>2, <1>4 DEF SentInv, IInv
<1>6. HandshakeInv'
  <2>1. \A t \in rxTasks : t.id # id0
    BY <1>1, <1>3 DEF TaskAffirms, id0
  <2>2. OneTask' /\ KeepsPublish'
    BY <1>2, <1>3, <2>1 DEF OneTask, KeepsPublish
  <2>3. TaskAffirms'
    BY <1>2, <1>3 DEF TaskAffirms
  <2>4. AffirmsInUse'
    <3>1. ASSUME NEW k \in 1..Len(hubQ'), hubQ'[k].type # "Publish"
          PROVE  hubQ'[k].id \in rxIds /\ hubQ'[k].id # id0
      <4>1. k + 1 \in 1..Len(hubQ) /\ hubQ'[k] = hubQ[k + 1] /\ 1 < k + 1
        BY <1>2
      <4> QED
        BY <1>1, <1>3, <3>1, <4>1 DEF AffirmsInUse, AffirmsInOrder, id0
    <3> QED
      BY <1>2, <3>1 DEF AffirmsInUse
  <2>5. AffirmsInOrder'
    BY <1>0, <1>3, HubTakesKeepsOrder
  <2> QED
    BY <2>2, <2>3, <2>4, <2>5 DEF HandshakeInv
<1>7. \A m \in Messages : Early(m) => Early(m)'
  BY <1>2 DEF Early
<1>8. OnceInv'
  <2> SUFFICES ASSUME NEW m \in Messages, QosOf[m] = 2
               PROVE  (WireEarly(m) /\ QueuedIsDup(m) /\ KeptIsNew(m))'
    BY DEF OnceInv
  <2>0. WireEarly(m) /\ QueuedIsDup(m) /\ KeptIsNew(m)
    BY DEF OnceInv, IInv
  <2>1. WireEarly(m)'
    BY <2>0, <1>2, <1>7 DEF WireEarly
  <2>2. QueuedIsDup(m)'
    BY <2>0, <1>0, <1>2, <1>7, HubTakesKeepsDups DEF id0
  <2>3. KeptIsNew(m)'
    BY <2>0, <1>2 DEF KeptIsNew
  <2> QED
    BY <2>1, <2>2, <2>3
<1>9. RelInv'
  <2>1. \A m \in Messages : Unseen(m) => Unseen(m)'
    BY <1>2 DEF Unseen
  <2> QED
    BY <1>0, <2>1, HubTakesKeeps DEF IInv
<1>10. Qos0Inv'
  BY <1>0, <1>2, HubTakesKeepsQos0 DEF IInv
<1> QED
  BY <1>5, <1>6, <1>8, <1>9, <1>10 DEF IInv

-----------------------------------------------------------------------------
(* Steps that are Quiet.                                                   *)

LEMMA UnchangedTasks ==
    ASSUME OneTask, UNCHANGED rxTasks
    PROVE  /\ \A u \in rxTasks' : \E t \in rxTasks : GoesOn(u, t)
           /\ \A u, v \in rxTasks' : u.id = v.id => u = v
  BY DEF OneTask, GoesOn

LEMMA FewerTasks ==
    ASSUME OneTask, rxTasks' = WithoutQueued
    PROVE  /\ \A u \in rxTasks' : \E t \in rxTasks : GoesOn(u, t)
           /\ \A u, v \in rxTasks' : u.id = v.id => u = v
  BY DEF OneTask, GoesOn, WithoutQueued

LEMMA TransmitQuiet ==
    ASSUME OneTask, NEW t \in rxTasks, NEW type, NEW u, GoesOn(u, t), Transmit(t, type, u)
    PROVE  Quiet
<1>1. rxTasks' \subseteq (rxTasks \ {t}) \cup {u}
  BY DEF Transmit, Become
<1>2. \A v \in rxTasks : GoesOn(v, v)
  BY DEF GoesOn
<1>3. \A v \in rxTasks' : \E w \in rxTasks : GoesOn(v, w)
  BY <1>1, <1>2
<1>4. \A v, w \in rxTasks' : v.id = w.id => v = w
  BY <1>1 DEF OneTask, GoesOn
<1>5. UNCHANGED <<hubQ, rxPublish, rxIds, delivered, inflight, sent, fromBroker>>
  BY DEF Transmit, TaskVars, wireVars, brokerVars
<1> QED
  BY <1>3, <1>4, <1>5 DEF Quiet

LEMMA TasksQuiet ==
    ASSUME TypeInv, OneTask, NEW t \in rxTasks,
           TaskSend(t) \/ TaskTimeout(t) \/ TaskComp(t)
    PROVE  Quiet
<1>0. t \in RxTasks
  BY DEF TypeInv
<1>1. CASE TaskSend(t)
  <2>1. GoesOn(AtPc(t, "receipt"), t)
    BY <1>0, <1>1, TaskType DEF TaskSend, GoesOn, Late, Pcs
  <2> QED
    BY <1>1, <2>1, TransmitQuiet DEF TaskSend
<1>2. CASE TaskTimeout(t)
  <2> DEFINE u == [t EXCEPT !.pc = "receipt", !.resends = @ + 1]
  <2>1. u.msg = t.msg /\ u.id = t.id /\ u.acked = t.acked /\ u.pc = "receipt"
    BY <1>0 DEF RxTasks
  <2>2. Transmit(t, "PubRec", u)
    BY <1>2 DEF TaskTimeout
  <2> HIDE DEF u
  <2>3. GoesOn(u, t)
    BY <1>2, <2>1 DEF TaskTimeout, GoesOn, Late
  <2> QED
    BY <2>2, <2>3, TransmitQuiet
<1>3. CASE TaskComp(t)
  <2>1. GoesOn(AtPc(t, "compReceipt"), t)
    BY <1>0, <1>3, TaskType DEF TaskComp, GoesOn, Late, Pcs
  <2> QED
    BY <1>3, <2>1, TransmitQuiet DEF TaskComp
<1> QED
  BY <1>1, <1>2, <1>3

LEMMA NetQuiet ==
    ASSUME TypeInv, OneTask,
           \/ NetWrite \/ NetLost \/ NetConnectFail \/ HubLost \/ HubStartNetwork
           \/ BrokerTake /\ UNCHANGED <<inflight, fromBroker>>
           \/ UNCHANGED vars
    PROVE  Quiet
<1>1. CASE NetWrite
  <2> DEFINE p == Head(netQ)
             next(t) == IF t.id = p.id /\ t.msg = p.msg THEN AtPc(t, AfterReceipt(t))
                                                        ELSE t
  <2>1. rxTasks' = {next(t) : t \in rxTasks}
    BY <1>1 DEF NetWrite
  <2>2. ASSUME NEW t \in rxTasks PROVE GoesOn(next(t), t)
    <3>1. t \in RxTasks
      BY DEF TypeInv
    <3>2. AfterReceipt(t) \in Pcs
      BY <3>1 DEF AfterReceipt, Pcs, RxTasks
    <3>3. /\ AfterReceipt(t) \in Late <=> t.pc \in Late
          /\ QosOf[t.msg] = 2 /\ t.pc # "affirm" => AfterReceipt(t) # "affirm"
      BY <3>1 DEF AfterReceipt, Late
    <3>4. GoesOn(AtPc(t, AfterReceipt(t)), t) /\ GoesOn(t, t)
      BY <3>1, <3>2, <3>3, TaskType DEF GoesOn
    <3> QED
      BY <3>4
  <2> HIDE DEF next
  <2>3. \A u \in rxTasks' : \E t \in rxTasks : GoesOn(u, t)
    BY <2>1, <2>2
  <2>4. \A u, v \in rxTasks' : u.id = v.id => u = v
    BY <2>1, <2>2 DEF OneTask, GoesOn
  <2> QED
    BY <1>1, <2>3, <2>4 DEF NetWrite, hubVars, brokerVars, Quiet
<1>2. CASE NetLost
  BY <1>2, FewerTasks DEF NetLost, hubVars, brokerVars, Quiet
<1>3. CASE NetConnectFail
  BY <1>3, FewerTasks DEF NetConnectFail, hubVars, wireVars, brokerVars, Quiet
<1>4. CASE HubLost
  BY <1>4, UnchangedTasks DEF HubLost, hubVars, wireVars, brokerVars, Quiet
<1>5. CASE HubStartNetwork
  BY <1>5, UnchangedTasks DEF HubStartNetwork, hubVars, wireVars, brokerVars, Quiet
<1>6. CASE BrokerTake /\ UNCHANGED <<inflight, fromBroker>>
  BY <1>6, UnchangedTasks DEF BrokerTake, hubVars, Quiet
<1>7. CASE UNCHANGED vars
  BY <1>7, UnchangedTasks DEF vars, hubVars, wireVars, brokerVars, Quiet
<1> QED
  BY <1>1, <1>2, <1>3, <1>4, <1>5, <1>6, <1>7

-----------------------------------------------------------------------------
(* A task affirms its publish, or its id.                                  *)

HubGets(e) ==
    /\ Len(hubQ') = Len(hubQ) + 1
    /\ hubQ'[Len(hubQ) + 1] = e
    /\ \A k \in 1..Len(hubQ) : hubQ'[k] = hubQ[k]
    /\ UNCHANGED <<inflight, sent, rxPublish, rxIds, delivered>>

LEMMA HubGetsAffirm ==
    ASSUME Fields, IInv, NEW e, HubGets(e), e.type # "Publish", UNCHANGED fromBroker,
           \A u \in rxTasks' : \E t \in rxTasks : u.msg = t.msg /\ u.id = t.id,
           HandshakeInv',
           \A m \in Messages : QosOf[m] = 2 /\ Early(m) => Early(m)'
    PROVE  IInv'
<1>1. ASSUME NEW k \in 1..Len(hubQ'), hubQ'[k].type = "Publish"
      PROVE  k \in 1..Len(hubQ) /\ hubQ'[k] = hubQ[k]
  BY <1>1 DEF HubGets, Fields
<1>2. \A k \in 1..Len(hubQ), j \in 1..Len(hubQ') : j < k =>
         j \in 1..Len(hubQ) /\ hubQ'[j] = hubQ[j]
  BY DEF HubGets, Fields
<1>3. UNCHANGED <<fromBroker, inflight, sent, rxPublish, rxIds, delivered>>
  BY DEF HubGets
<1>4. \A m, i : At(m, i)' => At(m, i)
  BY <1>1, <1>3 DEF At, IsPublish
<1>5. SentInv'
  BY <1>3, <1>4 DEF SentInv, IInv
<1>6. OnceInv'
  <2> SUFFICES ASSUME NEW m \in Messages, QosOf[m] = 2
               PROVE  (WireEarly(m) /\ QueuedIsDup(m) /\ KeptIsNew(m))'
    BY DEF OnceInv
  <2>0. WireEarly(m) /\ QueuedIsDup(m) /\ KeptIsNew(m) /\ (Early(m) => Early(m)')
    BY DEF OnceInv, IInv
  <2>1. WireEarly(m)'
    BY <2>0, <1>3 DEF WireEarly
  <2>2. QueuedIsDup(m)'
    BY <2>0, <1>1, <1>2, <1>3 DEF QueuedIsDup
  <2>3. KeptIsNew(m)'
    BY <2>0, <1>3 DEF KeptIsNew
  <2> QED
    BY <2>1, <2>2, <2>3
<1>7. RelInv'
  <2>1. \A m : Unseen(m) => Unseen(m)'
    BY <1>1 DEF Unseen
  <2> QED
    BY <1>3, <2>1 DEF RelInv, Pending, UnseenAt, IInv
<1>8. Qos0Inv'
  <2> SUFFICES ASSUME NEW m \in Messages, QosOf[m] = 0
               PROVE  OnePlace(m)'
    BY DEF Qos0Inv
  <2>0. OnePlace(m)
    BY DEF Qos0Inv, IInv
  <2>1. Single(hubQ, m)'
    BY <2>0, <1>1, <1>3 DEF OnePlace, Single, IsOf
  <2>2. Single(fromBroker, m)'
    BY <2>0, <1>3 DEF OnePlace, Single
  <2> QED
    BY <2>0, <2>1, <2>2, <1>1, <1>3 DEF OnePlace, IsOf
<1> QED
  BY <1>5, <1>6, <1>7, <1>8 DEF IInv

LEMMA HubGetsPacket ==
    ASSUME TypeInv, NEW t \in rxTasks, NEW type \in {"AffirmRxPublish", "AffirmRxId"},
           hubQ' = Append(hubQ, Packet(type, t.id)), UNCHANGED TaskVars
    PROVE  /\ HubGets(Packet(type, t.id)) /\ UNCHANGED fromBroker
           /\ Packet(type, t.id).type = type /\ Packet(type, t.id).id = t.id
<1>1. t \in RxTasks
  BY DEF TypeInv
<1> DEFINE e == Packet(type, t.id)
<1>2. e \in HubEvents /\ e.type = type /\ e.id = t.id
  BY <1>1 DEF Packet, HubEvents, Affirms, RxTasks
<1>3. hubQ \in Seq(HubEvents) /\ hubQ' = Append(hubQ, e)
  BY DEF TypeInv
<1> HIDE DEF e
<1>4. HubGets(e) /\ UNCHANGED fromBroker
  BY <1>2, <1>3, AppendElements DEF HubGets, TaskVars, wireVars, brokerVars
<1> QED
  BY <1>2, <1>4 DEF e

LEMMA TaskAffirmKeeps ==
    ASSUME Fields, TypeInv, IInv, NEW t \in rxTasks, TaskAffirm(t)
    PROVE  IInv'
<1> DEFINE e == Packet("AffirmRxPublish", t.id)
           u == AtPc(t, IF QosOf[t.msg] = 1 THEN "affirmId" ELSE "comp")
<1>0. HubGets(e) /\ UNCHANGED fromBroker /\ e.type = "AffirmRxPublish" /\ e.id = t.id
  BY HubGetsPacket DEF TaskAffirm
<1>1. /\ u.msg = t.msg /\ u.id = t.id /\ u.acked = t.acked
      /\ u.pc \in Late /\ u.pc # "affirm"
  BY TaskType DEF Fields, Late, Pcs
<1>2. rxTasks' = (rxTasks \ {t}) \cup {u} /\ MayAffirm(t)
  BY DEF TaskAffirm, Become
<1> HIDE DEF e, u
<1>3. OneTask /\ KeepsPublish /\ TaskAffirms /\ AffirmsInUse /\ AffirmsInOrder
  BY DEF IInv, HandshakeInv
<1>4. t.pc \notin Late /\ t.id \in DOMAIN rxPublish /\ rxPublish[t.id] = t.msg
  BY <1>2, <1>3 DEF MayAffirm, Late, KeepsPublish
<1>5. UNCHANGED <<rxPublish, rxIds, delivered>>
  BY <1>0 DEF HubGets
<1>6. \A k \in 1..Len(hubQ') :
        \/ k \in 1..Len(hubQ) /\ hubQ'[k] = hubQ[k]
        \/ k = Len(hubQ) + 1 /\ hubQ'[k] = e
  BY <1>0 DEF HubGets, Fields
<1>7. HandshakeInv'
  <2>1. OneTask'
    BY <1>1, <1>2, <1>3, <1>5 DEF OneTask
  <2>2. KeepsPublish'
    BY <1>1, <1>2, <1>3, <1>5 DEF KeepsPublish
  <2>3. TaskAffirms'
    BY <1>0, <1>1, <1>2, <1>3, <1>6 DEF TaskAffirms, OneTask
  <2>4. AffirmsInUse'
    BY <1>0, <1>3, <1>5, <1>6 DEF AffirmsInUse, OneTask
  <2>5. AffirmsInOrder'
    <3> SUFFICES ASSUME NEW j \in 1..Len(hubQ'), NEW k \in 1..Len(hubQ'), j < k,
                        hubQ'[j].type = "AffirmRxId", hubQ'[k].type # "Publish"
                 PROVE  hubQ'[j].id # hubQ'[k].id
      BY DEF AffirmsInOrder
    <3>1. j \in 1..Len(hubQ) /\ hubQ'[j] = hubQ[j]
      BY <1>0, <1>6
    <3> QED
      BY <1>0, <1>3, <1>6, <3>1 DEF AffirmsInOrder, TaskAffirms
  <2> QED
    BY <2>1, <2>2, <2>3, <2>4, <2>5 DEF HandshakeInv
<1>8. \A m \in Messages : QosOf[m] = 2 /\ Early(m) => Early(m)'
  <2> SUFFICES ASSUME NEW m \in Messages, QosOf[m] = 2, Early(m) PROVE Early(m)'
    OBVIOUS
  <2>1. t.msg # m
    BY <1>2, <1>3 DEF MayAffirm, Early, KeepsPublish
  <2> QED
    BY <1>0, <1>1, <1>2, <1>4, <1>5, <1>6, <2>1 DEF Early
<1>9. \A v \in rxTasks' : \E w \in rxTasks : v.msg = w.msg /\ v.id = w.id
  BY <1>1, <1>2
<1> QED
  BY <1>0, <1>7, <1>8, <1>9, HubGetsAffirm

LEMMA TaskAffirmIdKeeps ==
    ASSUME Fields, TypeInv, IInv, NEW t \in rxTasks, TaskAffirmId(t)
    PROVE  IInv'
<1> DEFINE e == Packet("AffirmRxId", t.id)
<1>0. HubGets(e) /\ UNCHANGED fromBroker /\ e.type = "AffirmRxId" /\ e.id = t.id
  BY HubGetsPacket DEF TaskAffirmId
<1>2. rxTasks' = rxTasks \ {t} /\ t.pc = "affirmId"
  BY DEF TaskAffirmId
<1> HIDE DEF e
<1>3. OneTask /\ KeepsPublish /\ TaskAffirms /\ AffirmsInUse /\ AffirmsInOrder
  BY DEF IInv, HandshakeInv
<1>5. UNCHANGED <<rxPublish, rxIds, delivered>>
  BY <1>0 DEF HubGets
<1>6. \A k \in 1..Len(hubQ') :
        \/ k \in 1..Len(hubQ) /\ hubQ'[k] = hubQ[k]
        \/ k = Len(hubQ) + 1 /\ hubQ'[k] = e
  BY <1>0 DEF HubGets, Fields
<1>7. HandshakeInv'
  <2>1. OneTask'
    BY <1>2, <1>3, <1>5 DEF OneTask
  <2>2. KeepsPublish'
    BY <1>2, <1>3, <1>5 DEF KeepsPublish
  <2>3. TaskAffirms'
    BY <1>0, <1>2, <1>3, <1>6 DEF TaskAffirms, OneTask
  <2>4. AffirmsInUse'
    BY <1>0, <1>3, <1>5, <1>6 DEF AffirmsInUse, OneTask
  <2>5. AffirmsInOrder'
    <3> SUFFICES ASSUME NEW j \in 1..Len(hubQ'), NEW k \in 1..Len(hubQ'), j < k,
                        hubQ'[j].type = "AffirmRxId", hubQ'[k].type # "Publish"
                 PROVE  hubQ'[j].id # hubQ'[k].id
      BY DEF AffirmsInOrder
    <3>1. j \in 1..Len(hubQ) /\ hubQ'[j] = hubQ[j]
      BY <1>0, <1>6 DEF HubGets, Fields
    <3> QED
      BY <1>0, <1>3, <1>6, <3>1 DEF AffirmsInOrder, TaskAffirms
  <2> QED
    BY <2>1, <2>2, <2>3, <2>4, <2>5 DEF HandshakeInv
<1>8. \A m \in Messages : QosOf[m] = 2 /\ Early(m) => Early(m)'
  BY <1>0, <1>2, <1>5, <1>6 DEF Early
<1>9. \A v \in rxTasks' : \E w \in rxTasks : v.msg = w.msg /\ v.id = w.id
  BY <1>2
<1> QED
  BY <1>0, <1>7, <1>8, <1>9, HubGetsAffirm

-----------------------------------------------------------------------------
(* The TaskNetwork reads a packet.                                         *)

NetTakes ==
    /\ 1 \in 1..Len(fromBroker)
    /\ Len(fromBroker') = Len(fromBroker) - 1
    /\ \A k \in 1..Len(fromBroker') :
        k + 1 \in 1..Len(fromBroker) /\ fromBroker'[k] = fromBroker[k + 1]
    /\ UNCHANGED <<inflight, sent, rxPublish, rxIds, delivered>>

LEMMA NetForwardTakes ==
    ASSUME TypeInv, NetForward
    PROVE  NetTakes /\ Head(fromBroker) = fromBroker[1]
<1>1. fromBroker \in Seq(FromBroker) /\ fromBroker # <<>> /\ fromBroker' = Tail(fromBroker)
  BY DEF NetForward, TypeInv
<1> QED
  BY <1>1, TailElements DEF NetForward, NetTakes, brokerVars

\* A PUBREL at place p + 1 moves to p, with what is behind it.
LEMMA NetTakesPending ==
    ASSUME Fields, NetTakes, RelInv, NEW m \in Messages, QosOf[m] = 2,
           NEW p \in 1..Len(fromBroker'), fromBroker'[p].type # "Publish", Pending(p, m)'
    PROVE  UnseenAt(p + 1, m)
<1>1. /\ p + 1 \in 1..Len(fromBroker) /\ fromBroker'[p] = fromBroker[p + 1]
      /\ UNCHANGED inflight
  BY DEF NetTakes
<1>2. Pending(p + 1, m)
  <2>1. ASSUME NEW k \in 1..Len(fromBroker'), k > p,
               IsPublish(fromBroker'[k], m, fromBroker'[p].id)
        PROVE  Pending(p + 1, m)
    <3>1. k + 1 \in 1..Len(fromBroker) /\ fromBroker'[k] = fromBroker[k + 1] /\ k + 1 > p + 1
      BY <2>1 DEF NetTakes
    <3> QED
      BY <1>1, <2>1, <3>1 DEF Pending
  <2>2. ASSUME NEW k \in 1..Len(inflight'),
               inflight'[k].msg = m /\ inflight'[k].id = fromBroker'[p].id,
               ~inflight'[k].rel
        PROVE  Pending(p + 1, m)
    BY <1>1, <2>2 DEF Pending
  <2> QED
    BY <2>1, <2>2 DEF Pending
<1> QED
  BY <1>1, <1>2 DEF RelInv

LEMMA NetTakesUnseen ==
    ASSUME Fields, NetTakes, NEW m, NEW p \in 1..Len(fromBroker'),
           UnseenAt(p + 1, m), Unseen(m)'
    PROVE  UnseenAt(p, m)'
<1>1. ASSUME NEW k \in 1..Len(fromBroker'), k < p
      PROVE  k + 1 \in 1..Len(fromBroker) /\ k + 1 < p + 1 /\ fromBroker'[k] = fromBroker[k + 1]
  BY <1>1 DEF NetTakes
<1> QED
  BY <1>1 DEF UnseenAt

LEMMA NetTakesSingle ==
    ASSUME Fields, NetTakes, NEW m, Single(fromBroker, m)
    PROVE  Single(fromBroker, m)'
<1> SUFFICES ASSUME NEW k \in 1..Len(fromBroker'), IsOf(fromBroker'[k], m)
             PROVE  /\ delivered[m] = 0
                    /\ \A j \in 1..Len(fromBroker') : IsOf(fromBroker'[j], m) => j = k
  BY DEF Single, NetTakes
<1>1. k + 1 \in 1..Len(fromBroker) /\ IsOf(fromBroker[k + 1], m)
  BY DEF NetTakes
<1>2. ASSUME NEW j \in 1..Len(fromBroker'), IsOf(fromBroker'[j], m) PROVE j = k
  <2>1. j + 1 \in 1..Len(fromBroker) /\ IsOf(fromBroker[j + 1], m)
    BY <1>2 DEF NetTakes
  <2>2. j + 1 = k + 1
    BY <1>1, <2>1 DEF Single
  <2> QED
    BY <2>2
<1> QED
  BY <1>1, <1>2 DEF Single

\* A PUBLISH goes to the hub.
LEMMA NetForwardPublish ==
    ASSUME Fields, TypeInv, IInv, NetForward, Head(fromBroker).type = "Publish"
    PROVE  IInv'
<1> DEFINE e == fromBroker[1]
<1>0. NetTakes /\ Head(fromBroker) = e
  BY NetForwardTakes
<1>1. /\ HubGets(e) /\ UNCHANGED rxTasks
  <2>1. e \in FromBroker
    BY <1>0 DEF TypeInv, NetTakes
  <2>2. e \in HubEvents /\ hubQ \in Seq(HubEvents)
    BY <1>0, <2>1, PublishType DEF HubEvents, TypeInv
  <2>3. hubQ' = Append(hubQ, e) /\ UNCHANGED rxTasks
    BY <1>0 DEF NetForward
  <2> HIDE DEF e
  <2> QED
    BY <1>0, <2>2, <2>3, AppendElements DEF HubGets, NetTakes
<1>2. e.type = "Publish" /\ 1 \in 1..Len(fromBroker)
  BY <1>0 DEF NetTakes
<1>3. \A k \in 1..Len(hubQ') :
        \/ k \in 1..Len(hubQ) /\ hubQ'[k] = hubQ[k]
        \/ k = Len(hubQ) + 1 /\ hubQ'[k] = e
  BY <1>1 DEF HubGets, Fields
<1>4. /\ UNCHANGED <<inflight, sent, rxPublish, rxIds, delivered, rxTasks>>
      /\ \A k \in 1..Len(fromBroker') :
            k + 1 \in 1..Len(fromBroker) /\ fromBroker'[k] = fromBroker[k + 1]
  BY <1>0, <1>1 DEF NetTakes
<1>5. \A m, i : At(m, i)' => At(m, i)
  BY <1>2, <1>3, <1>4 DEF At
<1> HIDE DEF e
<1>6. SentInv'
  BY <1>4, <1>5 DEF SentInv, IInv
<1>7. HandshakeInv'
  <2>1. OneTask' /\ KeepsPublish'
    BY <1>4 DEF OneTask, KeepsPublish, HandshakeInv, IInv
  <2>2. TaskAffirms' /\ AffirmsInUse'
    BY <1>2, <1>3, <1>4 DEF TaskAffirms, AffirmsInUse, HandshakeInv, IInv
  <2>3. AffirmsInOrder'
    <3> SUFFICES ASSUME NEW j \in 1..Len(hubQ'), NEW k \in 1..Len(hubQ'), j < k,
                        hubQ'[j].type = "AffirmRxId", hubQ'[k].type # "Publish"
                 PROVE  hubQ'[j].id # hubQ'[k].id
      BY DEF AffirmsInOrder
    <3>1. hubQ'[j] = hubQ[j] /\ j \in 1..Len(hubQ) /\ hubQ'[k] = hubQ[k] /\ k \in 1..Len(hubQ)
      BY <1>2, <1>3
    <3> QED
      BY <3>1 DEF AffirmsInOrder, HandshakeInv, IInv
  <2> QED
    BY <2>1, <2>2, <2>3 DEF HandshakeInv
<1>8. \A m : Early(m) => Early(m)'
  BY <1>2, <1>3, <1>4 DEF Early
<1>9. OnceInv'
  <2> SUFFICES ASSUME NEW m \in Messages, QosOf[m] = 2
               PROVE  (WireEarly(m) /\ QueuedIsDup(m) /\ KeptIsNew(m))'
    BY DEF OnceInv
  <2>0. WireEarly(m) /\ QueuedIsDup(m) /\ KeptIsNew(m)
    BY DEF OnceInv, IInv
  <2>1. WireEarly(m)'
    BY <2>0, <1>4, <1>8 DEF WireEarly
  <2>2. QueuedIsDup(m)'
    <3> SUFFICES ASSUME NEW k \in 1..Len(hubQ'), ~Early(m)',
                        hubQ'[k].type = "Publish" /\ hubQ'[k].msg = m
                 PROVE  /\ hubQ'[k].id \in rxIds'
                        /\ \A j \in 1..Len(hubQ') :
                            j < k /\ hubQ'[j].type = "AffirmRxId"
                                => hubQ'[j].id # hubQ'[k].id
      BY DEF QueuedIsDup
    <3>1. ~Early(m)
      BY <1>8
    <3>2. k \in 1..Len(hubQ) /\ hubQ'[k] = hubQ[k]
      BY <2>0, <1>2, <1>3, <3>1 DEF WireEarly, e
    <3>3. \A j \in 1..Len(hubQ') : j < k => j \in 1..Len(hubQ) /\ hubQ'[j] = hubQ[j]
      BY <1>3, <3>2
    <3> QED
      BY <2>0, <1>4, <3>1, <3>2, <3>3 DEF QueuedIsDup
  <2>3. KeptIsNew(m)'
    BY <2>0, <1>4 DEF KeptIsNew
  <2> QED
    BY <2>1, <2>2, <2>3
<1>10. RelInv'
  <2> SUFFICES ASSUME NEW p \in 1..Len(fromBroker'), NEW m \in Messages,
                      fromBroker'[p].type # "Publish", QosOf[m] = 2, Pending(p, m)'
               PROVE  UnseenAt(p, m)'
    BY DEF RelInv
  <2>1. UnseenAt(p + 1, m)
    BY <1>0, NetTakesPending DEF IInv
  <2>2. e.msg # m
    <3>1. 1 < p + 1
      OBVIOUS
    <3> QED
      BY <1>2, <2>1, <3>1 DEF UnseenAt, e
  <2>3. Unseen(m)'
    BY <2>1, <2>2, <1>3, <1>4 DEF UnseenAt, Unseen
  <2> QED
    BY <1>0, <2>1, <2>3, NetTakesUnseen
<1>11. Qos0Inv'
  <2> SUFFICES ASSUME NEW m \in Messages, QosOf[m] = 0
               PROVE  OnePlace(m)'
    BY DEF Qos0Inv
  <2>0. /\ Single(hubQ, m) /\ Single(fromBroker, m)
        /\ \A k \in 1..Len(hubQ), j \in 1..Len(fromBroker) :
              ~(IsOf(hubQ[k], m) /\ IsOf(fromBroker[j], m))
        /\ \A i \in DOMAIN rxPublish : rxPublish[i] # m
    BY DEF Qos0Inv, OnePlace, IInv
  <2>1. Single(fromBroker, m)'
    BY <1>0, <2>0, NetTakesSingle
  <2>2. ASSUME IsOf(e, m)
        PROVE  /\ delivered[m] = 0
               /\ \A k \in 1..Len(hubQ) : ~IsOf(hubQ[k], m)
               /\ \A j \in 1..Len(fromBroker') : ~IsOf(fromBroker'[j], m)
    <3>1. delivered[m] = 0 /\ \A k \in 1..Len(hubQ) : ~IsOf(hubQ[k], m)
      BY <1>2, <2>0, <2>2 DEF Single, e
    <3>2. ASSUME NEW j \in 1..Len(fromBroker'), IsOf(fromBroker'[j], m) PROVE FALSE
      <4>1. j + 1 \in 1..Len(fromBroker) /\ IsOf(fromBroker[j + 1], m)
        BY <1>4, <3>2
      <4>2. j + 1 = 1
        BY <1>2, <2>0, <2>2, <4>1 DEF Single, e
      <4> QED
        BY <4>2
    <3> QED
      BY <3>1, <3>2
  <2>3. Single(hubQ, m)'
    BY <1>3, <1>4, <2>0, <2>2 DEF Single
  <2>4. \A k \in 1..Len(hubQ'), j \in 1..Len(fromBroker') :
           ~(IsOf(hubQ'[k], m) /\ IsOf(fromBroker'[j], m))
    BY <1>3, <1>4, <2>0, <2>2
  <2> QED
    BY <1>4, <2>0, <2>1, <2>3, <2>4 DEF OnePlace
<1> QED
  BY <1>6, <1>7, <1>9, <1>10, <1>11 DEF IInv

\* A PUBREL goes to the tasks.
LEMMA NetForwardRel ==
    ASSUME Fields, TypeInv, IInv, NetForward, Head(fromBroker).type # "Publish"
    PROVE  IInv'
<1> DEFINE e == fromBroker[1]
           next(t) == IF t.id = e.id /\ QosOf[t.msg] = 2
                      THEN [t EXCEPT !.acked = TRUE] ELSE t
<1>0. NetTakes /\ Head(fromBroker) = e
  BY NetForwardTakes
<1>1. rxTasks' = {next(t) : t \in rxTasks} /\ UNCHANGED hubQ
  BY <1>0 DEF NetForward
<1>2. e.type # "Publish" /\ 1 \in 1..Len(fromBroker) /\ e.id \in Ids
  BY <1>0 DEF NetTakes, Fields
<1>3. ASSUME NEW t \in rxTasks
      PROVE  /\ next(t).msg = t.msg /\ next(t).id = t.id /\ next(t).pc = t.pc
             /\ ~(t.id = e.id /\ QosOf[t.msg] = 2) => next(t) = t
  BY DEF Fields, RxTasks
<1>4. /\ UNCHANGED <<inflight, sent, rxPublish, rxIds, delivered, hubQ>>
      /\ \A k \in 1..Len(fromBroker') :
            k + 1 \in 1..Len(fromBroker) /\ fromBroker'[k] = fromBroker[k + 1]
  BY <1>0, <1>1 DEF NetTakes
<1> HIDE DEF next
<1>5. \A m, i : At(m, i)' => At(m, i)
  BY <1>1, <1>3, <1>4 DEF At
<1>6. SentInv'
  BY <1>4, <1>5 DEF SentInv, IInv
<1>7. HandshakeInv'
  BY <1>1, <1>3, <1>4 DEF OneTask, KeepsPublish, TaskAffirms, AffirmsInUse,
     AffirmsInOrder, HandshakeInv, IInv
<1>8. \A m : Unseen(m) => Unseen(m)'
  BY <1>1, <1>3, <1>4 DEF Unseen
<1>9. OnceInv'
  <2> SUFFICES ASSUME NEW m \in Messages, QosOf[m] = 2
               PROVE  (WireEarly(m) /\ QueuedIsDup(m) /\ KeptIsNew(m))'
    BY DEF OnceInv
  <2>0. WireEarly(m) /\ QueuedIsDup(m) /\ KeptIsNew(m)
    BY DEF OnceInv, IInv
  <2>1. KeptIsNew(m)'
    BY <2>0, <1>4 DEF KeptIsNew
  <2>2. CASE \A t \in rxTasks : ~(t.id = e.id /\ t.msg = m)
    <3>1. Early(m) => Early(m)'
      BY <1>1, <1>3, <1>4, <2>2 DEF Early
    <3>2. WireEarly(m)'
      BY <2>0, <1>4, <3>1 DEF WireEarly
    <3>3. QueuedIsDup(m)'
      BY <2>0, <1>4, <3>1 DEF QueuedIsDup
    <3> QED
      BY <2>1, <3>2, <3>3
  <2>3. CASE \E t \in rxTasks : t.id = e.id /\ t.msg = m
    <3>1. PICK t \in rxTasks : t.id = e.id /\ t.msg = m
      BY <2>3
    <3>2. \A i \in Ids : At(m, i) => i = e.id
      BY <1>2, <3>1 DEF At, SentInv, IInv
    <3>3. ~Unseen(m)
      BY <3>1 DEF Unseen
    <3>4. ~Pending(1, m)
      BY <1>2, <3>3 DEF RelInv, UnseenAt, IInv
    <3>5. \A k \in 1..Len(fromBroker') : ~IsOf(fromBroker'[k], m)
      <4> SUFFICES ASSUME NEW k \in 1..Len(fromBroker'), IsOf(fromBroker'[k], m)
                   PROVE  FALSE
        OBVIOUS
      <4>1. k + 1 \in 1..Len(fromBroker) /\ k + 1 > 1 /\ IsOf(fromBroker[k + 1], m)
        BY <1>4
      <4>2. fromBroker[k + 1].id = e.id
        BY <3>2, <4>1 DEF At, IsPublish, IsOf, Fields
      <4> QED
        BY <3>4, <4>1, <4>2 DEF Pending, IsPublish, IsOf
    <3>6. \A k \in 1..Len(inflight) : inflight[k].msg = m => inflight[k].rel
      <4> SUFFICES ASSUME NEW k \in 1..Len(inflight), inflight[k].msg = m,
                          ~inflight[k].rel
                   PROVE  FALSE
        OBVIOUS
      <4>1. inflight[k].id = e.id
        BY <3>2, IdsInRange DEF At, Fields
      <4> QED
        BY <3>4, <4>1 DEF Pending
    <3>7. WireEarly(m)'
      BY <1>4, <3>5, <3>6 DEF WireEarly, IsOf
    <3>8. QueuedIsDup(m)'
      <4>1. \A k \in 1..Len(hubQ) : IsOf(hubQ[k], m) => hubQ[k].id = t.id
        BY <3>1, <3>2 DEF At, IsPublish, IsOf, Fields
      <4>2. /\ t.id \in rxIds
            /\ \A j \in 1..Len(hubQ) : hubQ[j].type = "AffirmRxId" => hubQ[j].id # t.id
        BY <3>1 DEF OneTask, TaskAffirms, HandshakeInv, IInv
      <4> QED
        BY <1>4, <4>1, <4>2 DEF QueuedIsDup, IsOf
    <3> QED
      BY <2>1, <3>7, <3>8
  <2> QED
    BY <2>2, <2>3
<1>10. RelInv'
  <2> SUFFICES ASSUME NEW p \in 1..Len(fromBroker'), NEW m \in Messages,
                      fromBroker'[p].type # "Publish", QosOf[m] = 2, Pending(p, m)'
               PROVE  UnseenAt(p, m)'
    BY DEF RelInv
  <2>1. UnseenAt(p + 1, m)
    BY <1>0, NetTakesPending DEF IInv
  <2>2. Unseen(m)'
    BY <2>1, <1>8 DEF UnseenAt
  <2> QED
    BY <1>0, <2>1, <2>2, NetTakesUnseen
<1>11. Qos0Inv'
  <2> SUFFICES ASSUME NEW m \in Messages, QosOf[m] = 0
               PROVE  OnePlace(m)'
    BY DEF Qos0Inv
  <2>0. OnePlace(m)
    BY DEF Qos0Inv, IInv
  <2>1. Single(fromBroker, m)'
    BY <1>0, <2>0, NetTakesSingle DEF OnePlace
  <2>2. Single(hubQ, m)'
    BY <1>4, <2>0 DEF OnePlace, Single
  <2> QED
    BY <1>4, <2>0, <2>1, <2>2 DEF OnePlace
<1> QED
  BY <1>6, <1>7, <1>9, <1>10, <1>11 DEF IInv

-----------------------------------------------------------------------------
(* The broker.                                                             *)

\* A step of the broker leaves the client alone.
ClientRests == UNCHANGED <<hubQ, rxPublish, rxIds, rxTasks, delivered>>

LEMMA ClientRestsKeeps ==
    ASSUME HandshakeInv, ClientRests
    PROVE  /\ HandshakeInv'
           /\ \A m : Early(m) <=> Early(m)'
           /\ \A m : Unseen(m) <=> Unseen(m)'
           /\ \A m : QueuedIsDup(m) => QueuedIsDup(m)'
           /\ \A m : KeptIsNew(m) => KeptIsNew(m)'
<1>1. \A m : Early(m) <=> Early(m)'
  BY DEF Early, ClientRests
<1>2. HandshakeInv'
  BY DEF HandshakeInv, OneTask, KeepsPublish, TaskAffirms, AffirmsInUse,
         AffirmsInOrder, ClientRests
<1>3. \A m : Unseen(m) <=> Unseen(m)'
  BY DEF Unseen, ClientRests
<1>4. \A m : QueuedIsDup(m) => QueuedIsDup(m)'
  BY <1>1 DEF QueuedIsDup, ClientRests
<1>5. \A m : KeptIsNew(m) => KeptIsNew(m)'
  BY DEF KeptIsNew, ClientRests
<1> QED
  BY <1>1, <1>2, <1>3, <1>4, <1>5

\* CONNACK: the broker repeats what is unfinished.
LEMMA NetConnectedKeeps ==
    ASSUME Fields, TypeInv, IInv, NetConnected
    PROVE  IInv'
<1>1. ClientRests /\ UNCHANGED <<inflight, sent>>
  BY DEF NetConnected, hubVars, brokerVars, ClientRests
<1>2. /\ Len(fromBroker') = Len(inflight)
      /\ \A k \in 1..Len(inflight) :
            IF inflight[k].rel
            THEN fromBroker'[k].type = "PubRel" /\ fromBroker'[k].id = inflight[k].id
            ELSE IsPublish(fromBroker'[k], inflight[k].msg, inflight[k].id)
  <2>1. inflight \in Seq(Unfinished) /\ DOMAIN inflight = 1..Len(inflight)
    BY DEF TypeInv
  <2>2. fromBroker' = [k \in 1..Len(inflight) |->
                         IF inflight[k].rel THEN Packet("PubRel", inflight[k].id)
                                            ELSE Publish(inflight[k].msg, inflight[k].id)]
    BY <2>1 DEF NetConnected
  <2>3. Len(fromBroker') = Len(inflight)
    BY <2>2 DEF Fields
  <2> QED
    BY <2>2, <2>3 DEF Packet, Publish, IsPublish
<1>3. ASSUME NEW k \in 1..Len(fromBroker'), fromBroker'[k].type = "Publish"
      PROVE  /\ k \in 1..Len(inflight) /\ ~inflight[k].rel
             /\ IsPublish(fromBroker'[k], inflight[k].msg, inflight[k].id)
  BY <1>2, <1>3
<1>4. \A m, i : At(m, i)' => At(m, i)
  BY <1>1, <1>3 DEF At, IsPublish, ClientRests
<1>5. SentInv'
  BY <1>1, <1>4 DEF SentInv, ClientRests, IInv
<1>6. OnceInv'
  <2> SUFFICES ASSUME NEW m \in Messages, QosOf[m] = 2
               PROVE  (WireEarly(m) /\ QueuedIsDup(m) /\ KeptIsNew(m))'
    BY DEF OnceInv
  <2>0. WireEarly(m) /\ QueuedIsDup(m) /\ KeptIsNew(m)
    BY DEF OnceInv, IInv
  <2>1. WireEarly(m)'
    BY <2>0, <1>1, <1>3, ClientRestsKeeps DEF WireEarly, IsPublish, IInv
  <2> QED
    BY <2>0, <2>1, <1>1, ClientRestsKeeps DEF IInv
<1>7. RelInv'
  <2> SUFFICES ASSUME NEW p \in 1..Len(fromBroker'), NEW m \in Messages,
                      fromBroker'[p].type # "Publish", Pending(p, m)'
               PROVE  FALSE
    BY DEF RelInv
  <2>1. p \in 1..Len(inflight) /\ inflight[p].rel /\ fromBroker'[p].id = inflight[p].id
    BY <1>2 DEF IsPublish
  <2>2. \A k \in 1..Len(inflight) : inflight[k].id = inflight[p].id => k = p
    BY <2>1 DEF SentInv, IInv
  <2> QED
    BY <1>1, <1>2, <1>3, <2>1, <2>2 DEF Pending, IsPublish, Fields
<1>8. Qos0Inv'
  <2> SUFFICES ASSUME NEW m \in Messages, QosOf[m] = 0
               PROVE  OnePlace(m)'
    BY DEF Qos0Inv
  <2>0. OnePlace(m)
    BY DEF Qos0Inv, IInv
  <2>1. \A k \in 1..Len(fromBroker') : ~IsOf(fromBroker'[k], m)
    BY <1>3 DEF IsOf, IsPublish, SentInv, IInv
  <2> QED
    BY <1>1, <2>0, <2>1 DEF OnePlace, Single, ClientRests
<1>9. HandshakeInv'
  BY <1>1, ClientRestsKeeps DEF IInv
<1> QED
  BY <1>5, <1>6, <1>7, <1>8, <1>9 DEF IInv

\* A new publish.
LEMMA BrokerPublishKeeps ==
    ASSUME Fields, TypeInv, IInv, NEW m0 \in Messages, BrokerPublish(m0)
    PROVE  IInv'
<1> DEFINE id0 == IF QosOf[m0] = 0 THEN 0 ELSE nextId
           e == Publish(m0, id0)
<1>1. ClientRests /\ m0 \notin sent /\ sent' = sent \cup {m0}
  BY DEF BrokerPublish, hubVars, ClientRests
<1>2. id0 \in Ids
  BY IdsInRange DEF TypeInv
<1>3. e.type = "Publish" /\ e.msg = m0 /\ e.id = id0
  BY DEF Publish
<1>4. \A k \in 1..Len(fromBroker') :
        \/ k \in 1..Len(fromBroker) /\ fromBroker'[k] = fromBroker[k]
        \/ k = Len(fromBroker) + 1 /\ fromBroker'[k] = e
  <2>1. e \in FromBroker
    BY <1>2 DEF Publish, Publishes, FromBroker, Ids
  <2>2. fromBroker \in Seq(FromBroker) /\ fromBroker' = Append(fromBroker, e)
    BY DEF BrokerPublish, TypeInv
  <2> HIDE DEF e
  <2> QED
    BY <2>1, <2>2, AppendElements
<1>5. /\ Len(inflight') = Len(inflight) \/ Len(inflight') = Len(inflight) + 1
      /\ \A k \in 1..Len(inflight') :
          \/ k \in 1..Len(inflight) /\ inflight'[k] = inflight[k]
          \/ /\ k = Len(inflight) + 1
             /\ inflight'[k].msg = m0 /\ inflight'[k].id = id0 /\ QosOf[m0] # 0
             /\ \A j \in 1..Len(inflight) : inflight[j].id # id0
  <2>1. CASE QosOf[m0] = 0
    BY <2>1 DEF BrokerPublish
  <2>2. CASE QosOf[m0] # 0
    <3> DEFINE f == [msg |-> m0, id |-> nextId, rel |-> FALSE]
    <3>1. f \in Unfinished /\ f.msg = m0 /\ f.id = id0
      BY <2>2 DEF Unfinished, TypeInv
    <3>2. inflight \in Seq(Unfinished) /\ inflight' = Append(inflight, f)
      BY <2>2 DEF BrokerPublish, TypeInv
    <3>3. \A j \in 1..Len(inflight) : inflight[j].id # id0
      BY <2>2, <3>2 DEF BrokerPublish, InUse
    <3> HIDE DEF f, id0
    <3> QED
      BY <2>2, <3>1, <3>2, <3>3, AppendElements
  <2> QED
    BY <2>1, <2>2
<1> HIDE DEF e, id0
<1>6. \A i \in Ids : ~At(m0, i)
  BY <1>1 DEF SentInv, IInv
<1>7. \A m \in Messages, i \in Ids : At(m, i)' => At(m, i) \/ (m = m0 /\ i = id0)
  BY <1>1, <1>3, <1>4, <1>5 DEF At, IsPublish, ClientRests
<1>8. Early(m0) /\ Unseen(m0)
  <2>1. delivered[m0] = 0
    BY <1>1 DEF SentInv, TypeInv, IInv
  <2>2. \A t \in rxTasks : t.msg # m0
    BY <1>6, IdsInRange DEF At, Fields
  <2>3. \A i \in DOMAIN rxPublish : rxPublish[i] # m0
    BY <1>6, IdsInRange DEF At, Fields
  <2>4. \A k \in 1..Len(hubQ) : hubQ[k].type = "Publish" => hubQ[k].msg # m0
    BY <1>6 DEF At, IsPublish, Fields
  <2> QED
    BY <2>1, <2>2, <2>3, <2>4 DEF Early, Unseen
<1>9. SentInv'
  <2>1. \A m \in Messages, i \in Ids : At(m, i)' => m \in sent'
    BY <1>1, <1>7 DEF SentInv, IInv
  <2>2. \A m \in Messages : \A i, j \in Ids : At(m, i)' /\ At(m, j)' => i = j
    BY <1>6, <1>7 DEF SentInv, IInv
  <2>3. \A m \in Messages : delivered'[m] > 0 => m \in sent'
    BY <1>1 DEF SentInv, IInv, ClientRests
  <2>4. \A k, l \in 1..Len(inflight') : inflight'[k].id = inflight'[l].id => k = l
    BY <1>5 DEF SentInv, IInv
  <2>5. \A k \in 1..Len(inflight') : QosOf[inflight'[k].msg] # 0
    BY <1>5 DEF SentInv, IInv
  <2> QED
    BY <2>1, <2>2, <2>3, <2>4, <2>5 DEF SentInv
<1>10. OnceInv'
  <2> SUFFICES ASSUME NEW m \in Messages, QosOf[m] = 2
               PROVE  (WireEarly(m) /\ QueuedIsDup(m) /\ KeptIsNew(m))'
    BY DEF OnceInv
  <2>0. WireEarly(m) /\ QueuedIsDup(m) /\ KeptIsNew(m)
    BY DEF OnceInv, IInv
  <2>1. WireEarly(m)'
    BY <2>0, <1>1, <1>3, <1>4, <1>5, <1>8, ClientRestsKeeps DEF WireEarly, IInv
  <2> QED
    BY <2>0, <2>1, <1>1, ClientRestsKeeps DEF IInv
<1>11. RelInv'
  <2> SUFFICES ASSUME NEW p \in 1..Len(fromBroker'), NEW m \in Messages,
                      fromBroker'[p].type # "Publish", QosOf[m] = 2, Pending(p, m)'
               PROVE  UnseenAt(p, m)'
    BY DEF RelInv
  <2>1. p \in 1..Len(fromBroker) /\ fromBroker'[p] = fromBroker[p]
    BY <1>3, <1>4
  <2>2. \A k \in 1..Len(fromBroker') :
            k < p => k \in 1..Len(fromBroker) /\ fromBroker'[k] = fromBroker[k]
    BY <1>4, <2>1
  <2>3. CASE m = m0
    <3>1. \A k \in 1..Len(fromBroker) :
            fromBroker[k].type = "Publish" => fromBroker[k].msg # m
      BY <1>6, <2>3 DEF At, IsPublish, Fields
    <3>2. Unseen(m)'
      BY <1>1, <1>8, <2>3, ClientRestsKeeps DEF IInv
    <3> QED
      BY <2>2, <3>1, <3>2 DEF UnseenAt
  <2>4. CASE m # m0
    <3>1. Pending(p, m)
      <4>1. ASSUME NEW k \in 1..Len(fromBroker'), k > p,
                   IsPublish(fromBroker'[k], m, fromBroker'[p].id)
            PROVE  Pending(p, m)
        <5>1. k \in 1..Len(fromBroker) /\ fromBroker'[k] = fromBroker[k]
          BY <1>3, <1>4, <2>4, <4>1 DEF IsPublish
        <5> QED
          BY <2>1, <4>1, <5>1 DEF Pending
      <4>2. ASSUME NEW k \in 1..Len(inflight'), ~inflight'[k].rel,
                   inflight'[k].msg = m /\ inflight'[k].id = fromBroker'[p].id
            PROVE  Pending(p, m)
        <5>1. k \in 1..Len(inflight) /\ inflight'[k] = inflight[k]
          BY <1>5, <2>4, <4>2
        <5> QED
          BY <2>1, <4>2, <5>1 DEF Pending
      <4> QED
        BY <4>1, <4>2 DEF Pending
    <3>2. UnseenAt(p, m)
      BY <2>1, <3>1 DEF RelInv, IInv
    <3>3. Unseen(m)'
      BY <1>1, <3>2, ClientRestsKeeps DEF UnseenAt, IInv
    <3> QED
      BY <2>2, <3>2, <3>3 DEF UnseenAt
  <2> QED
    BY <2>3, <2>4
<1>12. Qos0Inv'
  <2> SUFFICES ASSUME NEW m \in Messages, QosOf[m] = 0
               PROVE  OnePlace(m)'
    BY DEF Qos0Inv
  <2>0. /\ Single(hubQ, m) /\ Single(fromBroker, m)
        /\ \A k \in 1..Len(hubQ), j \in 1..Len(fromBroker) :
              ~(IsOf(hubQ[k], m) /\ IsOf(fromBroker[j], m))
        /\ \A i \in DOMAIN rxPublish : rxPublish[i] # m
    BY DEF Qos0Inv, OnePlace, IInv
  <2>1. IsOf(e, m) => /\ delivered[m] = 0
                      /\ \A k \in 1..Len(hubQ) : ~IsOf(hubQ[k], m)
                      /\ \A j \in 1..Len(fromBroker) : ~IsOf(fromBroker[j], m)
    <3> SUFFICES ASSUME m = m0
                 PROVE  /\ delivered[m] = 0
                        /\ \A k \in 1..Len(hubQ) : ~IsOf(hubQ[k], m)
                        /\ \A j \in 1..Len(fromBroker) : ~IsOf(fromBroker[j], m)
      BY <1>3 DEF IsOf
    <3>1. delivered[m] = 0
      BY <1>8 DEF Early
    <3>2. \A k \in 1..Len(hubQ) : ~IsOf(hubQ[k], m)
      BY <1>8 DEF Unseen, IsOf
    <3>3. \A j \in 1..Len(fromBroker) : ~IsOf(fromBroker[j], m)
      BY <1>6 DEF At, IsPublish, IsOf, Fields
    <3> QED
      BY <3>1, <3>2, <3>3
  <2>2. Single(hubQ, m)'
    BY <1>1, <2>0 DEF Single, ClientRests
  <2>3. Single(fromBroker, m)'
    BY <1>1, <1>4, <2>0, <2>1 DEF Single, ClientRests
  <2>4. \A k \in 1..Len(hubQ'), j \in 1..Len(fromBroker') :
           ~(IsOf(hubQ'[k], m) /\ IsOf(fromBroker'[j], m))
    BY <1>1, <1>4, <2>0, <2>1 DEF ClientRests
  <2> QED
    BY <1>1, <2>0, <2>2, <2>3, <2>4 DEF OnePlace, ClientRests
<1>13. HandshakeInv'
  BY <1>1, ClientRestsKeeps DEF IInv
<1> QED
  BY <1>9, <1>10, <1>11, <1>12, <1>13 DEF IInv

\* PUBACK or PUBCOMP: one handshake is over.
LEMMA BrokerEndsKeeps ==
    ASSUME Fields, TypeInv, IInv, BrokerTake, BrokerEnds(Head(toBroker))
    PROVE  IInv'
<1>1. ClientRests /\ UNCHANGED <<sent, fromBroker>>
  BY DEF BrokerTake, BrokerEnds, hubVars, ClientRests
<1> DEFINE from(i, k) == IF k < i THEN k ELSE k + 1
<1>2. PICK i \in 1..Len(inflight) :
        \A k \in 1..Len(inflight') :
            from(i, k) \in 1..Len(inflight) /\ inflight'[k] = inflight[from(i, k)]
  <2>1. inflight \in Seq(Unfinished) /\ DOMAIN inflight = 1..Len(inflight)
    BY DEF TypeInv
  <2>2. PICK i \in 1..Len(inflight) : inflight' = RemoveAt(inflight, i)
    BY <2>1 DEF BrokerEnds
  <2>3. /\ Len(inflight') = Len(inflight) - 1
        /\ \A k \in 1..Len(inflight) - 1 :
             inflight'[k] = IF k < i THEN inflight[k] ELSE inflight[k + 1]
    BY <2>1, <2>2, RemoveAtElements
  <2>4. ASSUME NEW k \in 1..Len(inflight')
        PROVE  from(i, k) \in 1..Len(inflight) /\ inflight'[k] = inflight[from(i, k)]
    BY <2>3 DEF Fields
  <2> HIDE DEF from
  <2> QED
    BY <2>4
<1>3. \A k, l \in 1..Len(inflight') : from(i, k) = from(i, l) => k = l
  OBVIOUS
<1> HIDE DEF from
<1>4. \A k \in 1..Len(inflight') : \E l \in 1..Len(inflight) : inflight'[k] = inflight[l]
  BY <1>2
<1>5. ASSUME NEW m, NEW j, At(m, j)'
      PROVE  At(m, j)
  <2>1. (\E k \in 1..Len(inflight') : inflight'[k].msg = m /\ inflight'[k].id = j)
          => \E l \in 1..Len(inflight) : inflight[l].msg = m /\ inflight[l].id = j
    BY <1>4
  <2> QED
    BY <1>1, <1>5, <2>1 DEF At, ClientRests
<1>6. SentInv'
  <2>1. \A k, l \in 1..Len(inflight') : inflight'[k].id = inflight'[l].id => k = l
    BY <1>2, <1>3 DEF SentInv, IInv
  <2>2. \A k \in 1..Len(inflight') : QosOf[inflight'[k].msg] # 0
    BY <1>4 DEF SentInv, IInv
  <2> QED
    BY <1>1, <1>5, <2>1, <2>2 DEF SentInv, ClientRests, IInv
<1>7. OnceInv'
  <2> SUFFICES ASSUME NEW m \in Messages, QosOf[m] = 2
               PROVE  (WireEarly(m) /\ QueuedIsDup(m) /\ KeptIsNew(m))'
    BY DEF OnceInv
  <2>0. WireEarly(m) /\ QueuedIsDup(m) /\ KeptIsNew(m)
    BY DEF OnceInv, IInv
  <2>1. WireEarly(m)'
    BY <2>0, <1>1, <1>4, ClientRestsKeeps DEF WireEarly, IInv
  <2> QED
    BY <2>0, <2>1, <1>1, ClientRestsKeeps DEF IInv
<1>8. RelInv'
  <2>1. \A p, m : Pending(p, m)' => Pending(p, m)
    BY <1>1, <1>4 DEF Pending
  <2>2. \A p, m : UnseenAt(p, m) => UnseenAt(p, m)'
    BY <1>1, ClientRestsKeeps DEF UnseenAt, IInv
  <2> QED
    BY <1>1, <2>1, <2>2 DEF RelInv, IInv
<1>9. Qos0Inv'
  BY <1>1 DEF Qos0Inv, OnePlace, Single, ClientRests, IInv
<1>10. HandshakeInv'
  BY <1>1, ClientRestsKeeps DEF IInv
<1> QED
  BY <1>6, <1>7, <1>8, <1>9, <1>10 DEF IInv

\* PUBREC: the broker releases the message.
LEMMA BrokerReleasesKeeps ==
    ASSUME Fields, TypeInv, IInv, BrokerTake, BrokerReleases(Head(toBroker))
    PROVE  IInv'
<1> DEFINE e == Packet("PubRel", Head(toBroker).id)
<1>1. ClientRests /\ UNCHANGED sent
  BY DEF BrokerTake, hubVars, ClientRests
<1>2. PICK i \in 1..Len(inflight) :
        /\ inflight[i].id = e.id
        /\ inflight' = [inflight EXCEPT ![i].rel = TRUE]
  <2>1. DOMAIN inflight = 1..Len(inflight)
    BY DEF TypeInv
  <2> QED
    BY <2>1 DEF BrokerReleases, Releases, Packet
<1>3. /\ Len(inflight') = Len(inflight) /\ inflight'[i].rel
      /\ \A k \in 1..Len(inflight) :
            /\ inflight'[k].msg = inflight[k].msg /\ inflight'[k].id = inflight[k].id
            /\ k # i => inflight'[k].rel = inflight[k].rel
  <2>1. /\ inflight \in Seq(Unfinished) /\ DOMAIN inflight = 1..Len(inflight)
        /\ \A k \in 1..Len(inflight) : inflight[k] \in Unfinished
    BY DEF TypeInv
  <2>2. Len(inflight') = Len(inflight)
    BY <1>2, <2>1
  <2>3. \A k \in 1..Len(inflight) :
          inflight'[k] = IF k = i THEN [inflight[i] EXCEPT !.rel = TRUE] ELSE inflight[k]
    BY <1>2, <2>1
  <2> QED
    BY <2>1, <2>2, <2>3 DEF Unfinished
<1>4. \A k \in 1..Len(fromBroker') :
        \/ k \in 1..Len(fromBroker) /\ fromBroker'[k] = fromBroker[k]
        \/ k = Len(fromBroker) + 1 /\ fromBroker'[k] = e
  <2>1. e \in FromBroker
    <3>1. toBroker \in Seq(Packets) /\ toBroker # <<>>
      BY DEF BrokerTake, TypeInv
    <3>2. Head(toBroker) \in Packets
      BY <3>1, TailElements
    <3> QED
      BY <3>2 DEF Packet, Packets, PacketTypes, FromBroker
  <2>2. fromBroker \in Seq(FromBroker) /\ fromBroker' = Append(fromBroker, e)
    BY DEF BrokerReleases, TypeInv
  <2> HIDE DEF e
  <2> QED
    BY <2>1, <2>2, AppendElements
<1>5. e.type # "Publish"
  BY DEF Packet
<1> HIDE DEF e
<1>6. ASSUME NEW m, NEW j, At(m, j)'
      PROVE  At(m, j)
  <2>1. (\E k \in 1..Len(inflight') : inflight'[k].msg = m /\ inflight'[k].id = j)
          => \E k \in 1..Len(inflight) : inflight[k].msg = m /\ inflight[k].id = j
    BY <1>3
  <2>2. (\E k \in 1..Len(fromBroker') : IsPublish(fromBroker'[k], m, j))
          => \E k \in 1..Len(fromBroker) : IsPublish(fromBroker[k], m, j)
    BY <1>4, <1>5 DEF IsPublish
  <2> QED
    BY <1>1, <1>6, <2>1, <2>2 DEF At, ClientRests
<1>7. SentInv'
  BY <1>1, <1>3, <1>6 DEF SentInv, ClientRests, IInv
<1>8. OnceInv'
  <2> SUFFICES ASSUME NEW m \in Messages, QosOf[m] = 2
               PROVE  (WireEarly(m) /\ QueuedIsDup(m) /\ KeptIsNew(m))'
    BY DEF OnceInv
  <2>0. WireEarly(m) /\ QueuedIsDup(m) /\ KeptIsNew(m)
    BY DEF OnceInv, IInv
  <2>1. \A k \in 1..Len(inflight) : inflight[k].rel => inflight'[k].rel
    BY <1>3
  <2>2. WireEarly(m)'
    BY <2>0, <2>1, <1>1, <1>3, <1>4, <1>5, ClientRestsKeeps DEF WireEarly, IInv
  <2> QED
    BY <2>0, <2>2, <1>1, ClientRestsKeeps DEF IInv
<1>9. RelInv'
  <2> SUFFICES ASSUME NEW p \in 1..Len(fromBroker'), NEW m \in Messages,
                      fromBroker'[p].type # "Publish", QosOf[m] = 2, Pending(p, m)'
               PROVE  UnseenAt(p, m)'
    BY DEF RelInv
  <2>1. ASSUME NEW k \in 1..Len(fromBroker'), k > p, fromBroker'[k].type = "Publish"
        PROVE  k \in 1..Len(fromBroker) /\ fromBroker'[k] = fromBroker[k]
    BY <1>4, <1>5, <2>1
  <2>2. ASSUME NEW k \in 1..Len(inflight'), ~inflight'[k].rel
        PROVE  /\ k \in 1..Len(inflight) /\ ~inflight[k].rel /\ inflight[k].id # e.id
               /\ inflight'[k].msg = inflight[k].msg /\ inflight'[k].id = inflight[k].id
    BY <1>2, <1>3, <2>2 DEF SentInv, IInv
  <2>3. p \in 1..Len(fromBroker) /\ fromBroker'[p] = fromBroker[p]
    <3>1. CASE p = Len(fromBroker) + 1 /\ fromBroker'[p] = e
      BY <2>1, <2>2, <3>1 DEF Pending, IsPublish, Fields
    <3> QED
      BY <1>4, <3>1
  <2>4. Pending(p, m)
    <3>1. ASSUME NEW k \in 1..Len(fromBroker'), k > p,
                 IsPublish(fromBroker'[k], m, fromBroker'[p].id)
          PROVE  Pending(p, m)
      <4>1. k \in 1..Len(fromBroker) /\ fromBroker'[k] = fromBroker[k]
        BY <2>1, <3>1 DEF IsPublish
      <4> QED
        BY <2>3, <3>1, <4>1 DEF Pending
    <3>2. ASSUME NEW k \in 1..Len(inflight'), ~inflight'[k].rel,
                 inflight'[k].msg = m /\ inflight'[k].id = fromBroker'[p].id
          PROVE  Pending(p, m)
      BY <2>2, <2>3, <3>2 DEF Pending
    <3> QED
      BY <3>1, <3>2 DEF Pending
  <2>5. UnseenAt(p, m)
    BY <2>3, <2>4 DEF RelInv, IInv
  <2>6. \A k \in 1..Len(fromBroker') :
            k < p => k \in 1..Len(fromBroker) /\ fromBroker'[k] = fromBroker[k]
    BY <1>4, <2>3
  <2> QED
    BY <1>1, <2>5, <2>6, ClientRestsKeeps DEF UnseenAt, IInv
<1>10. Qos0Inv'
  <2> SUFFICES ASSUME NEW m \in Messages, QosOf[m] = 0
               PROVE  OnePlace(m)'
    BY DEF Qos0Inv
  <2>0. OnePlace(m)
    BY DEF Qos0Inv, IInv
  <2>1. \A k \in 1..Len(fromBroker') : IsOf(fromBroker'[k], m) =>
            k \in 1..Len(fromBroker) /\ fromBroker'[k] = fromBroker[k]
    BY <1>4, <1>5 DEF IsOf
  <2> QED
    BY <1>1, <2>0, <2>1 DEF OnePlace, Single, ClientRests
<1>11. HandshakeInv'
  BY <1>1, ClientRestsKeeps DEF IInv
<1> QED
  BY <1>7, <1>8, <1>9, <1>10, <1>11 DEF IInv

-----------------------------------------------------------------------------
(* The invariant.                                                          *)

Inv == TypeInv /\ IInv

LEMMA HubKeeps == ASSUME Fields, TypeInv, IInv, HubStep PROVE IInv'
<1>1. CASE HubRxQos0
  <2>1. HubTakes("Publish") /\ Head(hubQ) = hubQ[1]
    BY <1>1, HubReadsTakes DEF HubRxQos0, HubTakes
  <2> QED
    BY <1>1, <2>1, HubRxOther DEF HubRxQos0
<1>2. CASE HubRxDup
  BY <1>2, HubReadsTakes, HubRxOther DEF HubRxDup
<1> QED
  BY <1>1, <1>2, HubRxNewKeeps, HubAffirmPublishKeeps, HubAffirmIdKeeps DEF HubStep

LEMMA BrokerTakeKeeps == ASSUME Fields, TypeInv, IInv, BrokerTake PROVE IInv'
<1>1. CASE BrokerIgnores(Head(toBroker))
  BY <1>1, NetQuiet, QuietKeeps DEF BrokerIgnores, IInv, HandshakeInv
<1> QED
  BY <1>1, BrokerEndsKeeps, BrokerReleasesKeeps DEF BrokerTake

LEMMA NextInv == Inv /\ [Next]_vars => Inv'
<1> SUFFICES ASSUME TypeInv, IInv, [Next]_vars PROVE Inv'
  BY DEF Inv
<1>1. TypeInv'
  BY NextType
<1>2. Fields
  BY FieldsType
<1>3. OneTask
  BY DEF IInv, HandshakeInv
<1>4. CASE HubStep
  BY <1>1, <1>2, <1>4, HubKeeps DEF Inv
<1>5. ASSUME NEW t \in rxTasks,
             TaskSend(t) \/ TaskTimeout(t) \/ TaskComp(t)
      PROVE  IInv'
  BY <1>2, <1>3, <1>5, TasksQuiet, QuietKeeps
<1>6. ASSUME NEW t \in rxTasks, TaskAffirm(t) \/ TaskAffirmId(t)
      PROVE  IInv'
  BY <1>2, <1>6, TaskAffirmKeeps, TaskAffirmIdKeeps
<1>7. CASE NetForward
  BY <1>1, <1>2, <1>7, NetForwardPublish, NetForwardRel DEF Inv
<1>8. CASE \/ NetWrite \/ NetLost \/ NetConnectFail \/ HubLost \/ HubStartNetwork
           \/ UNCHANGED vars
  BY <1>1, <1>2, <1>3, <1>8, NetQuiet, QuietKeeps DEF Inv
<1>9. CASE NetConnected
  BY <1>1, <1>2, <1>9, NetConnectedKeeps DEF Inv
<1>10. CASE \E m \in Messages : BrokerPublish(m)
  BY <1>1, <1>2, <1>10, BrokerPublishKeeps DEF Inv
<1>11. CASE BrokerTake
  BY <1>1, <1>2, <1>11, BrokerTakeKeeps DEF Inv
<1> QED
  BY <1>1, <1>4, <1>5, <1>6, <1>7, <1>8, <1>9, <1>10, <1>11 DEF Inv, Next, TaskStep

LEMMA SpecInv == Spec => []Inv
  BY InitType, InitInv, NextInv, PTL DEF Spec, Inv

\* A message of QoS 2 is delivered after its PUBREL: whenever the user has it, the
\* broker will not send its PUBLISH again (deal_hub_msg, TaskPublishRxQos2).
THEOREM AfterRelease == Spec => []DeliveredAfterRelease
<1>1. Inv => DeliveredAfterRelease
  <2> SUFFICES ASSUME Inv, NEW m \in Messages, QosOf[m] = 2, delivered[m] > 0,
                      NEW i \in DOMAIN inflight, inflight[i].msg = m
               PROVE  inflight[i].rel
    BY DEF DeliveredAfterRelease
  <2>1. DOMAIN inflight = 1..Len(inflight)
    BY DEF Inv, TypeInv
  <2> QED
    BY <2>1 DEF Inv, IInv, OnceInv, WireEarly, Early
<1> QED
  BY <1>1, SpecInv, PTL

-----------------------------------------------------------------------------
(* InboundSession implements MessageDelivery.                              *)

LEMMA InitDelivery == Init => Delivery!Init
  BY DEF Init, Delivery!Init, Released

\* A step that leaves the messages of the broker and of the user alone.
LEMMA OtherStep ==
    ASSUME UNCHANGED <<inflight, sent, delivered>>
    PROVE  UNCHANGED Delivery!vars
  BY DEF Delivery!vars, Released

\* The user gets a message.
LEMMA DeliverStep ==
    ASSUME Fields, TypeInv, IInv, HubRxQos0 \/ HubAffirmPublish
    PROVE  \/ \E m \in Messages : Delivery!Deliver(m)
           \/ UNCHANGED Delivery!vars
<1> DEFINE e == hubQ[1]
<1>1. /\ Head(hubQ) = e /\ 1 \in 1..Len(hubQ)
      /\ UNCHANGED <<inflight, sent>>
      /\ e.type = "Publish" \/ e.type = "AffirmRxPublish"
  BY HubReadsTakes DEF HubRxQos0, HubAffirmPublish, HubTakes, Fields
<1>2. Released' = Released
  BY <1>1 DEF Released
<1>3. CASE HubRxQos0
  <2>1. /\ e.type = "Publish" /\ QosOf[e.msg] = 0 /\ Deliver(e.msg)
        /\ e.msg \in Messages /\ e.id \in Ids
    BY <1>1, <1>3 DEF HubRxQos0, HubReads, Fields
  <2>2. e.msg \in sent
    BY <1>1, <2>1 DEF At, IsPublish, SentInv, IInv
  <2>3. delivered[e.msg] = 0
    BY <1>1, <2>1 DEF Qos0Inv, OnePlace, Single, IsOf, IInv
  <2>4. Delivery!Deliver(e.msg)
    BY <1>1, <1>2, <2>1, <2>2, <2>3 DEF Delivery!Deliver, Deliver
  <2> QED
    BY <2>1, <2>4
<1>4. CASE HubAffirmPublish
  <2> DEFINE m == rxPublish[e.id]
  <2>1. CASE e.id \notin DOMAIN rxPublish
    BY <1>1, <1>4, <2>1, OtherStep DEF HubAffirmPublish
  <2>2. CASE e.id \in DOMAIN rxPublish
    <3>1. Deliver(m) /\ e.type = "AffirmRxPublish"
      BY <1>1, <1>4, <2>2 DEF HubAffirmPublish, HubReads
    <3>2. m \in Messages /\ e.id \in Ids /\ At(m, e.id)
      BY <1>1, <2>2 DEF Fields, At
    <3>3. m \in sent
      BY <3>2 DEF SentInv, IInv
    <3>4. QosOf[m] # 0
      BY <2>2, <3>2 DEF Qos0Inv, OnePlace, IInv
    <3>5. QosOf[m] = 2 => delivered[m] = 0
      BY <2>2, <3>2 DEF OnceInv, KeptIsNew, IInv
    <3>6. ~Early(m)
      BY <1>1, <2>2, <3>1 DEF Early
    <3>7. QosOf[m] = 2 => m \in Released
      <4>1. DOMAIN inflight = 1..Len(inflight)
        BY DEF TypeInv
      <4> QED
        BY <3>2, <3>3, <3>6, <4>1 DEF OnceInv, WireEarly, Released, IInv
    <3> HIDE DEF m, e
    <3>8. Delivery!Deliver(m)
      BY <1>1, <1>2, <3>1, <3>3, <3>4, <3>5, <3>7 DEF Delivery!Deliver, Deliver
    <3> QED
      BY <3>2, <3>8
  <2> QED
    BY <2>1, <2>2
<1> QED
  BY <1>3, <1>4

\* The broker publishes a message: it is not released.
LEMMA SendStep ==
    ASSUME TypeInv, IInv, NEW m \in Messages, BrokerPublish(m)
    PROVE  Delivery!Send(m)
<1>1. m \notin sent /\ sent' = sent \cup {m} /\ UNCHANGED delivered
  BY DEF BrokerPublish, hubVars
<1>2. DOMAIN inflight = 1..Len(inflight) /\ inflight \in Seq(Unfinished)
  BY DEF TypeInv
<1>3. Released' = Released
  <2>1. CASE QosOf[m] # 2
    <3>1. ASSUME NEW x \in sent, QosOf[x] = 2
          PROVE  (\A i \in DOMAIN inflight' : inflight'[i].msg = x => inflight'[i].rel)
                   <=> (\A i \in DOMAIN inflight : inflight[i].msg = x => inflight[i].rel)
      <4>1. x # m
        BY <2>1, <3>1
      <4>2. CASE UNCHANGED inflight
        BY <4>2
      <4>3. CASE inflight' = Append(inflight, [msg |-> m, id |-> nextId, rel |-> FALSE])
        BY <1>2, <4>1, <4>3
      <4> QED
        BY <4>2, <4>3 DEF BrokerPublish
    <3> QED
      BY <1>1, <2>1, <3>1 DEF Released
  <2>2. CASE QosOf[m] = 2
    <3> DEFINE f == [msg |-> m, id |-> nextId, rel |-> FALSE]
    <3>1. f \in Unfinished /\ f.msg = m /\ ~f.rel
      BY DEF Unfinished, TypeInv
    <3>2. inflight' = Append(inflight, f)
      BY <2>2 DEF BrokerPublish
    <3> HIDE DEF f
    <3>3. /\ DOMAIN inflight' = 1..(Len(inflight) + 1) /\ Len(inflight) \in Nat
          /\ inflight'[Len(inflight) + 1] = f
          /\ \A k \in 1..Len(inflight) : inflight'[k] = inflight[k]
      BY <1>2, <3>1, <3>2, AppendElements
    <3>4. m \notin Released'
      BY <3>1, <3>3 DEF Released
    <3>5. ASSUME NEW x \in sent, x # m
          PROVE  (\A i \in DOMAIN inflight' : inflight'[i].msg = x => inflight'[i].rel)
                   <=> (\A i \in DOMAIN inflight : inflight[i].msg = x => inflight[i].rel)
      <4>1. \A i \in DOMAIN inflight' :
              i \in DOMAIN inflight \/ inflight'[i].msg # x
        BY <1>2, <3>1, <3>3, <3>5
      <4>2. \A i \in DOMAIN inflight : i \in DOMAIN inflight' /\ inflight'[i] = inflight[i]
        BY <1>2, <3>3
      <4> QED
        BY <4>1, <4>2
    <3> QED
      BY <1>1, <3>4, <3>5 DEF Released
  <2> QED
    BY <2>1, <2>2
<1> QED
  BY <1>1, <1>3 DEF Delivery!Send

\* The broker ends a handshake: what was released still is, and nothing else.
LEMMA EndStep ==
    ASSUME Fields, TypeInv, IInv, BrokerTake, BrokerEnds(Head(toBroker))
    PROVE  UNCHANGED Delivery!vars
<1>1. UNCHANGED <<sent, delivered>>
  BY DEF BrokerTake, hubVars
<1>2. inflight \in Seq(Unfinished) /\ DOMAIN inflight = 1..Len(inflight)
  BY DEF TypeInv
<1>3. PICK i \in 1..Len(inflight) :
        /\ QosOf[inflight[i].msg] = 2 => inflight[i].rel
        /\ inflight' = RemoveAt(inflight, i)
  BY <1>2 DEF BrokerEnds, Ends
<1>4. /\ DOMAIN inflight' = 1..(Len(inflight) - 1) /\ Len(inflight) \in Nat
      /\ \A k \in 1..Len(inflight) - 1 :
            inflight'[k] = IF k < i THEN inflight[k] ELSE inflight[k + 1]
  <2>1. /\ inflight' \in Seq(Unfinished) /\ Len(inflight') = Len(inflight) - 1
        /\ \A k \in 1..Len(inflight) - 1 :
              inflight'[k] = IF k < i THEN inflight[k] ELSE inflight[k + 1]
    BY <1>2, <1>3, RemoveAtElements
  <2>2. DOMAIN inflight' = 1..Len(inflight')
    BY <2>1
  <2> QED
    BY <1>2, <2>1, <2>2
<1>5. ASSUME NEW k \in DOMAIN inflight'
      PROVE  \E l \in DOMAIN inflight : inflight'[k] = inflight[l]
  <2>1. k \in DOMAIN inflight /\ k + 1 \in DOMAIN inflight
    BY <1>2, <1>4
  <2>2. inflight'[k] = inflight[k] \/ inflight'[k] = inflight[k + 1]
    BY <1>4
  <2> QED
    BY <2>1, <2>2
<1>6. ASSUME NEW l \in DOMAIN inflight, l # i
      PROVE  \E k \in DOMAIN inflight' : inflight'[k] = inflight[l]
  <2>1. CASE l < i
    BY <1>2, <1>4, <2>1
  <2>2. CASE l > i
    <3>1. l - 1 \in 1..Len(inflight) - 1 /\ ~(l - 1 < i) /\ (l - 1) + 1 = l
      BY <1>2, <1>4, <2>2
    <3> QED
      BY <1>4, <3>1
  <2> QED
    BY <1>2, <1>4, <1>6, <2>1, <2>2
<1>7. Released' = Released
  <2> SUFFICES ASSUME NEW m \in sent, QosOf[m] = 2
               PROVE  (\A k \in DOMAIN inflight' : inflight'[k].msg = m => inflight'[k].rel)
                        <=> (\A k \in DOMAIN inflight : inflight[k].msg = m => inflight[k].rel)
    BY <1>1 DEF Released
  <2> QED
    BY <1>3, <1>5, <1>6
<1> QED
  BY <1>1, <1>7 DEF Delivery!vars

\* The broker releases a message, if it has not before.
LEMMA ReleaseStep ==
    ASSUME Fields, TypeInv, IInv, BrokerTake, BrokerReleases(Head(toBroker))
    PROVE  \E m \in Messages : Delivery!Release(m)
<1>1. UNCHANGED <<sent, delivered>>
  BY DEF BrokerTake, hubVars
<1>2. /\ inflight \in Seq(Unfinished) /\ DOMAIN inflight = 1..Len(inflight)
      /\ \A k \in 1..Len(inflight) : inflight[k] \in Unfinished
  BY DEF TypeInv
<1>3. PICK i \in 1..Len(inflight) :
        /\ QosOf[inflight[i].msg] = 2
        /\ inflight' = [inflight EXCEPT ![i].rel = TRUE]
  BY <1>2 DEF BrokerReleases, Releases
<1> DEFINE m == inflight[i].msg
<1>4. /\ DOMAIN inflight' = 1..Len(inflight) /\ inflight'[i].msg = m /\ inflight'[i].rel
      /\ \A k \in 1..Len(inflight) : k # i => inflight'[k] = inflight[k]
  <2>1. \A k \in 1..Len(inflight) :
          inflight'[k] = IF k = i THEN [inflight[i] EXCEPT !.rel = TRUE] ELSE inflight[k]
    BY <1>2, <1>3
  <2> QED
    BY <1>2, <1>3, <2>1 DEF Unfinished
<1>5. m \in Messages /\ m \in sent
  BY IdsInRange DEF Fields, At, SentInv, IInv
<1>6. \A k \in 1..Len(inflight) : inflight[k].msg = m => k = i
  <2> SUFFICES ASSUME NEW k \in 1..Len(inflight), inflight[k].msg = m PROVE k = i
    OBVIOUS
  <2>1. inflight[k].id \in Ids /\ inflight[i].id \in Ids
    BY IdsInRange DEF Fields
  <2>2. At(m, inflight[k].id) /\ At(m, inflight[i].id)
    BY DEF At
  <2>3. inflight[k].id = inflight[i].id
    BY <1>5, <2>1, <2>2 DEF SentInv, IInv
  <2> QED
    BY <2>3 DEF SentInv, IInv
<1>7. QosOf[m] = 2
  BY <1>3
<1> HIDE DEF m
<1>8. m \in Released'
  BY <1>1, <1>4, <1>5, <1>6, <1>7 DEF Released
<1>9. \A x \in sent : x # m => (x \in Released' <=> x \in Released)
  BY <1>1, <1>2, <1>4, <1>6 DEF Released, m
<1>10. Released' = Released \cup {m}
  BY <1>1, <1>5, <1>8, <1>9 DEF Released
<1> QED
  BY <1>1, <1>5, <1>7, <1>10 DEF Delivery!Release

LEMMA NextDelivery ==
    ASSUME Inv, [Next]_vars
    PROVE  [Delivery!Next]_(Delivery!vars)
<1>0. Fields /\ TypeInv /\ IInv
  BY FieldsType DEF Inv
<1>1. CASE HubStep
  <2>1. CASE HubRxQos0 \/ HubAffirmPublish
    BY <1>0, <2>1, DeliverStep DEF Delivery!Next
  <2>2. CASE HubRxNew \/ HubRxDup \/ HubAffirmId
    BY <2>2, OtherStep DEF HubRxNew, HubRxDup, HubAffirmId, HubReads, brokerVars
  <2> QED
    BY <1>1, <2>1, <2>2 DEF HubStep
<1>2. ASSUME NEW t \in rxTasks,
             \/ TaskSend(t) \/ TaskTimeout(t) \/ TaskAffirm(t) \/ TaskComp(t)
             \/ TaskAffirmId(t)
      PROVE  UNCHANGED Delivery!vars
  BY <1>2, OtherStep
  DEF TaskSend, TaskTimeout, TaskAffirm, TaskComp, TaskAffirmId, Transmit, TaskVars,
      brokerVars
<1>3. CASE \/ NetWrite \/ NetForward \/ NetLost \/ NetConnectFail \/ HubLost
           \/ HubStartNetwork \/ NetConnected \/ UNCHANGED vars
  BY <1>3, OtherStep
  DEF NetWrite, NetForward, NetLost, NetConnectFail, HubLost, HubStartNetwork,
      NetConnected, vars, hubVars, brokerVars
<1>4. CASE \E m \in Messages : BrokerPublish(m)
  BY <1>0, <1>4, SendStep DEF Delivery!Next
<1>5. CASE BrokerTake
  <2>1. CASE BrokerIgnores(Head(toBroker))
    BY <1>5, <2>1, OtherStep DEF BrokerTake, BrokerIgnores, hubVars
  <2> QED
    BY <1>0, <1>5, <2>1, EndStep, ReleaseStep DEF BrokerTake, Delivery!Next
<1> QED
  BY <1>1, <1>2, <1>3, <1>4, <1>5 DEF Next, TaskStep

\* The user is given no message that was not sent, none of QoS 0 or QoS 2 twice and
\* none of QoS 2 before its release, over any losses (deal_hub_msg and the two tasks).
THEOREM DeliversAsPromised == Spec => ImplementsDelivery
  BY InitDelivery, SpecInv, NextDelivery, PTL DEF Spec, ImplementsDelivery, Delivery!Spec

\* A message of QoS 2 reaches the user at most once (rx_publish_id, deal_hub_msg).
THEOREM DeliveredOnce == Spec => []DeliveredAtMostOnce
<1>1. Init => DeliveredAtMostOnce
  BY DEF Init, DeliveredAtMostOnce
<1>2. ASSUME TypeInv, DeliveredAtMostOnce, [Delivery!Next]_(Delivery!vars)
      PROVE  DeliveredAtMostOnce'
  <2>1. ASSUME NEW m \in Messages, Delivery!Deliver(m) PROVE DeliveredAtMostOnce'
    BY <1>2, <2>1 DEF Delivery!Deliver, DeliveredAtMostOnce, TypeInv
  <2>2. CASE UNCHANGED delivered
    BY <1>2, <2>2 DEF DeliveredAtMostOnce
  <2> QED
    BY <1>2, <2>1, <2>2
    DEF Delivery!Next, Delivery!Send, Delivery!Release, Delivery!vars
<1>3. Inv /\ DeliveredAtMostOnce /\ [Next]_vars => DeliveredAtMostOnce'
  BY <1>2, NextDelivery DEF Inv
<1> QED
  BY <1>1, <1>3, SpecInv, PTL DEF Spec

-----------------------------------------------------------------------------
(* What the broker has been told is received.                              *)

Tracking == {m \in Messages : QosOf[m] # 0}
IdsSuffice == IsFiniteSet(Tracking) /\ Cardinality(Tracking) <= MaxBrokerId
SingleQos1 == \A m, n \in Messages : QosOf[m] = 1 /\ QosOf[n] = 1 => m = n

\* The messages the argument is about: those of QoS 2, and those of QoS 1 whose
\* PUBACK cannot be taken for that of another.
Covered(m) ==
    \/ QosOf[m] = 2
    \/ QosOf[m] = 1 /\ (MaxLosses = 0 \/ IdsSuffice \/ SingleQos1)

\* The user has got m, or rx_publish has it and it will be affirmed.
Safe(m) ==
    \/ delivered[m] > 0
    \/ \E k \in 1..Len(hubQ) :
        /\ hubQ[k].type = "AffirmRxPublish" /\ hubQ[k].id \in DOMAIN rxPublish
        /\ rxPublish[hubQ[k].id] = m
    \/ \E t \in rxTasks : t.msg = m /\ t.pc = "affirm"

InFlight(m) == \E k \in 1..Len(inflight) : inflight[k].msg = m

\* The packet that ends the handshake of m.
LastType(m) == IF QosOf[m] = 1 THEN "PubAck" ELSE "PubComp"

\* Each packet of the queue has a task that waits for its receipt.
WaitsFor(t, type) ==
    CASE type = "PubAck" -> t.pc = "receipt" /\ QosOf[t.msg] = 1
      [] type = "PubRec" -> t.pc = "receipt" /\ QosOf[t.msg] = 2
      [] type = "PubComp" -> t.pc = "compReceipt" /\ QosOf[t.msg] = 2
      [] OTHER -> FALSE
NetQInv ==
    /\ \A k \in 1..Len(netQ) : \E t \in rxTasks :
            t.id = netQ[k].id /\ t.msg = netQ[k].msg /\ WaitsFor(t, netQ[k].type)
    /\ \A k, l \in 1..Len(netQ) : netQ[k].id = netQ[l].id => k = l

\* Only a task of QoS 2 waits for PUBREL.
RoundInv == \A t \in rxTasks : t.pc \in {"await", "comp", "compReceipt"} => QosOf[t.msg] = 2

\* A packet on the wire ends a handshake only of what the client has, and what the
\* broker has no more the client has.
EndsFor(p, f) == p.id = f.id /\ p.type = LastType(f.msg)
WireInv ==
    \A k \in 1..Len(toBroker), l \in 1..Len(inflight) :
        Covered(inflight[l].msg) /\ EndsFor(toBroker[k], inflight[l])
            => Safe(inflight[l].msg)
EndedInv == \A m \in sent : Covered(m) => InFlight(m) \/ Safe(m)

\* Messages whose last packet is written once: until a task has had it written, the
\* broker has the message in flight and no such packet on the wire.
Once(m) == QosOf[m] = 2 \/ (QosOf[m] = 1 /\ MaxLosses = 0)
OnceType(type) == type = "PubComp" \/ (type = "PubAck" /\ MaxLosses = 0)
Unwritten(t) == Once(t.msg) /\ t.pc \notin {"affirm", "affirmId"}

NotEnded(m, i) ==
    /\ InFlight(m)
    /\ \A k \in 1..Len(toBroker) : toBroker[k].id = i => toBroker[k].type # LastType(m)
NotEndedInv == \A t \in rxTasks : Unwritten(t) => NotEnded(t.msg, t.id)
LateInv == \A t \in rxTasks : QosOf[t.msg] = 2 /\ t.pc \in Late => Safe(t.msg)
LastInv ==
    /\ \A k \in 1..Len(toBroker) : OnceType(toBroker[k].type) =>
            \E l \in 1..Len(inflight) : EndsFor(toBroker[k], inflight[l])
    /\ \A k, l \in 1..Len(toBroker) :
            OnceType(toBroker[k].type) /\ toBroker[k].type = toBroker[l].type
                /\ toBroker[k].id = toBroker[l].id => k = l

\* While the connection is not lost a QoS 1 message comes once.
Coming(q, m) == \E k \in 1..Len(q) : IsOf(q[k], m)
AtMostOne(q, m) == \A j, k \in 1..Len(q) : IsOf(q[j], m) /\ IsOf(q[k], m) => j = k
Untouched(m) ==
    /\ delivered[m] = 0
    /\ \A t \in rxTasks : t.msg # m
    /\ \A i \in DOMAIN rxPublish : rxPublish[i] # m
ComesOnce(m) ==
    /\ AtMostOne(hubQ, m) /\ AtMostOne(fromBroker, m)
    /\ ~(Coming(hubQ, m) /\ Coming(fromBroker, m))
    /\ Coming(hubQ, m) \/ Coming(fromBroker, m) => Untouched(m)
NoLossInv ==
    MaxLosses = 0 => conn = "up" /\ \A m \in Messages : QosOf[m] = 1 => ComesOnce(m)

\* A PUBACK on the wire is for a message that was sent.
AckInv == \A k \in 1..Len(toBroker) : toBroker[k].type = "PubAck" =>
             \E m \in sent : QosOf[m] = 1

\* While there are ids the broker gives each message its own.
SentCount == Cardinality(Tracking \cap sent)
FreshInv ==
    /\ SentCount < MaxBrokerId => nextId = SentCount + 1
    /\ \A m \in Tracking : \A i \in Ids : At(m, i) => i <= SentCount
    /\ \A m, n \in Tracking : \A i \in Ids : At(m, i) /\ At(n, i) => m = n
    /\ \A k \in 1..Len(toBroker) : toBroker[k].id <= SentCount

HeldInv ==
    /\ RoundInv /\ NetQInv /\ WireInv /\ EndedInv /\ NotEndedInv /\ LateInv /\ LastInv
    /\ NoLossInv /\ AckInv /\ (IdsSuffice => FreshInv)

LEMMA InitHeld == Init => HeldInv
<1> SUFFICES ASSUME Init PROVE HeldInv
  OBVIOUS
<1>1. /\ rxTasks = {} /\ DOMAIN rxPublish = {} /\ sent = {} /\ conn = "up"
      /\ Len(hubQ) = 0 /\ Len(fromBroker) = 0 /\ Len(inflight) = 0
      /\ Len(netQ) = 0 /\ Len(toBroker) = 0 /\ nextId = 1
      /\ 1..0 = {}
  BY DEF Init
<1>2. SentCount = 0
  <2>1. Tracking \cap sent = {}
    BY <1>1
  <2> QED
    BY <2>1, FS_EmptySet DEF SentCount
<1>3. FreshInv
  <2>1. \A m, i : ~At(m, i)
    BY <1>1 DEF At
  <2> QED
    BY <1>1, <1>2, <2>1 DEF FreshInv
<1>4. /\ RoundInv /\ NetQInv /\ WireInv /\ EndedInv /\ NotEndedInv /\ LateInv
      /\ LastInv /\ AckInv
  BY <1>1 DEF RoundInv, NetQInv, WireInv, EndedInv, NotEndedInv, LateInv, LastInv, AckInv
<1>5. NoLossInv
  BY <1>1 DEF NoLossInv, ComesOnce, Coming, AtMostOne
<1> QED
  BY <1>3, <1>4, <1>5 DEF HeldInv

\* The fields of what goes out.
OutFields ==
    /\ \A k \in 1..Len(netQ) :
        /\ netQ[k].type \in PacketTypes /\ netQ[k].id \in BrokerIds
        /\ netQ[k].msg \in Messages
    /\ \A k \in 1..Len(toBroker) : toBroker[k].id \in BrokerIds
    /\ Len(netQ) \in Nat /\ Len(toBroker) \in Nat

LEMMA OutFieldsType == TypeInv => OutFields
<1> SUFFICES ASSUME TypeInv PROVE OutFields
  OBVIOUS
<1>1. /\ netQ \in Seq(ToWrite) /\ \A k \in 1..Len(netQ) : netQ[k] \in ToWrite
      /\ toBroker \in Seq(Packets) /\ \A k \in 1..Len(toBroker) : toBroker[k] \in Packets
  BY DEF TypeInv
<1> QED
  BY <1>1 DEF OutFields, ToWrite, Packets

-----------------------------------------------------------------------------
(* What the client has it keeps until the user gets it.                    *)

LEMMA SafeStays ==
    ASSUME NEW m, Safe(m),
           delivered[m] > 0 => delivered'[m] > 0,
           \A k \in 1..Len(hubQ) :
              /\ hubQ[k].type = "AffirmRxPublish" /\ hubQ[k].id \in DOMAIN rxPublish
              /\ rxPublish[hubQ[k].id] = m
                => Safe(m)',
           \A t \in rxTasks : t.msg = m /\ t.pc = "affirm" => Safe(m)'
    PROVE  Safe(m)'
  BY DEF Safe

LEMMA HubKeepsSafe ==
    ASSUME Fields, TypeInv, IInv, HubStep, NEW m \in Messages, Safe(m)
    PROVE  Safe(m)'
<1>1. OneTask /\ KeepsPublish /\ AffirmsInUse /\ delivered \in [Messages -> Nat]
  BY DEF IInv, HandshakeInv, TypeInv
<1>2. ASSUME NEW type, HubReads(type)
      PROVE  /\ HubTakes(type) /\ Head(hubQ) = hubQ[1] /\ hubQ[1].type = type
             /\ \A k \in 1..Len(hubQ) :
                   k = 1 \/ \E j \in 1..Len(hubQ') : hubQ'[j] = hubQ[k]
  <2>1. HubTakes(type)
    BY <1>2, HubReadsTakes
  <2>2. ASSUME NEW k \in 1..Len(hubQ), k # 1
        PROVE  \E j \in 1..Len(hubQ') : hubQ'[j] = hubQ[k]
    <3>1. k - 1 \in 1..Len(hubQ') /\ (k - 1) + 1 = k
      BY <2>1, <2>2 DEF HubTakes, Fields
    <3> QED
      BY <2>1, <3>1 DEF HubTakes
  <2> QED
    BY <2>1, <2>2 DEF HubTakes
<1>3. ASSUME NEW type, HubReads(type), type # "AffirmRxPublish",
             rxTasks \subseteq rxTasks', delivered[m] > 0 => delivered'[m] > 0,
             \A i \in DOMAIN rxPublish : i \in rxIds =>
                i \in DOMAIN rxPublish' /\ rxPublish'[i] = rxPublish[i]
      PROVE  Safe(m)'
  <2>1. ASSUME NEW k \in 1..Len(hubQ), hubQ[k].type = "AffirmRxPublish",
               hubQ[k].id \in DOMAIN rxPublish, rxPublish[hubQ[k].id] = m
        PROVE  Safe(m)'
    <3>1. hubQ[k].id \in rxIds
      BY <1>1, <2>1 DEF AffirmsInUse
    <3>2. PICK j \in 1..Len(hubQ') : hubQ'[j] = hubQ[k]
      BY <1>2, <1>3, <2>1
    <3> QED
      BY <1>3, <2>1, <3>1, <3>2 DEF Safe
  <2>2. ASSUME NEW t \in rxTasks, t.msg = m, t.pc = "affirm" PROVE Safe(m)'
    BY <1>3, <2>2 DEF Safe
  <2> QED
    BY <1>3, <2>1, <2>2 DEF Safe
<1>4. ASSUME NEW x, Deliver(x) PROVE delivered[m] > 0 => delivered'[m] > 0
  BY <1>1, <1>4 DEF Deliver
<1>5. CASE HubRxQos0
  BY <1>3, <1>4, <1>5 DEF HubRxQos0
<1>6. CASE HubRxDup
  BY <1>3, <1>6 DEF HubRxDup
<1>7. CASE HubAffirmId
  BY <1>3, <1>7 DEF HubAffirmId
<1>8. CASE HubRxNew
  <2>1. /\ HubReads("Publish") /\ UNCHANGED delivered /\ rxTasks \subseteq rxTasks'
        /\ \A i \in DOMAIN rxPublish : i \in rxIds =>
             i \in DOMAIN rxPublish' /\ rxPublish'[i] = rxPublish[i]
    BY <1>8 DEF HubRxNew, IsDup
  <2> QED
    BY <1>3, <2>1
<1>9. CASE HubAffirmPublish
  <2> DEFINE id0 == hubQ[1].id
  <2>1. /\ HubReads("AffirmRxPublish") /\ UNCHANGED rxTasks
        /\ Head(hubQ) = hubQ[1]
    BY <1>2, <1>9 DEF HubAffirmPublish
  <2>2. CASE id0 \in DOMAIN rxPublish
    <3>1. /\ delivered' = [delivered EXCEPT ![rxPublish[id0]] = @ + 1]
          /\ rxPublish' = [i \in DOMAIN rxPublish \ {id0} |-> rxPublish[i]]
      BY <1>9, <2>1, <2>2 DEF HubAffirmPublish, Deliver
    <3> HIDE DEF id0
    <3>2. CASE rxPublish[id0] = m
      BY <1>1, <3>1, <3>2 DEF Safe
    <3>3. CASE rxPublish[id0] # m
      <4>1. delivered'[m] = delivered[m]
        BY <1>1, <3>1, <3>3
      <4>2. ASSUME NEW k \in 1..Len(hubQ), hubQ[k].type = "AffirmRxPublish",
                   hubQ[k].id \in DOMAIN rxPublish, rxPublish[hubQ[k].id] = m
            PROVE  Safe(m)'
        <5>1. hubQ[k].id # id0 /\ k # 1
          BY <3>3, <4>2 DEF id0
        <5>2. PICK j \in 1..Len(hubQ') : hubQ'[j] = hubQ[k]
          BY <1>2, <2>1, <5>1
        <5>3. hubQ'[j].id \in DOMAIN rxPublish' /\ rxPublish'[hubQ'[j].id] = m
          BY <3>1, <4>2, <5>1, <5>2
        <5> QED
          BY <4>2, <5>2, <5>3 DEF Safe
      <4> QED
        BY <2>1, <4>1, <4>2, SafeStays DEF Safe
    <3> QED
      BY <3>2, <3>3
  <2>3. CASE id0 \notin DOMAIN rxPublish
    <3>1. UNCHANGED <<delivered, rxPublish>>
      BY <1>9, <2>1, <2>3 DEF HubAffirmPublish
    <3>2. ASSUME NEW k \in 1..Len(hubQ), hubQ[k].type = "AffirmRxPublish",
                 hubQ[k].id \in DOMAIN rxPublish, rxPublish[hubQ[k].id] = m
          PROVE  Safe(m)'
      <4>1. PICK j \in 1..Len(hubQ') : hubQ'[j] = hubQ[k]
        BY <1>2, <2>1, <2>3, <3>2
      <4> QED
        BY <3>1, <3>2, <4>1 DEF Safe
    <3> QED
      BY <2>1, <3>1, <3>2, SafeStays DEF Safe
  <2> QED
    BY <2>2, <2>3
<1> QED
  BY <1>5, <1>6, <1>7, <1>8, <1>9 DEF HubStep

LEMMA TasksKeepSafe ==
    ASSUME Fields, TypeInv, IInv, NEW m \in Messages, Safe(m), NEW t \in rxTasks,
           \/ TaskSend(t) \/ TaskTimeout(t) \/ TaskAffirm(t) \/ TaskComp(t)
           \/ TaskAffirmId(t)
    PROVE  Safe(m)'
<1>1. CASE TaskSend(t) \/ TaskTimeout(t) \/ TaskComp(t)
  <2>1. UNCHANGED <<hubQ, rxPublish, delivered>>
    BY <1>1 DEF TaskSend, TaskTimeout, TaskComp, Transmit, TaskVars
  <2>2. \A v \in rxTasks : v.pc = "affirm" => v \in rxTasks'
    BY <1>1 DEF TaskSend, TaskTimeout, TaskComp, Transmit, Become
  <2> QED
    BY <2>1, <2>2 DEF Safe
<1>2. ASSUME NEW type \in {"AffirmRxPublish", "AffirmRxId"},
             hubQ' = Append(hubQ, Packet(type, t.id)), UNCHANGED TaskVars,
             \A v \in rxTasks : v # t => v \in rxTasks',
             t.pc = "affirm" => type = "AffirmRxPublish"
      PROVE  Safe(m)'
  <2>1. HubGets(Packet(type, t.id)) /\ Packet(type, t.id).type = type
        /\ Packet(type, t.id).id = t.id
    BY <1>2, HubGetsPacket
  <2>2. /\ UNCHANGED <<rxPublish, delivered>>
        /\ \A k \in 1..Len(hubQ) : k \in 1..Len(hubQ') /\ hubQ'[k] = hubQ[k]
        /\ Len(hubQ) + 1 \in 1..Len(hubQ')
        /\ hubQ'[Len(hubQ) + 1].type = type /\ hubQ'[Len(hubQ) + 1].id = t.id
    BY <2>1 DEF HubGets, Fields
  <2>3. ASSUME t.msg = m, t.pc = "affirm" PROVE Safe(m)'
    <3>1. t.id \in DOMAIN rxPublish /\ rxPublish[t.id] = m
      BY <2>3 DEF IInv, HandshakeInv, KeepsPublish, Late
    <3> QED
      BY <1>2, <2>2, <2>3, <3>1 DEF Safe
  <2> QED
    BY <1>2, <2>2, <2>3 DEF Safe
<1>3. CASE TaskAffirm(t)
  BY <1>2, <1>3 DEF TaskAffirm, Become
<1>4. CASE TaskAffirmId(t)
  BY <1>2, <1>4 DEF TaskAffirmId
<1> QED
  BY <1>1, <1>3, <1>4

LEMMA NetKeepsSafe ==
    ASSUME Fields, TypeInv, NEW m \in Messages, Safe(m),
           \/ NetWrite \/ NetForward \/ NetLost \/ NetConnectFail \/ HubLost
           \/ HubStartNetwork \/ NetConnected \/ BrokerTake
           \/ \E x \in Messages : BrokerPublish(x)
           \/ UNCHANGED vars
    PROVE  Safe(m)'
<1>1. ASSUME UNCHANGED <<hubQ, rxPublish, delivered>>,
             \A t \in rxTasks : t.pc = "affirm" =>
                \E u \in rxTasks' : u.msg = t.msg /\ u.pc = "affirm"
      PROVE  Safe(m)'
  BY <1>1 DEF Safe
<1>2. CASE NetWrite
  <2>1. ASSUME NEW t \in rxTasks, t.pc = "affirm"
        PROVE  AtPc(t, AfterReceipt(t)).msg = t.msg /\ AtPc(t, AfterReceipt(t)).pc = "affirm"
    <3>1. t \in RxTasks /\ AfterReceipt(t) = "affirm" /\ "affirm" \in Pcs
      BY <2>1 DEF Fields, AfterReceipt, Pcs
    <3> QED
      BY <3>1, TaskType
  <2>2. rxTasks' = {IF t.id = Head(netQ).id /\ t.msg = Head(netQ).msg
                    THEN AtPc(t, AfterReceipt(t)) ELSE t : t \in rxTasks}
    BY <1>2 DEF NetWrite
  <2>3. \A t \in rxTasks : t.pc = "affirm" =>
          \E u \in rxTasks' : u.msg = t.msg /\ u.pc = "affirm"
    BY <2>1, <2>2
  <2> QED
    BY <1>1, <1>2, <2>3 DEF NetWrite, hubVars
<1>3. CASE NetForward
  <2>1. CASE Head(fromBroker).type = "Publish"
    <3>1. /\ hubQ' = Append(hubQ, Head(fromBroker))
          /\ UNCHANGED <<rxTasks, rxPublish, delivered>>
      BY <1>3, <2>1 DEF NetForward
    <3>2. Head(fromBroker) \in HubEvents
      <4>1. fromBroker \in Seq(FromBroker) /\ fromBroker # <<>>
        BY <1>3 DEF NetForward, TypeInv
      <4>2. Head(fromBroker) \in FromBroker
        BY <4>1, TailElements
      <4> QED
        BY <2>1, <4>2, PublishType DEF HubEvents
    <3>3. \A k \in 1..Len(hubQ) : k \in 1..Len(hubQ') /\ hubQ'[k] = hubQ[k]
      <4>1. hubQ \in Seq(HubEvents)
        BY DEF TypeInv
      <4> QED
        BY <3>1, <3>2, <4>1, AppendElements
    <3> QED
      BY <3>1, <3>3 DEF Safe
  <2>2. CASE Head(fromBroker).type # "Publish"
    <3>1. /\ UNCHANGED <<hubQ, rxPublish, delivered>>
          /\ rxTasks' = {IF t.id = Head(fromBroker).id /\ QosOf[t.msg] = 2
                         THEN [t EXCEPT !.acked = TRUE] ELSE t : t \in rxTasks}
      BY <1>3, <2>2 DEF NetForward
    <3>2. \A t \in rxTasks : /\ [t EXCEPT !.acked = TRUE].msg = t.msg
                             /\ [t EXCEPT !.acked = TRUE].pc = t.pc
      BY DEF Fields, RxTasks
    <3>3. \A t \in rxTasks : t.pc = "affirm" =>
            \E u \in rxTasks' : u.msg = t.msg /\ u.pc = "affirm"
      BY <3>1, <3>2
    <3> QED
      BY <1>1, <3>1, <3>3
  <2> QED
    BY <2>1, <2>2
<1>4. CASE NetLost \/ NetConnectFail
  BY <1>1, <1>4 DEF NetLost, NetConnectFail, WithoutQueued, hubVars
<1>5. CASE HubLost \/ HubStartNetwork \/ NetConnected \/ UNCHANGED vars
  BY <1>1, <1>5 DEF HubLost, HubStartNetwork, NetConnected, vars, hubVars
<1>6. CASE BrokerTake \/ \E x \in Messages : BrokerPublish(x)
  BY <1>1, <1>6 DEF BrokerTake, BrokerPublish, hubVars
<1> QED
  BY <1>2, <1>3, <1>4, <1>5, <1>6

LEMMA SafeKept ==
    ASSUME Fields, TypeInv, IInv, [Next]_vars
    PROVE  \A m \in Messages : Safe(m) => Safe(m)'
  BY HubKeepsSafe, TasksKeepSafe, NetKeepsSafe DEF Next, TaskStep

-----------------------------------------------------------------------------
(* The queue of the TaskNetwork.                                           *)

LEMMA NetQRests ==
    ASSUME OutFields, NetQInv, netQ' = netQ \/ netQ' = <<>>,
           netQ' = <<>> \/
           \A t \in rxTasks : t.pc \in {"receipt", "compReceipt"} =>
                \E u \in rxTasks' : u.msg = t.msg /\ u.id = t.id /\ u.pc = t.pc
    PROVE  NetQInv'
<1>1. CASE netQ' = <<>>
  BY <1>1 DEF NetQInv
<1>2. CASE netQ' = netQ /\ netQ' # <<>>
  <2>1. ASSUME NEW k \in 1..Len(netQ')
        PROVE  \E u \in rxTasks' :
                  u.id = netQ'[k].id /\ u.msg = netQ'[k].msg /\ WaitsFor(u, netQ'[k].type)
    <3>1. PICK t \in rxTasks :
            t.id = netQ[k].id /\ t.msg = netQ[k].msg /\ WaitsFor(t, netQ[k].type)
      BY <1>2 DEF NetQInv
    <3>2. t.pc \in {"receipt", "compReceipt"}
      BY <3>1 DEF WaitsFor
    <3>3. PICK u \in rxTasks' : u.msg = t.msg /\ u.id = t.id /\ u.pc = t.pc
      BY <1>2, <3>2
    <3> QED
      BY <1>2, <3>1, <3>3 DEF WaitsFor
  <2> QED
    BY <1>2, <2>1 DEF NetQInv
<1> QED
  BY <1>1, <1>2

LEMMA TransmitNetQ ==
    ASSUME TypeInv, OutFields, OneTask, NetQInv, NEW t \in rxTasks,
           t.pc \notin {"receipt", "compReceipt"},
           NEW type \in PacketTypes, NEW u, u.msg = t.msg, u.id = t.id,
           WaitsFor(u, type), Transmit(t, type, u)
    PROVE  NetQInv'
<1>1. CASE conn \in {"up", "connecting"}
  <2> DEFINE p == [type |-> type, id |-> t.id, msg |-> t.msg]
  <2>1. p \in ToWrite /\ p.type = type /\ p.id = t.id /\ p.msg = t.msg
    BY DEF TypeInv, RxTasks, ToWrite
  <2>2. netQ' = Append(netQ, p) /\ rxTasks' = (rxTasks \ {t}) \cup {u}
    BY <1>1 DEF Transmit, Become
  <2> HIDE DEF p
  <2>3. /\ Len(netQ) \in Nat /\ Len(netQ') = Len(netQ) + 1
        /\ netQ'[Len(netQ) + 1] = p
        /\ \A k \in 1..Len(netQ) : netQ'[k] = netQ[k]
    <3>1. netQ \in Seq(ToWrite)
      BY DEF TypeInv
    <3> QED
      BY <2>1, <2>2, <3>1, AppendElements
  <2>4. ASSUME NEW k \in 1..Len(netQ)
        PROVE  /\ netQ[k].id # t.id
               /\ \E v \in rxTasks' :
                   v.id = netQ[k].id /\ v.msg = netQ[k].msg /\ WaitsFor(v, netQ[k].type)
    <3>1. PICK v \in rxTasks :
            v.id = netQ[k].id /\ v.msg = netQ[k].msg /\ WaitsFor(v, netQ[k].type)
      BY DEF NetQInv
    <3>2. v # t
      BY <3>1 DEF WaitsFor
    <3>3. v \in rxTasks' /\ v.id # t.id
      BY <2>2, <3>2 DEF OneTask
    <3> QED
      BY <3>1, <3>3
  <2>5. \A k \in 1..Len(netQ') : k \in 1..Len(netQ) \/ k = Len(netQ) + 1
    BY <2>3
  <2>6. \A k \in 1..Len(netQ') : \E v \in rxTasks' :
            v.id = netQ'[k].id /\ v.msg = netQ'[k].msg /\ WaitsFor(v, netQ'[k].type)
    BY <2>1, <2>2, <2>3, <2>4, <2>5
  <2>7. \A k, l \in 1..Len(netQ') : netQ'[k].id = netQ'[l].id => k = l
    BY <2>1, <2>3, <2>4, <2>5 DEF NetQInv
  <2> QED
    BY <2>6, <2>7 DEF NetQInv
<1>2. CASE conn \notin {"up", "connecting"}
  <2>1. netQ' = netQ /\ rxTasks' = rxTasks \ {t}
    BY <1>2 DEF Transmit
  <2> QED
    BY <2>1, NetQRests
<1> QED
  BY <1>1, <1>2

\* The TaskNetwork writes the packet that t waits for.
Writes(t, type) ==
    /\ t \in rxTasks /\ WaitsFor(t, type) /\ type \in PacketTypes
    /\ rxTasks' = (rxTasks \ {t}) \cup {AtPc(t, AfterReceipt(t))}
    /\ Len(toBroker') = Len(toBroker) + 1
    /\ \A k \in 1..Len(toBroker) : toBroker'[k] = toBroker[k]
    /\ toBroker'[Len(toBroker) + 1].type = type
    /\ toBroker'[Len(toBroker) + 1].id = t.id
    /\ UNCHANGED <<conn, hubQ, rxPublish, rxIds, delivered, fromBroker, inflight,
                   sent, nextId>>

LEMMA NetWriteStep ==
    ASSUME TypeInv, OutFields, OneTask, NetQInv, NetWrite
    PROVE  /\ NetQInv'
           /\ \E t \in rxTasks : \E type \in PacketTypes : Writes(t, type)
<1>1. /\ netQ \in Seq(ToWrite) /\ netQ # <<>> /\ netQ' = Tail(netQ)
      /\ toBroker \in Seq(Packets) /\ \A t \in rxTasks : t \in RxTasks
  BY DEF NetWrite, TypeInv
<1>2. PICK p \in ToWrite : p = netQ[1]
  BY <1>1
<1>3. /\ Head(netQ) = p /\ 1 \in 1..Len(netQ) /\ Len(netQ') = Len(netQ) - 1
      /\ \A k \in 1..Len(netQ') : k + 1 \in 1..Len(netQ) /\ netQ'[k] = netQ[k + 1]
  BY <1>1, <1>2, TailElements
<1>4. PICK t \in rxTasks : t.id = p.id /\ t.msg = p.msg /\ WaitsFor(t, p.type)
  BY <1>2, <1>3 DEF NetQInv
<1> DEFINE u == AtPc(t, AfterReceipt(t))
<1>5. rxTasks' = (rxTasks \ {t}) \cup {u}
  <2>1. rxTasks' = {IF v.id = p.id /\ v.msg = p.msg
                    THEN AtPc(v, AfterReceipt(v)) ELSE v : v \in rxTasks}
    BY <1>3 DEF NetWrite
  <2>2. \A v \in rxTasks : v.id = p.id /\ v.msg = p.msg <=> v = t
    BY <1>4 DEF OneTask
  <2> QED
    BY <2>1, <2>2
<1> HIDE DEF u
<1>6. NetQInv'
  <2>1. ASSUME NEW k \in 1..Len(netQ')
        PROVE  \E v \in rxTasks' :
                  v.id = netQ'[k].id /\ v.msg = netQ'[k].msg /\ WaitsFor(v, netQ'[k].type)
    <3>1. k + 1 \in 1..Len(netQ) /\ netQ'[k] = netQ[k + 1] /\ k + 1 # 1
      BY <1>3
    <3>2. PICK v \in rxTasks : /\ v.id = netQ[k + 1].id /\ v.msg = netQ[k + 1].msg
                               /\ WaitsFor(v, netQ[k + 1].type)
      BY <3>1 DEF NetQInv
    <3>3. v # t
      BY <1>2, <1>3, <1>4, <3>1, <3>2 DEF NetQInv
    <3> QED
      BY <1>5, <3>1, <3>2, <3>3
  <2>2. ASSUME NEW k \in 1..Len(netQ'), NEW l \in 1..Len(netQ'),
               netQ'[k].id = netQ'[l].id
        PROVE  k = l
    <3>1. k + 1 = l + 1
      BY <1>3, <2>2 DEF NetQInv
    <3> QED
      BY <3>1
  <2> QED
    BY <2>1, <2>2 DEF NetQInv
<1>7. /\ Packet(p.type, p.id) \in Packets /\ Packet(p.type, p.id).type = p.type
      /\ Packet(p.type, p.id).id = p.id /\ p.type \in PacketTypes
  BY DEF Packet, Packets, ToWrite
<1>8. toBroker' = Append(toBroker, Packet(p.type, p.id))
  BY <1>3 DEF NetWrite
<1>9. /\ Len(toBroker') = Len(toBroker) + 1
      /\ \A k \in 1..Len(toBroker) : toBroker'[k] = toBroker[k]
      /\ toBroker'[Len(toBroker) + 1] = Packet(p.type, p.id)
  BY <1>1, <1>7, <1>8, AppendElements
<1>10. Writes(t, p.type)
  BY <1>4, <1>5, <1>7, <1>9 DEF Writes, NetWrite, hubVars, brokerVars, u
<1> QED
  BY <1>4, <1>6, <1>7, <1>10

LEMMA RoundKept ==
    ASSUME Fields, TypeInv, IInv, RoundInv, [Next]_vars
    PROVE  RoundInv'
<1>0. KeepsPublish /\ \A t \in rxTasks : t \in RxTasks /\ QosOf[t.msg] \in {1, 2}
  BY DEF IInv, HandshakeInv, KeepsPublish, Fields
<1> DEFINE Rounds(u) == u.pc \in {"await", "comp", "compReceipt"} => QosOf[u.msg] = 2
<1>1. ASSUME NEW t \in rxTasks, NEW u, Rounds(u), rxTasks' \subseteq (rxTasks \ {t}) \cup {u}
      PROVE  RoundInv'
  BY <1>1 DEF RoundInv
<1>2. ASSUME rxTasks' \subseteq rxTasks PROVE RoundInv'
  BY <1>2 DEF RoundInv
<1>3. ASSUME NEW t \in rxTasks, NEW pc \in Pcs,
             pc \in {"await", "comp", "compReceipt"} => QosOf[t.msg] = 2
      PROVE  Rounds(AtPc(t, pc))
  BY <1>0, <1>3, TaskType
<1>4. CASE HubStep
  <2>1. CASE HubRxNew
    <3>1. rxTasks' = rxTasks \cup {NewTask(Head(hubQ).msg, Head(hubQ).id)}
      BY <2>1 DEF HubRxNew
    <3>2. NewTask(Head(hubQ).msg, Head(hubQ).id).pc = "send"
      BY DEF NewTask
    <3> QED
      BY <3>1, <3>2 DEF RoundInv
  <2> QED
    BY <1>2, <1>4, <2>1
    DEF HubStep, HubRxQos0, HubRxDup, HubAffirmPublish, HubAffirmId
<1>5. ASSUME NEW t \in rxTasks,
             \/ TaskSend(t) \/ TaskTimeout(t) \/ TaskAffirm(t) \/ TaskComp(t)
             \/ TaskAffirmId(t)
      PROVE  RoundInv'
  <2>0. "receipt" \in Pcs /\ "comp" \in Pcs /\ "compReceipt" \in Pcs /\ "affirmId" \in Pcs
    BY DEF Pcs
  <2>1. ASSUME NEW type, NEW u, Rounds(u), Transmit(t, type, u) PROVE RoundInv'
    <3>1. rxTasks' \subseteq (rxTasks \ {t}) \cup {u}
      BY <2>1 DEF Transmit, Become
    <3> QED
      BY <1>1, <2>1, <3>1
  <2>2. CASE TaskSend(t)
    <3>1. Rounds(AtPc(t, "receipt"))
      BY <1>3, <2>0
    <3> QED
      BY <2>1, <2>2, <3>1 DEF TaskSend
  <2>3. CASE TaskTimeout(t)
    <3>1. Rounds([t EXCEPT !.pc = "receipt", !.resends = @ + 1])
      BY <1>0 DEF RxTasks
    <3> QED
      BY <2>1, <2>3, <3>1 DEF TaskTimeout
  <2>4. CASE TaskComp(t)
    <3>1. Rounds(AtPc(t, "compReceipt"))
      BY <1>3, <2>0, <2>4 DEF TaskComp, RoundInv
    <3> QED
      BY <2>1, <2>4, <3>1 DEF TaskComp
  <2>5. CASE TaskAffirm(t)
    <3> DEFINE pc == IF QosOf[t.msg] = 1 THEN "affirmId" ELSE "comp"
    <3>1. Rounds(AtPc(t, pc))
      BY <1>0, <1>3, <2>0
    <3>2. rxTasks' = (rxTasks \ {t}) \cup {AtPc(t, pc)}
      BY <2>5 DEF TaskAffirm, Become
    <3> HIDE DEF pc
    <3> QED
      BY <1>1, <3>1, <3>2
  <2>6. CASE TaskAffirmId(t)
    BY <1>2, <2>6 DEF TaskAffirmId
  <2> QED
    BY <1>5, <2>2, <2>3, <2>4, <2>5, <2>6
<1>6. CASE NetWrite
  <2>1. ASSUME NEW t \in rxTasks PROVE Rounds(AtPc(t, AfterReceipt(t)))
    <3>1. AfterReceipt(t) \in Pcs
      BY <1>0 DEF AfterReceipt, Pcs, RxTasks
    <3>2. AfterReceipt(t) \in {"await", "comp", "compReceipt"} => QosOf[t.msg] = 2
      BY DEF AfterReceipt, RoundInv
    <3> QED
      BY <1>3, <3>1, <3>2
  <2>2. rxTasks' = {IF t.id = Head(netQ).id /\ t.msg = Head(netQ).msg
                    THEN AtPc(t, AfterReceipt(t)) ELSE t : t \in rxTasks}
    BY <1>6 DEF NetWrite
  <2> QED
    BY <2>1, <2>2 DEF RoundInv
<1>7. CASE NetForward
  <2>1. \A t \in rxTasks : Rounds([t EXCEPT !.acked = TRUE])
    BY <1>0 DEF RoundInv, RxTasks
  <2>2. \/ rxTasks' = rxTasks
        \/ rxTasks' = {IF t.id = Head(fromBroker).id /\ QosOf[t.msg] = 2
                       THEN [t EXCEPT !.acked = TRUE] ELSE t : t \in rxTasks}
    BY <1>7 DEF NetForward
  <2>3. \A u \in rxTasks' : u \in rxTasks \/ \E t \in rxTasks : u = [t EXCEPT !.acked = TRUE]
    BY <2>2
  <2>4. \A u \in rxTasks' : Rounds(u)
    BY <2>1, <2>3 DEF RoundInv
  <2> QED
    BY <2>4 DEF RoundInv
<1>8. CASE \/ NetLost \/ NetConnectFail \/ HubLost \/ HubStartNetwork \/ NetConnected
           \/ BrokerTake \/ (\E m \in Messages : BrokerPublish(m)) \/ UNCHANGED vars
  BY <1>2, <1>8 DEF NetLost, NetConnectFail, WithoutQueued, HubLost, HubStartNetwork,
                    NetConnected, BrokerTake, BrokerPublish, vars
<1> QED
  BY <1>4, <1>5, <1>6, <1>7, <1>8 DEF Next, TaskStep

LEMMA NetQKept ==
    ASSUME Fields, TypeInv, OutFields, IInv, RoundInv, NetQInv, [Next]_vars
    PROVE  NetQInv'
<1>0. OneTask /\ KeepsPublish
  BY DEF IInv, HandshakeInv
<1>1. CASE HubStep
  <2>1. netQ' = netQ
    BY <1>1 DEF HubStep, HubRxQos0, HubRxNew, HubRxDup, HubAffirmPublish, HubAffirmId,
                HubReads
  <2>2. rxTasks \subseteq rxTasks'
    BY <1>1 DEF HubStep, HubRxQos0, HubRxNew, HubRxDup, HubAffirmPublish, HubAffirmId
  <2> QED
    BY <2>1, <2>2, NetQRests
<1>2. ASSUME NEW t \in rxTasks, TaskSend(t) \/ TaskTimeout(t) \/ TaskComp(t)
      PROVE  NetQInv'
  <2>0. t \in RxTasks /\ QosOf[t.msg] \in {1, 2}
    BY <1>0 DEF Fields, KeepsPublish
  <2>1. CASE TaskSend(t)
    <3> DEFINE type == IF QosOf[t.msg] = 1 THEN "PubAck" ELSE "PubRec"
               u == AtPc(t, "receipt")
    <3>1. u.msg = t.msg /\ u.id = t.id /\ u.pc = "receipt"
      BY <2>0, TaskType DEF Pcs
    <3>2. Transmit(t, type, u) /\ t.pc = "send" /\ type \in PacketTypes
      BY <2>1 DEF TaskSend, PacketTypes
    <3>3. WaitsFor(u, type)
      BY <2>0, <3>1 DEF WaitsFor
    <3> HIDE DEF u, type
    <3> QED
      BY <1>0, <3>1, <3>2, <3>3, TransmitNetQ
  <2>2. CASE TaskTimeout(t)
    <3> DEFINE u == [t EXCEPT !.pc = "receipt", !.resends = @ + 1]
    <3>1. u.msg = t.msg /\ u.id = t.id /\ u.pc = "receipt"
      BY <2>0 DEF RxTasks
    <3>2. Transmit(t, "PubRec", u) /\ t.pc = "await" /\ "PubRec" \in PacketTypes
      BY <2>2 DEF TaskTimeout, PacketTypes
    <3> HIDE DEF u
    <3>3. WaitsFor(u, "PubRec")
      BY <3>1, <3>2 DEF WaitsFor, RoundInv
    <3> QED
      BY <1>0, <3>1, <3>2, <3>3, TransmitNetQ
  <2>3. CASE TaskComp(t)
    <3> DEFINE u == AtPc(t, "compReceipt")
    <3>1. u.msg = t.msg /\ u.id = t.id /\ u.pc = "compReceipt"
      BY <2>0, TaskType DEF Pcs
    <3>2. Transmit(t, "PubComp", u) /\ t.pc = "comp" /\ "PubComp" \in PacketTypes
      BY <2>3 DEF TaskComp, PacketTypes
    <3> HIDE DEF u
    <3>3. WaitsFor(u, "PubComp")
      BY <3>1, <3>2 DEF WaitsFor, RoundInv
    <3> QED
      BY <1>0, <3>1, <3>2, <3>3, TransmitNetQ
  <2> QED
    BY <1>2, <2>1, <2>2, <2>3
<1>3. ASSUME NEW t \in rxTasks, TaskAffirm(t) \/ TaskAffirmId(t)
      PROVE  NetQInv'
  <2>1. netQ' = netQ /\ t.pc \notin {"receipt", "compReceipt"}
    BY <1>3 DEF TaskAffirm, TaskAffirmId, MayAffirm
  <2>2. rxTasks \ {t} \subseteq rxTasks'
    BY <1>3 DEF TaskAffirm, TaskAffirmId, Become
  <2> QED
    BY <2>1, <2>2, NetQRests
<1>4. CASE NetWrite
  BY <1>0, <1>4, NetWriteStep
<1>5. CASE NetForward
  <2>1. /\ netQ' = netQ
        /\ \/ rxTasks' = rxTasks
           \/ rxTasks' = {IF t.id = Head(fromBroker).id /\ QosOf[t.msg] = 2
                          THEN [t EXCEPT !.acked = TRUE] ELSE t : t \in rxTasks}
    BY <1>5 DEF NetForward
  <2>2. \A t \in rxTasks : LET u == [t EXCEPT !.acked = TRUE] IN
            u.msg = t.msg /\ u.id = t.id /\ u.pc = t.pc
    BY DEF Fields, RxTasks
  <2>3. \A t \in rxTasks : \E u \in rxTasks' : u.msg = t.msg /\ u.id = t.id /\ u.pc = t.pc
    BY <2>1, <2>2
  <2> QED
    BY <2>1, <2>3, NetQRests
<1>6. CASE NetLost \/ NetConnectFail
  BY <1>6, NetQRests DEF NetLost, NetConnectFail
<1>7. CASE \/ HubLost \/ HubStartNetwork \/ NetConnected \/ BrokerTake
           \/ (\E m \in Messages : BrokerPublish(m)) \/ UNCHANGED vars
  <2>1. netQ' = netQ /\ rxTasks' = rxTasks
    BY <1>7 DEF HubLost, HubStartNetwork, NetConnected, BrokerTake, BrokerPublish, vars
  <2> QED
    BY <2>1, NetQRests
<1> QED
  BY <1>1, <1>2, <1>3, <1>4, <1>5, <1>6, <1>7 DEF Next, TaskStep

-----------------------------------------------------------------------------
(* Steps in which the broker publishes nothing and takes nothing.          *)

BrokerRests ==
    /\ UNCHANGED <<inflight, sent>>
    /\ toBroker' = toBroker \/ toBroker' = <<>>
    /\ \A u \in rxTasks' : \E t \in rxTasks :
        /\ u.msg = t.msg /\ u.id = t.id
        /\ Unwritten(u) => Unwritten(t)
        /\ QosOf[t.msg] = 2 /\ u.pc \in Late => t.pc \in Late \/ Safe(t.msg)'

\* The invariant of what is on the way to the broker.
EndInv == WireInv /\ EndedInv /\ NotEndedInv /\ LateInv /\ LastInv

LEMMA RestsKeeps ==
    ASSUME Fields, TypeInv, EndInv, BrokerRests,
           \A m \in Messages : Safe(m) => Safe(m)'
    PROVE  EndInv'
<1>1. /\ UNCHANGED <<inflight, sent>>
      /\ \A k \in 1..Len(toBroker') : k \in 1..Len(toBroker) /\ toBroker'[k] = toBroker[k]
  BY DEF BrokerRests
<1>2. \A m : InFlight(m)' <=> InFlight(m)
  BY <1>1 DEF InFlight
<1>3. WireInv'
  BY <1>1 DEF EndInv, WireInv, Fields
<1>4. EndedInv'
  <2>1. sent' \subseteq sent
    BY <1>1
  <2> SUFFICES ASSUME NEW m \in sent, Covered(m) PROVE InFlight(m)' \/ Safe(m)'
    BY <2>1 DEF EndedInv
  <2>2. m \in Messages
    BY DEF TypeInv
  <2> QED
    BY <1>2, <2>2 DEF EndInv, EndedInv
<1>5. NotEndedInv'
  <2> SUFFICES ASSUME NEW u \in rxTasks', Unwritten(u) PROVE NotEnded(u.msg, u.id)'
    BY DEF NotEndedInv
  <2>1. PICK t \in rxTasks : u.msg = t.msg /\ u.id = t.id /\ (Unwritten(u) => Unwritten(t))
    BY DEF BrokerRests
  <2>2. NotEnded(u.msg, u.id)
    BY <2>1 DEF EndInv, NotEndedInv
  <2> QED
    BY <1>1, <1>2, <2>2 DEF NotEnded
<1>6. LateInv'
  <2> SUFFICES ASSUME NEW u \in rxTasks', QosOf[u.msg] = 2, u.pc \in Late
               PROVE  Safe(u.msg)'
    BY DEF LateInv
  <2>1. PICK t \in rxTasks : /\ u.msg = t.msg
                             /\ t.pc \in Late \/ Safe(t.msg)'
    BY DEF BrokerRests
  <2>2. t.msg \in Messages
    BY DEF Fields
  <2> QED
    BY <2>1, <2>2 DEF EndInv, LateInv
<1>7. LastInv'
  BY <1>1 DEF EndInv, LastInv
<1> QED
  BY <1>3, <1>4, <1>5, <1>6, <1>7 DEF EndInv

\* A task that goes on before it has had the last packet of its handshake written.
LEMMA TaskRests ==
    ASSUME NEW t \in rxTasks, NEW u, u.msg = t.msg, u.id = t.id,
           Unwritten(u) => Unwritten(t),
           QosOf[t.msg] = 2 /\ u.pc \in Late => t.pc \in Late \/ Safe(t.msg)',
           rxTasks' \subseteq (rxTasks \ {t}) \cup {u}, UNCHANGED <<inflight, sent, toBroker>>
    PROVE  BrokerRests
  BY DEF BrokerRests

LEMMA StepRests ==
    ASSUME Fields, TypeInv, IInv, RoundInv,
           \/ HubRxQos0 \/ HubRxDup \/ HubAffirmPublish \/ HubAffirmId
           \/ NetForward \/ NetLost \/ NetConnectFail \/ HubLost \/ HubStartNetwork
           \/ NetConnected \/ UNCHANGED vars
           \/ \E t \in rxTasks : \/ TaskSend(t) \/ TaskTimeout(t) \/ TaskAffirm(t)
                                 \/ TaskComp(t) \/ TaskAffirmId(t)
    PROVE  BrokerRests
<1>1. ASSUME rxTasks' \subseteq rxTasks, UNCHANGED <<inflight, sent>>,
             toBroker' = toBroker \/ toBroker' = <<>>
      PROVE  BrokerRests
  BY <1>1 DEF BrokerRests
<1>2. CASE HubRxQos0 \/ HubRxDup \/ HubAffirmPublish \/ HubAffirmId
  BY <1>1, <1>2 DEF HubRxQos0, HubRxDup, HubAffirmPublish, HubAffirmId, HubReads,
                    wireVars, brokerVars
<1>3. CASE NetForward
  <2>1. /\ UNCHANGED <<inflight, sent, toBroker>>
        /\ \/ rxTasks' = rxTasks
           \/ rxTasks' = {IF t.id = Head(fromBroker).id /\ QosOf[t.msg] = 2
                          THEN [t EXCEPT !.acked = TRUE] ELSE t : t \in rxTasks}
    BY <1>3 DEF NetForward, brokerVars
  <2>2. \A u \in rxTasks' : u \in rxTasks \/ \E t \in rxTasks : u = [t EXCEPT !.acked = TRUE]
    BY <2>1
  <2>3. \A u \in rxTasks' : \E t \in rxTasks : u.msg = t.msg /\ u.id = t.id /\ u.pc = t.pc
    BY <2>2 DEF Fields, RxTasks
  <2> QED
    BY <2>1, <2>3 DEF BrokerRests, Unwritten
<1>4. CASE \/ NetLost \/ NetConnectFail \/ HubLost \/ HubStartNetwork \/ NetConnected
           \/ UNCHANGED vars
  BY <1>1, <1>4 DEF NetLost, NetConnectFail, WithoutQueued, HubLost, HubStartNetwork,
                    NetConnected, vars, hubVars, wireVars, brokerVars
<1>5. ASSUME NEW t \in rxTasks,
             \/ TaskSend(t) \/ TaskTimeout(t) \/ TaskAffirm(t) \/ TaskComp(t)
             \/ TaskAffirmId(t)
      PROVE  BrokerRests
  <2>0. t \in RxTasks /\ "receipt" \in Pcs /\ "comp" \in Pcs /\ "compReceipt" \in Pcs
        /\ "affirmId" \in Pcs
    BY DEF Fields, Pcs
  <2>1. UNCHANGED <<inflight, sent, toBroker>>
    BY <1>5 DEF TaskSend, TaskTimeout, TaskAffirm, TaskComp, TaskAffirmId, Transmit,
                TaskVars, wireVars, brokerVars
  <2>2. CASE TaskSend(t)
    <3> DEFINE u == AtPc(t, "receipt")
    <3>1. u.msg = t.msg /\ u.id = t.id /\ u.pc = "receipt"
      BY <2>0, TaskType
    <3>2. rxTasks' \subseteq (rxTasks \ {t}) \cup {u} /\ t.pc = "send"
      BY <2>2 DEF TaskSend, Transmit, Become
    <3> HIDE DEF u
    <3> QED
      BY <2>1, <3>1, <3>2, TaskRests DEF Unwritten, Late
  <2>3. CASE TaskTimeout(t)
    <3> DEFINE u == [t EXCEPT !.pc = "receipt", !.resends = @ + 1]
    <3>1. u.msg = t.msg /\ u.id = t.id /\ u.pc = "receipt"
      BY <2>0 DEF RxTasks
    <3>2. rxTasks' \subseteq (rxTasks \ {t}) \cup {u} /\ t.pc = "await"
      BY <2>3 DEF TaskTimeout, Transmit, Become
    <3> HIDE DEF u
    <3> QED
      BY <2>1, <3>1, <3>2, TaskRests DEF Unwritten, Late
  <2>4. CASE TaskComp(t)
    <3> DEFINE u == AtPc(t, "compReceipt")
    <3>1. u.msg = t.msg /\ u.id = t.id /\ u.pc = "compReceipt"
      BY <2>0, TaskType
    <3>2. rxTasks' \subseteq (rxTasks \ {t}) \cup {u} /\ t.pc = "comp"
      BY <2>4 DEF TaskComp, Transmit, Become
    <3> HIDE DEF u
    <3> QED
      BY <2>1, <3>1, <3>2, TaskRests DEF Unwritten, Late
  <2>5. CASE TaskAffirm(t)
    <3> DEFINE pc == IF QosOf[t.msg] = 1 THEN "affirmId" ELSE "comp"
               u == AtPc(t, pc)
    <3>1. u.msg = t.msg /\ u.id = t.id /\ u.pc = pc
      BY <2>0, TaskType
    <3>2. rxTasks' \subseteq (rxTasks \ {t}) \cup {u} /\ t.pc \in {"affirm", "await"}
      BY <2>5 DEF TaskAffirm, MayAffirm, Become
    <3>3. Unwritten(u) => Unwritten(t)
      <4>1. CASE QosOf[t.msg] = 1
        BY <3>1, <4>1 DEF Unwritten
      <4>2. CASE QosOf[t.msg] # 1
        <5>1. t.pc # "affirm"
          <6>1. QosOf[t.msg] = 2
            BY <2>0, <4>2 DEF IInv, HandshakeInv, KeepsPublish, Fields
          <6> QED
            BY <6>1 DEF IInv, HandshakeInv, KeepsPublish
        <5> QED
          BY <3>1, <3>2, <5>1 DEF Unwritten
      <4> QED
        BY <4>1, <4>2
    <3>4. Safe(t.msg)'
      <4> DEFINE e == Packet("AffirmRxPublish", t.id)
      <4>1. HubGets(e) /\ e.type = "AffirmRxPublish" /\ e.id = t.id
        BY <2>5, HubGetsPacket DEF TaskAffirm
      <4>2. t.id \in DOMAIN rxPublish /\ rxPublish[t.id] = t.msg
        BY <3>2 DEF IInv, HandshakeInv, KeepsPublish, Late
      <4> HIDE DEF e
      <4>3. /\ Len(hubQ) + 1 \in 1..Len(hubQ') /\ hubQ'[Len(hubQ) + 1] = e
            /\ UNCHANGED rxPublish
        BY <4>1 DEF HubGets, Fields
      <4> QED
        BY <4>1, <4>2, <4>3 DEF Safe
    <3> HIDE DEF u, pc
    <3> QED
      BY <2>1, <3>1, <3>2, <3>3, <3>4, TaskRests
  <2>6. CASE TaskAffirmId(t)
    BY <1>1, <2>1, <2>6 DEF TaskAffirmId
  <2> QED
    BY <1>5, <2>2, <2>3, <2>4, <2>5, <2>6
<1> QED
  BY <1>2, <1>3, <1>4, <1>5

\* A new task: its handshake is not over.
LEMMA HubRxNewEnds ==
    ASSUME Fields, TypeInv, IInv, EndInv, NoLossInv, HubRxNew,
           \A m \in Messages : Safe(m) => Safe(m)'
    PROVE  EndInv'
<1> DEFINE m0 == hubQ[1].msg
           id0 == hubQ[1].id
           n == NewTask(m0, id0)
<1>0. HubTakes("Publish")
  BY HubReadsTakes DEF HubRxNew
<1>1. /\ m0 \in Messages /\ id0 \in Ids /\ 1 \in 1..Len(hubQ) /\ IsOf(hubQ[1], m0)
      /\ hubQ[1].type = "Publish" /\ Head(hubQ) = hubQ[1]
  BY <1>0 DEF Fields, HubTakes, IsOf
<1>2. /\ QosOf[m0] # 0 /\ id0 \notin rxIds /\ rxTasks' = rxTasks \cup {n}
      /\ UNCHANGED <<inflight, sent, toBroker>>
  BY <1>1 DEF HubRxNew, IsTracked, IsDup, HubReads, wireVars, brokerVars
<1>3. n.msg = m0 /\ n.id = id0 /\ n.pc = "send"
  BY DEF NewTask
<1>4. At(m0, id0) /\ m0 \in sent
  <2>1. At(m0, id0)
    BY <1>1 DEF At, IsPublish
  <2> QED
    BY <1>1, <2>1 DEF IInv, SentInv
<1> HIDE DEF n, m0, id0
<1>5. ASSUME Once(m0) PROVE NotEnded(m0, id0)
  <2>1. Covered(m0)
    BY <1>5 DEF Once, Covered
  <2>2. ~Safe(m0)
    <3>1. CASE QosOf[m0] = 2
      <4>1. Early(m0)
        BY <1>1, <1>2, <3>1 DEF IInv, OnceInv, QueuedIsDup, m0, id0
      <4> QED
        BY <3>1, <4>1 DEF Early, Safe, IInv, HandshakeInv, KeepsPublish
    <3>2. CASE QosOf[m0] = 1 /\ MaxLosses = 0
      <4>1. Untouched(m0)
        BY <1>1, <3>2 DEF NoLossInv, ComesOnce, Coming
      <4> QED
        BY <4>1 DEF Untouched, Safe
    <3> QED
      BY <1>5, <3>1, <3>2 DEF Once
  <2>3. InFlight(m0)
    BY <1>4, <2>1, <2>2 DEF EndInv, EndedInv
  <2>4. PICK l \in 1..Len(inflight) : inflight[l].msg = m0
    BY <2>3 DEF InFlight
  <2>5. inflight[l].id = id0
    <3>1. At(m0, inflight[l].id) /\ inflight[l].id \in Ids
      BY <2>4, IdsInRange DEF At, Fields
    <3> QED
      BY <1>1, <1>4, <3>1 DEF IInv, SentInv
  <2>6. \A k \in 1..Len(toBroker) : toBroker[k].id = id0 => toBroker[k].type # LastType(m0)
    BY <2>1, <2>2, <2>4, <2>5 DEF EndInv, WireInv, EndsFor
  <2> QED
    BY <2>3, <2>6 DEF NotEnded
<1>6. WireInv'
  BY <1>2 DEF EndInv, WireInv, Fields
<1>7. EndedInv'
  BY <1>2 DEF EndInv, EndedInv, InFlight, TypeInv
<1>8. NotEndedInv'
  BY <1>2, <1>3, <1>5 DEF EndInv, NotEndedInv, NotEnded, InFlight, Unwritten
<1>9. LateInv'
  BY <1>2, <1>3 DEF EndInv, LateInv, Late, Fields
<1>10. LastInv'
  BY <1>2 DEF EndInv, LastInv
<1> QED
  BY <1>6, <1>7, <1>8, <1>9, <1>10 DEF EndInv

\* The message of the task and the publish in flight with its id are the same.
LEMMA WrittenFor ==
    ASSUME Fields, IInv, EndInv, IdsSuffice => FreshInv, NEW t \in rxTasks,
           NEW l \in 1..Len(inflight), inflight[l].id = t.id, Covered(inflight[l].msg),
           \/ QosOf[t.msg] = 2 /\ t.pc = "compReceipt"
           \/ QosOf[t.msg] = 1 /\ QosOf[inflight[l].msg] = 1 /\ t.pc = "receipt"
    PROVE  inflight[l].msg = t.msg
<1>0. t.msg \in Messages /\ t.id \in Ids /\ inflight[l].msg \in Messages
  BY IdsInRange DEF Fields
<1>1. CASE Once(t.msg)
  <2>1. InFlight(t.msg)
    BY <1>1 DEF EndInv, NotEndedInv, NotEnded, Unwritten
  <2>2. PICK k \in 1..Len(inflight) : inflight[k].msg = t.msg
    BY <2>1 DEF InFlight
  <2>3. At(t.msg, t.id) /\ At(t.msg, inflight[k].id) /\ inflight[k].id \in Ids
    BY <2>2, IdsInRange DEF At, Fields
  <2>4. inflight[k].id = inflight[l].id
    BY <1>0, <2>3 DEF IInv, SentInv
  <2> QED
    BY <2>2, <2>4 DEF IInv, SentInv
<1>2. CASE SingleQos1 /\ ~Once(t.msg)
  BY <1>0, <1>2 DEF SingleQos1, Once
<1>3. CASE IdsSuffice /\ ~Once(t.msg)
  <2>1. At(t.msg, t.id) /\ At(inflight[l].msg, t.id)
    BY DEF At
  <2>2. t.msg \in Tracking /\ inflight[l].msg \in Tracking
    BY <1>0, <1>3 DEF Once, Tracking
  <2> QED
    BY <1>0, <1>3, <2>1, <2>2 DEF FreshInv
<1> QED
  BY <1>1, <1>2, <1>3 DEF Covered, Once

LEMMA NetWriteEnds ==
    ASSUME Fields, TypeInv, OutFields, IInv, EndInv, IdsSuffice => FreshInv,
           NEW t \in rxTasks, NEW type \in PacketTypes, Writes(t, type),
           \A m \in Messages : Safe(m) => Safe(m)'
    PROVE  EndInv'
<1> DEFINE u == AtPc(t, AfterReceipt(t))
           new == Len(toBroker) + 1
<1>1. t \in RxTasks /\ t.msg \in Messages /\ t.id \in Ids
  BY IdsInRange DEF Fields
<1>2. u.msg = t.msg /\ u.id = t.id /\ u.pc = AfterReceipt(t)
  <2>1. AfterReceipt(t) \in Pcs
    BY <1>1 DEF AfterReceipt, Pcs, RxTasks
  <2> QED
    BY <1>1, <2>1, TaskType
<1>3. /\ rxTasks' = (rxTasks \ {t}) \cup {u} /\ WaitsFor(t, type)
      /\ UNCHANGED <<hubQ, rxPublish, delivered, inflight, sent>>
      /\ Len(toBroker) \in Nat
      /\ \A k \in 1..Len(toBroker') : k \in 1..Len(toBroker) \/ k = new
      /\ \A k \in 1..Len(toBroker) : toBroker'[k] = toBroker[k]
      /\ toBroker'[new].type = type /\ toBroker'[new].id = t.id
  BY DEF Writes, OutFields
<1> HIDE DEF u, new
<1>4. \/ type = "PubAck" /\ QosOf[t.msg] = 1 /\ t.pc = "receipt" /\ u.pc = "affirm"
      \/ type = "PubRec" /\ QosOf[t.msg] = 2 /\ t.pc = "receipt" /\ u.pc = "await"
      \/ type = "PubComp" /\ QosOf[t.msg] = 2 /\ t.pc = "compReceipt" /\ u.pc = "affirmId"
  BY <1>2, <1>3 DEF WaitsFor, AfterReceipt, PacketTypes
<1>5. type # "PubRec" => Safe(t.msg)'
  <2>1. CASE type = "PubAck"
    BY <1>2, <1>3, <1>4, <2>1 DEF Safe
  <2>2. CASE type = "PubComp"
    <3>1. Safe(t.msg)
      BY <1>4, <2>2 DEF EndInv, LateInv, Late
    <3> QED
      BY <1>1, <3>1
  <2> QED
    BY <1>4, <2>1, <2>2
<1>6. Once(t.msg) => NotEnded(t.msg, t.id)
  BY <1>4 DEF EndInv, NotEndedInv, Unwritten
<1>7. WireInv'
  <2>1. ASSUME NEW k \in 1..Len(toBroker'), NEW l \in 1..Len(inflight),
               Covered(inflight[l].msg), EndsFor(toBroker'[k], inflight[l]),
               NEW m \in Messages, m = inflight[l].msg
        PROVE  Safe(m)'
    <3>1. CASE k \in 1..Len(toBroker)
      <4>1. Safe(m)
        BY <1>3, <2>1, <3>1 DEF EndInv, WireInv
      <4> QED
        BY <4>1
    <3>2. CASE k = new
      <4>1. t.id = inflight[l].id /\ type = LastType(inflight[l].msg)
        BY <1>3, <2>1, <3>2 DEF EndsFor
      <4>2. type # "PubRec" /\ (type = "PubAck" => QosOf[inflight[l].msg] = 1)
        BY <4>1 DEF LastType
      <4>3. m = t.msg
        BY <1>4, <2>1, <4>1, <4>2, WrittenFor
      <4> QED
        BY <1>5, <4>2, <4>3
    <3> QED
      BY <1>3, <3>1, <3>2
  <2>2. inflight' = inflight
    BY <1>3
  <2>3. ASSUME NEW k \in 1..Len(toBroker'), NEW l \in 1..Len(inflight'),
               Covered(inflight'[l].msg), EndsFor(toBroker'[k], inflight'[l])
        PROVE  Safe(inflight[l].msg)'
    <3>1. PICK m \in Messages : m = inflight[l].msg
      BY <2>2 DEF Fields
    <3>2. Safe(m)'
      BY <2>1, <2>2, <2>3, <3>1
    <3> QED
      BY <2>2, <3>1, <3>2
  <2> QED
    BY <2>3 DEF WireInv
<1>8. EndedInv'
  BY <1>3 DEF EndInv, EndedInv, InFlight, TypeInv
<1>9. NotEndedInv'
  <2> SUFFICES ASSUME NEW v \in rxTasks', Unwritten(v) PROVE NotEnded(v.msg, v.id)'
    BY DEF NotEndedInv
  <2>1. CASE v = u
    <3>1. type = "PubRec" /\ NotEnded(t.msg, t.id)
      BY <1>2, <1>4, <1>6, <2>1 DEF Unwritten
    <3>2. LastType(t.msg) # "PubRec"
      BY DEF LastType
    <3> QED
      BY <1>2, <1>3, <2>1, <3>1, <3>2 DEF NotEnded, InFlight
  <2>2. CASE v \in rxTasks /\ v # t
    <3>1. v.id # t.id /\ NotEnded(v.msg, v.id)
      BY <2>2 DEF IInv, HandshakeInv, OneTask, EndInv, NotEndedInv
    <3> QED
      BY <1>3, <3>1 DEF NotEnded, InFlight
  <2> QED
    BY <1>3, <2>1, <2>2
<1>10. LateInv'
  <2> SUFFICES ASSUME NEW v \in rxTasks', QosOf[v.msg] = 2, v.pc \in Late
               PROVE  Safe(v.msg)'
    BY DEF LateInv
  <2>1. CASE v = u
    BY <1>2, <1>4, <1>5, <2>1 DEF Late
  <2>2. CASE v \in rxTasks
    <3>1. Safe(v.msg) /\ v.msg \in Messages
      BY <2>2 DEF EndInv, LateInv, Fields
    <3> QED
      BY <3>1
  <2> QED
    BY <1>3, <2>1, <2>2
<1>11. LastInv'
  <2>1. ASSUME OnceType(type)
        PROVE  /\ NotEnded(t.msg, t.id) /\ type = LastType(t.msg)
               /\ \E l \in 1..Len(inflight) : inflight[l].msg = t.msg /\ inflight[l].id = t.id
    <3>1. Once(t.msg) /\ type = LastType(t.msg)
      BY <1>4, <2>1 DEF OnceType, Once, LastType
    <3>2. PICK l \in 1..Len(inflight) : inflight[l].msg = t.msg
      BY <1>6, <3>1 DEF NotEnded, InFlight
    <3>3. At(t.msg, t.id) /\ At(t.msg, inflight[l].id) /\ inflight[l].id \in Ids
      BY <3>2, IdsInRange DEF At, Fields
    <3>4. inflight[l].id = t.id
      BY <1>1, <3>3 DEF IInv, SentInv
    <3> QED
      BY <1>6, <3>1, <3>2, <3>4
  <2>2. ASSUME NEW k \in 1..Len(toBroker'), OnceType(toBroker'[k].type)
        PROVE  \E l \in 1..Len(inflight') : EndsFor(toBroker'[k], inflight'[l])
    <3>1. CASE k \in 1..Len(toBroker)
      BY <1>3, <2>2, <3>1 DEF EndInv, LastInv
    <3>2. CASE k = new
      <4>1. PICK l \in 1..Len(inflight) :
                inflight[l].msg = t.msg /\ inflight[l].id = t.id
        BY <1>3, <2>1, <2>2, <3>2
      <4>2. EndsFor(toBroker'[k], inflight[l])
        BY <1>3, <2>1, <2>2, <3>2, <4>1 DEF EndsFor
      <4> QED
        BY <1>3, <4>2
    <3> QED
      BY <1>3, <3>1, <3>2
  <2>3. ASSUME NEW k \in 1..Len(toBroker), OnceType(type), toBroker[k].type = type
        PROVE  toBroker[k].id # t.id
    BY <2>1, <2>3 DEF NotEnded
  <2>4. ASSUME NEW k \in 1..Len(toBroker'), NEW l \in 1..Len(toBroker'),
               OnceType(toBroker'[k].type), toBroker'[k].type = toBroker'[l].type,
               toBroker'[k].id = toBroker'[l].id
        PROVE  k = l
    <3>1. CASE k \in 1..Len(toBroker) /\ l \in 1..Len(toBroker)
      BY <1>3, <2>4, <3>1 DEF EndInv, LastInv
    <3>2. CASE k = new /\ l \in 1..Len(toBroker)
      BY <1>3, <2>3, <2>4, <3>2
    <3>3. CASE l = new /\ k \in 1..Len(toBroker)
      BY <1>3, <2>3, <2>4, <3>3
    <3> QED
      BY <1>3, <3>1, <3>2, <3>3
  <2> QED
    BY <2>2, <2>4 DEF LastInv
<1> QED
  BY <1>7, <1>8, <1>9, <1>10, <1>11 DEF EndInv

\* One more message is sent.
LEMMA CountSent ==
    ASSUME IdsSuffice, NEW m \in Tracking, m \notin sent
    PROVE  /\ SentCount \in Nat /\ SentCount < MaxBrokerId
           /\ sent' = sent \cup {m} => SentCount' = SentCount + 1
<1> DEFINE T == Tracking \cap sent
<1>1. IsFiniteSet(Tracking) /\ Cardinality(Tracking) <= MaxBrokerId
  BY DEF IdsSuffice
<1>2. T \subseteq Tracking /\ T # Tracking
  OBVIOUS
<1>3. /\ IsFiniteSet(T) /\ Cardinality(T) <= Cardinality(Tracking)
      /\ Cardinality(Tracking) = Cardinality(T) => Tracking = T
  BY <1>1, <1>2, FS_Subset
<1>4. Cardinality(T) \in Nat /\ Cardinality(Tracking) \in Nat
  BY <1>1, <1>3, FS_CardinalityType
<1>5. SentCount \in Nat /\ SentCount < MaxBrokerId
  BY <1>1, <1>2, <1>3, <1>4 DEF SentCount
<1>6. ASSUME sent' = sent \cup {m} PROVE SentCount' = SentCount + 1
  <2>1. SentCount' = Cardinality(T \cup {m})
    <3>1. Tracking \cap (sent \cup {m}) = T \cup {m}
      OBVIOUS
    <3> QED
      BY <1>6, <3>1 DEF SentCount
  <2>2. Cardinality(T \cup {m}) = Cardinality(T) + 1
    <3>1. m \notin T
      OBVIOUS
    <3> HIDE DEF T
    <3> QED
      BY <1>3, <3>1, FS_AddElement
  <2> QED
    BY <2>1, <2>2 DEF SentCount
<1> QED
  BY <1>5, <1>6

LEMMA BrokerPublishEnds ==
    ASSUME Fields, TypeInv, OutFields, IInv, EndInv, AckInv, IdsSuffice => FreshInv,
           NEW m \in Messages, BrokerPublish(m),
           \A x \in Messages : Safe(x) => Safe(x)'
    PROVE  EndInv'
<1>1. /\ sent' = sent \cup {m} /\ m \notin sent
      /\ UNCHANGED <<rxTasks, toBroker>>
  BY DEF BrokerPublish
<1>2. CASE QosOf[m] = 0
  <2>1. UNCHANGED inflight /\ ~Covered(m)
    BY <1>2 DEF BrokerPublish, Covered
  <2>2. WireInv'
    BY <1>1, <2>1 DEF EndInv, WireInv, Fields
  <2>3. EndedInv'
    BY <1>1, <2>1 DEF EndInv, EndedInv, InFlight, TypeInv
  <2>4. NotEndedInv'
    BY <1>1, <2>1 DEF EndInv, NotEndedInv, NotEnded, InFlight
  <2>5. LateInv'
    BY <1>1 DEF EndInv, LateInv, Fields
  <2>6. LastInv'
    BY <1>1, <2>1 DEF EndInv, LastInv
  <2> QED
    BY <2>2, <2>3, <2>4, <2>5, <2>6 DEF EndInv
<1>3. CASE QosOf[m] # 0
  <2> DEFINE f == [msg |-> m, id |-> nextId, rel |-> FALSE]
             new == Len(inflight) + 1
  <2>1. f \in Unfinished /\ f.msg = m /\ f.id = nextId
    BY DEF Unfinished, TypeInv
  <2>2. inflight' = Append(inflight, f) /\ nextId \notin InUse
    BY <1>3 DEF BrokerPublish
  <2> HIDE DEF f
  <2>3. /\ Len(inflight) \in Nat /\ inflight'[new] = f /\ new \in 1..Len(inflight')
        /\ \A k \in 1..Len(inflight') : k \in 1..Len(inflight) \/ k = new
        /\ \A k \in 1..Len(inflight) :
              /\ k \in 1..Len(inflight') /\ inflight'[k] = inflight[k]
              /\ inflight[k].id # nextId
    <3>1. inflight \in Seq(Unfinished) /\ DOMAIN inflight = 1..Len(inflight)
      BY DEF TypeInv
    <3>2. /\ Len(inflight) \in Nat /\ inflight'[new] = f
          /\ Len(inflight') = Len(inflight) + 1
          /\ \A k \in 1..Len(inflight) : inflight'[k] = inflight[k]
      BY <2>1, <2>2, <3>1, AppendElements
    <3> QED
      BY <2>2, <3>1, <3>2 DEF InUse
  <2> HIDE DEF new
  <2>4. ASSUME NEW k \in 1..Len(toBroker), Covered(m), EndsFor(toBroker[k], f)
        PROVE  FALSE
    <3>1. toBroker[k].id = nextId /\ toBroker[k].type = LastType(m)
      BY <2>1, <2>4 DEF EndsFor
    <3>2. ~OnceType(toBroker[k].type)
      BY <2>3, <3>1 DEF EndInv, LastInv, EndsFor
    <3>3. /\ QosOf[m] = 1 /\ MaxLosses # 0 /\ toBroker[k].type = "PubAck"
          /\ IdsSuffice \/ SingleQos1
      BY <2>4, <3>1, <3>2 DEF OnceType, LastType, Covered
    <3>4. CASE SingleQos1
      <4>1. PICK x \in sent : QosOf[x] = 1
        BY <3>3 DEF AckInv
      <4>2. x \in Messages
        BY DEF TypeInv
      <4> QED
        BY <1>1, <3>3, <3>4, <4>1, <4>2 DEF SingleQos1
    <3>5. CASE IdsSuffice
      <4>1. SentCount \in Nat /\ SentCount < MaxBrokerId
        BY <1>1, <1>3, <3>5, CountSent DEF Tracking
      <4>2. nextId = SentCount + 1 /\ toBroker[k].id <= SentCount
        BY <3>5, <4>1 DEF FreshInv
      <4> QED
        BY <3>1, <4>1, <4>2
    <3> QED
      BY <3>3, <3>4, <3>5
  <2>5. WireInv'
    <3>1. ASSUME NEW k \in 1..Len(toBroker), NEW l \in 1..Len(inflight'),
                 Covered(inflight'[l].msg), EndsFor(toBroker[k], inflight'[l])
          PROVE  l \in 1..Len(inflight) /\ inflight'[l] = inflight[l]
      BY <2>1, <2>3, <2>4, <3>1
    <3> QED
      BY <1>1, <3>1 DEF EndInv, WireInv, Fields
  <2>6. \A x : InFlight(x) => InFlight(x)'
    BY <2>3 DEF InFlight
  <2>7. EndedInv'
    <3>1. InFlight(m)'
      BY <2>1, <2>3 DEF InFlight
    <3> QED
      BY <1>1, <2>6, <3>1 DEF EndInv, EndedInv, TypeInv
  <2>8. NotEndedInv'
    BY <1>1, <2>6 DEF EndInv, NotEndedInv, NotEnded
  <2>9. LateInv'
    BY <1>1 DEF EndInv, LateInv, Fields
  <2>10. LastInv'
    BY <1>1, <2>3 DEF EndInv, LastInv
  <2> QED
    BY <2>5, <2>7, <2>8, <2>9, <2>10 DEF EndInv
<1> QED
  BY <1>2, <1>3

\* The broker takes the first packet: the handshakes it ends are over.
Ended ==
    /\ 1 \in 1..Len(toBroker) /\ Len(toBroker') = Len(toBroker) - 1
    /\ \A k \in 1..Len(toBroker') :
        k + 1 \in 1..Len(toBroker) /\ toBroker'[k] = toBroker[k + 1]
    /\ \A k \in 1..Len(inflight') : \E l \in 1..Len(inflight) :
        inflight'[k].msg = inflight[l].msg /\ inflight'[k].id = inflight[l].id
    /\ \A l \in 1..Len(inflight) :
        \/ EndsFor(toBroker[1], inflight[l])
        \/ \E k \in 1..Len(inflight') :
            inflight'[k].msg = inflight[l].msg /\ inflight'[k].id = inflight[l].id

LEMMA BrokerTakeEnded ==
    ASSUME TypeInv, BrokerTake
    PROVE  Ended
<1>1. /\ toBroker \in Seq(Packets) /\ toBroker # <<>> /\ toBroker' = Tail(toBroker)
      /\ inflight \in Seq(Unfinished) /\ DOMAIN inflight = 1..Len(inflight)
      /\ Len(inflight) \in Nat
  BY DEF BrokerTake, TypeInv
<1>2. /\ 1 \in 1..Len(toBroker) /\ Len(toBroker') = Len(toBroker) - 1
      /\ \A k \in 1..Len(toBroker') :
            k + 1 \in 1..Len(toBroker) /\ toBroker'[k] = toBroker[k + 1]
      /\ Head(toBroker) = toBroker[1]
  BY <1>1, TailElements
<1> DEFINE p == toBroker[1]
<1>3. CASE BrokerEnds(p)
  <2>1. PICK i \in 1..Len(inflight) : Ends(p, inflight[i]) /\ inflight' = RemoveAt(inflight, i)
    BY <1>1, <1>3 DEF BrokerEnds
  <2>2. EndsFor(p, inflight[i])
    BY <2>1 DEF Ends, EndsFor, LastType
  <2>3. /\ Len(inflight') = Len(inflight) - 1
        /\ \A k \in 1..Len(inflight) - 1 :
             inflight'[k] = IF k < i THEN inflight[k] ELSE inflight[k + 1]
    BY <1>1, <2>1, RemoveAtElements
  <2>4. ASSUME NEW k \in 1..Len(inflight')
        PROVE  \E l \in 1..Len(inflight) : inflight'[k] = inflight[l]
    <3>1. k \in 1..Len(inflight) - 1 /\ k \in 1..Len(inflight) /\ k + 1 \in 1..Len(inflight)
      BY <1>1, <2>3
    <3> QED
      BY <2>3, <3>1
  <2>5. ASSUME NEW l \in 1..Len(inflight), l # i
        PROVE  \E k \in 1..Len(inflight') : inflight'[k] = inflight[l]
    <3>1. CASE l < i
      <4>1. l \in 1..Len(inflight) - 1 /\ l \in 1..Len(inflight')
        BY <1>1, <2>3, <3>1
      <4> QED
        BY <2>3, <3>1, <4>1
    <3>2. CASE l > i
      <4>1. /\ l - 1 \in 1..Len(inflight) - 1 /\ l - 1 \in 1..Len(inflight')
            /\ ~(l - 1 < i) /\ (l - 1) + 1 = l
        BY <1>1, <2>3, <3>2
      <4> QED
        BY <2>3, <4>1
    <3> QED
      BY <1>1, <2>5, <3>1, <3>2
  <2> HIDE DEF p
  <2> QED
    BY <1>2, <2>2, <2>4, <2>5 DEF Ended, p
<1>4. CASE BrokerReleases(p)
  <2>1. PICK i \in 1..Len(inflight) : inflight' = [inflight EXCEPT ![i].rel = TRUE]
    BY <1>1, <1>4 DEF BrokerReleases
  <2> HIDE DEF p
  <2>2. \A k \in 1..Len(inflight) :
          inflight'[k] = IF k = i THEN [inflight[i] EXCEPT !.rel = TRUE] ELSE inflight[k]
    BY <1>1, <2>1
  <2>3. Len(inflight') = Len(inflight)
    BY <1>1, <2>1
  <2>4. \A k \in 1..Len(inflight) : inflight[k] \in Unfinished
    BY <1>1
  <2>5. \A k \in 1..Len(inflight) :
          inflight'[k].msg = inflight[k].msg /\ inflight'[k].id = inflight[k].id
    BY <2>2, <2>4 DEF Unfinished
  <2> QED
    BY <1>2, <2>3, <2>5 DEF Ended
<1>5. CASE BrokerIgnores(p)
  <2>1. inflight' = inflight
    BY <1>5 DEF BrokerIgnores
  <2> QED
    BY <1>2, <2>1 DEF Ended
<1> QED
  BY <1>2, <1>3, <1>4, <1>5 DEF BrokerTake

LEMMA BrokerTakeEnds ==
    ASSUME Fields, TypeInv, IInv, EndInv, BrokerTake,
           \A m \in Messages : Safe(m) => Safe(m)'
    PROVE  EndInv'
<1>1. Ended /\ UNCHANGED <<rxTasks, sent>>
  BY BrokerTakeEnded DEF BrokerTake
<1>2. \A k \in 1..Len(toBroker') :
        /\ k + 1 \in 1..Len(toBroker) /\ toBroker'[k] = toBroker[k + 1]
        /\ k + 1 # 1
  BY <1>1 DEF Ended
<1>3. WireInv'
  <2>1. ASSUME NEW k \in 1..Len(toBroker'), NEW l \in 1..Len(inflight'),
               Covered(inflight'[l].msg), EndsFor(toBroker'[k], inflight'[l])
        PROVE  \E m \in Messages : m = inflight'[l].msg /\ Safe(m)
    <3>1. PICK j \in 1..Len(inflight) :
            inflight'[l].msg = inflight[j].msg /\ inflight'[l].id = inflight[j].id
      BY <1>1 DEF Ended
    <3>2. EndsFor(toBroker[k + 1], inflight[j]) /\ k + 1 \in 1..Len(toBroker)
      BY <1>2, <2>1, <3>1 DEF EndsFor
    <3>3. Safe(inflight[j].msg)
      BY <2>1, <3>1, <3>2 DEF EndInv, WireInv
    <3> QED
      BY <3>1, <3>3 DEF Fields
  <2> QED
    BY <2>1 DEF WireInv
<1>4. ASSUME NEW m \in Messages, Covered(m), InFlight(m), ~InFlight(m)' PROVE Safe(m)
  <2>1. PICK l \in 1..Len(inflight) : inflight[l].msg = m
    BY <1>4 DEF InFlight
  <2>2. EndsFor(toBroker[1], inflight[l])
    BY <1>1, <1>4, <2>1 DEF Ended, InFlight
  <2> QED
    BY <1>1, <1>4, <2>1, <2>2 DEF Ended, EndInv, WireInv
<1>5. EndedInv'
  BY <1>1, <1>4 DEF EndInv, EndedInv, TypeInv
<1>6. NotEndedInv'
  <2> SUFFICES ASSUME NEW t \in rxTasks, Unwritten(t) PROVE NotEnded(t.msg, t.id)'
    BY <1>1 DEF NotEndedInv
  <2>1. NotEnded(t.msg, t.id) /\ t.msg \in Messages /\ t.id \in Ids
    BY IdsInRange DEF EndInv, NotEndedInv, Fields
  <2>2. PICK l \in 1..Len(inflight) : inflight[l].msg = t.msg
    BY <2>1 DEF NotEnded, InFlight
  <2>3. inflight[l].id = t.id
    <3>1. At(t.msg, t.id) /\ At(t.msg, inflight[l].id) /\ inflight[l].id \in Ids
      BY <2>2, IdsInRange DEF At, Fields
    <3> QED
      BY <2>1, <3>1 DEF IInv, SentInv
  <2>4. ~EndsFor(toBroker[1], inflight[l])
    BY <1>1, <2>1, <2>2, <2>3 DEF Ended, EndsFor, NotEnded
  <2>5. InFlight(t.msg)'
    BY <1>1, <2>2, <2>4 DEF Ended, InFlight
  <2> QED
    BY <1>2, <2>1, <2>5 DEF NotEnded
<1>7. LateInv'
  BY <1>1 DEF EndInv, LateInv, Fields
<1>8. LastInv'
  <2>1. ASSUME NEW k \in 1..Len(toBroker'), OnceType(toBroker'[k].type)
        PROVE  \E l \in 1..Len(inflight') : EndsFor(toBroker'[k], inflight'[l])
    <3>1. /\ k + 1 \in 1..Len(toBroker) /\ toBroker'[k] = toBroker[k + 1] /\ k + 1 # 1
          /\ 1 \in 1..Len(toBroker)
      BY <1>1, <1>2 DEF Ended
    <3>2. PICK l \in 1..Len(inflight) : EndsFor(toBroker[k + 1], inflight[l])
      BY <2>1, <3>1 DEF EndInv, LastInv
    <3>3. ~EndsFor(toBroker[1], inflight[l])
      BY <2>1, <3>1, <3>2 DEF EndsFor, EndInv, LastInv
    <3>4. PICK j \in 1..Len(inflight') :
            inflight'[j].msg = inflight[l].msg /\ inflight'[j].id = inflight[l].id
      BY <1>1, <3>3 DEF Ended
    <3> QED
      BY <3>1, <3>2, <3>4 DEF EndsFor
  <2>2. ASSUME NEW k \in 1..Len(toBroker'), NEW l \in 1..Len(toBroker'),
               OnceType(toBroker'[k].type), toBroker'[k].type = toBroker'[l].type,
               toBroker'[k].id = toBroker'[l].id
        PROVE  k = l
    <3>1. k + 1 = l + 1
      BY <1>2, <2>2 DEF EndInv, LastInv
    <3> QED
      BY <3>1
  <2> QED
    BY <2>1, <2>2 DEF LastInv
<1> QED
  BY <1>3, <1>5, <1>6, <1>7, <1>8 DEF EndInv

-----------------------------------------------------------------------------
(* Without losses.                                                         *)

\* What of m is in r was in q, s places behind.
Shifted(q, r, s, m) ==
    \A k \in 1..Len(r) : IsOf(r[k], m) => k + s \in 1..Len(q) /\ q[k + s] = r[k]

LEMMA ShiftedOnce ==
    ASSUME NEW q, NEW r, NEW s \in Nat, NEW m, Shifted(q, r, s, m)
    PROVE  /\ AtMostOne(q, m) => AtMostOne(r, m)
           /\ Coming(r, m) => Coming(q, m)
<1>1. ASSUME NEW j \in 1..Len(r), NEW k \in 1..Len(r), IsOf(r[j], m), IsOf(r[k], m),
             AtMostOne(q, m)
      PROVE  j = k
  <2>1. j + s = k + s
    BY <1>1 DEF Shifted, AtMostOne
  <2> QED
    BY <2>1
<1>2. ASSUME NEW k \in 1..Len(r), IsOf(r[k], m) PROVE Coming(q, m)
  BY <1>2 DEF Shifted, Coming
<1> QED
  BY <1>1, <1>2 DEF AtMostOne, Coming

LEMMA OnceRests ==
    ASSUME NEW m, ComesOnce(m), NEW a \in Nat, NEW b \in Nat,
           Shifted(hubQ, hubQ', a, m), Shifted(fromBroker, fromBroker', b, m),
           Untouched(m) => Untouched(m)'
    PROVE  ComesOnce(m)'
<1>1. /\ AtMostOne(hubQ, m)' /\ AtMostOne(fromBroker, m)'
      /\ Coming(hubQ, m)' => Coming(hubQ, m)
      /\ Coming(fromBroker, m)' => Coming(fromBroker, m)
  BY ShiftedOnce DEF ComesOnce
<1> QED
  BY <1>1 DEF ComesOnce

\* The hub reads an event.
LEMMA HubNoLoss ==
    ASSUME Fields, TypeInv, HubStep, NEW m \in Messages, QosOf[m] = 1, ComesOnce(m)
    PROVE  ComesOnce(m)'
<1>1. ASSUME NEW type, HubReads(type)
      PROVE  /\ Shifted(hubQ, hubQ', 1, m) /\ Shifted(fromBroker, fromBroker', 0, m)
             /\ Head(hubQ) = hubQ[1] /\ 1 \in 1..Len(hubQ) /\ hubQ[1].type = type
  <2>1. HubTakes(type)
    BY <1>1, HubReadsTakes
  <2> QED
    BY <2>1 DEF HubTakes, Shifted, Fields
<1>2. ASSUME NEW type, HubReads(type), Untouched(m) => Untouched(m)' PROVE ComesOnce(m)'
  BY <1>1, <1>2, OnceRests
<1>3. delivered \in [Messages -> Nat]
  BY DEF TypeInv
<1>4. CASE HubRxQos0
  <2>1. HubReads("Publish") /\ QosOf[hubQ[1].msg] = 0 /\ Deliver(hubQ[1].msg)
        /\ UNCHANGED <<rxPublish, rxTasks>>
    BY <1>1, <1>4 DEF HubRxQos0
  <2>2. delivered'[m] = delivered[m]
    BY <1>3, <2>1 DEF Deliver
  <2> QED
    BY <1>2, <2>1, <2>2 DEF Untouched
<1>5. CASE HubRxDup \/ HubAffirmId
  BY <1>2, <1>5 DEF HubRxDup, HubAffirmId, Untouched
<1>6. CASE HubAffirmPublish
  <2>1. HubReads("AffirmRxPublish") /\ UNCHANGED rxTasks
    BY <1>6 DEF HubAffirmPublish
  <2>2. ASSUME Untouched(m) PROVE Untouched(m)'
    <3>1. CASE hubQ[1].id \in DOMAIN rxPublish
      <4>1. /\ delivered' = [delivered EXCEPT ![rxPublish[hubQ[1].id]] = @ + 1]
            /\ rxPublish' = [i \in DOMAIN rxPublish \ {hubQ[1].id} |-> rxPublish[i]]
        BY <1>1, <1>6, <2>1, <3>1 DEF HubAffirmPublish, Deliver
      <4>2. delivered'[m] = delivered[m]
        BY <1>3, <2>2, <3>1, <4>1 DEF Untouched
      <4> QED
        BY <2>1, <2>2, <4>1, <4>2 DEF Untouched
    <3>2. CASE hubQ[1].id \notin DOMAIN rxPublish
      BY <1>1, <1>6, <2>1, <2>2, <3>2 DEF HubAffirmPublish, Untouched
    <3> QED
      BY <3>1, <3>2
  <2> QED
    BY <1>2, <2>1, <2>2
<1>7. CASE HubRxNew
  <2> DEFINE m0 == hubQ[1].msg
             id0 == hubQ[1].id
  <2>1. /\ HubReads("Publish") /\ UNCHANGED delivered
        /\ rxTasks' = rxTasks \cup {NewTask(m0, id0)}
        /\ rxPublish' = [i \in DOMAIN rxPublish \cup {id0} |->
                            IF i = id0 THEN m0 ELSE rxPublish[i]]
    BY <1>1, <1>7 DEF HubRxNew
  <2>2. NewTask(m0, id0).msg = m0
    BY DEF NewTask
  <2> HIDE DEF m0, id0
  <2>3. CASE m # m0
    BY <1>2, <2>1, <2>2, <2>3 DEF Untouched
  <2>4. CASE m = m0
    <3>1. 1 \in 1..Len(hubQ) /\ IsOf(hubQ[1], m)
      BY <1>1, <2>1, <2>4 DEF IsOf, m0
    <3>2. ~Coming(fromBroker, m)
      BY <3>1 DEF ComesOnce, Coming
    <3>3. \A k \in 1..Len(hubQ) : IsOf(hubQ[k], m) => k = 1
      BY <3>1 DEF ComesOnce, AtMostOne
    <3>4. Shifted(hubQ, hubQ', 1, m) /\ Shifted(fromBroker, fromBroker', 0, m)
      BY <1>1, <2>1
    <3>5. ~Coming(hubQ, m)'
      <4> SUFFICES ASSUME NEW k \in 1..Len(hubQ'), IsOf(hubQ'[k], m) PROVE FALSE
        BY DEF Coming
      <4>1. k + 1 = 1
        BY <3>3, <3>4 DEF Shifted
      <4> QED
        BY <4>1
    <3>6. ~Coming(fromBroker, m)' /\ AtMostOne(fromBroker, m)' /\ AtMostOne(hubQ, m)'
      BY <3>2, <3>4, ShiftedOnce DEF ComesOnce
    <3> QED
      BY <3>5, <3>6 DEF ComesOnce
  <2> QED
    BY <2>3, <2>4
<1> QED
  BY <1>4, <1>5, <1>6, <1>7 DEF HubStep

LEMMA TasksNoLoss ==
    ASSUME Fields, TypeInv, NEW m \in Messages, QosOf[m] = 1, ComesOnce(m), NEW t \in rxTasks,
           \/ TaskSend(t) \/ TaskTimeout(t) \/ TaskAffirm(t) \/ TaskComp(t)
           \/ TaskAffirmId(t)
    PROVE  ComesOnce(m)'
<1>0. t \in RxTasks
  BY DEF Fields
<1>1. UNCHANGED <<rxPublish, delivered, fromBroker>>
  BY DEF TaskSend, TaskTimeout, TaskAffirm, TaskComp, TaskAffirmId, Transmit, TaskVars,
         wireVars
<1>2. ASSUME NEW u, u.msg = t.msg, rxTasks' \subseteq (rxTasks \ {t}) \cup {u}
      PROVE  Untouched(m) => Untouched(m)'
  BY <1>1, <1>2 DEF Untouched
<1>3. Shifted(fromBroker, fromBroker', 0, m)
  BY <1>1 DEF Shifted, Fields
<1>4. CASE TaskSend(t) \/ TaskTimeout(t) \/ TaskComp(t)
  <2>1. UNCHANGED hubQ
    BY <1>4 DEF TaskSend, TaskTimeout, TaskComp, Transmit
  <2>2. Shifted(hubQ, hubQ', 0, m)
    BY <2>1 DEF Shifted, Fields
  <2>3. PICK u : u.msg = t.msg /\ rxTasks' \subseteq (rxTasks \ {t}) \cup {u}
    <3>1. CASE TaskSend(t)
      <4>1. AtPc(t, "receipt").msg = t.msg
        BY <1>0, TaskType DEF Pcs
      <4> QED
        BY <3>1, <4>1 DEF TaskSend, Transmit, Become
    <3>2. CASE TaskTimeout(t)
      <4>1. [t EXCEPT !.pc = "receipt", !.resends = @ + 1].msg = t.msg
        BY <1>0 DEF RxTasks
      <4> QED
        BY <3>2, <4>1 DEF TaskTimeout, Transmit, Become
    <3>3. CASE TaskComp(t)
      <4>1. AtPc(t, "compReceipt").msg = t.msg
        BY <1>0, TaskType DEF Pcs
      <4> QED
        BY <3>3, <4>1 DEF TaskComp, Transmit, Become
    <3> QED
      BY <1>4, <3>1, <3>2, <3>3
  <2> QED
    BY <1>2, <1>3, <2>2, <2>3, OnceRests
<1>5. ASSUME NEW type \in {"AffirmRxPublish", "AffirmRxId"},
             hubQ' = Append(hubQ, Packet(type, t.id)), UNCHANGED TaskVars
      PROVE  Shifted(hubQ, hubQ', 0, m)
  <2> DEFINE e == Packet(type, t.id)
  <2>1. HubGets(e) /\ e.type = type
    BY <1>5, HubGetsPacket
  <2> HIDE DEF e
  <2>2. \A k \in 1..Len(hubQ') : k \in 1..Len(hubQ) \/ hubQ'[k] = e
    BY <2>1 DEF HubGets, Fields
  <2> QED
    BY <2>1, <2>2 DEF HubGets, Shifted, IsOf, Fields
<1>6. CASE TaskAffirm(t)
  <2> DEFINE u == AtPc(t, IF QosOf[t.msg] = 1 THEN "affirmId" ELSE "comp")
  <2>1. u.msg = t.msg
    BY <1>0, TaskType DEF Pcs
  <2>2. rxTasks' \subseteq (rxTasks \ {t}) \cup {u}
    BY <1>6 DEF TaskAffirm, Become
  <2>3. Shifted(hubQ, hubQ', 0, m)
    BY <1>5, <1>6 DEF TaskAffirm
  <2> HIDE DEF u
  <2> QED
    BY <1>2, <1>3, <2>1, <2>2, <2>3, OnceRests
<1>7. CASE TaskAffirmId(t)
  <2>1. rxTasks' \subseteq (rxTasks \ {t}) \cup {t}
    BY <1>7 DEF TaskAffirmId
  <2>2. Shifted(hubQ, hubQ', 0, m)
    BY <1>5, <1>7 DEF TaskAffirmId
  <2> QED
    BY <1>2, <1>3, <2>1, <2>2, OnceRests
<1> QED
  BY <1>4, <1>6, <1>7

LEMMA ForwardNoLoss ==
    ASSUME Fields, TypeInv, NEW m \in Messages, QosOf[m] = 1, ComesOnce(m), NetForward
    PROVE  ComesOnce(m)'
<1> DEFINE new == Len(hubQ) + 1
<1>1. /\ Shifted(fromBroker, fromBroker', 1, m) /\ Head(fromBroker) = fromBroker[1]
      /\ 1 \in 1..Len(fromBroker) /\ UNCHANGED <<rxPublish, delivered>>
  BY NetForwardTakes DEF NetTakes, Shifted
<1>2. CASE fromBroker[1].type # "Publish"
  <2>1. /\ UNCHANGED hubQ
        /\ rxTasks' = {IF t.id = fromBroker[1].id /\ QosOf[t.msg] = 2
                       THEN [t EXCEPT !.acked = TRUE] ELSE t : t \in rxTasks}
    BY <1>1, <1>2 DEF NetForward
  <2>2. \A u \in rxTasks' : u \in rxTasks \/ \E t \in rxTasks : u = [t EXCEPT !.acked = TRUE]
    BY <2>1
  <2>3. \A u \in rxTasks' : \E t \in rxTasks : u.msg = t.msg
    BY <2>2 DEF Fields, RxTasks
  <2>4. Untouched(m) => Untouched(m)'
    BY <1>1, <2>3 DEF Untouched
  <2>5. Shifted(hubQ, hubQ', 0, m)
    BY <2>1 DEF Shifted, Fields
  <2> QED
    BY <1>1, <2>4, <2>5, OnceRests
<1>3. CASE fromBroker[1].type = "Publish"
  <2>1. hubQ' = Append(hubQ, fromBroker[1]) /\ UNCHANGED rxTasks
    BY <1>1, <1>3 DEF NetForward
  <2>2. fromBroker[1] \in HubEvents
    <3>1. fromBroker[1] \in FromBroker
      BY <1>1 DEF TypeInv
    <3> QED
      BY <1>3, <3>1, PublishType DEF HubEvents
  <2>3. /\ Len(hubQ) \in Nat /\ hubQ'[new] = fromBroker[1]
        /\ \A k \in 1..Len(hubQ') : k \in 1..Len(hubQ) \/ k = new
        /\ \A k \in 1..Len(hubQ) : hubQ'[k] = hubQ[k]
    <3>1. hubQ \in Seq(HubEvents)
      BY DEF TypeInv
    <3>2. /\ Len(hubQ) \in Nat /\ hubQ'[new] = fromBroker[1] /\ Len(hubQ') = Len(hubQ) + 1
          /\ \A k \in 1..Len(hubQ) : hubQ'[k] = hubQ[k]
      BY <2>1, <2>2, <3>1, AppendElements
    <3> QED
      BY <3>2
  <2>4. Untouched(m) => Untouched(m)'
    BY <1>1, <2>1 DEF Untouched
  <2> HIDE DEF new
  <2>5. CASE ~IsOf(fromBroker[1], m)
    <3>1. Shifted(hubQ, hubQ', 0, m)
      BY <2>3, <2>5 DEF Shifted
    <3> QED
      BY <1>1, <2>4, <3>1, OnceRests
  <2>6. CASE IsOf(fromBroker[1], m)
    <3>1. Coming(fromBroker, m) /\ ~Coming(hubQ, m) /\ Untouched(m)
      BY <1>1, <2>6 DEF ComesOnce, Coming
    <3>2. \A k \in 1..Len(hubQ') : IsOf(hubQ'[k], m) => k = new
      BY <2>3, <3>1 DEF Coming
    <3>3. AtMostOne(hubQ, m)'
      BY <3>2 DEF AtMostOne
    <3>4. ~Coming(fromBroker, m)'
      <4> SUFFICES ASSUME NEW k \in 1..Len(fromBroker'), IsOf(fromBroker'[k], m) PROVE FALSE
        BY DEF Coming
      <4>1. k + 1 = 1
        BY <1>1, <2>6 DEF Shifted, ComesOnce, AtMostOne
      <4> QED
        BY <4>1
    <3>5. AtMostOne(fromBroker, m)'
      BY <3>4 DEF AtMostOne, Coming
    <3> QED
      BY <2>4, <3>1, <3>3, <3>4, <3>5 DEF ComesOnce
  <2> QED
    BY <2>5, <2>6
<1> QED
  BY <1>2, <1>3

\* The broker appends a packet.
LEMMA BrokerNoLoss ==
    ASSUME Fields, TypeInv, IInv, NEW m \in Messages, QosOf[m] = 1, ComesOnce(m),
           BrokerTake \/ \E x \in Messages : BrokerPublish(x)
    PROVE  ComesOnce(m)'
<1>1. UNCHANGED <<hubQ, rxPublish, rxTasks, delivered>>
  BY DEF BrokerTake, BrokerPublish, hubVars
<1>2. Shifted(hubQ, hubQ', 0, m) /\ (Untouched(m) => Untouched(m)')
  BY <1>1 DEF Shifted, Fields, Untouched
<1> DEFINE new == Len(fromBroker) + 1
<1>3. ASSUME NEW p \in FromBroker, fromBroker' = Append(fromBroker, p)
      PROVE  /\ Len(fromBroker) \in Nat /\ fromBroker'[new] = p
             /\ \A k \in 1..Len(fromBroker') : k \in 1..Len(fromBroker) \/ k = new
             /\ \A k \in 1..Len(fromBroker) : fromBroker'[k] = fromBroker[k]
  <2>1. fromBroker \in Seq(FromBroker)
    BY DEF TypeInv
  <2>2. /\ Len(fromBroker) \in Nat /\ fromBroker'[new] = p
        /\ Len(fromBroker') = Len(fromBroker) + 1
        /\ \A k \in 1..Len(fromBroker) : fromBroker'[k] = fromBroker[k]
    BY <1>3, <2>1, AppendElements
  <2> QED
    BY <2>2
<1> HIDE DEF new
<1>4. ASSUME NEW p \in FromBroker, fromBroker' = Append(fromBroker, p), ~IsOf(p, m)
      PROVE  ComesOnce(m)'
  <2>1. Shifted(fromBroker, fromBroker', 0, m)
    BY <1>3, <1>4 DEF Shifted
  <2> QED
    BY <1>2, <2>1, OnceRests
<1>5. CASE UNCHANGED fromBroker
  <2>1. Shifted(fromBroker, fromBroker', 0, m)
    BY <1>5 DEF Shifted, Fields
  <2> QED
    BY <1>2, <2>1, OnceRests
<1>6. CASE BrokerTake
  <2>1. CASE BrokerReleases(Head(toBroker))
    <3>1. PICK p : p = Packet("PubRel", Head(toBroker).id)
      OBVIOUS
    <3>2. p \in FromBroker /\ ~IsOf(p, m)
      <4>1. Head(toBroker) \in Packets
        BY <1>6, TailElements DEF BrokerTake, TypeInv
      <4> QED
        BY <3>1, <4>1 DEF Packet, FromBroker, Packets, PacketTypes, IsOf
    <3> QED
      BY <1>4, <2>1, <3>1, <3>2 DEF BrokerReleases
  <2> QED
    BY <1>5, <1>6, <2>1 DEF BrokerTake, BrokerEnds, BrokerIgnores
<1>7. ASSUME NEW x \in Messages, BrokerPublish(x) PROVE ComesOnce(m)'
  <2>1. PICK i \in Ids : fromBroker' = Append(fromBroker, Publish(x, i))
    <3>1. 0 \in Ids /\ nextId \in Ids
      BY IdsInRange DEF TypeInv
    <3>2. \/ fromBroker' = Append(fromBroker, Publish(x, 0))
          \/ fromBroker' = Append(fromBroker, Publish(x, nextId))
      BY <1>7 DEF BrokerPublish
    <3> QED
      BY <3>1, <3>2
  <2>2. PICK p \in FromBroker : p = Publish(x, i) /\ p.type = "Publish" /\ p.msg = x
    <3>1. Publish(x, i) \in Publishes
      BY DEF Publish, Publishes, Ids
    <3>2. Publish(x, i) \in FromBroker
      BY <3>1 DEF FromBroker
    <3>3. Publish(x, i).type = "Publish" /\ Publish(x, i).msg = x
      BY DEF Publish
    <3> QED
      BY <3>2, <3>3
  <2>3. CASE x # m
    BY <1>4, <2>1, <2>2, <2>3 DEF IsOf
  <2>4. CASE x = m
    <3>1. m \notin sent
      BY <1>7, <2>4 DEF BrokerPublish
    <3>2. \A j \in Ids : ~At(m, j)
      BY <3>1 DEF IInv, SentInv
    <3>3. ~Coming(hubQ, m) /\ ~Coming(fromBroker, m)
      BY <3>2 DEF Coming, IsOf, At, IsPublish, Fields
    <3>4. Untouched(m)
      <4>1. delivered[m] = 0
        BY <3>1 DEF IInv, SentInv, TypeInv
      <4>2. (\A t \in rxTasks : t.msg # m) /\ \A j \in DOMAIN rxPublish : rxPublish[j] # m
        BY <3>2, IdsInRange DEF At, Fields
      <4> QED
        BY <4>1, <4>2 DEF Untouched
    <3>5. \A k \in 1..Len(fromBroker') : IsOf(fromBroker'[k], m) => k = new
      BY <1>3, <2>1, <2>2, <3>3 DEF Coming
    <3>6. ~Coming(hubQ, m)' /\ AtMostOne(hubQ, m)'
      BY <1>1, <3>3 DEF Coming, AtMostOne
    <3>7. AtMostOne(fromBroker, m)'
      BY <3>5 DEF AtMostOne
    <3> QED
      BY <1>2, <3>4, <3>6, <3>7 DEF ComesOnce
  <2> QED
    BY <2>3, <2>4
<1> QED
  BY <1>6, <1>7

LEMMA NoLossKept ==
    ASSUME Fields, TypeInv, OutFields, IInv, NetQInv, NoLossInv, [Next]_vars
    PROVE  NoLossInv'
<1> SUFFICES ASSUME MaxLosses = 0
             PROVE  conn' = "up" /\ \A m \in Messages : QosOf[m] = 1 => ComesOnce(m)'
  BY DEF NoLossInv
<1>0. conn = "up" /\ \A m \in Messages : QosOf[m] = 1 => ComesOnce(m)
  BY DEF NoLossInv
<1>1. ~NetLost /\ ~NetConnectFail /\ ~HubLost /\ ~HubStartNetwork /\ ~NetConnected
  BY <1>0 DEF NetLost, NetConnectFail, HubLost, HubStartNetwork, NetConnected, TypeInv
<1>2. CASE HubStep
  <2>1. UNCHANGED conn
    BY <1>2 DEF HubStep, HubRxQos0, HubRxNew, HubRxDup, HubAffirmPublish, HubAffirmId,
                HubReads
  <2> QED
    BY <1>0, <1>2, <2>1, HubNoLoss
<1>3. ASSUME NEW t \in rxTasks,
             \/ TaskSend(t) \/ TaskTimeout(t) \/ TaskAffirm(t) \/ TaskComp(t)
             \/ TaskAffirmId(t)
      PROVE  conn' = "up" /\ \A m \in Messages : QosOf[m] = 1 => ComesOnce(m)'
  <2>1. UNCHANGED conn
    BY <1>3 DEF TaskSend, TaskTimeout, TaskAffirm, TaskComp, TaskAffirmId, Transmit,
                TaskVars
  <2> QED
    BY <1>0, <1>3, <2>1, TasksNoLoss
<1>4. ASSUME UNCHANGED <<conn, hubQ, rxPublish, delivered, fromBroker>>,
             \A u \in rxTasks' : \E t \in rxTasks : u.msg = t.msg
      PROVE  conn' = "up" /\ \A m \in Messages : QosOf[m] = 1 => ComesOnce(m)'
  <2> SUFFICES ASSUME NEW m \in Messages, ComesOnce(m) PROVE ComesOnce(m)'
    BY <1>0, <1>4
  <2>1. Untouched(m) => Untouched(m)'
    BY <1>4 DEF Untouched
  <2>2. Shifted(hubQ, hubQ', 0, m) /\ Shifted(fromBroker, fromBroker', 0, m)
    BY <1>4 DEF Shifted, Fields
  <2> QED
    BY <2>1, <2>2, OnceRests
<1>5. CASE NetWrite
  <2>1. PICK t \in rxTasks : \E type \in PacketTypes : Writes(t, type)
    BY <1>5, NetWriteStep DEF IInv, HandshakeInv
  <2>2. AfterReceipt(t) \in Pcs /\ t \in RxTasks
    BY DEF AfterReceipt, Pcs, RxTasks, Fields
  <2>3. AtPc(t, AfterReceipt(t)).msg = t.msg
    BY <2>2, TaskType
  <2> QED
    BY <1>4, <2>1, <2>3 DEF Writes
<1>6. CASE UNCHANGED vars
  BY <1>4, <1>6 DEF vars, hubVars, wireVars
<1>7. CASE NetForward
  <2>1. UNCHANGED conn
    BY <1>7 DEF NetForward
  <2> QED
    BY <1>0, <1>7, <2>1, ForwardNoLoss
<1>8. CASE BrokerTake \/ \E x \in Messages : BrokerPublish(x)
  <2>1. UNCHANGED conn
    BY <1>8 DEF BrokerTake, BrokerPublish
  <2> QED
    BY <1>0, <1>8, <2>1, BrokerNoLoss
<1> QED
  BY <1>1, <1>2, <1>3, <1>5, <1>6, <1>7, <1>8 DEF Next, TaskStep

-----------------------------------------------------------------------------
(* The ids of what is on the wire.                                         *)

\* All steps but those of the TaskNetwork that writes and of the broker that takes
\* leave the packets on the wire, or lose them.
LEMMA WireRests ==
    ASSUME [Next]_vars, ~NetWrite, ~BrokerTake
    PROVE  toBroker' = toBroker \/ toBroker' = <<>>
<1>1. CASE HubStep
  BY <1>1 DEF HubStep, HubRxQos0, HubRxNew, HubRxDup, HubAffirmPublish, HubAffirmId,
              HubReads, wireVars
<1>2. ASSUME NEW t \in rxTasks,
             \/ TaskSend(t) \/ TaskTimeout(t) \/ TaskAffirm(t) \/ TaskComp(t)
             \/ TaskAffirmId(t)
      PROVE  toBroker' = toBroker
  BY <1>2 DEF TaskSend, TaskTimeout, TaskAffirm, TaskComp, TaskAffirmId, Transmit,
              TaskVars, wireVars
<1>3. CASE \/ NetForward \/ NetLost \/ NetConnectFail \/ HubLost \/ HubStartNetwork
           \/ NetConnected \/ (\E m \in Messages : BrokerPublish(m)) \/ UNCHANGED vars
  BY <1>3 DEF NetForward, NetLost, NetConnectFail, HubLost, HubStartNetwork,
              NetConnected, BrokerPublish, vars, wireVars
<1> QED
  BY <1>1, <1>2, <1>3 DEF Next, TaskStep

LEMMA SentRests ==
    ASSUME [Next]_vars, \A m \in Messages : ~BrokerPublish(m)
    PROVE  UNCHANGED <<sent, nextId>>
<1>1. CASE HubStep
  BY <1>1 DEF HubStep, HubRxQos0, HubRxNew, HubRxDup, HubAffirmPublish, HubAffirmId,
              HubReads, brokerVars
<1>2. ASSUME NEW t \in rxTasks,
             \/ TaskSend(t) \/ TaskTimeout(t) \/ TaskAffirm(t) \/ TaskComp(t)
             \/ TaskAffirmId(t)
      PROVE  UNCHANGED <<sent, nextId>>
  BY <1>2 DEF TaskSend, TaskTimeout, TaskAffirm, TaskComp, TaskAffirmId, Transmit,
              TaskVars, brokerVars
<1>3. CASE \/ NetForward \/ NetLost \/ NetConnectFail \/ HubLost \/ HubStartNetwork
           \/ NetConnected \/ NetWrite \/ BrokerTake \/ UNCHANGED vars
  BY <1>3 DEF NetForward, NetLost, NetConnectFail, HubLost, HubStartNetwork,
              NetConnected, NetWrite, BrokerTake, vars, brokerVars
<1> QED
  BY <1>1, <1>2, <1>3 DEF Next, TaskStep

\* What a step puts on the wire: the packet of a task, for a message that was sent.
LEMMA NewOnWire ==
    ASSUME Fields, TypeInv, OutFields, IInv, NetQInv, [Next]_vars,
           NEW k \in 1..Len(toBroker')
    PROVE  \/ \E j \in 1..Len(toBroker) : toBroker'[k] = toBroker[j]
           \/ \E t \in rxTasks :
                /\ t.msg \in sent /\ t.msg \in Tracking /\ t.id = toBroker'[k].id
                /\ toBroker'[k].type = "PubAck" => QosOf[t.msg] = 1
<1>1. CASE NetWrite
  <2>1. PICK t \in rxTasks : \E type \in PacketTypes : Writes(t, type)
    BY <1>1, NetWriteStep DEF IInv, HandshakeInv
  <2>2. PICK type \in PacketTypes : Writes(t, type)
    BY <2>1
  <2>3. k \in 1..Len(toBroker) \/ k = Len(toBroker) + 1
    BY <2>2 DEF Writes, OutFields
  <2>4. CASE k = Len(toBroker) + 1
    <3>1. toBroker'[k].id = t.id /\ toBroker'[k].type = type /\ WaitsFor(t, type)
      BY <2>2, <2>4 DEF Writes
    <3>2. t.msg \in sent /\ t.msg \in Tracking
      <4>1. At(t.msg, t.id) /\ t.id \in Ids /\ t.msg \in Messages
        BY IdsInRange DEF At, Fields
      <4> QED
        BY <4>1 DEF IInv, SentInv, HandshakeInv, KeepsPublish, Tracking
    <3> QED
      BY <3>1, <3>2 DEF WaitsFor
  <2> QED
    BY <2>2, <2>3, <2>4 DEF Writes
<1>2. CASE BrokerTake
  BY <1>2, BrokerTakeEnded DEF Ended
<1>3. CASE ~NetWrite /\ ~BrokerTake
  BY <1>3, WireRests
<1> QED
  BY <1>1, <1>2, <1>3

LEMMA AckKept ==
    ASSUME Fields, TypeInv, OutFields, IInv, NetQInv, AckInv, [Next]_vars
    PROVE  AckInv'
<1>1. sent \subseteq sent'
  <2>1. (\E m \in Messages : BrokerPublish(m)) => sent \subseteq sent'
    BY DEF BrokerPublish
  <2> QED
    BY <2>1, SentRests
<1> SUFFICES ASSUME NEW k \in 1..Len(toBroker'), toBroker'[k].type = "PubAck"
             PROVE  \E m \in sent' : QosOf[m] = 1
  BY DEF AckInv
<1>2. CASE \E j \in 1..Len(toBroker) : toBroker'[k] = toBroker[j]
  BY <1>1, <1>2 DEF AckInv
<1> QED
  BY <1>1, <1>2, NewOnWire

\* A step brings no message to where it has not been, but for what is published.
LEMMA NoNewPlace ==
    ASSUME Fields, TypeInv, OutFields, IInv, NetQInv, [Next]_vars,
           \A x \in Messages : ~BrokerPublish(x), NEW m, NEW i, At(m, i)'
    PROVE  At(m, i)
<1>0. OneTask
  BY DEF IInv, HandshakeInv
<1>1. CASE Quiet
  <2>1. \A k \in 1..Len(fromBroker') :
            k \in 1..Len(fromBroker) /\ fromBroker'[k] = fromBroker[k]
    BY <1>1 DEF Quiet, Fields
  <2> QED
    BY <1>1, <2>1 DEF Quiet, At, GoesOn
<1>2. CASE HubStep
  <2>1. ASSUME NEW type, HubReads(type)
        PROVE  /\ \A k \in 1..Len(hubQ') : \E j \in 1..Len(hubQ) : hubQ'[k] = hubQ[j]
               /\ Head(hubQ) = hubQ[1] /\ 1 \in 1..Len(hubQ) /\ hubQ[1].type = type
               /\ UNCHANGED <<fromBroker, inflight>>
    <3>1. HubTakes(type)
      BY <2>1, HubReadsTakes
    <3> QED
      BY <3>1 DEF HubTakes, Fields
  <2>2. CASE HubRxNew
    <3> DEFINE m0 == hubQ[1].msg
               id0 == hubQ[1].id
    <3>1. /\ HubReads("Publish")
          /\ rxTasks' = rxTasks \cup {NewTask(m0, id0)}
          /\ rxPublish' = [j \in DOMAIN rxPublish \cup {id0} |->
                              IF j = id0 THEN m0 ELSE rxPublish[j]]
      BY <2>1, <2>2 DEF HubRxNew
    <3>2. NewTask(m0, id0).msg = m0 /\ NewTask(m0, id0).id = id0
      BY DEF NewTask
    <3>3. At(m0, id0)
      BY <2>1, <3>1 DEF At, IsPublish
    <3> HIDE DEF m0, id0
    <3>4. (\E t \in rxTasks' : t.msg = m /\ t.id = i) => At(m, i)
      BY <3>1, <3>2, <3>3 DEF At
    <3>5. i \in DOMAIN rxPublish' /\ rxPublish'[i] = m => At(m, i)
      BY <3>1, <3>3 DEF At
    <3> QED
      BY <2>1, <3>1, <3>4, <3>5 DEF At
  <2>3. CASE HubAffirmPublish
    <3>1. HubReads("AffirmRxPublish") /\ UNCHANGED rxTasks
      BY <2>3 DEF HubAffirmPublish
    <3>2. \A j \in DOMAIN rxPublish' : j \in DOMAIN rxPublish /\ rxPublish'[j] = rxPublish[j]
      BY <2>3 DEF HubAffirmPublish
    <3> QED
      BY <2>1, <3>1, <3>2 DEF At
  <2>4. CASE HubRxQos0 \/ HubRxDup \/ HubAffirmId
    <3>1. UNCHANGED <<rxTasks, rxPublish>> /\ \E type : HubReads(type)
      BY <2>4 DEF HubRxQos0, HubRxDup, HubAffirmId
    <3> QED
      BY <2>1, <3>1 DEF At
  <2> QED
    BY <1>2, <2>2, <2>3, <2>4 DEF HubStep
<1>3. ASSUME NEW t \in rxTasks, TaskSend(t) \/ TaskTimeout(t) \/ TaskComp(t)
      PROVE  At(m, i)
  BY <1>0, <1>1, <1>3, TasksQuiet
<1>4. ASSUME NEW t \in rxTasks, NEW type \in {"AffirmRxPublish", "AffirmRxId"},
             hubQ' = Append(hubQ, Packet(type, t.id)), UNCHANGED TaskVars,
             NEW u, u.msg = t.msg, u.id = t.id, rxTasks' \subseteq (rxTasks \ {t}) \cup {u}
      PROVE  At(m, i)
  <2> DEFINE e == Packet(type, t.id)
  <2>1. HubGets(e) /\ UNCHANGED fromBroker /\ e.type = type
    BY <1>4, HubGetsPacket
  <2> HIDE DEF e
  <2>2. \A k \in 1..Len(hubQ') :
            (k \in 1..Len(hubQ) /\ hubQ'[k] = hubQ[k]) \/ hubQ'[k].type # "Publish"
    BY <2>1 DEF HubGets, Fields
  <2>3. (\E v \in rxTasks' : v.msg = m /\ v.id = i) => At(m, i)
    BY <1>4 DEF At
  <2> QED
    BY <2>1, <2>2, <2>3 DEF At, HubGets, IsPublish
<1>5. ASSUME NEW t \in rxTasks, TaskAffirm(t) \/ TaskAffirmId(t)
      PROVE  At(m, i)
  <2>1. CASE TaskAffirm(t)
    <3> DEFINE u == AtPc(t, IF QosOf[t.msg] = 1 THEN "affirmId" ELSE "comp")
    <3>1. u.msg = t.msg /\ u.id = t.id
      BY TaskType DEF Pcs, Fields
    <3>2. rxTasks' \subseteq (rxTasks \ {t}) \cup {u}
      BY <2>1 DEF TaskAffirm, Become
    <3> HIDE DEF u
    <3> QED
      BY <1>4, <2>1, <3>1, <3>2 DEF TaskAffirm
  <2>2. CASE TaskAffirmId(t)
    <3>1. rxTasks' \subseteq (rxTasks \ {t}) \cup {t}
      BY <2>2 DEF TaskAffirmId
    <3> QED
      BY <1>4, <2>2, <3>1 DEF TaskAffirmId
  <2> QED
    BY <1>5, <2>1, <2>2
<1>6. CASE NetForward
  <2>1. NetTakes /\ Head(fromBroker) = fromBroker[1]
    BY <1>6, NetForwardTakes
  <2>2. CASE fromBroker[1].type = "Publish"
    <3>1. hubQ' = Append(hubQ, fromBroker[1]) /\ UNCHANGED rxTasks
      BY <1>6, <2>1, <2>2 DEF NetForward
    <3>2. fromBroker[1] \in HubEvents
      <4>1. fromBroker[1] \in FromBroker
        BY <2>1 DEF TypeInv, NetTakes
      <4> QED
        BY <2>2, <4>1, PublishType DEF HubEvents
    <3>3. \A k \in 1..Len(hubQ') :
              (k \in 1..Len(hubQ) /\ hubQ'[k] = hubQ[k]) \/ hubQ'[k] = fromBroker[1]
      <4>1. hubQ \in Seq(HubEvents)
        BY DEF TypeInv
      <4>2. /\ Len(hubQ') = Len(hubQ) + 1 /\ Len(hubQ) \in Nat
            /\ hubQ'[Len(hubQ) + 1] = fromBroker[1]
            /\ \A k \in 1..Len(hubQ) : hubQ'[k] = hubQ[k]
        BY <3>1, <3>2, <4>1, AppendElements
      <4> QED
        BY <4>2
    <3>4. (\E k \in 1..Len(hubQ') : IsPublish(hubQ'[k], m, i)) => At(m, i)
      BY <2>1, <3>3 DEF At, NetTakes
    <3> QED
      BY <2>1, <3>1, <3>4 DEF At, NetTakes
  <2>3. CASE fromBroker[1].type # "Publish"
    <3>1. /\ UNCHANGED hubQ
          /\ rxTasks' = {IF t.id = fromBroker[1].id /\ QosOf[t.msg] = 2
                         THEN [t EXCEPT !.acked = TRUE] ELSE t : t \in rxTasks}
      BY <1>6, <2>1, <2>3 DEF NetForward
    <3>2. \A u \in rxTasks' : u \in rxTasks \/ \E t \in rxTasks : u = [t EXCEPT !.acked = TRUE]
      BY <3>1
    <3>3. \A u \in rxTasks' : \E t \in rxTasks : u.msg = t.msg /\ u.id = t.id
      BY <3>2 DEF Fields, RxTasks
    <3> QED
      BY <2>1, <3>1, <3>3 DEF At, NetTakes
  <2> QED
    BY <2>2, <2>3
<1>7. CASE NetWrite \/ NetLost \/ NetConnectFail \/ HubLost \/ HubStartNetwork \/ UNCHANGED vars
  BY <1>0, <1>1, <1>7, NetQuiet
<1>8. CASE NetConnected
  <2>1. UNCHANGED <<rxTasks, rxPublish, hubQ, inflight>>
    BY <1>8 DEF NetConnected, hubVars, brokerVars
  <2>2. \A k \in 1..Len(fromBroker') : fromBroker'[k].type = "Publish" =>
            /\ k \in 1..Len(inflight) /\ fromBroker'[k].msg = inflight[k].msg
            /\ fromBroker'[k].id = inflight[k].id
    <3>1. inflight \in Seq(Unfinished) /\ DOMAIN inflight = 1..Len(inflight)
          /\ Len(inflight) \in Nat
      BY DEF TypeInv
    <3>2. /\ Len(fromBroker') = Len(inflight)
          /\ \A k \in 1..Len(inflight) : fromBroker'[k] =
                IF inflight[k].rel THEN Packet("PubRel", inflight[k].id)
                                   ELSE Publish(inflight[k].msg, inflight[k].id)
      BY <1>8, <3>1 DEF NetConnected
    <3>3. ASSUME NEW k \in 1..Len(inflight), fromBroker'[k].type = "Publish"
          PROVE  /\ fromBroker'[k].msg = inflight[k].msg
                 /\ fromBroker'[k].id = inflight[k].id
      <4>1. CASE inflight[k].rel
        <5>1. fromBroker'[k] = Packet("PubRel", inflight[k].id)
          BY <3>2, <4>1
        <5> QED
          BY <3>3, <5>1 DEF Packet
      <4>2. CASE ~inflight[k].rel
        <5>1. fromBroker'[k] = Publish(inflight[k].msg, inflight[k].id)
          BY <3>2, <4>2
        <5> QED
          BY <5>1 DEF Publish
      <4> QED
        BY <4>1, <4>2
    <3> QED
      BY <3>2, <3>3
  <2> QED
    BY <2>1, <2>2 DEF At, IsPublish
<1>9. CASE BrokerTake
  <2>1. UNCHANGED <<rxTasks, rxPublish, hubQ>>
    BY <1>9 DEF BrokerTake, hubVars
  <2>2. \A k \in 1..Len(fromBroker') : fromBroker'[k].type = "Publish" =>
            k \in 1..Len(fromBroker) /\ fromBroker'[k] = fromBroker[k]
    <3>1. CASE BrokerReleases(Head(toBroker))
      <4>1. PICK p : p = Packet("PubRel", Head(toBroker).id)
        OBVIOUS
      <4>2. p \in FromBroker /\ p.type # "Publish"
        <5>1. Head(toBroker) \in Packets
          BY <1>9, TailElements DEF BrokerTake, TypeInv
        <5> QED
          BY <4>1, <5>1 DEF Packet, FromBroker, Packets, PacketTypes
      <4>3. fromBroker \in Seq(FromBroker) /\ fromBroker' = Append(fromBroker, p)
        BY <3>1, <4>1 DEF BrokerReleases, TypeInv
      <4>4. /\ Len(fromBroker') = Len(fromBroker) + 1 /\ Len(fromBroker) \in Nat
            /\ fromBroker'[Len(fromBroker) + 1] = p
            /\ \A k \in 1..Len(fromBroker) : fromBroker'[k] = fromBroker[k]
        BY <4>2, <4>3, AppendElements
      <4> QED
        BY <4>2, <4>4
    <3> QED
      BY <1>9, <3>1 DEF BrokerTake, BrokerEnds, BrokerIgnores
  <2>3. \A k \in 1..Len(inflight') : \E l \in 1..Len(inflight) :
            inflight'[k].msg = inflight[l].msg /\ inflight'[k].id = inflight[l].id
    BY <1>9, BrokerTakeEnded DEF Ended
  <2> QED
    BY <2>1, <2>2, <2>3 DEF At, IsPublish
<1> QED
  BY <1>2, <1>3, <1>5, <1>6, <1>7, <1>8, <1>9 DEF Next, TaskStep

-----------------------------------------------------------------------------
(* While there are ids the broker gives each message its own.              *)

LEMMA BrokerPublishFresh ==
    ASSUME Fields, TypeInv, OutFields, IInv, IdsSuffice, FreshInv,
           NEW m \in Messages, BrokerPublish(m)
    PROVE  FreshInv'
<1>1. /\ m \notin sent /\ sent' = sent \cup {m}
      /\ UNCHANGED <<rxTasks, rxPublish, hubQ, toBroker>>
  BY DEF BrokerPublish, hubVars
<1>2. \A x \in Messages, i \in Ids : At(x, i) => x # m
  BY <1>1 DEF IInv, SentInv
<1>3. fromBroker \in Seq(FromBroker) /\ inflight \in Seq(Unfinished)
      /\ nextId \in BrokerIds /\ nextId \in Ids
  BY IdsInRange DEF TypeInv
<1>4. ASSUME NEW i \in Ids, fromBroker' = Append(fromBroker, Publish(m, i)),
             \/ inflight' = inflight
             \/ inflight' = Append(inflight, [msg |-> m, id |-> i, rel |-> FALSE])
                /\ i \in BrokerIds,
             NEW x, NEW j, At(x, j)'
      PROVE  At(x, j) \/ (x = m /\ j = i)
  <2> DEFINE p == Publish(m, i)
             f == [msg |-> m, id |-> i, rel |-> FALSE]
  <2>1. p \in FromBroker /\ p.msg = m /\ p.id = i
    <3>1. p \in Publishes
      BY DEF Publish, Publishes, Ids
    <3> QED
      BY <3>1 DEF Publish, FromBroker
  <2>2. f.msg = m /\ f.id = i /\ (i \in BrokerIds => f \in Unfinished)
    BY DEF Unfinished
  <2> HIDE DEF p, f
  <2>3. \A k \in 1..Len(fromBroker') :
            (k \in 1..Len(fromBroker) /\ fromBroker'[k] = fromBroker[k]) \/ fromBroker'[k] = p
    <3>1. fromBroker' = Append(fromBroker, p)
      BY <1>4 DEF p
    <3>2. /\ Len(fromBroker) \in Nat /\ Len(fromBroker') = Len(fromBroker) + 1
          /\ fromBroker'[Len(fromBroker) + 1] = p
          /\ \A k \in 1..Len(fromBroker) : fromBroker'[k] = fromBroker[k]
      BY <1>3, <2>1, <3>1, AppendElements
    <3> QED
      BY <3>2
  <2>4. \A k \in 1..Len(inflight') :
            (k \in 1..Len(inflight) /\ inflight'[k] = inflight[k]) \/ inflight'[k] = f
    <3>1. CASE inflight' = inflight
      BY <3>1
    <3>2. CASE inflight' = Append(inflight, f) /\ i \in BrokerIds
      <4>1. /\ Len(inflight) \in Nat /\ Len(inflight') = Len(inflight) + 1
            /\ inflight'[Len(inflight) + 1] = f
            /\ \A k \in 1..Len(inflight) : inflight'[k] = inflight[k]
        BY <1>3, <2>2, <3>2, AppendElements
      <4> QED
        BY <4>1
    <3> QED
      BY <1>4, <3>1, <3>2 DEF f
  <2>5. (\E k \in 1..Len(fromBroker') : IsPublish(fromBroker'[k], x, j))
          => At(x, j) \/ (x = m /\ j = i)
    BY <2>1, <2>3 DEF At, IsPublish
  <2>6. (\E k \in 1..Len(inflight') : inflight'[k].msg = x /\ inflight'[k].id = j)
          => At(x, j) \/ (x = m /\ j = i)
    BY <2>2, <2>4 DEF At
  <2> QED
    BY <1>1, <1>4, <2>5, <2>6 DEF At
<1>5. CASE QosOf[m] = 0
  <2>1. /\ fromBroker' = Append(fromBroker, Publish(m, 0)) /\ UNCHANGED <<inflight, nextId>>
    BY <1>5 DEF BrokerPublish
  <2>2. \A x \in Tracking : \A j \in Ids : At(x, j)' => At(x, j)
    BY <1>4, <1>5, <2>1, IdsInRange DEF Tracking
  <2>3. SentCount' = SentCount
    <3>1. Tracking \cap sent' = Tracking \cap sent
      BY <1>1, <1>5 DEF Tracking
    <3> QED
      BY <3>1 DEF SentCount
  <2> QED
    BY <1>1, <2>1, <2>2, <2>3 DEF FreshInv
<1>6. CASE QosOf[m] # 0
  <2>1. /\ fromBroker' = Append(fromBroker, Publish(m, nextId))
        /\ inflight' = Append(inflight, [msg |-> m, id |-> nextId, rel |-> FALSE])
        /\ nextId' = (nextId % MaxBrokerId) + 1
    BY <1>6 DEF BrokerPublish
  <2>2. \A x, j : At(x, j)' => At(x, j) \/ (x = m /\ j = nextId)
    BY <1>3, <1>4, <2>1
  <2>3. /\ SentCount \in Nat /\ SentCount < MaxBrokerId /\ SentCount' = SentCount + 1
        /\ nextId = SentCount + 1
    BY <1>1, <1>6, CountSent DEF Tracking, FreshInv
  <2>4. SentCount' < MaxBrokerId => nextId' = SentCount' + 1
    <3>1. nextId < MaxBrokerId => nextId % MaxBrokerId = nextId
      BY <1>3 DEF BrokerIds
    <3> QED
      BY <2>1, <2>3, <3>1
  <2>5. \A x \in Tracking : \A i \in Ids : At(x, i)' => i <= SentCount'
    BY <2>2, <2>3 DEF FreshInv, Ids
  <2>6. ASSUME NEW x \in Tracking, NEW y \in Tracking, NEW i \in Ids, At(x, i)', At(y, i)'
        PROVE  x = y
    <3>1. CASE At(x, i) /\ At(y, i)
      BY <3>1 DEF FreshInv
    <3>2. CASE ~(At(x, i) /\ At(y, i))
      <4>1. i = SentCount + 1
        BY <2>2, <2>3, <2>6, <3>2
      <4>2. ~At(x, i) /\ ~At(y, i)
        BY <2>3, <4>1 DEF FreshInv
      <4> QED
        BY <2>2, <2>6, <4>2
    <3> QED
      BY <3>1, <3>2
  <2>7. \A k \in 1..Len(toBroker') : toBroker'[k].id <= SentCount'
    BY <1>1, <2>3 DEF FreshInv, OutFields, BrokerIds
  <2> QED
    BY <2>4, <2>5, <2>6, <2>7 DEF FreshInv
<1> QED
  BY <1>5, <1>6

LEMMA FreshKept ==
    ASSUME Fields, TypeInv, OutFields, IInv, NetQInv, IdsSuffice, FreshInv, [Next]_vars
    PROVE  FreshInv'
<1>1. CASE \A m \in Messages : ~BrokerPublish(m)
  <2>1. UNCHANGED <<sent, nextId>>
    BY <1>1, SentRests
  <2>2. SentCount' = SentCount
    BY <2>1 DEF SentCount
  <2>3. \A m, i : At(m, i)' => At(m, i)
    BY <1>1, NoNewPlace
  <2>4. ASSUME NEW k \in 1..Len(toBroker') PROVE toBroker'[k].id <= SentCount
    <3>1. CASE \E j \in 1..Len(toBroker) : toBroker'[k] = toBroker[j]
      BY <3>1 DEF FreshInv
    <3>2. ASSUME NEW t \in rxTasks, t.msg \in Tracking, t.id = toBroker'[k].id
          PROVE  toBroker'[k].id <= SentCount
      <4>1. At(t.msg, t.id) /\ t.id \in Ids
        BY IdsInRange DEF At, Fields
      <4> QED
        BY <3>2, <4>1 DEF FreshInv
    <3> QED
      BY <3>1, <3>2, NewOnWire
  <2> QED
    BY <2>1, <2>2, <2>3, <2>4 DEF FreshInv
<1> QED
  BY <1>1, BrokerPublishFresh

-----------------------------------------------------------------------------

LEMMA EndKept ==
    ASSUME Fields, TypeInv, OutFields, IInv, HeldInv, [Next]_vars
    PROVE  EndInv'
<1>1. /\ EndInv /\ RoundInv /\ NetQInv /\ NoLossInv /\ AckInv
      /\ IdsSuffice => FreshInv
  BY DEF HeldInv, EndInv
<1>2. \A m \in Messages : Safe(m) => Safe(m)'
  BY SafeKept
<1>3. CASE HubRxNew
  BY <1>1, <1>2, <1>3, HubRxNewEnds
<1>4. CASE NetWrite
  <2>1. PICK t \in rxTasks : \E type \in PacketTypes : Writes(t, type)
    BY <1>1, <1>4, NetWriteStep DEF IInv, HandshakeInv
  <2> QED
    BY <1>1, <1>2, <2>1, NetWriteEnds
<1>5. CASE \E m \in Messages : BrokerPublish(m)
  BY <1>1, <1>2, <1>5, BrokerPublishEnds
<1>6. CASE BrokerTake
  BY <1>1, <1>2, <1>6, BrokerTakeEnds
<1>7. CASE BrokerRests
  BY <1>1, <1>2, <1>7, RestsKeeps
<1> QED
  BY <1>1, <1>3, <1>4, <1>5, <1>6, <1>7, StepRests DEF Next, HubStep, TaskStep

LEMMA NextHeld == Inv /\ HeldInv /\ [Next]_vars => HeldInv'
<1> SUFFICES ASSUME Inv, HeldInv, [Next]_vars PROVE HeldInv'
  OBVIOUS
<1>1. Fields /\ TypeInv /\ OutFields /\ IInv
  BY FieldsType, OutFieldsType DEF Inv
<1>2. RoundInv /\ NetQInv /\ NoLossInv /\ AckInv /\ (IdsSuffice => FreshInv)
  BY DEF HeldInv
<1>3. RoundInv'
  BY <1>1, <1>2, RoundKept
<1>4. NetQInv'
  BY <1>1, <1>2, NetQKept
<1>5. EndInv'
  BY <1>1, EndKept
<1>6. NoLossInv'
  BY <1>1, <1>2, NoLossKept
<1>7. AckInv'
  BY <1>1, <1>2, AckKept
<1>8. IdsSuffice => FreshInv'
  BY <1>1, <1>2, FreshKept
<1> QED
  BY <1>3, <1>4, <1>5, <1>6, <1>7, <1>8 DEF HeldInv, EndInv

LEMMA SpecHeld == Spec => [](Inv /\ HeldInv)
  BY InitType, InitInv, InitHeld, NextInv, NextHeld, PTL DEF Spec, Inv

\* What AcknowledgedIsNotLost says of a message.
Kept(m) ==
    Finished(m) /\ delivered[m] = 0 =>
        \E id \in DOMAIN rxPublish :
            /\ rxPublish[id] = m
            /\ \/ Packet("AffirmRxPublish", id) \in Range(hubQ)
               \/ \E t \in rxTasks : t.msg = m /\ t.pc = "affirm"

LEMMA HeldIsKept ==
    ASSUME Inv, HeldInv, NEW m \in Messages, Covered(m)
    PROVE  Kept(m)
<1> SUFFICES ASSUME Finished(m), delivered[m] = 0
             PROVE  \E id \in DOMAIN rxPublish :
                        /\ rxPublish[id] = m
                        /\ \/ Packet("AffirmRxPublish", id) \in Range(hubQ)
                           \/ \E t \in rxTasks : t.msg = m /\ t.pc = "affirm"
  BY DEF Kept
<1>1. hubQ \in Seq(HubEvents) /\ DOMAIN hubQ = 1..Len(hubQ) /\ DOMAIN inflight = 1..Len(inflight)
  BY DEF Inv, TypeInv
<1>2. m \in sent /\ ~InFlight(m)
  BY <1>1 DEF Finished, InFlight
<1>3. Safe(m)
  BY <1>2 DEF HeldInv, EndedInv
<1>4. ASSUME NEW k \in 1..Len(hubQ), hubQ[k].type = "AffirmRxPublish"
      PROVE  Packet("AffirmRxPublish", hubQ[k].id) \in Range(hubQ)
  <2>1. hubQ[k] \in Affirms
    BY <1>1, <1>4 DEF HubEvents, Publishes
  <2>2. hubQ[k] = Packet("AffirmRxPublish", hubQ[k].id)
    BY <1>4, <2>1 DEF Affirms, Packet
  <2> QED
    BY <1>1, <2>2 DEF Range
<1>5. ASSUME NEW t \in rxTasks, t.msg = m, t.pc = "affirm"
      PROVE  t.id \in DOMAIN rxPublish /\ rxPublish[t.id] = m
  BY <1>5 DEF Inv, IInv, HandshakeInv, KeepsPublish, Late
<1> QED
  BY <1>3, <1>4, <1>5 DEF Safe

\* What the broker has been told is received is not lost, for QoS 2: once PUBCOMP has
\* ended the handshake the user has the message, or rx_publish has it and an
\* AffirmRxPublish is queued (TaskPublishRxQos2, deal_hub_msg) - over any losses of
\* the connection and however often an id is used again.
THEOREM CompletedIsKept ==
    Spec => [](\A m \in Messages : QosOf[m] = 2 => Kept(m))
<1>1. Inv /\ HeldInv => \A m \in Messages : QosOf[m] = 2 => Kept(m)
  BY HeldIsKept DEF Covered
<1> QED
  BY <1>1, SpecHeld, PTL

\* And for QoS 1, whose task has PUBACK written before it has the message affirmed
\* (TaskPublishRxQos1): while the connection is not lost, or the broker uses no id
\* twice, or there is one message of QoS 1.
THEOREM AcknowledgedIsKept ==
    ASSUME MaxLosses = 0 \/ IdsSuffice \/ SingleQos1
    PROVE  Spec => []AcknowledgedIsNotLost
<1>1. \A m \in Messages : QosOf[m] # 0 => Covered(m)
  BY DEF Covered
<1>2. ASSUME Inv, HeldInv PROVE AcknowledgedIsNotLost
  BY <1>1, <1>2, HeldIsKept DEF Kept, AcknowledgedIsNotLost
<1>3. Inv /\ HeldInv => AcknowledgedIsNotLost
  BY <1>2
<1> QED
  BY <1>3, SpecHeld, PTL

=============================================================================
