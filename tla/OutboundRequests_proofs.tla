------------------------ MODULE OutboundRequests_proofs ------------------------
(* What the user may rely on: theorems about OutboundSession that say of   *)
(* every request what its success event means and when it is given up.     *)
EXTENDS OutboundSession_proofs, FiniteSetTheorems

USE KindAssumption, PoolAssumption, BoundAssumption
    DEF Tracked, RequestKinds, TaskKinds, EntryKinds

-----------------------------------------------------------------------------
(* Ids that are not used twice.  As long as no more requests are made than *)
(* there are packet ids, the pool hands out 1, 2, 3, ... and an id says    *)
(* which request is meant, on every connection and in every copy.          *)

\* The requests that were given an id, and how many they are.
TakenRequests == {r \in Requests : KindOf[r] \in Tracked /\ stage[r] = "taken"}
Given == Cardinality(TakenRequests)

\* Everything that carries a request and its id: entries, tasks, packets on
\* their way, and the QoS 2 messages the broker holds.
PacketOf(x) == [kind |-> x.kind, req |-> x.req, id |-> x.id]
Copies == UNION {Range(clientData), {PacketOf(t) : t \in tasks},
                 {PacketOf(k) : k \in Range(netQ)}, Range(toBroker),
                 {Entry("QoS2", h.req, h.id) : h \in brokerHeld}}
Numbered == {c \in Copies : c.kind # "QoS0"}

\* What the broker has done when it acknowledges a packet of a kind, granting it
\* or (no) not, and when a RecoverId of the request is dispatched.  The PUBREL of
\* a publish that was refused is answered too, in either way.
Received(r) == r \in released \/ \E h \in brokerHeld : h.req = r
Done(kind, r) == CASE kind = "QoS2" -> Received(r)
                   [] kind = "PubRel" -> r \in released
                   [] OTHER -> accepted[r] > 0
AckTrue(kind, r, no) ==
    \/ ~ no /\ Done(kind, r)
    \/ no /\ r \in refused
    \/ kind = "PubRel" /\ (r \in released \/ r \in refused)
RecTrue(r) ==
    \/ r \in refused
    \/ IF KindOf[r] = "QoS2" THEN Received(r) ELSE accepted[r] > 0

\* A PUBREL is sent only for a QoS 2 message that the broker has or has refused.
Proper(c) ==
    \/ c.kind = KindOf[c.req]
    \/ c.kind = "PubRel" /\ KindOf[c.req] = "QoS2" /\ RecTrue(c.req)

\* A ClientData event is in the queue of the hub once.
Queued(q, st) ==
    /\ \A i \in 1..Len(q) : q[i].type = "Data" => st[q[i].arg] = "queued"
    /\ \A i, j \in 1..Len(q) : q[i].type = "Data" /\ q[j] = q[i] => i = j
QueueInv == Queued(hubQ, stage)

\* The ids that were never given out stand first in the pool, in order.
FreshInv ==
    /\ Given <= MaxPacketId
    /\ \A j \in 1..MaxPacketId - Given : j \in 1..Len(freeIds) /\ freeIds[j] = Given + j

\* An id names a request.
CopiesInv ==
    /\ \A c \in Copies : Proper(c)
    /\ \A c \in Numbered : c.req \in TakenRequests /\ c.id \in 1..Given
    /\ \A c, d \in Numbered : c.req = d.req <=> c.id = d.id

\* No acknowledgement, RecoverId or task claims what the broker has not done.
AckHolds(a) ==
    /\ a.kind # "QoS0" /\ a.id \in 1..Given
    /\ \A c \in Numbered : c.id = a.id => AckTrue(a.kind, c.req, a.refused)
IdHolds(i) ==
    /\ i \in 1..Given
    /\ \A c \in Numbered : c.id = i => RecTrue(c.req)
TaskHolds(t) ==
    /\ t.acked => t.kind # "QoS0" /\ AckTrue(t.kind, t.req, t.refused)
    /\ t.pc = "again" => t.kind = "QoS1" /\ AckTrue(t.kind, t.req, t.refused)
    /\ t.pc = "notify" /\ t.kind # "QoS0" =>
            t.kind # "QoS2" /\ AckTrue(t.kind, t.req, t.refused)
TruthInv ==
    /\ \A a \in Range(fromBroker) : AckHolds(a)
    /\ \A m \in Range(hubQ) : m.type = "RecoverId" => IdHolds(m.arg)
    /\ \A t \in tasks : TaskHolds(t)

\* What the answers to the user mean: the broker has done its part or refused
\* the request, and of a success of anything but a publish, it has granted it.
ClaimInv ==
    /\ refused \subseteq Refusable
    /\ \A r \in Requests : KindOf[r] \in {"Sub", "Unsub"} /\ r \in claimed => Finished(r)
    /\ \A r \in claimed : KindOf[r] \in Tracked => notified[r] > 0

\* What is kept until the broker has taken or refused it.
HeldInv ==
    \A r \in TakenRequests :
        KindOf[r] # "QoS2" => Held(r) \/ accepted[r] > 0 \/ r \in refused

IdsSuffice == IsFiniteSet(Requests) /\ Cardinality(Requests) <= MaxPacketId

-----------------------------------------------------------------------------
(* What the broker has done it does not undo.                              *)

LEMMA BrokerSteps ==
    ASSUME TypeOK, [Next]_vars
    PROVE  BrokerStep \/ UNCHANGED brokerVars
<1>1. ASSUME NEW r \in Requests, ClientRequest(r) PROVE UNCHANGED brokerVars
  BY <1>1 DEF ClientRequest
<1>2. CASE HubStep
  BY <1>2 DEF HubStep, HubStartNetwork, HubConnected, HubConnectFail, HubLost,
              HubTakeQos0, HubTakeTracked, HubPoolEmpty, HubRecoverRec,
              HubRecoverDone, HubRecoverUnknown, HubReads
<1>3. CASE TaskStep \/ \E t \in tasks : TaskTimeout(t)
  BY <1>3 DEF TaskStep, TaskTimeout, TaskSend, TaskAcked, TaskRecoverAgain,
              TaskNotify
<1>4. CASE NetStep \/ NetConnectFail \/ NetLost
  BY <1>4 DEF NetStep, NetConnected, NetWrite, NetForward, NetConnectFail, NetLost
<1> QED
  BY <1>1, <1>2, <1>3, <1>4 DEF Next, vars

\* BrokerStep, with the packet it reads.
LEMMA BrokerReads ==
    ASSUME TypeOK, BrokerStep
    PROVE  /\ Head(toBroker) \in Packets /\ Head(toBroker) \in Range(toBroker)
           /\ Range(toBroker') \subseteq Range(toBroker)
<1>1. toBroker \in Seq(Packets) /\ toBroker # <<>> /\ toBroker' = Tail(toBroker)
  BY DEF BrokerStep, BrokerTake, BrokerRefuse, TypeOK
<1>2. Range(toBroker) = {Head(toBroker)} \cup Range(Tail(toBroker))
  BY <1>1, RangeOfQueue
<1> QED
  BY <1>1, <1>2, HeadOfQueue

LEMMA Monotone ==
    ASSUME TypeOK, [Next]_vars, NEW r \in Requests
    PROVE  /\ r \in released => r \in released'
           /\ Received(r) => Received(r)'
           /\ accepted[r] > 0 => accepted'[r] > 0
           /\ r \in refused => r \in refused'
<1>1. CASE UNCHANGED brokerVars
  BY <1>1 DEF brokerVars, Received
<1>3. CASE BrokerRefuse
  BY <1>3 DEF BrokerRefuse, Received
<1>2. CASE BrokerTake
  <2> DEFINE p == Head(toBroker)
             held == {h \in brokerHeld : h.id = p.id}
  <2>1. p \in Packets
    BY <1>2, BrokerReads DEF BrokerStep
  <2>2. \/ /\ p.kind = "PubRel" /\ brokerHeld' = brokerHeld \ held
           /\ released' = released \cup {h.req : h \in held}
        \/ /\ brokerHeld \subseteq brokerHeld' /\ released' = released
    BY <1>2 DEF BrokerTake
  <2>3. accepted' = accepted \/ accepted' = [accepted EXCEPT ![p.req] = @ + 1]
    BY <1>2 DEF BrokerTake
  <2>4. accepted \in [Requests -> Nat] /\ p.req \in Requests
    BY <2>1 DEF TypeOK, Packets
  <2>5. r \in released => r \in released'
    BY <2>2
  <2>6. Received(r) => Received(r)'
    <3> HIDE DEF p
    <3> QED
      BY <2>2 DEF Received
  <2>7. accepted[r] > 0 => accepted'[r] > 0
    <3> HIDE DEF p
    <3> QED
      BY <2>3, <2>4
  <2>8. refused' = refused
    BY <1>2 DEF BrokerTake
  <2> QED
    BY <2>5, <2>6, <2>7, <2>8
<1> QED
  BY <1>1, <1>2, <1>3, BrokerSteps DEF BrokerStep

LEMMA TruthIsKept ==
    ASSUME TypeOK, [Next]_vars, NEW r \in Requests, NEW kind, NEW no
    PROVE  /\ AckTrue(kind, r, no) => AckTrue(kind, r, no)'
           /\ RecTrue(r) => RecTrue(r)'
  BY Monotone DEF AckTrue, Done, RecTrue

LEMMA ProperIsKept ==
    ASSUME TypeOK, [Next]_vars, NEW c \in Packets
    PROVE  Proper(c) => Proper(c)'
<1>1. c.req \in Requests
  BY DEF Packets
<1> QED
  BY <1>1, Monotone DEF Proper, RecTrue

-----------------------------------------------------------------------------
(* The queue of the hub.                                                   *)

LEMMA QueueOfHub ==
    ASSUME TypeOK
    PROVE  /\ hubQ \in Seq(HubMessages) /\ Len(hubQ) \in Nat
           /\ \A i \in 1..Len(hubQ) : hubQ[i] \in HubMessages
  BY ElementOfSeq, LenProperties DEF TypeOK

\* The hub reads an event: its type, and what is left.
LEMMA HubReading ==
    ASSUME TypeOK, NEW type \in {"Data", "RecoverId"}, HubReads(type)
    PROVE  /\ Head(hubQ) \in HubMessages /\ Head(hubQ).type = type
           /\ Head(hubQ) \in Range(hubQ) /\ Range(hubQ') \subseteq Range(hubQ)
           /\ hubQ # <<>> /\ hubQ' = Tail(hubQ) /\ Head(hubQ) = hubQ[1]
           /\ type = "Data" => Head(hubQ).arg \in Requests
           /\ type = "RecoverId" => Head(hubQ).arg \in 0..MaxPacketId
<1>1. /\ hubQ \in Seq(HubMessages) /\ hubQ # <<>>
      /\ hubQ' = Tail(hubQ) /\ Head(hubQ).type = type
  BY DEF HubReads, TypeOK
<1>2. Head(hubQ) \in HubMessages /\ Head(hubQ) = hubQ[1]
  BY <1>1, TailElements
<1>3. Range(hubQ) = {Head(hubQ)} \cup Range(Tail(hubQ))
  BY <1>1, RangeOfQueue
<1>4. /\ type = "Data" => Head(hubQ).arg \in Requests
      /\ type = "RecoverId" => Head(hubQ).arg \in 0..MaxPacketId
  BY <1>1, <1>2 DEF HubMessages
<1> QED
  BY <1>1, <1>2, <1>3, <1>4

\* A ClientData event that was read is not in the queue a second time.
LEMMA QueueAfterReading ==
    ASSUME TypeOK, QueueInv, HubReads("Data"), NEW s \in {"taken", "dropped"},
           stage' = [stage EXCEPT ![Head(hubQ).arg] = s]
    PROVE  QueueInv' /\ stage[Head(hubQ).arg] = "queued"
<1>1. /\ hubQ # <<>> /\ hubQ' = Tail(hubQ) /\ Head(hubQ) = hubQ[1]
      /\ hubQ[1].type = "Data" /\ Head(hubQ).arg \in Requests
      /\ hubQ[1] \in HubMessages
  BY HubReading
<1>2. /\ Len(hubQ) \in Nat /\ Len(hubQ) >= 1 /\ Len(hubQ') = Len(hubQ) - 1
      /\ \A k \in 1..Len(hubQ') : k + 1 \in 1..Len(hubQ) /\ hubQ'[k] = hubQ[k + 1]
  BY <1>1, QueueOfHub, TailElements
<1>3. stage \in [Requests -> {"idle", "queued", "taken", "dropped"}]
  BY DEF TypeOK
<1>4. stage[Head(hubQ).arg] = "queued"
  BY <1>1, <1>2 DEF QueueInv, Queued
<1>5. ASSUME NEW i \in 1..Len(hubQ'), hubQ'[i].type = "Data"
      PROVE  stage'[hubQ'[i].arg] = "queued"
  <2>1. /\ i + 1 \in 1..Len(hubQ) /\ hubQ'[i] = hubQ[i + 1] /\ i + 1 # 1
        /\ 1 \in 1..Len(hubQ)
    BY <1>2
  <2>2. hubQ[i + 1] \in HubMessages /\ hubQ[i + 1].type = "Data"
    BY <1>5, <2>1, QueueOfHub
  <2>3. hubQ[i + 1] # hubQ[1]
    BY <1>1, <2>1 DEF QueueInv, Queued
  <2>4. hubQ[i + 1].arg # hubQ[1].arg
    BY <1>1, <2>2, <2>3 DEF HubMessages
  <2>5. stage[hubQ[i + 1].arg] = "queued"
    BY <2>1, <2>2 DEF QueueInv, Queued
  <2>6. hubQ[i + 1].arg \in Requests
    BY <2>2 DEF HubMessages
  <2> QED
    BY <1>1, <1>3, <2>1, <2>4, <2>5, <2>6
<1>6. ASSUME NEW i \in 1..Len(hubQ'), NEW j \in 1..Len(hubQ'),
             hubQ'[i].type = "Data", hubQ'[j] = hubQ'[i]
      PROVE  i = j
  <2>1. i + 1 = j + 1
    BY <1>2, <1>6 DEF QueueInv, Queued
  <2> QED
    BY <1>2, <2>1
<1> QED
  BY <1>4, <1>5, <1>6 DEF QueueInv, Queued

\* Reading a RecoverId, and dispatching one.
LEMMA QueueWithoutHead ==
    ASSUME TypeOK, QueueInv, hubQ # <<>>, hubQ' = Tail(hubQ), stage' = stage
    PROVE  QueueInv'
<1>1. /\ Len(hubQ) \in Nat /\ Len(hubQ') = Len(hubQ) - 1
      /\ \A k \in 1..Len(hubQ') : k + 1 \in 1..Len(hubQ) /\ hubQ'[k] = hubQ[k + 1]
  BY QueueOfHub, TailElements
<1>2. ASSUME NEW i \in 1..Len(hubQ'), hubQ'[i].type = "Data"
      PROVE  stage'[hubQ'[i].arg] = "queued"
  BY <1>1, <1>2 DEF QueueInv, Queued
<1>3. ASSUME NEW i \in 1..Len(hubQ'), NEW j \in 1..Len(hubQ'),
             hubQ'[i].type = "Data", hubQ'[j] = hubQ'[i]
      PROVE  i = j
  <2>1. i + 1 = j + 1
    BY <1>1, <1>3 DEF QueueInv, Queued
  <2> QED
    BY <1>1, <2>1
<1> QED
  BY <1>2, <1>3 DEF QueueInv, Queued

LEMMA QueueWithMore ==
    ASSUME TypeOK, QueueInv, NEW m \in HubMessages, hubQ' = Append(hubQ, m),
           \A r \in Requests : stage[r] = "queued" => stage'[r] = "queued",
           m.type = "Data" => stage[m.arg] # "queued" /\ stage'[m.arg] = "queued"
    PROVE  QueueInv'
<1>1. /\ Len(hubQ) \in Nat /\ Len(hubQ') = Len(hubQ) + 1
      /\ hubQ'[Len(hubQ) + 1] = m
      /\ \A k \in 1..Len(hubQ) : hubQ'[k] = hubQ[k]
  BY QueueOfHub, AppendElements
<1>2. \A i \in 1..Len(hubQ') : i \in 1..Len(hubQ) \/ i = Len(hubQ) + 1
  BY <1>1
<1>3. \A i \in 1..Len(hubQ) : hubQ[i].type = "Data" => hubQ[i].arg \in Requests
  BY QueueOfHub DEF HubMessages
<1>4. ASSUME NEW i \in 1..Len(hubQ'), hubQ'[i].type = "Data"
      PROVE  stage'[hubQ'[i].arg] = "queued"
  BY <1>1, <1>2, <1>3, <1>4 DEF QueueInv, Queued
<1>5. ASSUME NEW i \in 1..Len(hubQ), hubQ[i].type = "Data" PROVE hubQ[i] # m
  BY <1>5 DEF QueueInv, Queued
<1>6. ASSUME NEW i \in 1..Len(hubQ'), NEW j \in 1..Len(hubQ'),
             hubQ'[i].type = "Data", hubQ'[j] = hubQ'[i]
      PROVE  i = j
  BY <1>1, <1>2, <1>5, <1>6 DEF QueueInv, Queued
<1> QED
  BY <1>4, <1>6 DEF QueueInv, Queued

LEMMA NextQueue == TypeOK /\ QueueInv /\ [Next]_vars => QueueInv'
<1> SUFFICES ASSUME TypeOK, QueueInv, [Next]_vars PROVE QueueInv'
  OBVIOUS
<1>1. ASSUME NEW r \in Requests, ClientRequest(r) PROVE QueueInv'
  <2>1. DataMsg(r) \in HubMessages /\ DataMsg(r).arg = r
    BY DEF DataMsg, HubMessages
  <2>2. /\ stage[r] = "idle" /\ stage' = [stage EXCEPT ![r] = "queued"]
        /\ hubQ' = Append(hubQ, DataMsg(r))
        /\ stage \in [Requests -> {"idle", "queued", "taken", "dropped"}]
    BY <1>1 DEF ClientRequest, TypeOK
  <2>3. /\ \A x \in Requests : stage[x] = "queued" => stage'[x] = "queued"
        /\ stage[r] # "queued" /\ stage'[r] = "queued"
    BY <2>2
  <2> QED
    BY <2>1, <2>2, <2>3, QueueWithMore
<1>2. CASE UNCHANGED <<hubQ, stage>>
  BY <1>2 DEF QueueInv
<1>3. CASE HubTakeQos0 \/ HubTakeTracked \/ HubPoolEmpty
  <2>1. HubReads("Data")
    BY <1>3 DEF HubTakeQos0, HubTakeTracked, HubPoolEmpty
  <2>2. PICK s \in {"taken", "dropped"} :
           stage' = [stage EXCEPT ![Head(hubQ).arg] = s]
    BY <1>3 DEF HubTakeQos0, HubTakeTracked, HubPoolEmpty
  <2> QED
    BY <2>1, <2>2, QueueAfterReading
<1>4. CASE HubRecoverRec \/ HubRecoverDone \/ HubRecoverUnknown
  <2>1. HubReads("RecoverId") /\ stage' = stage
    BY <1>4 DEF HubRecoverRec, HubRecoverDone, HubRecoverUnknown
  <2> QED
    BY <2>1, HubReading, QueueWithoutHead
<1>5. ASSUME NEW t \in tasks, TaskAcked(t) \/ TaskRecoverAgain(t)
      PROVE  QueueInv'
  <2>1. RecoverMsg(t.id) \in HubMessages /\ RecoverMsg(t.id).type # "Data"
    BY DEF TypeOK, Tasks, RecoverMsg, HubMessages
  <2>2. hubQ' = Append(hubQ, RecoverMsg(t.id)) /\ stage' = stage
    BY <1>5 DEF TaskAcked, TaskRecoverAgain
  <2> QED
    BY <2>1, <2>2, QueueWithMore
<1>6. CASE HubStartNetwork \/ HubConnected \/ HubConnectFail \/ HubLost
  BY <1>2, <1>6 DEF HubStartNetwork, HubConnected, HubConnectFail, HubLost
<1>7. ASSUME NEW t \in tasks, TaskSend(t) \/ TaskTimeout(t) \/ TaskNotify(t)
      PROVE  QueueInv'
  BY <1>2, <1>7 DEF TaskSend, TaskTimeout, TaskNotify, hubVars
<1>8. CASE \/ NetConnected \/ NetWrite \/ NetForward \/ NetConnectFail \/ NetLost
           \/ BrokerStep \/ UNCHANGED vars
  BY <1>2, <1>8 DEF NetConnected, NetWrite, NetForward, NetConnectFail, NetLost,
                    BrokerStep, BrokerTake, BrokerRefuse, vars, hubVars
<1> QED
  BY <1>1, <1>3, <1>4, <1>5, <1>6, <1>7, <1>8
     DEF Next, HubStep, TaskStep, NetStep

-----------------------------------------------------------------------------
(* Which copies a step makes.                                              *)

\* The set of copies is the same or smaller.
LEMMA CopiesOf ==
    /\ Range(clientData) \subseteq Copies /\ Range(toBroker) \subseteq Copies
    /\ \A t \in tasks : PacketOf(t) \in Copies
    /\ \A k \in Range(netQ) : PacketOf(k) \in Copies
    /\ \A h \in brokerHeld : Entry("QoS2", h.req, h.id) \in Copies
  BY DEF Copies

LEMMA CopiesType == TypeOK => Copies \subseteq Packets
<1> SUFFICES ASSUME TypeOK PROVE Copies \subseteq Packets
  OBVIOUS
<1>1. Range(clientData) \subseteq Packets
  <2>1. clientData \in Seq(Entries)
    BY DEF TypeOK
  <2>2. Range(clientData) \subseteq Entries
    BY <2>1 DEF Range
  <2>3. \A e \in Entries : e \in Packets
    BY DEF Entries, Packets
  <2> QED
    BY <2>2, <2>3
<1>2. Range(toBroker) \subseteq Packets
  BY DEF TypeOK, Range
<1>3. {PacketOf(t) : t \in tasks} \subseteq Packets
  <2>1. \A t \in Tasks : PacketOf(t) \in Packets
    BY DEF Tasks, PacketOf, Packets
  <2> QED
    BY <2>1 DEF TypeOK
<1>4. {PacketOf(k) : k \in Range(netQ)} \subseteq Packets
  <2>1. \A k \in TaskKeys : PacketOf(k) \in Packets
    BY DEF TaskKeys, PacketOf, Packets
  <2>2. netQ \in Seq(TaskKeys)
    BY DEF TypeOK
  <2>3. Range(netQ) \subseteq TaskKeys
    BY <2>2 DEF Range
  <2> QED
    BY <2>1, <2>3
<1>5. {Entry("QoS2", h.req, h.id) : h \in brokerHeld} \subseteq Packets
  <2>1. \A h \in [req : Requests, id : 0..MaxPacketId] :
            Entry("QoS2", h.req, h.id) \in Packets
    BY DEF Entry, Packets
  <2> QED
    BY <2>1 DEF TypeOK
<1> QED
  BY <1>1, <1>2, <1>3, <1>4, <1>5 DEF Copies

\* How the parts of Copies bound it.
LEMMA CopiesWithin ==
    ASSUME NEW C,
           Range(clientData) \subseteq C, Range(toBroker) \subseteq C,
           \A t \in tasks : PacketOf(t) \in C,
           \A k \in Range(netQ) : PacketOf(k) \in C,
           \A h \in brokerHeld : Entry("QoS2", h.req, h.id) \in C
    PROVE  Copies \subseteq C
  BY DEF Copies

LEMMA CopiesWithinNext ==
    ASSUME NEW C,
           Range(clientData') \subseteq C, Range(toBroker') \subseteq C,
           \A t \in tasks' : PacketOf(t) \in C,
           \A k \in Range(netQ') : PacketOf(k) \in C,
           \A h \in brokerHeld' : Entry("QoS2", h.req, h.id) \in C
    PROVE  Copies' \subseteq C
  BY DEF Copies

LEMMA QueueRanges ==
    ASSUME TypeOK
    PROVE  /\ \A k \in TaskKeys : Range(Append(netQ, k)) = Range(netQ) \cup {k}
           /\ netQ # <<>> => /\ Head(netQ) \in Range(netQ)
                             /\ Range(Tail(netQ)) \subseteq Range(netQ)
           /\ \A p \in Packets : Range(Append(toBroker, p)) = Range(toBroker) \cup {p}
           /\ \A e \in Entries : Range(Append(clientData, e)) = Range(clientData) \cup {e}
           /\ \A a \in Acks : Range(Append(fromBroker, a)) = Range(fromBroker) \cup {a}
           /\ fromBroker # <<>> => /\ Head(fromBroker) \in Range(fromBroker)
                                   /\ Range(Tail(fromBroker)) \subseteq Range(fromBroker)
<1>1. /\ netQ \in Seq(TaskKeys) /\ toBroker \in Seq(Packets)
      /\ clientData \in Seq(Entries) /\ fromBroker \in Seq(Acks)
  BY DEF TypeOK
<1>2. /\ \A k \in TaskKeys : Range(Append(netQ, k)) = Range(netQ) \cup {k}
      /\ netQ # <<>> => Range(netQ) = {Head(netQ)} \cup Range(Tail(netQ))
  BY <1>1, RangeOfQueue
<1>3. \A p \in Packets : Range(Append(toBroker, p)) = Range(toBroker) \cup {p}
  BY <1>1, RangeOfQueue
<1>4. \A e \in Entries : Range(Append(clientData, e)) = Range(clientData) \cup {e}
  BY <1>1, RangeOfQueue
<1>5. /\ \A a \in Acks : Range(Append(fromBroker, a)) = Range(fromBroker) \cup {a}
      /\ fromBroker # <<>> => Range(fromBroker) = {Head(fromBroker)} \cup Range(Tail(fromBroker))
  BY <1>1, RangeOfQueue
<1> QED
  BY <1>2, <1>3, <1>4, <1>5

LEMMA EmptyRange == Range(<<>>) = {}
  BY DEF Range

\* Everything but the hub only moves the copies there are.
LEMMA TaskCopies ==
    ASSUME TypeOK, NEW t \in tasks,
           TaskSend(t) \/ TaskTimeout(t) \/ TaskAcked(t)
               \/ TaskRecoverAgain(t) \/ TaskNotify(t)
    PROVE  Copies' \subseteq Copies
<1>1. t \in Tasks /\ TaskKey(t) \in TaskKeys
  BY DEF TypeOK, Tasks, TaskKey, TaskKeys
<1>2. PacketOf(TaskKey(t)) = PacketOf(t)
  BY DEF PacketOf, TaskKey
<1>3. \A pc, n : PacketOf([t EXCEPT !.pc = pc, !.resends = n]) = PacketOf(t)
  BY <1>1 DEF PacketOf, Tasks
<1>4. \A pc : PacketOf([t EXCEPT !.pc = pc]) = PacketOf(t)
  BY <1>1 DEF PacketOf, Tasks
<1>5. UNCHANGED <<clientData, toBroker, brokerHeld>>
  BY DEF TaskSend, TaskTimeout, TaskAcked, TaskRecoverAgain, TaskNotify,
         hubVars, wireVars, brokerVars
<1>6. \A u \in tasks' : PacketOf(u) \in Copies
  <2>1. CASE TaskSend(t) \/ TaskTimeout(t)
    <3>1. PICK n : Transmit(t, n)
      BY <2>1 DEF TaskSend, TaskTimeout
    <3>2. \A u \in tasks' : u \in tasks \/ u = [t EXCEPT !.pc = "receipt", !.resends = n]
      BY <3>1 DEF Transmit
    <3> QED
      BY <1>3, <3>2, CopiesOf
  <2>2. CASE TaskAcked(t) \/ TaskRecoverAgain(t)
    <3>1. \A u \in tasks' : u \in tasks \/ \E pc : u = [t EXCEPT !.pc = pc]
      BY <2>2 DEF TaskAcked, TaskRecoverAgain, AfterRecover, Goto
    <3> QED
      BY <1>4, <3>1, CopiesOf
  <2>3. CASE TaskNotify(t)
    BY <2>3, CopiesOf DEF TaskNotify
  <2> QED
    BY <2>1, <2>2, <2>3
<1>7. \A k \in Range(netQ') : PacketOf(k) \in Copies
  <2>1. CASE netQ' = netQ
    BY <2>1, CopiesOf
  <2>2. CASE netQ' = Append(netQ, TaskKey(t))
    <3>1. Range(netQ') = Range(netQ) \cup {TaskKey(t)}
      BY <1>1, <2>2, QueueRanges
    <3> QED
      BY <1>2, <3>1, CopiesOf
  <2>3. netQ' = netQ \/ netQ' = Append(netQ, TaskKey(t))
    BY DEF TaskSend, TaskTimeout, TaskAcked, TaskRecoverAgain, TaskNotify,
           Transmit, netVars
  <2> QED
    BY <2>1, <2>2, <2>3
<1>8. /\ Range(clientData') \subseteq Copies /\ Range(toBroker') \subseteq Copies
      /\ \A h \in brokerHeld' : Entry("QoS2", h.req, h.id) \in Copies
  BY <1>5, CopiesOf
<1> QED
  BY <1>6, <1>7, <1>8, CopiesWithinNext

LEMMA NetworkCopies ==
    ASSUME TypeOK, NetStep \/ NetConnectFail \/ NetLost
    PROVE  Copies' \subseteq Copies
<1>1. clientData' = clientData /\ brokerHeld' = brokerHeld
  BY DEF NetStep, NetConnected, NetWrite, NetForward, NetConnectFail, NetLost,
         hubVars, brokerVars
<1>2. \A u \in tasks' : \E t \in tasks : PacketOf(u) = PacketOf(t)
  <2>1. CASE NetWrite
    <3>1. \A t \in tasks, pc \in {"await", "notify"} :
            PacketOf([t EXCEPT !.pc = pc]) = PacketOf(t)
      <4>1. \A t \in Tasks, pc \in {"await", "notify"} :
              PacketOf([t EXCEPT !.pc = pc]) = PacketOf(t)
        BY DEF Tasks, PacketOf
      <4> QED
        BY <4>1 DEF TypeOK
    <3>2. \A u \in tasks' : \E t \in tasks :
            u = t \/ \E pc \in {"await", "notify"} : u = [t EXCEPT !.pc = pc]
      BY <2>1 DEF NetWrite
    <3>3. ASSUME NEW u \in tasks' PROVE \E t \in tasks : PacketOf(u) = PacketOf(t)
      <4>1. PICK t \in tasks :
              u = t \/ \E pc \in {"await", "notify"} : u = [t EXCEPT !.pc = pc]
        BY <3>2
      <4>2. PacketOf(u) = PacketOf(t)
        BY <3>1, <4>1
      <4> QED
        BY <4>2
    <3> QED
      BY <3>3
  <2>2. CASE NetForward
    <3> DEFINE no == Head(fromBroker).refused
    <3>1. \A t \in tasks : PacketOf([t EXCEPT !.acked = TRUE, !.refused = no]) = PacketOf(t)
      <4>1. \A t \in Tasks : PacketOf([t EXCEPT !.acked = TRUE, !.refused = no]) = PacketOf(t)
        BY DEF Tasks, PacketOf
      <4> QED
        BY <4>1 DEF TypeOK
    <3>2. \A u \in tasks' : \E t \in tasks :
            u = t \/ u = [t EXCEPT !.acked = TRUE, !.refused = no]
      BY <2>2 DEF NetForward
    <3> QED
      BY <3>1, <3>2
  <2>3. CASE NetConnected \/ NetConnectFail \/ NetLost
    <3>1. tasks' \subseteq tasks
      BY <2>3 DEF NetConnected, NetConnectFail, NetLost, WithoutQueued
    <3> QED
      BY <3>1
  <2> QED
    BY <2>1, <2>2, <2>3 DEF NetStep
<1>3. Range(netQ') \subseteq Range(netQ)
  <2>1. netQ' = netQ \/ netQ' = <<>> \/ (netQ # <<>> /\ netQ' = Tail(netQ))
    BY DEF NetStep, NetConnected, NetWrite, NetForward, NetConnectFail, NetLost,
           netVars
  <2> QED
    BY <2>1, QueueRanges, EmptyRange
<1>4. Range(toBroker') \subseteq Copies
  <2>1. CASE NetWrite
    <3>1. netQ # <<>> /\ toBroker' = Append(toBroker, PacketOf(Head(netQ)))
      BY <2>1 DEF NetWrite, PacketOf
    <3>2. Head(netQ) \in Range(netQ)
      BY <3>1, QueueRanges
    <3>3. PacketOf(Head(netQ)) \in Copies
      BY <3>2, CopiesOf
    <3>4. PacketOf(Head(netQ)) \in Packets
      BY <3>3, CopiesType
    <3>5. Range(toBroker') = Range(toBroker) \cup {PacketOf(Head(netQ))}
      BY <3>1, <3>4, QueueRanges
    <3> QED
      BY <3>3, <3>5, CopiesOf
  <2>2. CASE ~ NetWrite
    <3>1. toBroker' = toBroker \/ toBroker' = <<>>
      BY <2>2 DEF NetStep, NetConnected, NetForward, NetConnectFail, NetLost,
                  wireVars
    <3> QED
      BY <3>1, CopiesOf, EmptyRange
  <2> QED
    BY <2>1, <2>2
<1>5. /\ Range(clientData') \subseteq Copies
      /\ \A u \in tasks' : PacketOf(u) \in Copies
      /\ \A k \in Range(netQ') : PacketOf(k) \in Copies
      /\ \A h \in brokerHeld' : Entry("QoS2", h.req, h.id) \in Copies
  BY <1>1, <1>2, <1>3, CopiesOf
<1> QED
  BY <1>4, <1>5, CopiesWithinNext

LEMMA BrokerCopies ==
    ASSUME TypeOK, BrokerStep
    PROVE  Copies' \subseteq Copies
<1> DEFINE p == Head(toBroker)
<1>1. p \in Packets /\ p \in Range(toBroker) /\ Range(toBroker') \subseteq Range(toBroker)
  BY BrokerReads
<1>2. clientData' = clientData /\ tasks' = tasks /\ netQ' = netQ
  BY DEF BrokerStep, BrokerTake, BrokerRefuse, hubVars, netVars
<1>3. ASSUME NEW h \in brokerHeld' PROVE Entry("QoS2", h.req, h.id) \in Copies
  <2>1. h \in brokerHeld \/ (p.kind = "QoS2" /\ h = [req |-> p.req, id |-> p.id])
    BY <1>3 DEF BrokerStep, BrokerTake, BrokerRefuse
  <2>2. CASE h \in brokerHeld
    BY <2>2, CopiesOf
  <2>3. CASE p.kind = "QoS2" /\ h = [req |-> p.req, id |-> p.id]
    <3>1. Entry("QoS2", h.req, h.id) = [kind |-> p.kind, req |-> p.req, id |-> p.id]
      BY <2>3 DEF Entry
    <3>2. [kind |-> p.kind, req |-> p.req, id |-> p.id] = p
      <4> HIDE DEF p
      <4> QED
        BY <1>1 DEF Packets
    <3> QED
      BY <1>1, <3>1, <3>2, CopiesOf
  <2> QED
    BY <2>1, <2>2, <2>3
<1>4. /\ Range(clientData') \subseteq Copies /\ Range(toBroker') \subseteq Copies
      /\ \A u \in tasks' : PacketOf(u) \in Copies
      /\ \A k \in Range(netQ') : PacketOf(k) \in Copies
  BY <1>1, <1>2, CopiesOf
<1> QED
  BY <1>3, <1>4, CopiesWithinNext

\* Reconnecting makes tasks of entries; a RecoverId may remove an entry.
LEMMA HubCopies ==
    ASSUME TypeOK,
           \/ HubStartNetwork \/ HubConnected \/ HubConnectFail \/ HubLost
           \/ HubPoolEmpty \/ HubRecoverDone \/ HubRecoverUnknown
    PROVE  Copies' \subseteq Copies
<1>1. UNCHANGED <<toBroker, brokerHeld>> /\ (netQ' = netQ \/ netQ' = <<>>)
  BY DEF HubStartNetwork, HubConnected, HubConnectFail, HubLost, HubPoolEmpty,
         HubRecoverDone, HubRecoverUnknown, HubReads, netVars, wireVars, brokerVars
<1>2. Range(clientData') \subseteq Range(clientData)
  <2>1. CASE clientData' = clientData
    BY <2>1
  <2>2. CASE HubRecoverDone
    <3>1. PICK i \in DOMAIN clientData : clientData' = RemoveAt(clientData, i)
      BY <2>2 DEF HubRecoverDone
    <3>2. clientData \in Seq(Entries) /\ i \in 1..Len(clientData)
      BY <3>1 DEF TypeOK
    <3>3. /\ clientData' \in Seq(Entries)
          /\ Len(clientData') = Len(clientData) - 1
          /\ \A j \in 1..Len(clientData) - 1 :
                clientData'[j] = IF j < i THEN clientData[j] ELSE clientData[j + 1]
      BY <3>1, <3>2, RemoveAtElements
    <3>4. Len(clientData) \in Nat /\ DOMAIN clientData = 1..Len(clientData)
      BY <3>2
    <3>5. DOMAIN clientData' = 1..Len(clientData')
      BY <3>3
    <3>6. \A j \in 1..Len(clientData) - 1 :
            j \in 1..Len(clientData) /\ j + 1 \in 1..Len(clientData)
      BY <3>4
    <3> QED
      BY <3>3, <3>4, <3>5, <3>6 DEF Range
  <2> QED
    BY <2>1, <2>2 DEF HubStartNetwork, HubConnected, HubConnectFail, HubLost,
           HubPoolEmpty, HubRecoverUnknown
<1>3. \A u \in tasks' : u \in tasks \/ \E e \in Range(clientData) : u = TaskOf(e)
  BY DEF HubStartNetwork, HubConnected, HubConnectFail, HubLost, HubPoolEmpty,
         HubRecoverDone, HubRecoverUnknown, Respawned
<1>4. ASSUME NEW e \in Range(clientData) PROVE PacketOf(TaskOf(e)) = e
  <2>1. e \in Entries
    BY DEF TypeOK, Range
  <2> QED
    BY <2>1 DEF PacketOf, TaskOf, NewTask, Entries
<1>5. \A u \in tasks' : PacketOf(u) \in Copies
  BY <1>3, <1>4, CopiesOf
<1>6. /\ Range(clientData') \subseteq Copies /\ Range(toBroker') \subseteq Copies
      /\ \A k \in Range(netQ') : PacketOf(k) \in Copies
      /\ \A h \in brokerHeld' : Entry("QoS2", h.req, h.id) \in Copies
  BY <1>1, <1>2, CopiesOf, EmptyRange
<1> QED
  BY <1>5, <1>6, CopiesWithinNext

\* The copies a step adds to those there are.
AddsTo(e) == Copies' \subseteq Copies \cup {e}

LEMMA HubAdds ==
    ASSUME TypeOK, NEW e \in Packets,
           UNCHANGED <<netQ, toBroker, brokerHeld>>,
           Range(clientData') \subseteq Range(clientData) \cup {e},
           \A u \in tasks' : u \in tasks \/ PacketOf(u) = e
    PROVE  AddsTo(e)
<1>1. /\ Range(clientData') \subseteq Copies \cup {e}
      /\ Range(toBroker') \subseteq Copies \cup {e}
      /\ \A u \in tasks' : PacketOf(u) \in Copies \cup {e}
      /\ \A k \in Range(netQ') : PacketOf(k) \in Copies \cup {e}
      /\ \A h \in brokerHeld' : Entry("QoS2", h.req, h.id) \in Copies \cup {e}
  BY CopiesOf
<1> QED
  BY <1>1, CopiesWithinNext DEF AddsTo

LEMMA Qos0Copies ==
    ASSUME TypeOK, HubTakeQos0
    PROVE  AddsTo(Entry("QoS0", Head(hubQ).arg, 0)) /\ KindOf[Head(hubQ).arg] = "QoS0"
<1> DEFINE r == Head(hubQ).arg
           e == Entry("QoS0", r, 0)
<1>1. HubReads("Data") /\ KindOf[r] = "QoS0"
  BY DEF HubTakeQos0
<1>2. r \in Requests
  BY <1>1, HubReading
<1>3. e \in Packets /\ PacketOf(NewTask("QoS0", r, 0)) = e
  BY <1>2 DEF Packets, Entry, PacketOf, NewTask
<1>4. /\ UNCHANGED <<netQ, toBroker, brokerHeld>>
      /\ Range(clientData') \subseteq Range(clientData) \cup {e}
      /\ \A u \in tasks' : u \in tasks \/ u = NewTask("QoS0", r, 0)
  BY DEF HubTakeQos0, HubReads, netVars, wireVars, brokerVars
<1> QED
  BY <1>1, <1>3, <1>4, HubAdds

\* A request that is numbered: its entry and its task.
LEMMA TrackedCopies ==
    ASSUME TypeOK, HubTakeTracked
    PROVE  LET r == Head(hubQ).arg
               e == Entry(KindOf[r], r, Head(freeIds))
           IN  /\ AddsTo(e) /\ e \in Packets /\ r \in Requests
               /\ KindOf[r] \in Tracked /\ freeIds # <<>>
               /\ e.kind = KindOf[r] /\ e.req = r /\ e.id = Head(freeIds)
               /\ clientData' = Append(clientData, e)
               /\ Range(clientData') = Range(clientData) \cup {e}
               /\ freeIds' = Tail(freeIds)
               /\ stage' = [stage EXCEPT ![r] = "taken"]
<1> DEFINE r == Head(hubQ).arg
           e == Entry(KindOf[r], r, Head(freeIds))
<1>1. HubReads("Data") /\ KindOf[r] \in Tracked /\ freeIds # <<>>
  BY DEF HubTakeTracked
<1>2. r \in Requests
  BY <1>1, HubReading
<1>3. Head(freeIds) \in 1..MaxPacketId
  BY <1>1, HeadOfQueue DEF TypeOK
<1>4. e \in Entries
  BY <1>1, <1>2, <1>3 DEF Entry, Entries
<1>5. /\ clientData' = Append(clientData, e) /\ tasks' = tasks \cup {TaskOf(e)}
      /\ UNCHANGED <<netQ, toBroker, brokerHeld>>
      /\ freeIds' = Tail(freeIds)
      /\ stage' = [stage EXCEPT ![r] = "taken"]
  BY DEF HubTakeTracked, HubReads, netVars, wireVars, brokerVars
<1>6. e.kind = KindOf[r] /\ e.req = r /\ e.id = Head(freeIds)
  BY DEF Entry
<1> HIDE DEF e, r
<1>7. PacketOf(TaskOf(e)) = e /\ e \in Packets
  BY <1>4 DEF PacketOf, TaskOf, NewTask, Entries, Packets
<1>8. Range(clientData') = Range(clientData) \cup {e}
  BY <1>4, <1>5, QueueRanges
<1>9. \A u \in tasks' : u \in tasks \/ PacketOf(u) = e
  BY <1>5, <1>7
<1>10. AddsTo(e)
  BY <1>5, <1>7, <1>8, <1>9, HubAdds
<1> QED
  BY <1>1, <1>2, <1>5, <1>6, <1>7, <1>8, <1>10 DEF e, r

\* A QoS 2 publish whose RecoverId is read goes on as its PUBREL.
LEMMA RecCopies ==
    ASSUME TypeOK, HubRecoverRec
    PROVE  \E i \in DOMAIN clientData :
             /\ clientData[i] \in Entries /\ clientData[i] \in Range(clientData)
             /\ clientData[i].kind = "QoS2" /\ clientData[i].id = Head(hubQ).arg
             /\ clientData' = [clientData EXCEPT ![i] = Entry("PubRel", clientData[i].req, clientData[i].id)]
             /\ AddsTo(Entry("PubRel", clientData[i].req, clientData[i].id))
             /\ HubReads("RecoverId") /\ stage' = stage
<1>1. PICK i \in DOMAIN clientData :
        /\ clientData[i].id = Head(hubQ).arg /\ clientData[i].kind = "QoS2"
        /\ clientData' = [clientData EXCEPT ![i] = [clientData[i] EXCEPT !.kind = "PubRel"]]
        /\ tasks' = tasks \cup {TaskOf([clientData[i] EXCEPT !.kind = "PubRel"])}
  BY DEF HubRecoverRec, FirstWith, Completed
<1> DEFINE e == Entry("PubRel", clientData[i].req, clientData[i].id)
<1>2. clientData[i] \in Entries /\ clientData[i] \in Range(clientData)
  BY DEF TypeOK, Range
<1>3. e = [clientData[i] EXCEPT !.kind = "PubRel"] /\ e \in Packets
  BY <1>2 DEF Entry, Entries, Packets
<1>4. PacketOf(TaskOf(e)) = e
  BY DEF Entry, PacketOf, TaskOf, NewTask
<1>5. /\ UNCHANGED <<netQ, toBroker, brokerHeld>> /\ stage' = stage
      /\ HubReads("RecoverId")
  BY DEF HubRecoverRec, HubReads, netVars, wireVars, brokerVars
<1>6. clientData' = [clientData EXCEPT ![i] = e]
  BY <1>1, <1>3
<1> HIDE DEF e
<1>7. Range(clientData') \subseteq Range(clientData) \cup {e}
  BY <1>6 DEF Range
<1>8. \A u \in tasks' : u \in tasks \/ PacketOf(u) = e
  BY <1>1, <1>3, <1>4
<1>9. AddsTo(e)
  BY <1>3, <1>5, <1>7, <1>8, HubAdds
<1> QED
  BY <1>1, <1>2, <1>5, <1>6, <1>9 DEF e

\* All other steps.
LEMMA OtherCopies ==
    ASSUME TypeOK, [Next]_vars,
           ~ HubTakeQos0, ~ HubTakeTracked, ~ HubRecoverRec
    PROVE  Copies' \subseteq Copies
<1>1. ASSUME NEW r \in Requests, ClientRequest(r) PROVE Copies' \subseteq Copies
  <2>1. UNCHANGED <<clientData, tasks, netQ, toBroker, brokerHeld>>
    BY <1>1 DEF ClientRequest, netVars, wireVars, brokerVars
  <2> QED
    BY <2>1 DEF Copies
<1>2. CASE HubStep
  BY <1>2, HubCopies DEF HubStep
<1>3. CASE TaskStep \/ \E t \in tasks : TaskTimeout(t)
  BY <1>3, TaskCopies DEF TaskStep
<1>4. CASE NetStep \/ NetConnectFail \/ NetLost
  BY <1>4, NetworkCopies
<1>5. CASE BrokerStep
  BY <1>5, BrokerCopies
<1>6. CASE UNCHANGED vars
  <2>1. UNCHANGED <<clientData, tasks, netQ, toBroker, brokerHeld>>
    BY <1>6 DEF vars, hubVars, netVars, wireVars, brokerVars
  <2> QED
    BY <2>1 DEF Copies
<1> QED
  BY <1>1, <1>2, <1>3, <1>4, <1>5, <1>6 DEF Next

-----------------------------------------------------------------------------
(* Which ids are given out.                                                *)

LEMMA StageSteps ==
    ASSUME TypeOK, [Next]_vars
    PROVE  \/ stage' = stage
           \/ \E r \in Requests : stage[r] = "idle" /\ stage' = [stage EXCEPT ![r] = "queued"]
           \/ HubTakeQos0 \/ HubTakeTracked \/ HubPoolEmpty
<1>1. ASSUME NEW r \in Requests, ClientRequest(r)
      PROVE  stage[r] = "idle" /\ stage' = [stage EXCEPT ![r] = "queued"]
  BY <1>1 DEF ClientRequest
<1>2. CASE HubStep
  BY <1>2 DEF HubStep, HubStartNetwork, HubConnected, HubConnectFail, HubLost,
              HubRecoverRec, HubRecoverDone, HubRecoverUnknown
<1>3. CASE TaskStep \/ \E t \in tasks : TaskTimeout(t)
  BY <1>3 DEF TaskStep, TaskTimeout, TaskSend, TaskAcked, TaskRecoverAgain,
              TaskNotify, hubVars
<1>4. CASE NetStep \/ NetConnectFail \/ NetLost \/ BrokerStep
  BY <1>4 DEF NetStep, NetConnected, NetWrite, NetForward, NetConnectFail,
              NetLost, BrokerStep, BrokerTake, BrokerRefuse, hubVars
<1>5. CASE UNCHANGED vars
  BY <1>5 DEF vars, hubVars
<1> QED
  BY <1>1, <1>2, <1>3, <1>4, <1>5 DEF Next

LEMMA TakenSteps ==
    ASSUME TypeOK, QueueInv, [Next]_vars
    PROVE  /\ HubTakeTracked => /\ Head(hubQ).arg \notin TakenRequests
                                /\ Head(hubQ).arg \in Requests
                                /\ TakenRequests' = TakenRequests \cup {Head(hubQ).arg}
           /\ ~ HubTakeTracked => TakenRequests' = TakenRequests
<1>1. stage \in [Requests -> {"idle", "queued", "taken", "dropped"}]
  BY DEF TypeOK
<1>2. ASSUME HubReads("Data"), NEW s \in {"taken", "dropped"},
             stage' = [stage EXCEPT ![Head(hubQ).arg] = s]
      PROVE  stage[Head(hubQ).arg] = "queued" /\ Head(hubQ).arg \in Requests
  BY <1>2, QueueAfterReading, HubReading
<1>3. CASE HubTakeTracked
  <2> DEFINE r == Head(hubQ).arg
  <2>1. r \in Requests /\ KindOf[r] \in Tracked /\ stage' = [stage EXCEPT ![r] = "taken"]
    BY <1>3, TrackedCopies
  <2>2. HubReads("Data")
    BY <1>3 DEF HubTakeTracked
  <2>3. stage[r] = "queued"
    BY <1>2, <2>1, <2>2
  <2> HIDE DEF r
  <2>4. r \notin TakenRequests /\ TakenRequests' = TakenRequests \cup {r}
    BY <1>1, <2>1, <2>3 DEF TakenRequests
  <2> QED
    BY <1>3, <2>1, <2>4 DEF r
<1>4. CASE stage' = stage /\ ~ HubTakeTracked
  BY <1>4 DEF TakenRequests
<1>5. CASE /\ ~ HubTakeTracked
           /\ \E r \in Requests : stage[r] = "idle" /\ stage' = [stage EXCEPT ![r] = "queued"]
  <2>1. PICK r \in Requests : stage[r] = "idle" /\ stage' = [stage EXCEPT ![r] = "queued"]
    BY <1>5
  <2>2. TakenRequests' = TakenRequests
    BY <1>1, <2>1 DEF TakenRequests
  <2> QED
    BY <1>5, <2>2
<1>6. CASE ~ HubTakeTracked /\ HubTakeQos0
  <2> DEFINE r == Head(hubQ).arg
  <2>1. KindOf[r] = "QoS0" /\ stage' = [stage EXCEPT ![r] = "taken"]
    BY <1>6 DEF HubTakeQos0
  <2> HIDE DEF r
  <2>2. TakenRequests' = TakenRequests
    BY <1>1, <2>1 DEF TakenRequests
  <2> QED
    BY <1>6, <2>2
<1>7. CASE ~ HubTakeTracked /\ HubPoolEmpty
  <2> DEFINE r == Head(hubQ).arg
  <2>1. HubReads("Data") /\ stage' = [stage EXCEPT ![r] = "dropped"]
    BY <1>7 DEF HubPoolEmpty
  <2>2. stage[r] = "queued"
    BY <1>2, <2>1
  <2> HIDE DEF r
  <2>3. TakenRequests' = TakenRequests
    BY <1>1, <2>1, <2>2 DEF TakenRequests
  <2> QED
    BY <1>7, <2>3
<1> QED
  BY <1>3, <1>4, <1>5, <1>6, <1>7, StageSteps

\* One more id is given out with each request that is taken.
LEMMA GivenSteps ==
    ASSUME IdsSuffice, TypeOK, QueueInv, [Next]_vars
    PROVE  /\ Given \in Nat
           /\ HubTakeTracked => Given' = Given + 1 /\ Given' <= MaxPacketId
           /\ ~ HubTakeTracked => Given' = Given
<1>1. IsFiniteSet(TakenRequests) /\ Given \in Nat
  BY FS_Subset, FS_CardinalityType DEF TakenRequests, IdsSuffice, Given
<1>2. CASE HubTakeTracked
  <2> DEFINE r == Head(hubQ).arg
  <2>1. r \notin TakenRequests /\ r \in Requests /\ TakenRequests' = TakenRequests \cup {r}
    BY <1>2, TakenSteps
  <2>2. Cardinality(TakenRequests \cup {r}) = Cardinality(TakenRequests) + 1
    BY <1>1, <2>1, FS_AddElement
  <2>3. TakenRequests' \subseteq Requests
    BY <2>1 DEF TakenRequests
  <2>4. Cardinality(TakenRequests') <= Cardinality(Requests)
    BY <2>3, FS_Subset DEF IdsSuffice
  <2>5. Given' = Given + 1
    BY <2>1, <2>2 DEF Given
  <2>6. Given' <= Cardinality(Requests) /\ Cardinality(Requests) \in Nat
    BY <2>4, FS_CardinalityType DEF Given, IdsSuffice
  <2> QED
    BY <1>1, <1>2, <2>5, <2>6 DEF IdsSuffice
<1>3. CASE ~ HubTakeTracked
  BY <1>1, <1>3, TakenSteps DEF Given
<1> QED
  BY <1>2, <1>3

LEMMA PoolSteps ==
    ASSUME TypeOK, [Next]_vars
    PROVE  \/ freeIds' = freeIds
           \/ HubTakeTracked
           \/ \E i \in 1..MaxPacketId : freeIds' = Append(freeIds, i)
<1>1. CASE HubStep
  <2>1. CASE HubRecoverDone
    <3>1. PICK i \in DOMAIN clientData :
            clientData[i].id = Head(hubQ).arg /\ freeIds' = Push(Head(hubQ).arg)
      BY <2>1 DEF HubRecoverDone, FirstWith
    <3>2. Head(hubQ).arg \in 1..MaxPacketId
      <4>1. clientData[i] \in Entries
        BY DEF TypeOK
      <4> QED
        BY <3>1, <4>1 DEF Entries
    <3> QED
      BY <3>1, <3>2 DEF Push
  <2>2. CASE ~ HubRecoverDone
    BY <1>1, <2>2 DEF HubStep, HubStartNetwork, HubConnected, HubConnectFail,
         HubLost, HubTakeQos0, HubPoolEmpty, HubRecoverRec, HubRecoverUnknown
  <2> QED
    BY <2>1, <2>2
<1>2. CASE ~ HubStep
  BY <1>2 DEF Next, ClientRequest, TaskStep, TaskTimeout, TaskSend, TaskAcked,
       TaskRecoverAgain, TaskNotify, NetStep, NetConnected, NetWrite, NetForward,
       NetConnectFail, NetLost, BrokerStep, BrokerTake, BrokerRefuse, hubVars, vars
<1> QED
  BY <1>1, <1>2

\* The next id to be given out is one that never was.
LEMMA FreshHead ==
    ASSUME TypeOK, FreshInv, Given \in Nat, Given < MaxPacketId
    PROVE  freeIds # <<>> /\ Head(freeIds) = Given + 1
<1>1. 1 \in 1..MaxPacketId - Given
  OBVIOUS
<1>2. 1 \in 1..Len(freeIds) /\ freeIds[1] = Given + 1
  BY <1>1 DEF FreshInv
<1>3. freeIds \in Seq(1..MaxPacketId)
  BY DEF TypeOK
<1> QED
  BY <1>2, <1>3

LEMMA NextFresh ==
    ASSUME IdsSuffice, TypeOK, QueueInv, FreshInv, [Next]_vars
    PROVE  FreshInv'
<1>1. /\ freeIds \in Seq(1..MaxPacketId) /\ Len(freeIds) \in Nat
      /\ Given \in Nat
  BY GivenSteps, LenProperties DEF TypeOK
<1>2. CASE HubTakeTracked
  <2>1. /\ freeIds # <<>> /\ freeIds' = Tail(freeIds)
        /\ Given' = Given + 1 /\ Given' <= MaxPacketId
    BY <1>2, TrackedCopies, GivenSteps
  <2>2. /\ Len(freeIds') = Len(freeIds) - 1
        /\ \A k \in 1..Len(freeIds') : freeIds'[k] = freeIds[k + 1]
    BY <1>1, <2>1, TailElements
  <2>3. ASSUME NEW j \in 1..MaxPacketId - Given'
        PROVE  j \in 1..Len(freeIds') /\ freeIds'[j] = Given' + j
    <3>1. j + 1 \in 1..MaxPacketId - Given /\ j \in Nat /\ j >= 1
      BY <1>1, <2>1
    <3>2. j + 1 \in 1..Len(freeIds) /\ freeIds[j + 1] = Given + (j + 1)
      BY <3>1 DEF FreshInv
    <3> QED
      BY <1>1, <2>1, <2>2, <3>1, <3>2
  <2> QED
    BY <2>1, <2>3 DEF FreshInv
<1>3. CASE ~ HubTakeTracked
  <2>1. Given' = Given
    BY <1>3, GivenSteps
  <2>2. \A k \in 1..Len(freeIds) : k \in 1..Len(freeIds') /\ freeIds'[k] = freeIds[k]
    <3>1. CASE freeIds' = freeIds
      BY <3>1
    <3>2. CASE \E i \in 1..MaxPacketId : freeIds' = Append(freeIds, i)
      <4>1. PICK i \in 1..MaxPacketId : freeIds' = Append(freeIds, i)
        BY <3>2
      <4> QED
        BY <1>1, <4>1, AppendElements
    <3> QED
      BY <1>3, <3>1, <3>2, PoolSteps
  <2> QED
    BY <2>1, <2>2 DEF FreshInv
<1> QED
  BY <1>2, <1>3

-----------------------------------------------------------------------------
(* An id names a request.                                                  *)

\* The QoS 2 publish whose RecoverId is read is with the broker or refused.
LEMMA RecIsReceived ==
    ASSUME TypeOK, CopiesInv, TruthInv, HubReads("RecoverId"),
           NEW i \in DOMAIN clientData, clientData[i].kind = "QoS2",
           clientData[i].id = Head(hubQ).arg
    PROVE  /\ clientData[i] \in Numbered /\ KindOf[clientData[i].req] = "QoS2"
           /\ RecTrue(clientData[i].req)
<1>1. clientData[i] \in Copies
  BY CopiesOf DEF Range
<1>2. clientData[i] \in Numbered
  BY <1>1 DEF Numbered
<1>3. KindOf[clientData[i].req] = "QoS2"
  BY <1>1 DEF CopiesInv, Proper
<1>4. Head(hubQ) \in Range(hubQ) /\ Head(hubQ).type = "RecoverId"
  BY HubReading
<1>5. IdHolds(Head(hubQ).arg)
  BY <1>4 DEF TruthInv
<1>6. RecTrue(clientData[i].req)
  BY <1>2, <1>5 DEF IdHolds
<1> QED
  BY <1>2, <1>3, <1>6

\* What is numbered after a step: the same request and id as something before
\* it, or the request that was taken with the next id.
LEMMA NumberedSteps ==
    ASSUME IdsSuffice, TypeOK, QueueInv, FreshInv, CopiesInv, TruthInv,
           [Next]_vars, NEW c \in Numbered'
    PROVE  /\ Proper(c)' /\ c \in Packets
           /\ \/ \E d \in Numbered : d.req = c.req /\ d.id = c.id
              \/ /\ HubTakeTracked /\ c.id = Given + 1 /\ Given' = Given + 1
                 /\ c.req = Head(hubQ).arg
                 /\ c.req \notin TakenRequests /\ c.req \in TakenRequests'
<1>1. c \in Copies' /\ c.kind # "QoS0"
  BY DEF Numbered
<1>2. ASSUME c \in Copies PROVE c \in Numbered /\ c \in Packets /\ Proper(c)'
  BY <1>1, <1>2, CopiesType, ProperIsKept DEF Numbered, CopiesInv
<1>3. CASE ~ HubTakeQos0 /\ ~ HubTakeTracked /\ ~ HubRecoverRec
  BY <1>1, <1>2, <1>3, OtherCopies
<1>4. CASE HubTakeQos0
  <2>1. c \in Copies \/ c = Entry("QoS0", Head(hubQ).arg, 0)
    BY <1>1, <1>4, Qos0Copies DEF AddsTo
  <2>2. Entry("QoS0", Head(hubQ).arg, 0).kind = "QoS0"
    BY DEF Entry
  <2> QED
    BY <1>1, <1>2, <2>1, <2>2
<1>5. CASE HubTakeTracked
  <2> DEFINE r == Head(hubQ).arg
             e == Entry(KindOf[r], r, Head(freeIds))
  <2>1. /\ c \in Copies \/ c = e
        /\ e \in Packets /\ e.kind = KindOf[e.req] /\ e.req = r /\ e.id = Head(freeIds)
    BY <1>1, <1>5, TrackedCopies DEF AddsTo
  <2>2. Given \in Nat /\ Given' = Given + 1 /\ Given' <= MaxPacketId
    BY <1>5, GivenSteps
  <2>3. Head(freeIds) = Given + 1
    BY <2>2, FreshHead
  <2>4. r \notin TakenRequests /\ r \in TakenRequests'
    BY <1>5, TakenSteps
  <2> HIDE DEF e, r
  <2>5. CASE c \in Copies
    BY <1>2, <2>5
  <2>6. CASE c = e
    <3>1. Proper(c)'
      BY <2>1, <2>6 DEF Proper
    <3> QED
      BY <1>5, <2>1, <2>2, <2>3, <2>4, <2>6, <3>1 DEF r
  <2> QED
    BY <2>1, <2>5, <2>6
<1>6. CASE HubRecoverRec
  <2>1. PICK i \in DOMAIN clientData :
          /\ clientData[i] \in Entries
          /\ clientData[i].kind = "QoS2" /\ clientData[i].id = Head(hubQ).arg
          /\ AddsTo(Entry("PubRel", clientData[i].req, clientData[i].id))
          /\ HubReads("RecoverId")
    BY <1>6, RecCopies
  <2>0. PICK d \in Entries : d = clientData[i]
    BY <2>1
  <2> DEFINE e == Entry("PubRel", d.req, d.id)
  <2>2. c \in Copies \/ c = e
    BY <1>1, <2>0, <2>1 DEF AddsTo
  <2>3. d \in Numbered /\ KindOf[d.req] = "QoS2" /\ RecTrue(d.req)
    BY <2>0, <2>1, RecIsReceived
  <2>4. e.kind = "PubRel" /\ e.req = d.req /\ e.id = d.id /\ e \in Packets
    BY <2>1 DEF Entry, Entries, Packets
  <2>5. d.req \in Requests
    BY <2>1 DEF Entries
  <2>6. RecTrue(d.req)'
    BY <2>3, <2>5, TruthIsKept
  <2> HIDE DEF e
  <2>7. CASE c \in Copies
    BY <1>2, <2>7
  <2>8. CASE c = e
    <3>1. Proper(c)'
      BY <2>3, <2>4, <2>6, <2>8 DEF Proper
    <3> QED
      BY <2>3, <2>4, <2>8, <3>1
  <2> QED
    BY <2>2, <2>7, <2>8
<1> QED
  BY <1>3, <1>4, <1>5, <1>6

\* The copies of QoS 0 publishes are proper too.
LEMMA NextProper ==
    ASSUME IdsSuffice, TypeOK, QueueInv, FreshInv, CopiesInv, TruthInv,
           [Next]_vars, NEW c \in Copies'
    PROVE  Proper(c)'
<1>1. CASE c.kind # "QoS0"
  BY <1>1, NumberedSteps DEF Numbered
<1>2. CASE c \in Copies
  BY <1>2, CopiesType, ProperIsKept DEF CopiesInv
<1>3. CASE c.kind = "QoS0" /\ c \notin Copies
  <2>1. CASE HubTakeQos0
    <3>1. c = Entry("QoS0", Head(hubQ).arg, 0) /\ KindOf[Head(hubQ).arg] = "QoS0"
      BY <1>3, <2>1, Qos0Copies DEF AddsTo
    <3> QED
      BY <3>1 DEF Entry, Proper
  <2>2. CASE HubTakeTracked
    BY <1>3, <2>2, TrackedCopies DEF AddsTo, Entry, Proper
  <2>3. CASE HubRecoverRec
    BY <1>3, <2>3, RecCopies DEF AddsTo, Entry
  <2> QED
    BY <1>3, <2>1, <2>2, <2>3, OtherCopies
<1> QED
  BY <1>1, <1>2, <1>3

LEMMA NextCopies ==
    ASSUME IdsSuffice, TypeOK, QueueInv, FreshInv, CopiesInv, TruthInv,
           [Next]_vars
    PROVE  CopiesInv'
<1>1. /\ Given \in Nat
      /\ Given' = Given \/ Given' = Given + 1
      /\ TakenRequests \subseteq TakenRequests'
  BY GivenSteps, TakenSteps
<1>2. \A c \in Copies' : Proper(c)'
  BY NextProper
<1> DEFINE Known(c) == \E d \in Numbered : d.req = c.req /\ d.id = c.id
           Fresh(c) == /\ HubTakeTracked /\ c.id = Given + 1 /\ Given' = Given + 1
                       /\ c.req = Head(hubQ).arg
                       /\ c.req \notin TakenRequests /\ c.req \in TakenRequests'
<1>3. \A c \in Numbered' : Known(c) \/ Fresh(c)
  BY NumberedSteps
<1>4. ASSUME NEW c, Known(c)
      PROVE  c.req \in TakenRequests /\ c.id \in 1..Given
  BY <1>4 DEF CopiesInv
<1>5. \A c \in Numbered' : c.req \in TakenRequests' /\ c.id \in 1..Given'
  <2> SUFFICES ASSUME NEW c \in Numbered' PROVE c.req \in TakenRequests' /\ c.id \in 1..Given'
    OBVIOUS
  <2>1. CASE Known(c)
    BY <1>1, <1>4, <2>1
  <2>2. CASE Fresh(c)
    BY <1>1, <2>2
  <2> QED
    BY <1>3, <2>1, <2>2
<1>6. \A c, d \in Numbered' : c.req = d.req <=> c.id = d.id
  <2> SUFFICES ASSUME NEW c \in Numbered', NEW d \in Numbered'
               PROVE  c.req = d.req <=> c.id = d.id
    OBVIOUS
  <2>1. CASE Known(c) /\ Known(d)
    <3>1. PICK x \in Numbered : x.req = c.req /\ x.id = c.id
      BY <2>1
    <3>2. PICK y \in Numbered : y.req = d.req /\ y.id = d.id
      BY <2>1
    <3>3. x.req = y.req <=> x.id = y.id
      BY DEF CopiesInv
    <3> QED
      BY <3>1, <3>2, <3>3
  <2>2. CASE Fresh(c) /\ Fresh(d)
    BY <2>2
  <2>3. CASE Known(c) /\ Fresh(d)
    <3>1. c.req \in TakenRequests /\ c.id \in 1..Given
      BY <1>4, <2>3
    <3> QED
      BY <1>1, <2>3, <3>1
  <2>4. CASE Fresh(c) /\ Known(d)
    <3>1. d.req \in TakenRequests /\ d.id \in 1..Given
      BY <1>4, <2>4
    <3> QED
      BY <1>1, <2>4, <3>1
  <2> QED
    BY <1>3, <2>1, <2>2, <2>3, <2>4
<1> QED
  BY <1>2, <1>5, <1>6 DEF CopiesInv

-----------------------------------------------------------------------------
(* Nothing is claimed that the broker has not done.                        *)

LEMMA ClaimsAreKept ==
    ASSUME IdsSuffice, TypeOK, QueueInv, FreshInv, CopiesInv, TruthInv,
           [Next]_vars
    PROVE  /\ \A a : AckHolds(a) => AckHolds(a)'
           /\ \A i : IdHolds(i) => IdHolds(i)'
           /\ \A t \in Tasks : TaskHolds(t) => TaskHolds(t)'
<1>1. Given \in Nat /\ (Given' = Given \/ Given' = Given + 1)
  BY GivenSteps
<1>2. ASSUME NEW i \in 1..Given, NEW c \in Numbered', c.id = i
      PROVE  c.req \in Requests /\ \E d \in Numbered : d.req = c.req /\ d.id = i
  <2>1. c \in Packets /\ c.id # Given + 1
    BY <1>1, <1>2, NumberedSteps
  <2>2. c.req \in Requests
    BY <2>1 DEF Packets
  <2> QED
    BY <1>2, <2>1, <2>2, NumberedSteps
<1>3. ASSUME NEW a, AckHolds(a) PROVE AckHolds(a)'
  <2>1. a.kind # "QoS0" /\ a.id \in 1..Given /\ a.id \in 1..Given'
    BY <1>1, <1>3 DEF AckHolds
  <2>2. ASSUME NEW c \in Numbered', c.id = a.id PROVE AckTrue(a.kind, c.req, a.refused)'
    <3>1. c.req \in Requests /\ \E d \in Numbered : d.req = c.req /\ d.id = a.id
      BY <1>2, <2>1, <2>2
    <3>2. AckTrue(a.kind, c.req, a.refused)
      BY <1>3, <3>1 DEF AckHolds
    <3> QED
      BY <3>1, <3>2, TruthIsKept
  <2> QED
    BY <2>1, <2>2 DEF AckHolds
<1>4. ASSUME NEW i, IdHolds(i) PROVE IdHolds(i)'
  <2>1. i \in 1..Given /\ i \in 1..Given'
    BY <1>1, <1>4 DEF IdHolds
  <2>2. ASSUME NEW c \in Numbered', c.id = i PROVE RecTrue(c.req)'
    <3>1. c.req \in Requests /\ \E d \in Numbered : d.req = c.req /\ d.id = i
      BY <1>2, <2>1, <2>2
    <3>2. RecTrue(c.req)
      BY <1>4, <3>1 DEF IdHolds
    <3> QED
      BY <3>1, <3>2, TruthIsKept
  <2> QED
    BY <2>1, <2>2 DEF IdHolds
<1>5. ASSUME NEW t \in Tasks, TaskHolds(t) PROVE TaskHolds(t)'
  <2>1. t.req \in Requests
    BY DEF Tasks
  <2>2. AckTrue(t.kind, t.req, t.refused) => AckTrue(t.kind, t.req, t.refused)'
    BY <2>1, TruthIsKept
  <2> QED
    BY <1>5, <2>2 DEF TaskHolds
<1> QED
  BY <1>3, <1>4, <1>5

\* The broker acknowledges what it has just done, or refuses what it does not have.
LEMMA BrokerIsTruthful ==
    ASSUME IdsSuffice, TypeOK, QueueInv, FreshInv, CopiesInv, TruthInv,
           BrokerStep, [Next]_vars,
           NEW p \in Packets, p = Head(toBroker), p.kind # "QoS0", NEW no \in BOOLEAN,
           IF no THEN BrokerRefuse ELSE BrokerTake
    PROVE  AckHolds(Ack(p, no))'
<1>1. p \in Range(toBroker)
  BY BrokerReads
<1> DEFINE held == {h \in brokerHeld : h.id = p.id}
<1>2. p \in Numbered /\ p.req \in Requests
  BY <1>1, CopiesOf DEF Numbered, Packets
<1>3. ASSUME NEW h \in brokerHeld
      PROVE  h.req = p.req <=> h.id = p.id
  <2>1. Entry("QoS2", h.req, h.id) \in Numbered
    BY CopiesOf DEF Numbered, Entry
  <2> QED
    BY <1>2, <2>1 DEF CopiesInv, Entry
<1>10. ASSUME no PROVE AckTrue(p.kind, p.req, no)'
  <2>1. CASE p.kind # "PubRel"
    <3>1. p.req \in refused'
      BY <1>10, <2>1 DEF BrokerRefuse
    <3> QED
      BY <1>10, <3>1 DEF AckTrue
  <2>2. CASE p.kind = "PubRel"
    <3>1. Received(p.req) \/ p.req \in refused
      <4>1. Proper(p) /\ KindOf[p.req] # "PubRel"
        BY <1>2 DEF CopiesInv, Numbered
      <4>2. KindOf[p.req] = "QoS2" /\ RecTrue(p.req)
        BY <2>2, <4>1 DEF Proper
      <4> QED
        BY <4>2 DEF RecTrue
    <3>2. \A h \in brokerHeld : h.id # p.id
      BY <1>10, <2>2 DEF BrokerRefuse
    <3>3. p.req \in released \/ p.req \in refused
      BY <1>3, <3>1, <3>2 DEF Received
    <3>4. p.req \in released' \/ p.req \in refused'
      BY <1>2, <3>3, Monotone
    <3> QED
      BY <2>2, <3>4 DEF AckTrue
  <2> QED
    BY <2>1, <2>2
<1>11. ASSUME ~ no PROVE AckTrue(p.kind, p.req, no)'
  <2>1. CASE p.kind = "QoS2"
    <3>1. CASE held = {}
      <4>1. [req |-> p.req, id |-> p.id] \in brokerHeld'
        BY <1>1, <1>11, <2>1, <3>1 DEF BrokerTake
      <4> QED
        BY <1>11, <2>1, <4>1 DEF AckTrue, Done, Received
    <3>2. CASE held # {}
      <4>1. PICK h \in brokerHeld : h.req = p.req
        BY <1>3, <3>2
      <4>2. Received(p.req)
        BY <4>1 DEF Received
      <4> QED
        BY <1>2, <1>11, <2>1, <4>2, Monotone DEF AckTrue, Done
    <3> QED
      BY <3>1, <3>2
  <2>2. CASE p.kind = "PubRel"
    <3>1. released' = released \cup {h.req : h \in held}
      BY <1>1, <1>11, <2>2 DEF BrokerTake
    <3>2. Received(p.req) \/ p.req \in refused
      <4>1. Proper(p) /\ KindOf[p.req] # "PubRel"
        BY <1>2 DEF CopiesInv, Numbered
      <4>2. KindOf[p.req] = "QoS2" /\ RecTrue(p.req)
        BY <2>2, <4>1 DEF Proper
      <4> QED
        BY <4>2 DEF RecTrue
    <3>3. Received(p.req) => p.req \in released'
      BY <1>3, <3>1 DEF Received
    <3>4. p.req \in refused => p.req \in refused'
      BY <1>2, Monotone
    <3> QED
      BY <2>2, <3>2, <3>3, <3>4 DEF AckTrue
  <2>3. CASE p.kind \notin {"QoS2", "PubRel"}
    <3>1. accepted' = [accepted EXCEPT ![p.req] = @ + 1]
      BY <1>1, <1>11, <2>3 DEF BrokerTake
    <3>2. accepted \in [Requests -> Nat]
      BY DEF TypeOK
    <3>3. accepted'[p.req] > 0
      BY <1>2, <3>1, <3>2
    <3> QED
      BY <1>11, <2>3, <3>3 DEF AckTrue, Done
  <2> QED
    BY <2>1, <2>2, <2>3
<1>4. AckTrue(p.kind, p.req, no)'
  BY <1>10, <1>11
<1>5. p.id \in 1..Given'
  <2>1. Given \in Nat /\ (Given' = Given \/ Given' = Given + 1) /\ p.id \in 1..Given
    BY <1>2, GivenSteps DEF CopiesInv
  <2> QED
    BY <2>1
<1>6. ASSUME NEW c \in Numbered', c.id = p.id PROVE c.req = p.req
  <2>1. Given \in Nat /\ p.id \in 1..Given
    BY <1>2, GivenSteps DEF CopiesInv
  <2>2. c.id # Given + 1
    BY <1>6, <2>1
  <2>3. PICK d \in Numbered : d.req = c.req /\ d.id = c.id
    BY <2>2, NumberedSteps
  <2> QED
    BY <1>2, <1>6, <2>3 DEF CopiesInv
<1> DEFINE a == Ack(p, no)
<1>7. a.kind = p.kind /\ a.id = p.id /\ a.refused = no
  BY DEF Ack
<1>8. /\ a.kind # "QoS0" /\ a.id \in 1..Given'
      /\ \A c \in Numbered' : c.id = a.id => AckTrue(a.kind, c.req, a.refused)'
  BY <1>1, <1>4, <1>5, <1>6, <1>7
<1> HIDE DEF a
<1>9. AckHolds(a)'
  BY <1>8 DEF AckHolds
<1> QED
  BY <1>1, <1>9 DEF a

LEMMA NextAcks ==
    ASSUME IdsSuffice, TypeOK, QueueInv, FreshInv, CopiesInv, TruthInv,
           [Next]_vars
    PROVE  \A a \in Range(fromBroker') : AckHolds(a)'
<1>1. \A a \in Range(fromBroker) : AckHolds(a)'
  BY ClaimsAreKept DEF TruthInv
<1>2. CASE fromBroker' = fromBroker \/ fromBroker' = <<>>
  BY <1>1, <1>2, EmptyRange
<1>3. CASE NetForward
  <2>1. fromBroker # <<>> /\ fromBroker' = Tail(fromBroker)
    BY <1>3 DEF NetForward
  <2>2. Range(fromBroker') \subseteq Range(fromBroker)
    BY <2>1, QueueRanges
  <2> QED
    BY <1>1, <2>2
<1>4. CASE BrokerStep
  <2>0. PICK p \in Packets : p = Head(toBroker)
    BY <1>4, BrokerReads
  <2>1. CASE BrokerTake /\ p.kind = "QoS0"
    BY <1>2, <2>0, <2>1 DEF BrokerTake
  <2>2. CASE BrokerRefuse \/ p.kind # "QoS0"
    <3>0. PICK no \in BOOLEAN : IF no THEN BrokerRefuse ELSE BrokerTake
      BY <1>4 DEF BrokerStep
    <3> DEFINE a == Ack(p, no)
    <3>1. fromBroker' = Append(fromBroker, a) /\ p.kind # "QoS0"
      <4>1. CASE no
        BY <2>0, <3>0, <4>1 DEF BrokerRefuse
      <4>2. CASE ~ no
        <5>1. p.kind # "QoS0"
          BY <2>0, <2>2 DEF BrokerRefuse
        <5> QED
          BY <2>0, <3>0, <4>2, <5>1 DEF BrokerTake
      <4> QED
        BY <4>1, <4>2
    <3>2. a \in Acks
      BY DEF Packets, Acks, Ack
    <3>3. Range(fromBroker') = Range(fromBroker) \cup {a}
      BY <3>1, <3>2, QueueRanges
    <3>4. AckHolds(a)'
      BY <1>4, <2>0, <3>0, <3>1, BrokerIsTruthful
    <3> QED
      BY <1>1, <3>3, <3>4
  <2> QED
    BY <1>4, <2>1, <2>2 DEF BrokerStep
<1>5. CASE ~ NetForward /\ ~ BrokerStep
  <2>1. ASSUME NEW r \in Requests, ClientRequest(r) PROVE fromBroker' = fromBroker
    BY <2>1 DEF ClientRequest, wireVars
  <2>2. CASE HubStep
    BY <1>2, <2>2 DEF HubStep, HubStartNetwork, HubConnected, HubConnectFail,
         HubLost, HubTakeQos0, HubTakeTracked, HubPoolEmpty, HubRecoverRec,
         HubRecoverDone, HubRecoverUnknown, HubReads, wireVars
  <2>3. CASE TaskStep \/ \E t \in tasks : TaskTimeout(t)
    BY <1>2, <2>3 DEF TaskStep, TaskTimeout, TaskSend, TaskAcked,
         TaskRecoverAgain, TaskNotify, wireVars
  <2>4. CASE NetConnected \/ NetWrite \/ NetConnectFail \/ NetLost
    BY <1>2, <2>4 DEF NetConnected, NetWrite, NetConnectFail, NetLost, wireVars
  <2>5. CASE UNCHANGED vars
    BY <1>2, <2>5 DEF vars, wireVars
  <2> QED
    BY <1>2, <1>5, <2>1, <2>2, <2>3, <2>4, <2>5 DEF Next, NetStep
<1> QED
  BY <1>3, <1>4, <1>5

\* A task has what it works on among the copies.
LEMMA TaskIsNumbered ==
    ASSUME TypeOK, CopiesInv, NEW t \in tasks, t.kind # "QoS0"
    PROVE  /\ t.id \in 1..Given /\ t.req \in Requests
           /\ \A c \in Numbered : c.id = t.id => c.req = t.req
           /\ t.kind = KindOf[t.req] \/ (t.kind = "PubRel" /\ KindOf[t.req] = "QoS2")
           /\ t.kind \in Tracked \cup {"PubRel"} /\ KindOf[t.req] # "PubRel"
<1> DEFINE p == PacketOf(t)
<1>1. p \in Copies /\ p.kind = t.kind /\ p.req = t.req /\ p.id = t.id
  BY CopiesOf DEF PacketOf
<1>2. p \in Numbered
  BY <1>1 DEF Numbered
<1>3. t \in Tasks
  BY DEF TypeOK
<1>4. t.req \in Requests /\ t.kind \in Tracked \cup {"PubRel"} /\ KindOf[t.req] # "PubRel"
  BY <1>3 DEF Tasks
<1> HIDE DEF p
<1>5. Proper(p)
  BY <1>1 DEF CopiesInv
<1> QED
  BY <1>1, <1>2, <1>4, <1>5 DEF CopiesInv, Proper

\* An acknowledged task may say so to the hub.
LEMMA TaskMayRecover ==
    ASSUME TypeOK, CopiesInv, NEW t \in tasks, t.kind # "QoS0",
           AckTrue(t.kind, t.req, t.refused)
    PROVE  IdHolds(t.id)
<1>1. RecTrue(t.req)
  BY TaskIsNumbered DEF AckTrue, Done, RecTrue, Received
<1> QED
  BY <1>1, TaskIsNumbered DEF IdHolds

LEMMA NextMessages ==
    ASSUME IdsSuffice, TypeOK, QueueInv, FreshInv, CopiesInv, TruthInv,
           [Next]_vars
    PROVE  \A m \in Range(hubQ') : m.type = "RecoverId" => IdHolds(m.arg)'
<1>1. \A m \in Range(hubQ) : m.type = "RecoverId" => IdHolds(m.arg)'
  BY ClaimsAreKept DEF TruthInv
<1>2. CASE hubQ' = hubQ
  BY <1>1, <1>2
<1>3. ASSUME NEW r \in Requests, ClientRequest(r)
      PROVE  \A m \in Range(hubQ') : m.type = "RecoverId" => IdHolds(m.arg)'
  <2>1. DataMsg(r) \in HubMessages /\ DataMsg(r).type = "Data"
    BY DEF DataMsg, HubMessages
  <2>2. Range(hubQ') = Range(hubQ) \cup {DataMsg(r)}
    BY <1>3, <2>1, MessageKept DEF ClientRequest
  <2> QED
    BY <1>1, <2>1, <2>2
<1>4. ASSUME NEW t \in tasks, TaskAcked(t) \/ TaskRecoverAgain(t)
      PROVE  \A m \in Range(hubQ') : m.type = "RecoverId" => IdHolds(m.arg)'
  <2>1. t \in Tasks /\ TaskHolds(t)
    BY DEF TypeOK, TruthInv
  <2>2. t.kind # "QoS0" /\ AckTrue(t.kind, t.req, t.refused)
    BY <1>4, <2>1 DEF TaskAcked, AckReceived, TaskRecoverAgain, TaskHolds
  <2>3. IdHolds(t.id)'
    BY <2>2, TaskMayRecover, ClaimsAreKept
  <2>4. RecoverMsg(t.id) \in HubMessages /\ RecoverMsg(t.id).arg = t.id
    BY <2>1 DEF RecoverMsg, HubMessages, Tasks
  <2>5. Range(hubQ') = Range(hubQ) \cup {RecoverMsg(t.id)}
    BY <1>4, <2>4, MessageKept DEF TaskAcked, TaskRecoverAgain
  <2> QED
    BY <1>1, <2>3, <2>4, <2>5
<1>5. CASE HubStep
  <2>1. hubQ' = hubQ \/ HubReads("Data") \/ HubReads("RecoverId")
    BY <1>5 DEF HubStep, HubStartNetwork, HubConnected, HubConnectFail, HubLost,
         HubTakeQos0, HubTakeTracked, HubPoolEmpty, HubRecoverRec,
         HubRecoverDone, HubRecoverUnknown
  <2>2. Range(hubQ') \subseteq Range(hubQ)
    BY <2>1, HubReading
  <2> QED
    BY <1>1, <2>2
<1>6. ASSUME NEW t \in tasks, TaskSend(t) \/ TaskTimeout(t) \/ TaskNotify(t)
      PROVE  hubQ' = hubQ
  BY <1>6 DEF TaskSend, TaskTimeout, TaskNotify, hubVars
<1>7. CASE NetStep \/ NetConnectFail \/ NetLost \/ BrokerStep \/ UNCHANGED vars
  BY <1>2, <1>7 DEF NetStep, NetConnected, NetWrite, NetForward, NetConnectFail,
       NetLost, BrokerStep, BrokerTake, BrokerRefuse, hubVars, vars
<1> QED
  BY <1>2, <1>3, <1>4, <1>5, <1>6, <1>7 DEF Next, TaskStep

LEMMA NextTasks ==
    ASSUME IdsSuffice, TypeOK, TypeOK', QueueInv, FreshInv, CopiesInv, TruthInv,
           [Next]_vars
    PROVE  \A t \in tasks' : TaskHolds(t)'
<1>1. \A t \in tasks : t \in Tasks /\ TaskHolds(t)
  BY DEF TypeOK, TruthInv
<1> SUFFICES \A u \in tasks' : TaskHolds(u)
  <2>1. tasks' \subseteq Tasks
    BY DEF TypeOK
  <2> QED
    BY <2>1, ClaimsAreKept
<1> TAKE u \in tasks'
<1>2. CASE tasks' \subseteq tasks
  BY <1>1, <1>2
<1>3. CASE HubStep
  <2>1. ASSUME NEW kind, NEW r, NEW id PROVE TaskHolds(NewTask(kind, r, id))
    BY DEF TaskHolds, NewTask
  <2>2. u \in tasks \/ \E kind, r, id : u = NewTask(kind, r, id)
    BY <1>3 DEF HubStep, HubStartNetwork, HubConnected, HubConnectFail, HubLost,
         HubTakeQos0, HubTakeTracked, HubPoolEmpty, HubRecoverRec,
         HubRecoverDone, HubRecoverUnknown, HubReads, Respawned, TaskOf
  <2> QED
    BY <1>1, <2>1, <2>2
<1>4. ASSUME NEW t \in tasks, NEW n, Transmit(t, n)
      PROVE  TaskHolds(u)
  <2>1. u \in tasks \/ u = [t EXCEPT !.pc = "receipt", !.resends = n]
    BY <1>4 DEF Transmit
  <2>2. TaskHolds([t EXCEPT !.pc = "receipt", !.resends = n])
    BY <1>1 DEF TaskHolds, Tasks
  <2> QED
    BY <1>1, <2>1, <2>2
<1>5. ASSUME NEW t \in tasks, TaskAcked(t) PROVE TaskHolds(u)
  <2>1. t \in Tasks /\ t.kind # "QoS0" /\ AckTrue(t.kind, t.req, t.refused)
    BY <1>1, <1>5 DEF TaskAcked, AckReceived, TaskHolds
  <2>2. \/ u \in tasks
        \/ t.kind = "QoS1" /\ u = [t EXCEPT !.pc = "again"]
        \/ t.kind \notin {"QoS1", "QoS2"} /\ u = [t EXCEPT !.pc = "notify"]
    BY <1>5 DEF TaskAcked, AfterRecover, Goto
  <2>3. t.kind = "QoS1" => TaskHolds([t EXCEPT !.pc = "again"])
    BY <1>1, <2>1 DEF TaskHolds, Tasks
  <2>4. t.kind # "QoS2" => TaskHolds([t EXCEPT !.pc = "notify"])
    BY <1>1, <2>1 DEF TaskHolds, Tasks
  <2> QED
    BY <1>1, <2>2, <2>3, <2>4
<1>6. ASSUME NEW t \in tasks, TaskRecoverAgain(t) PROVE TaskHolds(u)
  <2>1. t \in Tasks /\ t.kind = "QoS1" /\ AckTrue(t.kind, t.req, t.refused)
    BY <1>1, <1>6 DEF TaskRecoverAgain, TaskHolds
  <2>2. u \in tasks \/ u = [t EXCEPT !.pc = "notify"]
    BY <1>6 DEF TaskRecoverAgain, Goto
  <2>3. TaskHolds([t EXCEPT !.pc = "notify"])
    BY <1>1, <2>1 DEF TaskHolds, Tasks
  <2> QED
    BY <1>1, <2>2, <2>3
<1>7. CASE NetWrite
  <2>1. PICK t \in tasks :
          u = t \/ u = [t EXCEPT !.pc = IF t.kind = "QoS0" THEN "notify" ELSE "await"]
    BY <1>7 DEF NetWrite
  <2>2. TaskHolds([t EXCEPT !.pc = IF t.kind = "QoS0" THEN "notify" ELSE "await"])
    BY <1>1 DEF TaskHolds, Tasks
  <2> QED
    BY <1>1, <2>1, <2>2
<1>8. CASE NetForward
  <2>1. fromBroker # <<>> /\ Head(fromBroker) \in Range(fromBroker)
    BY <1>8, QueueRanges DEF NetForward
  <2>2. AckHolds(Head(fromBroker))
    BY <2>1 DEF TruthInv
  <2>3. PICK t \in tasks :
          \/ u = t
          \/ /\ IsRel(Head(fromBroker), t)
             /\ u = [t EXCEPT !.acked = TRUE, !.refused = Head(fromBroker).refused]
    BY <1>8 DEF NetForward
  <2>4. ASSUME IsRel(Head(fromBroker), t)
        PROVE  TaskHolds([t EXCEPT !.acked = TRUE, !.refused = Head(fromBroker).refused])
    <3>1. t.kind = Head(fromBroker).kind /\ t.id = Head(fromBroker).id
      BY <2>4 DEF IsRel
    <3>2. t.kind # "QoS0"
      BY <2>2, <3>1 DEF AckHolds
    <3>3. PacketOf(t) \in Numbered /\ PacketOf(t).req = t.req /\ PacketOf(t).id = t.id
      BY <3>2, CopiesOf DEF Numbered, PacketOf
    <3>4. AckTrue(t.kind, t.req, Head(fromBroker).refused)
      BY <2>2, <3>1, <3>3 DEF AckHolds
    <3>5. t \in Tasks /\ TaskHolds(t)
      BY <1>1
    <3> QED
      BY <3>2, <3>4, <3>5 DEF TaskHolds, Tasks
  <2> QED
    BY <1>1, <2>3, <2>4
<1>9. ASSUME NEW r \in Requests, ClientRequest(r) PROVE tasks' \subseteq tasks
  BY <1>9 DEF ClientRequest
<1>10. CASE \/ NetConnected \/ NetConnectFail \/ NetLost \/ BrokerStep
            \/ UNCHANGED vars
  BY <1>2, <1>10 DEF NetConnected, NetConnectFail, NetLost, WithoutQueued,
                     BrokerStep, BrokerTake, BrokerRefuse, vars
<1>11. ASSUME NEW t \in tasks, TaskNotify(t) PROVE tasks' \subseteq tasks
  BY <1>11 DEF TaskNotify
<1>12. ASSUME NEW t \in tasks, TaskSend(t) \/ TaskTimeout(t) PROVE TaskHolds(u)
  BY <1>4, <1>12 DEF TaskSend, TaskTimeout
<1> QED
  BY <1>2, <1>3, <1>5, <1>6, <1>7, <1>8, <1>9, <1>10, <1>11, <1>12
     DEF Next, TaskStep, NetStep

-----------------------------------------------------------------------------
(* A success is never a false one.                                         *)

FreshIdsInv == TypeOK /\ QueueInv /\ FreshInv /\ CopiesInv /\ TruthInv

LEMMA InitFreshIds ==
    ASSUME IdsSuffice, Init
    PROVE  FreshIdsInv
<1>1. TypeOK
  BY InitType
<1>2. QueueInv
  <2>1. hubQ = <<>> /\ Len(hubQ) = 0
    BY DEF Init
  <2> QED
    BY <2>1 DEF QueueInv, Queued
<1>3. Given = 0
  <2>1. TakenRequests = {}
    BY DEF Init, TakenRequests
  <2> QED
    BY <2>1, FS_EmptySet DEF Given
<1>4. FreshInv
  <2>1. \A j \in 1..MaxPacketId : j \in 1..Len(freeIds) /\ freeIds[j] = j
    BY DEF Init, FullPool
  <2> QED
    BY <1>3, <2>1 DEF FreshInv
<1>5. Copies = {}
  <2>1. /\ clientData = <<>> /\ tasks = {} /\ netQ = <<>> /\ toBroker = <<>>
        /\ brokerHeld = {}
    BY DEF Init
  <2> QED
    BY <2>1, EmptyRange DEF Copies
<1>6. CopiesInv
  BY <1>5 DEF CopiesInv, Numbered
<1>7. TruthInv
  BY EmptyRange DEF Init, TruthInv
<1> QED
  BY <1>1, <1>2, <1>4, <1>6, <1>7 DEF FreshIdsInv

LEMMA NextFreshIds ==
    ASSUME IdsSuffice, FreshIdsInv, [Next]_vars
    PROVE  FreshIdsInv'
<1>1. TypeOK /\ QueueInv /\ FreshInv /\ CopiesInv /\ TruthInv
  BY DEF FreshIdsInv
<1>2. TypeOK' /\ QueueInv'
  BY <1>1, NextType, NextQueue
<1>3. FreshInv' /\ CopiesInv'
  BY <1>1, NextFresh, NextCopies
<1>4. TruthInv'
  BY <1>1, <1>2, NextAcks, NextMessages, NextTasks DEF TruthInv
<1> QED
  BY <1>2, <1>3, <1>4 DEF FreshIdsInv

\* How an answer to the user comes about: a task at its end reports.
LEMMA AnswerSteps ==
    ASSUME TypeOK, [Next]_vars
    PROVE  \/ UNCHANGED <<notified, claimed>>
           \/ \E t \in tasks :
                /\ t.pc = "notify" /\ notified' = [notified EXCEPT ![t.req] = @ + 1]
                /\ claimed' = IF Claims(t) THEN claimed \cup {t.req} ELSE claimed
<1>1. ASSUME NEW t \in tasks, TaskNotify(t)
      PROVE  /\ t.pc = "notify" /\ notified' = [notified EXCEPT ![t.req] = @ + 1]
             /\ claimed' = IF Claims(t) THEN claimed \cup {t.req} ELSE claimed
  BY <1>1 DEF TaskNotify
<1>2. CASE HubStep
  BY <1>2 DEF HubStep, HubStartNetwork, HubConnected, HubConnectFail, HubLost,
              HubTakeQos0, HubTakeTracked, HubPoolEmpty, HubRecoverRec,
              HubRecoverDone, HubRecoverUnknown, HubReads
<1>3. ASSUME NEW t \in tasks,
             TaskSend(t) \/ TaskTimeout(t) \/ TaskAcked(t) \/ TaskRecoverAgain(t)
      PROVE  UNCHANGED <<notified, claimed>>
  BY <1>3 DEF TaskTimeout, TaskSend, TaskAcked, TaskRecoverAgain
<1>4. CASE NetStep \/ NetConnectFail \/ NetLost \/ BrokerStep \/ UNCHANGED vars
  BY <1>4 DEF NetStep, NetConnected, NetWrite, NetForward, NetConnectFail,
              NetLost, BrokerStep, BrokerTake, BrokerRefuse, vars
<1>5. ASSUME NEW r \in Requests, ClientRequest(r) PROVE UNCHANGED <<notified, claimed>>
  BY <1>5 DEF ClientRequest
<1> QED
  BY <1>1, <1>2, <1>3, <1>4, <1>5 DEF Next, TaskStep

\* What a task that reports a numbered request has heard of it.
LEMMA ReportIsTrue ==
    ASSUME TypeOK, CopiesInv, TruthInv, NEW t \in tasks, t.pc = "notify",
           KindOf[t.req] \in Tracked
    PROVE  /\ Finished(t.req) \/ t.req \in refused
           /\ KindOf[t.req] \in {"Sub", "Unsub"} /\ Claims(t) => Finished(t.req)
<1>1. t.kind # "QoS0"
  <2>1. PacketOf(t) \in Copies /\ PacketOf(t).kind = t.kind /\ PacketOf(t).req = t.req
    BY CopiesOf DEF PacketOf
  <2>2. Proper(PacketOf(t))
    BY <2>1 DEF CopiesInv
  <2> QED
    BY <2>1, <2>2 DEF Proper
<1>2. t.kind # "QoS2" /\ AckTrue(t.kind, t.req, t.refused)
  BY <1>1 DEF TruthInv, TaskHolds
<1>3. t.kind = KindOf[t.req] \/ (t.kind = "PubRel" /\ KindOf[t.req] = "QoS2")
  BY <1>1, TaskIsNumbered
<1>4. Finished(t.req) \/ t.req \in refused
  BY <1>2, <1>3 DEF AckTrue, Done, Finished
<1>5. ASSUME KindOf[t.req] \in {"Sub", "Unsub"}, Claims(t) PROVE Finished(t.req)
  <2>1. t.kind = KindOf[t.req] /\ ~ t.refused
    BY <1>3, <1>5 DEF Claims
  <2> QED
    BY <1>2, <1>5, <2>1 DEF AckTrue, Done, Finished
<1> QED
  BY <1>4, <1>5

LEMMA NextAnswers ==
    ASSUME FreshIdsInv, AnsweredByBroker, ClaimInv, [Next]_vars
    PROVE  AnsweredByBroker' /\ ClaimInv'
<1>1. TypeOK /\ CopiesInv /\ TruthInv
  BY DEF FreshIdsInv
<1>2. \A r \in Requests : (Finished(r) => Finished(r)') /\ (r \in refused => r \in refused')
  BY <1>1, Monotone DEF Finished
<1>3. refused' \subseteq Refusable
  <2>1. CASE BrokerStep
    BY <2>1 DEF BrokerStep, BrokerTake, BrokerRefuse, ClaimInv
  <2>2. CASE UNCHANGED brokerVars
    BY <2>2 DEF brokerVars, ClaimInv
  <2> QED
    BY <1>1, <2>1, <2>2, BrokerSteps
<1>4. CASE UNCHANGED <<notified, claimed>>
  <2>1. AnsweredByBroker'
    BY <1>2, <1>4 DEF AnsweredByBroker
  <2>2. ClaimInv'
    BY <1>2, <1>3, <1>4 DEF ClaimInv
  <2> QED
    BY <2>1, <2>2
<1>5. ASSUME NEW t \in tasks, t.pc = "notify",
             notified' = [notified EXCEPT ![t.req] = @ + 1],
             claimed' = IF Claims(t) THEN claimed \cup {t.req} ELSE claimed
      PROVE  AnsweredByBroker' /\ ClaimInv'
  <2>1. /\ notified \in [Requests -> Nat] /\ t.req \in Requests
        /\ claimed \subseteq Requests
    BY <1>1 DEF TypeOK, Tasks
  <2>2. /\ notified'[t.req] > 0
        /\ \A r \in Requests : notified'[r] > 0 => notified[r] > 0 \/ r = t.req
        /\ \A r \in Requests : notified[r] > 0 => notified'[r] > 0
    BY <1>5, <2>1
  <2>3. KindOf[t.req] \in Tracked =>
            /\ Finished(t.req) \/ t.req \in refused
            /\ KindOf[t.req] \in {"Sub", "Unsub"} /\ Claims(t) => Finished(t.req)
    BY <1>1, <1>5, ReportIsTrue
  <2>4. AnsweredByBroker'
    BY <1>2, <2>2, <2>3 DEF AnsweredByBroker
  <2>5. \A r \in claimed' : r \in claimed \/ (r = t.req /\ Claims(t))
    BY <1>5
  <2>6. ASSUME NEW r \in Requests, KindOf[r] \in {"Sub", "Unsub"}, r \in claimed'
        PROVE  Finished(r)'
    <3>1. CASE r \in claimed
      BY <1>2, <2>6, <3>1 DEF ClaimInv
    <3>2. CASE r = t.req /\ Claims(t)
      BY <1>2, <2>1, <2>3, <2>6, <3>2
    <3> QED
      BY <2>5, <2>6, <3>1, <3>2
  <2>7. \A r \in claimed' : KindOf[r] \in Tracked => notified'[r] > 0
    BY <2>1, <2>2, <2>5 DEF ClaimInv
  <2> QED
    BY <1>3, <2>4, <2>6, <2>7 DEF ClaimInv
<1> QED
  BY <1>1, <1>4, <1>5, AnswerSteps

LEMMA AnswersHold ==
    ASSUME IdsSuffice
    PROVE  Spec => [](FreshIdsInv /\ AnsweredByBroker /\ ClaimInv)
<1> DEFINE Inv == FreshIdsInv /\ AnsweredByBroker /\ ClaimInv
<1>1. Init => Inv
  BY InitFreshIds DEF Init, AnsweredByBroker, ClaimInv
<1>2. Inv /\ [Next]_vars => Inv'
  BY NextFreshIds, NextAnswers
<1>3. Inv => FreshIdsInv /\ AnsweredByBroker /\ ClaimInv
  OBVIOUS
<1> HIDE DEF Inv
<1> QED
  BY <1>1, <1>2, <1>3, PTL DEF Spec

\* As long as no more requests are made than there are packet ids, the user is
\* answered only when the broker has decided about that very request, granting
\* or refusing it, whichever requests the broker may refuse, over any losses of
\* the connection and any retransmissions (timeout_rx, acknowledge, tx_to_user).
\* When ids are used again a late acknowledgement can be taken for another
\* request: the premise is what excludes that.
THEOREM AnswersAreTrue ==
    ASSUME IsFiniteSet(Requests), Cardinality(Requests) <= MaxPacketId
    PROVE  Spec => []AnsweredByBroker
<1>1. Spec => [](FreshIdsInv /\ AnsweredByBroker /\ ClaimInv)
  BY AnswersHold DEF IdsSuffice
<1>2. FreshIdsInv /\ AnsweredByBroker /\ ClaimInv => AnsweredByBroker
  OBVIOUS
<1> QED
  BY <1>1, <1>2, PTL

\* When moreover the broker refuses no publish, but any subscription, the user
\* is told of a success only if the broker has done its part: an acknowledgement
\* that refuses a subscription is not reported as granted (SubscribeAck, tx_to_user).
\* Of a publish the premise is necessary, as OutboundRefused shows: its tasks
\* do not look at the reason.
THEOREM SuccessIsTrue ==
    ASSUME IsFiniteSet(Requests), Cardinality(Requests) <= MaxPacketId,
           \A r \in Refusable : KindOf[r] \notin {"QoS1", "QoS2"}
    PROVE  Spec => []NoFalseSuccess
<1>1. Spec => [](FreshIdsInv /\ AnsweredByBroker /\ ClaimInv)
  BY AnswersHold DEF IdsSuffice
<1>2. AnsweredByBroker /\ ClaimInv => NoFalseSuccess
  <2> SUFFICES ASSUME AnsweredByBroker, ClaimInv,
                      NEW r \in Requests, KindOf[r] \in Tracked, r \in claimed
               PROVE  Finished(r)
    BY DEF NoFalseSuccess
  <2>1. CASE KindOf[r] \in {"Sub", "Unsub"}
    BY <2>1 DEF ClaimInv
  <2>2. CASE KindOf[r] \in {"QoS1", "QoS2"}
    <3>1. notified[r] > 0 /\ r \notin refused
      BY <2>2 DEF ClaimInv
    <3> QED
      BY <3>1 DEF AnsweredByBroker
  <2> QED
    BY <2>1, <2>2
<1> QED
  BY <1>1, <1>2, PTL

-----------------------------------------------------------------------------
(* What is kept until the broker has taken it.                             *)

\* The entries a step takes away.
LEMMA EntriesKept ==
    ASSUME TypeOK, [Next]_vars, NEW r \in Requests, Held(r), ~ Held(r)'
    PROVE  /\ HubReads("RecoverId")
           /\ \E i \in DOMAIN clientData : clientData[i].req = r /\ clientData[i].id = Head(hubQ).arg
<1>1. clientData \in Seq(Entries) /\ Len(clientData) \in Nat
      /\ DOMAIN clientData = 1..Len(clientData)
  BY DEF TypeOK
<1>2. PICK k \in DOMAIN clientData : clientData[k].req = r
  BY DEF Held
<1>3. CASE clientData' = clientData
  BY <1>2, <1>3 DEF Held
<1>4. CASE HubTakeTracked
  <2>1. PICK e \in Packets : Range(clientData') = Range(clientData) \cup {e}
    BY <1>4, TrackedCopies
  <2>2. clientData[k] \in Range(clientData')
    BY <1>2, <2>1 DEF Range
  <2> QED
    BY <1>2, <2>2 DEF Range, Held
<1>5. CASE HubRecoverRec
  <2>1. PICK i \in DOMAIN clientData :
          clientData' = [clientData EXCEPT ![i] = Entry("PubRel", clientData[i].req, clientData[i].id)]
    BY <1>5, RecCopies
  <2>2. k \in DOMAIN clientData' /\ clientData'[k].req = r
    BY <1>2, <2>1 DEF Entry
  <2> QED
    BY <2>2 DEF Held
<1>6. CASE HubRecoverDone
  <2>1. PICK i \in DOMAIN clientData :
          /\ clientData[i].id = Head(hubQ).arg
          /\ clientData' = RemoveAt(clientData, i)
    BY <1>6 DEF HubRecoverDone, FirstWith
  <2>2. /\ clientData' \in Seq(Entries)
        /\ Len(clientData') = Len(clientData) - 1
        /\ \A j \in 1..Len(clientData) - 1 :
              clientData'[j] = IF j < i THEN clientData[j] ELSE clientData[j + 1]
    BY <1>1, <2>1, RemoveAtElements
  <2>3. DOMAIN clientData' = 1..Len(clientData) - 1
    BY <2>2
  <2>4. CASE k < i
    <3>1. k \in 1..Len(clientData) - 1 /\ clientData'[k] = clientData[k]
      BY <1>1, <2>2, <2>4
    <3> QED
      BY <1>2, <2>3, <3>1 DEF Held
  <2>5. CASE k > i
    <3>1. k - 1 \in 1..Len(clientData) - 1 /\ ~ (k - 1 < i) /\ (k - 1) + 1 = k
      BY <1>1, <2>5
    <3>2. clientData'[k - 1] = clientData[k]
      BY <2>2, <3>1
    <3> QED
      BY <1>2, <2>3, <3>1, <3>2 DEF Held
  <2>6. CASE k = i
    BY <1>2, <1>6, <2>1, <2>6 DEF HubRecoverDone
  <2> QED
    BY <1>1, <2>4, <2>5, <2>6
<1>7. CASE ~ HubTakeTracked /\ ~ HubRecoverRec /\ ~ HubRecoverDone
  <2>1. clientData' = clientData
    BY <1>7 DEF Next, ClientRequest, HubStep, HubStartNetwork, HubConnected,
       HubConnectFail, HubLost, HubTakeQos0, HubPoolEmpty, HubRecoverUnknown,
       TaskStep, TaskTimeout, TaskSend, TaskAcked, TaskRecoverAgain, TaskNotify,
       NetStep, NetConnected, NetWrite, NetForward, NetConnectFail, NetLost,
       BrokerStep, BrokerTake, BrokerRefuse, hubVars, vars
  <2> QED
    BY <1>3, <2>1
<1> QED
  BY <1>4, <1>5, <1>6, <1>7

LEMMA NextHeld ==
    ASSUME IdsSuffice, FreshIdsInv, HeldInv, [Next]_vars
    PROVE  HeldInv'
<1> SUFFICES ASSUME NEW r \in TakenRequests', KindOf[r] # "QoS2", ~ Held(r)'
             PROVE  accepted'[r] > 0 \/ r \in refused'
  BY DEF HeldInv
<1>1. TypeOK /\ QueueInv /\ CopiesInv /\ TruthInv /\ r \in Requests
  BY DEF FreshIdsInv, TakenRequests
<1>2. /\ accepted[r] > 0 => accepted'[r] > 0
      /\ r \in refused => r \in refused'
  BY <1>1, Monotone
<1>3. CASE r \in TakenRequests
  <2>1. CASE accepted[r] > 0 \/ r \in refused
    BY <1>2, <2>1
  <2>2. CASE Held(r)
    <3>1. PICK i \in DOMAIN clientData :
            clientData[i].req = r /\ clientData[i].id = Head(hubQ).arg
      BY <1>1, <2>2, EntriesKept
    <3>2. HubReads("RecoverId")
      BY <1>1, <2>2, EntriesKept
    <3>3. IdHolds(Head(hubQ).arg)
      BY <1>1, <3>2, HubReading DEF TruthInv
    <3>4. clientData[i] \in Numbered
      <4>1. clientData[i] \in Entries /\ clientData[i] \in Copies
        BY <1>1, CopiesOf DEF TypeOK, Range
      <4> QED
        BY <4>1 DEF Numbered, Entries
    <3>5. RecTrue(r)
      BY <3>1, <3>3, <3>4 DEF IdHolds
    <3> QED
      BY <1>2, <3>5 DEF RecTrue
  <2> QED
    BY <1>3, <2>1, <2>2 DEF HeldInv
<1>4. CASE r \notin TakenRequests
  <2>1. HubTakeTracked /\ r = Head(hubQ).arg
    BY <1>1, <1>4, TakenSteps
  <2>2. PICK e \in Packets : /\ Range(clientData') = Range(clientData) \cup {e}
                             /\ e.req = r
    BY <1>1, <2>1, TrackedCopies
  <2>3. e \in Range(clientData')
    BY <2>2
  <2>4. Held(r)'
    BY <2>2, <2>3 DEF Held, Range
  <2> QED
    BY <2>4
<1> QED
  BY <1>3, <1>4

\* Under the same premise, whatever is published with QoS 1, subscribed or
\* unsubscribed stays in client_data until the broker has taken or refused it, so
\* that it is sent again on the next connection.  (QoS 2 publishes are left out: the hub
\* can drop one of them, as OutboundQos2Lost shows.)
THEOREM KeptUntilTaken ==
    ASSUME IsFiniteSet(Requests), Cardinality(Requests) <= MaxPacketId
    PROVE  Spec => []HeldInv
<1> DEFINE Inv == FreshIdsInv /\ HeldInv
<1>0. IdsSuffice
  BY DEF IdsSuffice
<1>1. Init => Inv
  BY <1>0, InitFreshIds DEF Init, HeldInv, TakenRequests
<1>2. Inv /\ [Next]_vars => Inv'
  BY <1>0, NextFreshIds, NextHeld
<1>3. Inv => HeldInv
  OBVIOUS
<1> HIDE DEF Inv
<1> QED
  BY <1>1, <1>2, <1>3, PTL DEF Spec

\* And so for every request when none of them is a QoS 2 publish.
THEOREM HeldUntilTheEnd ==
    ASSUME IsFiniteSet(Requests), Cardinality(Requests) <= MaxPacketId,
           \A r \in Requests : KindOf[r] # "QoS2"
    PROVE  Spec => []HeldUntilFinished
<1>1. HeldInv => HeldUntilFinished
  BY DEF HeldInv, HeldUntilFinished, Finished, TakenRequests
<1>2. Spec => []HeldInv
  BY KeptUntilTaken
<1> QED
  BY <1>1, <1>2, PTL

-----------------------------------------------------------------------------
(* One connection.  Packet ids may be used again.                          *)

\* Where the hub and its TaskNetwork stand when only one is ever started.
OneConnectionInv ==
    /\ \/ hub = "ToConnect" /\ net = "none" /\ netEvents = <<>> /\ attempt = 0
       \/ hub = "WaitNetwork" /\ net = "connecting" /\ netEvents = <<>> /\ attempt = 1
       \/ hub = "WaitNetwork" /\ net = "up" /\ netEvents = <<"Connected">> /\ attempt = 1
       \/ hub = "Connected" /\ net = "up" /\ netEvents = <<>> /\ attempt = 1
    /\ hub # "Connected" => clientData = <<>> /\ tasks = {}

\* A request has one entry and one task of a kind.  While its success can still
\* be reported it was not: a QoS 2 publish has a PUBREL task once its entry has
\* gone on to PubRel, and never a second one.
OfItsKind(x) == x.kind = KindOf[x.req] \/ (x.kind = "PubRel" /\ KindOf[x.req] = "QoS2")
SoleTasks ==
    /\ \A t \in tasks : /\ stage[t.req] = "taken" /\ OfItsKind(t)
                        /\ t.kind # "QoS2" => notified[t.req] = 0
                        /\ t.pc \in {"again", "notify"} => t.kind # "QoS2"
                        /\ t.pc = "again" => t.kind = "QoS1"
    /\ \A t, u \in tasks : t.kind = u.kind /\ t.req = u.req => t = u
SoleEntries ==
    /\ \A i \in DOMAIN clientData :
        /\ stage[clientData[i].req] = "taken" /\ OfItsKind(clientData[i])
        /\ clientData[i].kind = "QoS2" =>
            /\ notified[clientData[i].req] = 0
            /\ \A t \in tasks : t.req = clientData[i].req => t.kind = "QoS2"
    /\ \A i, j \in DOMAIN clientData : clientData[i].req = clientData[j].req => i = j
UntakenUnheard == \A r \in Requests : stage[r] # "taken" => notified[r] = 0
SoleInv == SoleTasks /\ SoleEntries /\ UntakenUnheard /\ NotifiedOnce

LEMMA NextOneConnection ==
    ASSUME MaxAttempts = 1, TypeOK, OneConnectionInv, [Next]_vars
    PROVE  OneConnectionInv'
<1>1. ASSUME NEW r \in Requests, ClientRequest(r) PROVE OneConnectionInv'
  BY <1>1 DEF ClientRequest, OneConnectionInv, netVars
<1>2. CASE HubStartNetwork \/ HubConnectFail \/ HubLost
  BY <1>2, ShortQueues DEF HubStartNetwork, HubConnectFail, HubLost, OneConnectionInv
<1>3. CASE HubConnected
  <2>1. netEvents = <<"Connected">> /\ netEvents' = <<>> /\ net = "up" /\ attempt = 1
    BY <1>3, ShortQueues DEF HubConnected, OneConnectionInv
  <2> QED
    BY <1>3, <2>1 DEF HubConnected, OneConnectionInv
<1>4. CASE \/ HubTakeQos0 \/ HubTakeTracked \/ HubPoolEmpty \/ HubRecoverRec
           \/ HubRecoverDone \/ HubRecoverUnknown
  <2>1. hub = "Connected" /\ UNCHANGED <<hub, netVars>>
    BY <1>4 DEF HubTakeQos0, HubTakeTracked, HubPoolEmpty, HubRecoverRec,
         HubRecoverDone, HubRecoverUnknown, HubReads
  <2> QED
    BY <2>1 DEF OneConnectionInv, netVars
<1>5. ASSUME NEW t \in tasks,
             TaskSend(t) \/ TaskTimeout(t) \/ TaskAcked(t) \/ TaskRecoverAgain(t) \/ TaskNotify(t)
      PROVE  OneConnectionInv'
  <2>1. hub = "Connected" /\ UNCHANGED <<hub, net, netEvents, attempt>>
    BY <1>5 DEF TaskSend, TaskTimeout, TaskAcked, TaskRecoverAgain, TaskNotify,
         hubVars, netVars, OneConnectionInv
  <2> QED
    BY <2>1 DEF OneConnectionInv
<1>6. CASE NetConnected
  BY <1>6, ShortQueues DEF NetConnected, OneConnectionInv, hubVars
<1>7. CASE NetConnectFail \/ NetLost
  BY <1>7 DEF NetConnectFail, NetLost, OneConnectionInv
<1>8. CASE NetWrite \/ NetForward \/ BrokerStep \/ UNCHANGED vars
  <2>1. /\ UNCHANGED <<hub, net, netEvents, attempt, clientData>>
        /\ tasks = {} => tasks' = {}
    BY <1>8 DEF NetWrite, NetForward, BrokerStep, BrokerTake, BrokerRefuse, vars, hubVars, netVars
  <2> QED
    BY <2>1 DEF OneConnectionInv
<1> QED
  BY <1>1, <1>2, <1>3, <1>4, <1>5, <1>6, <1>7, <1>8
     DEF Next, HubStep, TaskStep, NetStep

\* Steps of a task and of the network: what becomes of each task.  A task that
\* reports to the user is gone.
LEMMA TaskOrigins ==
    ASSUME TypeOK, SoleTasks,
           TaskStep \/ (\E t \in tasks : TaskTimeout(t)) \/ NetStep
               \/ NetConnectFail \/ NetLost
    PROVE  /\ \A u \in tasks' : \E t \in tasks : u.kind = t.kind /\ u.req = t.req
           /\ \A u \in tasks' : /\ u.pc \in {"again", "notify"} => u.kind # "QoS2"
                                /\ u.pc = "again" => u.kind = "QoS1"
           /\ \A u, v \in tasks' : u.kind = v.kind /\ u.req = v.req => u = v
<1> DEFINE From(u, t) == u.kind = t.kind /\ u.req = t.req
           Pc(u) == /\ u.pc \in {"again", "notify"} => u.kind # "QoS2"
                    /\ u.pc = "again" => u.kind = "QoS1"
<1>1. \A t \in tasks : t \in Tasks /\ Pc(t)
  BY DEF TypeOK, SoleTasks
<1>2. \A t, u \in tasks : t.kind = u.kind /\ t.req = u.req => t = u
  BY DEF SoleTasks
\* At most one task is replaced.
<1>3. ASSUME NEW t \in tasks, NEW n, From(n, t), Pc(n),
             \A u \in tasks' : u = n \/ (u \in tasks /\ u # t)
      PROVE  /\ \A u \in tasks' : (\E x \in tasks : From(u, x)) /\ Pc(u)
             /\ \A u, v \in tasks' : u.kind = v.kind /\ u.req = v.req => u = v
  <2>1. ASSUME NEW u \in tasks' PROVE (\E x \in tasks : From(u, x)) /\ Pc(u)
    BY <1>1, <1>3
  <2>2. ASSUME NEW u \in tasks', NEW v \in tasks', u.kind = v.kind, u.req = v.req
        PROVE  u = v
    BY <1>2, <1>3, <2>2
  <2> QED
    BY <2>1, <2>2
<1>4. CASE tasks' \subseteq tasks
  BY <1>1, <1>2, <1>4
<1>5. ASSUME NEW t \in tasks, TaskSend(t) \/ TaskTimeout(t)
      PROVE  /\ \A u \in tasks' : (\E x \in tasks : From(u, x)) /\ Pc(u)
             /\ \A u, v \in tasks' : u.kind = v.kind /\ u.req = v.req => u = v
  <2>1. PICK n : Transmit(t, n)
    BY <1>5 DEF TaskSend, TaskTimeout
  <2> DEFINE w == [t EXCEPT !.pc = "receipt", !.resends = n]
  <2>2. From(w, t) /\ Pc(w)
    BY <1>1 DEF Tasks
  <2>3. \A u \in tasks' : u = w \/ (u \in tasks /\ u # t)
    BY <2>1 DEF Transmit
  <2> HIDE DEF w
  <2> QED
    BY <1>3, <2>2, <2>3
<1>6. ASSUME NEW t \in tasks, TaskAcked(t)
      PROVE  /\ \A u \in tasks' : (\E x \in tasks : From(u, x)) /\ Pc(u)
             /\ \A u, v \in tasks' : u.kind = v.kind /\ u.req = v.req => u = v
  <2>1. CASE t.kind = "QoS2"
    BY <1>4, <1>6, <2>1 DEF TaskAcked, AfterRecover
  <2>2. CASE t.kind # "QoS2"
    <3> DEFINE pc == IF t.kind = "QoS1" THEN "again" ELSE "notify"
               w == [t EXCEPT !.pc = pc]
    <3>1. From(w, t) /\ Pc(w)
      BY <1>1, <2>2 DEF Tasks
    <3>2. \A u \in tasks' : u = w \/ (u \in tasks /\ u # t)
      BY <1>6, <2>2 DEF TaskAcked, AfterRecover, Goto
    <3> HIDE DEF w
    <3> QED
      BY <1>3, <3>1, <3>2
  <2> QED
    BY <2>1, <2>2
<1>7. ASSUME NEW t \in tasks, TaskRecoverAgain(t)
      PROVE  /\ \A u \in tasks' : (\E x \in tasks : From(u, x)) /\ Pc(u)
             /\ \A u, v \in tasks' : u.kind = v.kind /\ u.req = v.req => u = v
  <2> DEFINE w == [t EXCEPT !.pc = "notify"]
  <2>1. From(w, t) /\ Pc(w)
    BY <1>1, <1>7 DEF Tasks, TaskRecoverAgain
  <2>2. \A u \in tasks' : u = w \/ (u \in tasks /\ u # t)
    BY <1>7 DEF TaskRecoverAgain, Goto
  <2> HIDE DEF w
  <2> QED
    BY <1>3, <2>1, <2>2
\* The network changes each task by itself.
<1>8. CASE NetWrite
  <2> DEFINE W(t) == IF TaskKey(t) = Head(netQ)
                     THEN [t EXCEPT !.pc = IF t.kind = "QoS0" THEN "notify" ELSE "await"]
                     ELSE t
  <2>1. \A u \in tasks' : \E t \in tasks : u = W(t)
    BY <1>8 DEF NetWrite
  <2>2. \A t \in tasks : From(W(t), t) /\ Pc(W(t))
    BY <1>1 DEF Tasks
  <2> HIDE DEF W
  <2> QED
    BY <1>2, <2>1, <2>2
<1>9. CASE NetForward
  <2> DEFINE W(t) == IF IsRel(Head(fromBroker), t) /\ ~ t.acked
                     THEN [t EXCEPT !.acked = TRUE, !.refused = Head(fromBroker).refused]
                     ELSE t
  <2>1. \A u \in tasks' : \E t \in tasks : u = W(t)
    BY <1>9 DEF NetForward
  <2>2. \A t \in tasks : From(W(t), t) /\ Pc(W(t))
    BY <1>1 DEF Tasks
  <2> HIDE DEF W
  <2> QED
    BY <1>2, <2>1, <2>2
<1>10. CASE \/ NetConnected \/ NetConnectFail \/ NetLost
            \/ \E t \in tasks : TaskNotify(t)
  BY <1>4, <1>10 DEF NetConnected, NetConnectFail, NetLost, WithoutQueued, TaskNotify
<1> QED
  BY <1>5, <1>6, <1>7, <1>8, <1>9, <1>10 DEF TaskStep, NetStep

\* Entries, requests and reports that stay as they are.
LEMMA SoleUnchanged ==
    ASSUME TypeOK, SoleInv, clientData' = clientData, notified' = notified,
           \A r \in Requests : stage'[r] = "taken" <=> stage[r] = "taken",
           \A u \in tasks' : \E t \in tasks : u.kind = t.kind /\ u.req = t.req,
           \A u \in tasks' : /\ u.pc \in {"again", "notify"} => u.kind # "QoS2"
                             /\ u.pc = "again" => u.kind = "QoS1",
           \A u, v \in tasks' : u.kind = v.kind /\ u.req = v.req => u = v
    PROVE  SoleInv'
<1>1. \A t \in tasks : t.req \in Requests
  BY DEF TypeOK, Tasks
<1>2. \A i \in DOMAIN clientData : clientData[i].req \in Requests
  <2>1. \A i \in DOMAIN clientData : clientData[i] \in Entries
    BY DEF TypeOK
  <2> QED
    BY <2>1 DEF Entries
<1>3. SoleTasks'
  <2>1. ASSUME NEW u \in tasks'
        PROVE  stage'[u.req] = "taken" /\ OfItsKind(u) /\ (u.kind # "QoS2" => notified'[u.req] = 0)
    <3>1. PICK t \in tasks : u.kind = t.kind /\ u.req = t.req
      OBVIOUS
    <3> QED
      BY <1>1, <3>1 DEF SoleInv, SoleTasks, OfItsKind
  <2> QED
    BY <2>1 DEF SoleTasks, OfItsKind
<1>4. SoleEntries'
  <2>1. ASSUME NEW i \in DOMAIN clientData, clientData[i].kind = "QoS2",
               NEW u \in tasks', u.req = clientData[i].req
        PROVE  u.kind = "QoS2"
    BY <2>1 DEF SoleInv, SoleEntries
  <2>2. \A i \in DOMAIN clientData : stage'[clientData[i].req] = "taken"
    BY <1>2 DEF SoleInv, SoleEntries
  <2> QED
    BY <2>1, <2>2 DEF SoleInv, SoleEntries, OfItsKind
<1>5. UntakenUnheard' /\ NotifiedOnce'
  BY DEF SoleInv, UntakenUnheard, NotifiedOnce
<1> QED
  BY <1>3, <1>4, <1>5 DEF SoleInv

\* A request is taken: it had no task, no entry and no report.
LEMMA SoleTaken ==
    ASSUME TypeOK, QueueInv, SoleInv, HubTakeQos0 \/ HubTakeTracked
    PROVE  SoleInv'
<1>1. PICK r \in Requests :
        /\ r = Head(hubQ).arg /\ stage[r] = "queued"
        /\ stage' = [stage EXCEPT ![r] = "taken"]
  <2>1. HubReads("Data") /\ stage' = [stage EXCEPT ![Head(hubQ).arg] = "taken"]
    BY DEF HubTakeQos0, HubTakeTracked
  <2> QED
    BY <2>1, HubReading, QueueAfterReading
<1>2. notified' = notified
  BY DEF HubTakeQos0, HubTakeTracked, HubReads
<1>3. /\ \A x \in Requests : stage'[x] = "taken" <=> (stage[x] = "taken" \/ x = r)
      /\ stage \in [Requests -> {"idle", "queued", "taken", "dropped"}]
  BY <1>1 DEF TypeOK
<1>4. \A t \in tasks : t.req \in Requests /\ t.req # r
  <2>1. \A t \in tasks : stage[t.req] = "taken"
    BY DEF SoleInv, SoleTasks
  <2> QED
    BY <1>1, <2>1 DEF TypeOK, Tasks
<1>5. \A i \in DOMAIN clientData : clientData[i].req \in Requests /\ clientData[i].req # r
  <2>1. \A i \in DOMAIN clientData : clientData[i] \in Entries /\ stage[clientData[i].req] = "taken"
    BY DEF SoleInv, SoleEntries, TypeOK
  <2> QED
    BY <1>1, <2>1 DEF Entries
<1>6. notified[r] = 0
  BY <1>1 DEF SoleInv, UntakenUnheard
<1>7. PICK n : /\ n.req = r /\ n.kind = KindOf[r] /\ n.pc = "send"
               /\ tasks' = tasks \cup {n}
  <2>1. CASE HubTakeQos0
    <3>1. tasks' = tasks \cup {NewTask("QoS0", r, 0)} /\ KindOf[r] = "QoS0"
      BY <1>1, <2>1 DEF HubTakeQos0
    <3> QED
      BY <3>1 DEF NewTask
  <2>2. CASE HubTakeTracked
    <3>1. tasks' = tasks \cup {TaskOf(Entry(KindOf[r], r, Head(freeIds)))}
      BY <1>1, <2>2 DEF HubTakeTracked
    <3> QED
      BY <3>1 DEF TaskOf, NewTask, Entry
  <2> QED
    BY <2>1, <2>2
<1>8. SoleTasks'
  <2>1. ASSUME NEW u \in tasks'
        PROVE  /\ stage'[u.req] = "taken" /\ OfItsKind(u)
               /\ u.kind # "QoS2" => notified'[u.req] = 0
               /\ u.pc \in {"again", "notify"} => u.kind # "QoS2"
               /\ u.pc = "again" => u.kind = "QoS1"
    <3>1. CASE u = n
      BY <1>1, <1>2, <1>3, <1>6, <1>7, <3>1 DEF OfItsKind
    <3>2. CASE u \in tasks
      BY <1>2, <1>3, <1>4, <3>2 DEF SoleInv, SoleTasks, OfItsKind
    <3> QED
      BY <1>7, <3>1, <3>2
  <2>2. \A u, v \in tasks' : u.kind = v.kind /\ u.req = v.req => u = v
    BY <1>4, <1>7 DEF SoleInv, SoleTasks
  <2> QED
    BY <2>1, <2>2 DEF SoleTasks, OfItsKind
<1>9. SoleEntries'
  <2>1. ASSUME NEW i \in DOMAIN clientData
        PROVE  /\ stage'[clientData[i].req] = "taken" /\ OfItsKind(clientData[i])
               /\ clientData[i].kind = "QoS2" =>
                    /\ notified'[clientData[i].req] = 0
                    /\ \A t \in tasks' : t.req = clientData[i].req => t.kind = "QoS2"
    BY <1>2, <1>3, <1>5, <1>7 DEF SoleInv, SoleEntries
  <2>2. CASE HubTakeQos0
    <3>1. clientData' = clientData
      BY <2>2 DEF HubTakeQos0
    <3> QED
      BY <2>1, <3>1 DEF SoleInv, SoleEntries, OfItsKind
  <2>3. CASE HubTakeTracked
    <3>1. PICK e \in Packets : /\ clientData' = Append(clientData, e)
                               /\ e.req = r /\ e.kind = KindOf[r] /\ e \in Entries
      <4>1. PICK e \in Packets : /\ clientData' = Append(clientData, e)
                                 /\ e.req = r /\ e.kind = KindOf[r]
                                 /\ Range(clientData') = Range(clientData) \cup {e}
        BY <1>1, <2>3, TrackedCopies
      <4>2. e \in Entries
        <5>1. KindOf[r] \in Tracked /\ Head(freeIds) \in 1..MaxPacketId
          BY <1>1, <2>3, HeadOfQueue DEF HubTakeTracked, TypeOK
        <5>2. clientData' = Append(clientData, Entry(KindOf[r], r, Head(freeIds)))
          BY <1>1, <2>3 DEF HubTakeTracked
        <5>3. Entry(KindOf[r], r, Head(freeIds)) \in Entries
          BY <5>1 DEF Entry, Entries
        <5>4. e = Entry(KindOf[r], r, Head(freeIds))
          <6>1. clientData \in Seq(Entries)
            BY DEF TypeOK
          <6>2. Append(clientData, e)[Len(clientData) + 1] = e
            BY <6>1
          <6>3. \A x : Append(clientData, x)[Len(clientData) + 1] = x
            BY <6>1
          <6> QED
            BY <4>1, <5>2, <6>2, <6>3
        <5> QED
          BY <5>3, <5>4
      <4> QED
        BY <4>1, <4>2
    <3>2. /\ clientData \in Seq(Entries) /\ Len(clientData) \in Nat
          /\ DOMAIN clientData = 1..Len(clientData)
      BY DEF TypeOK
    <3>3. /\ DOMAIN clientData' = 1..Len(clientData) + 1
          /\ clientData'[Len(clientData) + 1] = e
          /\ \A k \in 1..Len(clientData) : clientData'[k] = clientData[k]
      BY <3>1, <3>2, AppendElements
    <3>4. \A k \in DOMAIN clientData' : k \in DOMAIN clientData \/ k = Len(clientData) + 1
      BY <3>2, <3>3
    <3>5. /\ stage'[e.req] = "taken" /\ OfItsKind(e)
          /\ e.kind = "QoS2" => /\ notified'[e.req] = 0
                                /\ \A t \in tasks' : t.req = e.req => t.kind = "QoS2"
      BY <1>2, <1>3, <1>4, <1>6, <1>7, <3>1 DEF OfItsKind
    <3>6. ASSUME NEW k \in DOMAIN clientData'
          PROVE  /\ stage'[clientData'[k].req] = "taken" /\ OfItsKind(clientData'[k])
                 /\ clientData'[k].kind = "QoS2" =>
                    /\ notified'[clientData'[k].req] = 0
                    /\ \A t \in tasks' : t.req = clientData'[k].req => t.kind = "QoS2"
      <4>1. CASE k \in DOMAIN clientData
        <5>1. clientData'[k] = clientData[k]
          BY <3>2, <3>3, <4>1
        <5> QED
          BY <2>1, <4>1, <5>1
      <4>2. CASE k = Len(clientData) + 1
        <5>1. clientData'[k] = e
          BY <3>3, <4>2
        <5> QED
          BY <3>5, <5>1
      <4> QED
        BY <3>4, <4>1, <4>2
    <3>7. \A i, j \in DOMAIN clientData' : clientData'[i].req = clientData'[j].req => i = j
      BY <1>5, <3>1, <3>2, <3>3, <3>4 DEF SoleInv, SoleEntries
    <3> QED
      BY <3>6, <3>7 DEF SoleEntries, OfItsKind
  <2> QED
    BY <2>2, <2>3
<1>10. UntakenUnheard' /\ NotifiedOnce'
  BY <1>2, <1>3 DEF SoleInv, UntakenUnheard, NotifiedOnce
<1> QED
  BY <1>8, <1>9, <1>10 DEF SoleInv

\* The entry of a QoS 2 publish goes on to PubRel, once.
LEMMA SoleRec ==
    ASSUME TypeOK, SoleInv, HubRecoverRec
    PROVE  SoleInv'
<1>1. PICK i \in DOMAIN clientData, d \in Entries :
        /\ d = clientData[i] /\ d.kind = "QoS2"
        /\ clientData' = [clientData EXCEPT ![i] = [d EXCEPT !.kind = "PubRel"]]
        /\ tasks' = tasks \cup {TaskOf([d EXCEPT !.kind = "PubRel"])}
  <2>1. PICK i \in DOMAIN clientData :
          /\ clientData[i].kind = "QoS2"
          /\ clientData' = [clientData EXCEPT ![i] = [clientData[i] EXCEPT !.kind = "PubRel"]]
          /\ tasks' = tasks \cup {TaskOf([clientData[i] EXCEPT !.kind = "PubRel"])}
    BY DEF HubRecoverRec, Completed
  <2>2. clientData[i] \in Entries
    BY DEF TypeOK
  <2> QED
    BY <2>1, <2>2
<1>2. UNCHANGED <<stage, notified>>
  BY DEF HubRecoverRec, HubReads
<1> DEFINE e == [d EXCEPT !.kind = "PubRel"]
           n == TaskOf(e)
<1>3. /\ e.kind = "PubRel" /\ e.req = d.req /\ n.kind = "PubRel"
      /\ n.req = d.req /\ n.pc = "send" /\ d.req \in Requests
  BY DEF TaskOf, NewTask, Entries
<1>4. clientData' = [clientData EXCEPT ![i] = e] /\ tasks' = tasks \cup {n}
  BY <1>1
<1>5. /\ stage[d.req] = "taken" /\ notified[d.req] = 0 /\ KindOf[d.req] = "QoS2"
      /\ \A t \in tasks : t.req = d.req => t.kind = "QoS2"
  BY <1>1 DEF SoleInv, SoleEntries, OfItsKind
<1> HIDE DEF e, n
<1>6. SoleTasks'
  <2>1. ASSUME NEW u \in tasks'
        PROVE  /\ stage'[u.req] = "taken" /\ OfItsKind(u)
               /\ u.kind # "QoS2" => notified'[u.req] = 0
               /\ u.pc \in {"again", "notify"} => u.kind # "QoS2"
               /\ u.pc = "again" => u.kind = "QoS1"
    <3>1. CASE u = n
      BY <1>2, <1>3, <1>5, <3>1 DEF OfItsKind
    <3>2. CASE u \in tasks
      BY <1>2, <3>2 DEF SoleInv, SoleTasks
    <3> QED
      BY <1>4, <3>1, <3>2
  <2>2. \A u, v \in tasks' : u.kind = v.kind /\ u.req = v.req => u = v
    BY <1>3, <1>4, <1>5 DEF SoleInv, SoleTasks
  <2> QED
    BY <2>1, <2>2 DEF SoleTasks, OfItsKind
<1>7. SoleEntries'
  <2>1. DOMAIN clientData' = DOMAIN clientData
    BY <1>4
  <2>2. \A k \in DOMAIN clientData : clientData'[k].req = clientData[k].req
    BY <1>1, <1>3, <1>4
  <2>3. ASSUME NEW k \in DOMAIN clientData
        PROVE  /\ stage'[clientData'[k].req] = "taken" /\ OfItsKind(clientData'[k])
               /\ clientData'[k].kind = "QoS2" =>
                  /\ notified'[clientData'[k].req] = 0
                  /\ \A t \in tasks' : t.req = clientData'[k].req => t.kind = "QoS2"
    <3>1. CASE k = i
      <4>1. clientData'[k] = e
        BY <1>4, <3>1
      <4> QED
        BY <1>2, <1>3, <1>5, <4>1 DEF OfItsKind
    <3>2. CASE k # i
      <4>1. clientData'[k] = clientData[k]
        BY <1>4, <3>2
      <4>2. clientData[k].req # d.req
        BY <1>1, <3>2 DEF SoleInv, SoleEntries
      <4> QED
        BY <1>2, <1>3, <1>4, <4>1, <4>2 DEF SoleInv, SoleEntries
    <3> QED
      BY <3>1, <3>2
  <2>4. \A k, j \in DOMAIN clientData' : clientData'[k].req = clientData'[j].req => k = j
    BY <2>1, <2>2 DEF SoleInv, SoleEntries
  <2> QED
    BY <2>1, <2>3, <2>4 DEF SoleEntries, OfItsKind
<1>8. UntakenUnheard' /\ NotifiedOnce'
  BY <1>2 DEF SoleInv, UntakenUnheard, NotifiedOnce
<1> QED
  BY <1>6, <1>7, <1>8 DEF SoleInv

\* The entries that are left when one is complete, by where they were.
LEMMA DoneLeaves ==
    ASSUME TypeOK, HubRecoverDone
    PROVE  \E f \in [DOMAIN clientData' -> DOMAIN clientData] :
             /\ \A k \in DOMAIN clientData' : clientData'[k] = clientData[f[k]]
             /\ \A k, l \in DOMAIN clientData' : f[k] = f[l] => k = l
<1>1. clientData \in Seq(Entries) /\ Len(clientData) \in Nat
      /\ DOMAIN clientData = 1..Len(clientData)
  BY DEF TypeOK
<1>2. PICK i \in DOMAIN clientData : clientData' = RemoveAt(clientData, i)
  BY DEF HubRecoverDone
<1>3. /\ clientData' \in Seq(Entries)
      /\ Len(clientData') = Len(clientData) - 1
      /\ \A j \in 1..Len(clientData) - 1 :
            clientData'[j] = IF j < i THEN clientData[j] ELSE clientData[j + 1]
  BY <1>1, <1>2, RemoveAtElements
<1>4. DOMAIN clientData' = 1..Len(clientData) - 1
  BY <1>3
<1> DEFINE f == [k \in DOMAIN clientData' |-> IF k < i THEN k ELSE k + 1]
<1>5. f \in [DOMAIN clientData' -> DOMAIN clientData]
  BY <1>1, <1>4
<1>6. \A k \in DOMAIN clientData' : clientData'[k] = clientData[f[k]]
  BY <1>3, <1>4
<1>7. \A k, l \in DOMAIN clientData' : f[k] = f[l] => k = l
  BY <1>1, <1>4
<1> HIDE DEF f
<1> QED
  BY <1>5, <1>6, <1>7

LEMMA SoleDone ==
    ASSUME TypeOK, SoleInv, HubRecoverDone
    PROVE  SoleInv'
<1>1. UNCHANGED <<tasks, stage, notified>>
  BY DEF HubRecoverDone, HubReads
<1>2. PICK f \in [DOMAIN clientData' -> DOMAIN clientData] :
        /\ \A k \in DOMAIN clientData' : clientData'[k] = clientData[f[k]]
        /\ \A k, l \in DOMAIN clientData' : f[k] = f[l] => k = l
  BY DoneLeaves
<1>3. SoleEntries'
  <2>1. ASSUME NEW k \in DOMAIN clientData'
        PROVE  /\ stage'[clientData'[k].req] = "taken" /\ OfItsKind(clientData'[k])
               /\ clientData'[k].kind = "QoS2" =>
                  /\ notified'[clientData'[k].req] = 0
                  /\ \A t \in tasks' : t.req = clientData'[k].req => t.kind = "QoS2"
    BY <1>1, <1>2 DEF SoleInv, SoleEntries
  <2>2. \A k, j \in DOMAIN clientData' : clientData'[k].req = clientData'[j].req => k = j
    BY <1>2 DEF SoleInv, SoleEntries
  <2> QED
    BY <2>1, <2>2 DEF SoleEntries, OfItsKind
<1>4. SoleTasks' /\ UntakenUnheard' /\ NotifiedOnce'
  BY <1>1 DEF SoleInv, SoleTasks, OfItsKind, UntakenUnheard, NotifiedOnce
<1> QED
  BY <1>3, <1>4 DEF SoleInv

\* The task that reports is the only one that could.
LEMMA SoleNotify ==
    ASSUME TypeOK, SoleInv, NEW t \in tasks, TaskNotify(t)
    PROVE  SoleInv'
<1>1. /\ t.pc = "notify" /\ tasks' = tasks \ {t}
      /\ notified' = [notified EXCEPT ![t.req] = @ + 1]
      /\ UNCHANGED <<clientData, stage>>
  BY DEF TaskNotify, hubVars
<1>2. t.req \in Requests /\ notified \in [Requests -> Nat]
  BY DEF TypeOK, Tasks
<1>3. /\ t.kind # "QoS2" /\ notified[t.req] = 0 /\ stage[t.req] = "taken"
      /\ OfItsKind(t)
  BY <1>1 DEF SoleInv, SoleTasks
<1>4. /\ notified'[t.req] = 1
      /\ \A r \in Requests : r # t.req => notified'[r] = notified[r]
  BY <1>1, <1>2, <1>3
<1>5. SoleTasks'
  <2>1. ASSUME NEW u \in tasks', u.kind # "QoS2" PROVE notified'[u.req] = 0
    <3>1. u \in tasks /\ u # t /\ OfItsKind(u) /\ notified[u.req] = 0 /\ u.req \in Requests
      BY <1>1, <2>1 DEF SoleInv, SoleTasks, TypeOK, Tasks
    <3>2. u.req # t.req
      <4> SUFFICES ASSUME u.req = t.req PROVE FALSE
        OBVIOUS
      <4>1. u.kind = t.kind
        BY <1>3, <2>1, <3>1 DEF OfItsKind
      <4> QED
        BY <3>1, <4>1 DEF SoleInv, SoleTasks
    <3> QED
      BY <1>4, <3>1, <3>2
  <2>2. \A u \in tasks' : /\ stage'[u.req] = "taken" /\ OfItsKind(u)
                          /\ u.pc \in {"again", "notify"} => u.kind # "QoS2"
                          /\ u.pc = "again" => u.kind = "QoS1"
    BY <1>1 DEF SoleInv, SoleTasks
  <2>3. \A u, v \in tasks' : u.kind = v.kind /\ u.req = v.req => u = v
    BY <1>1 DEF SoleInv, SoleTasks
  <2> QED
    BY <2>1, <2>2, <2>3 DEF SoleTasks, OfItsKind
<1>6. SoleEntries'
  <2>1. ASSUME NEW i \in DOMAIN clientData, clientData[i].kind = "QoS2"
        PROVE  /\ notified'[clientData[i].req] = 0
               /\ \A u \in tasks' : u.req = clientData[i].req => u.kind = "QoS2"
    <3>1. /\ notified[clientData[i].req] = 0
          /\ \A u \in tasks : u.req = clientData[i].req => u.kind = "QoS2"
      BY <2>1 DEF SoleInv, SoleEntries
    <3>2. clientData[i].req # t.req
      BY <1>3, <3>1
    <3>3. clientData[i].req \in Requests
      <4>1. clientData[i] \in Entries
        BY DEF TypeOK
      <4> QED
        BY <4>1 DEF Entries
    <3> QED
      BY <1>1, <1>4, <3>1, <3>2, <3>3
  <2> QED
    BY <1>1, <2>1 DEF SoleInv, SoleEntries, OfItsKind
<1>7. UntakenUnheard'
  BY <1>1, <1>3, <1>4 DEF SoleInv, UntakenUnheard
<1>8. NotifiedOnce'
  <2>1. \A r \in Requests : notified'[r] = 1 \/ notified'[r] = notified[r]
    BY <1>4
  <2> QED
    BY <2>1 DEF SoleInv, NotifiedOnce
<1> QED
  BY <1>5, <1>6, <1>7, <1>8 DEF SoleInv

LEMMA NextSole ==
    ASSUME TypeOK, QueueInv, OneConnectionInv, SoleInv, [Next]_vars
    PROVE  SoleInv'
<1>1. CASE /\ UNCHANGED <<clientData, tasks, notified>>
           /\ \A r \in Requests : stage'[r] = "taken" <=> stage[r] = "taken"
  BY <1>1, SoleUnchanged DEF SoleInv, SoleTasks
<1>2. ASSUME NEW r \in Requests, ClientRequest(r) PROVE SoleInv'
  <2>1. /\ stage[r] = "idle" /\ stage' = [stage EXCEPT ![r] = "queued"]
        /\ UNCHANGED <<clientData, tasks, notified>>
    BY <1>2 DEF ClientRequest
  <2>2. \A x \in Requests : stage'[x] = "taken" <=> stage[x] = "taken"
    BY <2>1 DEF TypeOK
  <2> QED
    BY <1>1, <2>1, <2>2
<1>3. CASE HubStartNetwork \/ HubConnectFail \/ HubLost \/ HubRecoverUnknown
  BY <1>1, <1>3 DEF HubStartNetwork, HubConnectFail, HubLost, HubRecoverUnknown,
                    HubReads
\* Nothing is sent again: the only connection is the first.
<1>4. CASE HubConnected
  <2>1. clientData = <<>>
    BY <1>4 DEF HubConnected, OneConnectionInv
  <2>2. Respawned = {}
    BY <2>1, EmptyRange DEF Respawned
  <2>3. UNCHANGED <<clientData, tasks, notified, stage>>
    BY <1>4, <2>2 DEF HubConnected
  <2> QED
    BY <1>1, <2>3
<1>5. CASE HubPoolEmpty
  <2>1. HubReads("Data") /\ stage' = [stage EXCEPT ![Head(hubQ).arg] = "dropped"]
    BY <1>5 DEF HubPoolEmpty
  <2>2. stage[Head(hubQ).arg] = "queued" /\ Head(hubQ).arg \in Requests
    BY <2>1, QueueAfterReading, HubReading
  <2>3. \A r \in Requests : stage'[r] = "taken" <=> stage[r] = "taken"
    BY <2>1, <2>2 DEF TypeOK
  <2> QED
    BY <1>1, <1>5, <2>3 DEF HubPoolEmpty, HubReads
<1>6. CASE HubTakeQos0 \/ HubTakeTracked \/ HubRecoverRec \/ HubRecoverDone
  BY <1>6, SoleTaken, SoleRec, SoleDone
<1>7. ASSUME NEW t \in tasks, TaskNotify(t) PROVE SoleInv'
  BY <1>7, SoleNotify
<1>8. CASE /\ TaskStep \/ (\E t \in tasks : TaskTimeout(t)) \/ NetStep
                \/ NetConnectFail \/ NetLost
           /\ ~ \E t \in tasks : TaskNotify(t)
  <2>1. UNCHANGED <<clientData, stage, notified>>
    BY <1>8 DEF TaskStep, TaskTimeout, TaskSend, TaskAcked, TaskRecoverAgain,
         NetStep, NetConnected, NetWrite, NetForward, NetConnectFail, NetLost, hubVars
  <2>2. SoleTasks
    BY DEF SoleInv
  <2> QED
    BY <1>8, <2>1, <2>2, TaskOrigins, SoleUnchanged
<1>9. CASE BrokerStep \/ UNCHANGED vars
  BY <1>1, <1>9 DEF BrokerStep, BrokerTake, BrokerRefuse, vars, hubVars
<1> QED
  BY <1>2, <1>3, <1>4, <1>5, <1>6, <1>7, <1>8, <1>9 DEF Next, HubStep

\* On one connection the user gets at most one success event per request,
\* whatever is retransmitted and however often packet ids are used again
\* (tx_to_user; MaxAttempts = 1 is a connection that is not lost).  Over several
\* connections it can get more: a task of the first may still report.
THEOREM ReportedOnce ==
    ASSUME MaxAttempts = 1
    PROVE  Spec => []NotifiedOnce
<1> DEFINE Inv == TypeOK /\ QueueInv /\ OneConnectionInv /\ SoleInv
<1>1. ASSUME Init PROVE Inv
  <2>1. /\ clientData = <<>> /\ tasks = {} /\ hub = "ToConnect" /\ net = "none"
        /\ netEvents = <<>> /\ attempt = 0
        /\ \A r \in Requests : notified[r] = 0
    BY <1>1 DEF Init
  <2>2. SoleInv
    BY <2>1 DEF SoleInv, SoleTasks, SoleEntries, UntakenUnheard, NotifiedOnce
  <2>3. QueueInv
    <3>1. hubQ = <<>> /\ Len(hubQ) = 0
      BY <1>1 DEF Init
    <3> QED
      BY <3>1 DEF QueueInv, Queued
  <2> QED
    BY <1>1, <2>1, <2>2, <2>3, InitType DEF OneConnectionInv
<1>2. Inv /\ [Next]_vars => Inv'
  BY NextType, NextQueue, NextOneConnection, NextSole
<1>3. Inv => NotifiedOnce
  BY DEF SoleInv
<1> HIDE DEF Inv
<1> QED
  BY <1>1, <1>2, <1>3, PTL DEF Spec

-----------------------------------------------------------------------------
(* QoS 2 publishes are taken once.  On one connection the packets reach    *)
(* the broker in the order in which they were sent; what has to be shown   *)
(* is that no publish is sent, or on its way, behind its own PUBREL, and   *)
(* that the PUBREL of a request which had the same id before is in front   *)
(* of all its copies.                                                      *)

\* The packets on their way to the broker: what the connection carries, and
\* behind it what the TaskNetwork has not written.
PipeLen == Len(toBroker) + Len(netQ)
Pipe(n) == IF n <= Len(toBroker) THEN toBroker[n]
                                 ELSE PacketOf(netQ[n - Len(toBroker)])

\* A request that has a copy has an id, always the same.  An entry is of kind
\* QoS2 until the first PUBREL is made.
OneIdInv ==
    /\ \A c \in Copies : stage[c.req] = "taken" /\ OfItsKind(c)
    /\ \A c, d \in Copies : c.req = d.req => c.id = d.id
    /\ \A e \in Range(clientData) : e.kind = "QoS2" =>
            \A c \in Copies : c.req = e.req => c.kind = "QoS2"

\* A packet waits for the TaskNetwork once, and its task for the receipt.
ReceiptInv ==
    /\ \A t \in tasks : TaskKey(t) \in Range(netQ) => t.pc = "receipt"
    /\ \A m, n \in 1..Len(netQ) : netQ[m] = netQ[n] => m = n

\* Who may still recover the id of an entry: its own task, or one RecoverId.
\* TaskPublishQos1, which dispatches two, is left out.
RecoversOnce(e) ==
    /\ \A t \in tasks : t.id = e.id /\ t.pc # "notify" =>
            /\ t.req = e.req /\ t.kind = e.kind
            /\ RecoverMsg(e.id) \notin Range(hubQ)
    /\ \A m, n \in 1..Len(hubQ) :
            hubQ[m] = RecoverMsg(e.id) /\ hubQ[n] = RecoverMsg(e.id) => m = n
RecoverInv ==
    /\ \A e \in Range(clientData) : KindOf[e.req] # "QoS1" => RecoversOnce(e)
    /\ \A t \in tasks : t.kind = "QoS2" => PacketOf(t) \in Range(clientData)

\* The packet p is the n-th on its way to the broker, or may be sent behind all.
Sends(p, n) ==
    \/ n \in 1..PipeLen /\ Pipe(n) = p
    \/ n = PipeLen + 1 /\ \E t \in tasks : PacketOf(t) = p

\* The broker has not taken the publish p, the n-th, or still recognises it; and
\* when a PUBREL of its id comes before it, that is of an older request: p has
\* not been taken, and no copy of it is before that PUBREL.
InOrder(p, n) ==
    /\ accepted[p.req] = 0 \/ [req |-> p.req, id |-> p.id] \in brokerHeld
    /\ \A m \in 1..(n - 1) : Pipe(m).kind = "PubRel" /\ Pipe(m).id = p.id =>
            /\ accepted[p.req] = 0
            /\ \A k \in 1..(m - 1) : ~ (Pipe(k).kind = "QoS2" /\ Pipe(k).req = p.req)
OrderInv ==
    /\ \A p \in Packets : \A n \in 1..(PipeLen + 1) :
            p.kind = "QoS2" /\ Sends(p, n) => InOrder(p, n)
    /\ \A r \in Requests : stage[r] # "taken" => accepted[r] = 0

\* Ids in use, when no request dispatches RecoverId twice.
HeldTokens ==
    /\ \A m \in Range(hubQ) : m.type = "RecoverId" => m.arg \in HeldIds
    /\ \A t \in tasks : t.kind # "QoS0" /\ t.pc # "notify" => PacketOf(t) \in Range(clientData)
Qos0Inv == \A t \in tasks : t.kind = "QoS0" => t.pc # "await" /\ t.id = 0

-----------------------------------------------------------------------------
(* Steps of client_data, of the stages and of the tasks.                   *)

LEMMA EntrySteps ==
    ASSUME TypeOK, [Next]_vars
    PROVE  clientData' = clientData \/ HubTakeTracked \/ HubRecoverRec \/ HubRecoverDone
<1>1. ASSUME NEW r \in Requests, ClientRequest(r) PROVE clientData' = clientData
  BY <1>1 DEF ClientRequest
<1>2. CASE \/ HubStartNetwork \/ HubConnected \/ HubConnectFail \/ HubLost
           \/ HubTakeQos0 \/ HubPoolEmpty \/ HubRecoverUnknown
  BY <1>2 DEF HubStartNetwork, HubConnected, HubConnectFail, HubLost,
              HubTakeQos0, HubPoolEmpty, HubRecoverUnknown, HubReads
<1>3. CASE TaskStep \/ (\E t \in tasks : TaskTimeout(t)) \/ NetStep
               \/ NetConnectFail \/ NetLost \/ BrokerStep \/ UNCHANGED vars
  BY <1>3 DEF TaskStep, TaskTimeout, TaskSend, TaskAcked, TaskRecoverAgain,
              TaskNotify, NetStep, NetConnected, NetWrite, NetForward,
              NetConnectFail, NetLost, BrokerStep, BrokerTake, BrokerRefuse, vars, hubVars
<1> QED
  BY <1>1, <1>2, <1>3 DEF Next, HubStep

LEMMA TakenStays ==
    ASSUME TypeOK, QueueInv, [Next]_vars, NEW r \in Requests, stage[r] = "taken"
    PROVE  stage'[r] = "taken"
<1>1. CASE stage' = stage
  BY <1>1
<1>2. CASE \E x \in Requests : stage[x] = "idle" /\ stage' = [stage EXCEPT ![x] = "queued"]
  BY <1>2 DEF TypeOK
<1>3. CASE HubTakeQos0 \/ HubTakeTracked \/ HubPoolEmpty
  <2>1. PICK s \in {"taken", "dropped"} :
          HubReads("Data") /\ stage' = [stage EXCEPT ![Head(hubQ).arg] = s]
    BY <1>3 DEF HubTakeQos0, HubTakeTracked, HubPoolEmpty
  <2>2. stage[Head(hubQ).arg] = "queued"
    BY <2>1, QueueAfterReading
  <2> QED
    BY <2>1, <2>2 DEF TypeOK
<1> QED
  BY <1>1, <1>2, <1>3, StageSteps

\* Entries that remain when one is complete.
LEMMA DoneRemoves ==
    ASSUME TypeOK, IdsConserved, HubRecoverDone
    PROVE  \E d \in Range(clientData) :
             /\ d.kind # "QoS2" /\ d.id = Head(hubQ).arg
             /\ \A e \in Range(clientData) : e = d \/ e \in Range(clientData')
             /\ Range(clientData') \subseteq Range(clientData) \ {d}
             /\ HubReads("RecoverId") /\ UNCHANGED <<tasks, stage>>
<1>1. clientData \in Seq(Entries) /\ Len(clientData) \in Nat
      /\ DOMAIN clientData = 1..Len(clientData)
  BY DEF TypeOK
<1>2. PICK i \in DOMAIN clientData :
        /\ clientData[i].id = Head(hubQ).arg /\ clientData[i].kind # "QoS2"
        /\ clientData' = RemoveAt(clientData, i)
  BY DEF HubRecoverDone, FirstWith, Completed
<1>3. /\ clientData' \in Seq(Entries)
      /\ Len(clientData') = Len(clientData) - 1
      /\ \A j \in 1..Len(clientData) - 1 :
            clientData'[j] = IF j < i THEN clientData[j] ELSE clientData[j + 1]
  BY <1>1, <1>2, RemoveAtElements
<1>4. DOMAIN clientData' = 1..Len(clientData) - 1
  BY <1>3
<1>5. ASSUME NEW e \in Range(clientData), e # clientData[i] PROVE e \in Range(clientData')
  <2>1. PICK k \in 1..Len(clientData) : e = clientData[k] /\ k # i
    BY <1>1, <1>5 DEF Range
  <2>2. CASE k < i
    <3>1. k \in 1..Len(clientData) - 1 /\ clientData'[k] = e
      BY <1>1, <1>2, <1>3, <2>1, <2>2
    <3> QED
      BY <1>4, <3>1 DEF Range
  <2>3. CASE i < k
    <3>1. k - 1 \in 1..Len(clientData) - 1 /\ clientData'[k - 1] = e
      BY <1>1, <1>2, <1>3, <2>1, <2>3
    <3> QED
      BY <1>4, <3>1 DEF Range
  <2> QED
    BY <1>1, <1>2, <2>1, <2>2, <2>3
<1>6. ASSUME NEW e \in Range(clientData') PROVE e \in Range(clientData) /\ e # clientData[i]
  <2>1. PICK j \in 1..Len(clientData) - 1 : e = clientData'[j]
    BY <1>4, <1>6 DEF Range
  <2> DEFINE k == IF j < i THEN j ELSE j + 1
  <2>2. k \in DOMAIN clientData /\ k # i /\ e = clientData[k]
    BY <1>1, <1>2, <1>3, <2>1
  <2>3. clientData[k].id # clientData[i].id
    BY <1>2, <2>2 DEF IdsConserved
  <2> QED
    BY <2>2, <2>3 DEF Range
<1>7. HubReads("RecoverId") /\ UNCHANGED <<tasks, stage>>
  BY DEF HubRecoverDone
<1>8. clientData[i] \in Range(clientData)
  BY <1>2 DEF Range
<1> QED
  BY <1>2, <1>5, <1>6, <1>7, <1>8

\* A step of a task or of the network: each task is one that was there, and a
\* task that reports does not go back.
Continues(u, t) ==
    /\ TaskKey(u) = TaskKey(t) /\ (u.pc # "notify" => t.pc # "notify")
    /\ u.kind = "QoS0" /\ u.pc = "await" => t.pc = "await"

LEMMA TasksMove ==
    ASSUME TypeOK, SoleTasks, ReceiptInv,
           TaskStep \/ (\E t \in tasks : TaskTimeout(t)) \/ NetStep
               \/ NetConnectFail \/ NetLost
    PROVE  \A u \in tasks' : \E t \in tasks : Continues(u, t)
<1>1. tasks \subseteq Tasks
  BY DEF TypeOK
<1>2. \A t \in tasks : Continues(t, t)
  BY DEF Continues
<1>3. ASSUME NEW t \in tasks, NEW w, Continues(w, t),
             \A u \in tasks' : u = w \/ u \in tasks
      PROVE  \A u \in tasks' : \E x \in tasks : Continues(u, x)
  BY <1>2, <1>3
<1>4. CASE tasks' \subseteq tasks
  BY <1>2, <1>4
<1>5. ASSUME NEW t \in tasks, TaskSend(t) \/ TaskTimeout(t)
      PROVE  \A u \in tasks' : \E x \in tasks : Continues(u, x)
  <2>1. PICK n : Transmit(t, n)
    BY <1>5 DEF TaskSend, TaskTimeout
  <2> DEFINE w == [t EXCEPT !.pc = "receipt", !.resends = n]
  <2>2. Continues(w, t)
    BY <1>1, <1>5 DEF Tasks, Continues, TaskKey, TaskSend, TaskTimeout
  <2>3. \A u \in tasks' : u = w \/ u \in tasks
    BY <2>1 DEF Transmit
  <2> HIDE DEF w
  <2> QED
    BY <1>3, <2>2, <2>3
<1>6. ASSUME NEW t \in tasks, TaskAcked(t) \/ TaskRecoverAgain(t)
      PROVE  \A u \in tasks' : \E x \in tasks : Continues(u, x)
  <2>1. t.pc # "notify"
    BY <1>6 DEF TaskAcked, AckReceived, TaskRecoverAgain
  <2>2. PICK p \in {"again", "notify"} : \A u \in tasks' : u = [t EXCEPT !.pc = p] \/ u \in tasks
    BY <1>6 DEF TaskAcked, TaskRecoverAgain, AfterRecover, Goto
  <2> DEFINE w == [t EXCEPT !.pc = p]
  <2>3. Continues(w, t)
    BY <1>1, <2>1 DEF Tasks, Continues, TaskKey
  <2>4. \A u \in tasks' : u = w \/ u \in tasks
    BY <2>2
  <2> HIDE DEF w
  <2> QED
    BY <1>3, <2>3, <2>4
<1>7. CASE NetWrite
  <2> DEFINE W(t) == IF TaskKey(t) = Head(netQ)
                     THEN [t EXCEPT !.pc = IF t.kind = "QoS0" THEN "notify" ELSE "await"]
                     ELSE t
  <2>1. \A u \in tasks' : \E t \in tasks : u = W(t)
    BY <1>7 DEF NetWrite
  <2>2. Head(netQ) \in Range(netQ)
    BY <1>7, QueueRanges DEF NetWrite
  <2>3. ASSUME NEW t \in tasks PROVE Continues(W(t), t)
    <3>1. CASE TaskKey(t) = Head(netQ)
      <4>1. t.pc = "receipt"
        BY <2>2, <3>1 DEF ReceiptInv
      <4> QED
        BY <1>1, <3>1, <4>1 DEF Tasks, Continues, TaskKey
    <3>2. CASE TaskKey(t) # Head(netQ)
      BY <1>2, <3>2
    <3> QED
      BY <3>1, <3>2
  <2> HIDE DEF W
  <2> QED
    BY <2>1, <2>3
<1>8. CASE NetForward
  <2> DEFINE W(t) == IF IsRel(Head(fromBroker), t) /\ ~ t.acked
                     THEN [t EXCEPT !.acked = TRUE, !.refused = Head(fromBroker).refused]
                     ELSE t
  <2>1. \A u \in tasks' : \E t \in tasks : u = W(t)
    BY <1>8 DEF NetForward
  <2>2. \A t \in tasks : Continues(W(t), t)
    BY <1>1 DEF Tasks, Continues, TaskKey
  <2> HIDE DEF W
  <2> QED
    BY <2>1, <2>2
<1>9. CASE \/ NetConnected \/ NetConnectFail \/ NetLost
           \/ \E t \in tasks : TaskNotify(t)
  BY <1>4, <1>9 DEF NetConnected, NetConnectFail, NetLost, WithoutQueued, TaskNotify
<1> QED
  BY <1>5, <1>6, <1>7, <1>8, <1>9 DEF TaskStep, NetStep

-----------------------------------------------------------------------------
(* A request and its id.                                                   *)

LEMMA NextOneId ==
    ASSUME TypeOK, QueueInv, SoleInv, OneIdInv, [Next]_vars
    PROVE  OneIdInv'
<1>1. \A c \in Copies : c.req \in Requests /\ stage[c.req] = "taken" /\ OfItsKind(c)
  <2>1. \A c \in Copies : c.req \in Requests
    BY CopiesType DEF Packets
  <2> QED
    BY <2>1 DEF OneIdInv
<1>2. \A c \in Copies : stage'[c.req] = "taken"
  BY <1>1, TakenStays
<1>3. CASE /\ Copies' \subseteq Copies
           /\ Range(clientData') \subseteq Range(clientData)
  BY <1>1, <1>2, <1>3 DEF OneIdInv, OfItsKind
\* A request that had no copy.
<1>4. ASSUME NEW c \in Packets, AddsTo(c), OfItsKind(c),
             stage[c.req] # "taken", stage'[c.req] = "taken",
             \A e \in Range(clientData') : e \in Range(clientData) \/ e = c
      PROVE  OneIdInv'
  <2>1. \A x \in Copies : x.req # c.req
    BY <1>1, <1>4
  <2>2. \A x \in Copies' : x \in Copies \/ x = c
    BY <1>4 DEF AddsTo
  <2>3. \A x \in Copies' : stage'[x.req] = "taken" /\ OfItsKind(x)
    BY <1>1, <1>2, <1>4, <2>2
  <2>4. \A x, y \in Copies' : x.req = y.req => x.id = y.id
    BY <2>1, <2>2 DEF OneIdInv
  <2>5. ASSUME NEW e \in Range(clientData'), e.kind = "QoS2", NEW x \in Copies', x.req = e.req
        PROVE  x.kind = "QoS2"
    <3>1. CASE e \in Range(clientData)
      <4>1. e \in Copies
        BY <3>1, CopiesOf
      <4> QED
        BY <2>1, <2>2, <2>5, <3>1, <4>1 DEF OneIdInv
    <3>2. CASE e = c
      BY <2>1, <2>2, <2>5, <3>2
    <3> QED
      BY <1>4, <3>1, <3>2
  <2> QED
    BY <2>3, <2>4, <2>5 DEF OneIdInv, OfItsKind
<1>5. CASE HubTakeQos0
  <2> DEFINE r == Head(hubQ).arg
             c == Entry("QoS0", r, 0)
  <2>1. AddsTo(c) /\ KindOf[r] = "QoS0"
    BY <1>5, Qos0Copies
  <2>2. HubReads("Data") /\ stage' = [stage EXCEPT ![r] = "taken"] /\ clientData' = clientData
    BY <1>5 DEF HubTakeQos0
  <2>3. stage[r] = "queued" /\ r \in Requests
    BY <2>2, QueueAfterReading, HubReading
  <2>4. c \in Packets /\ c.req = r /\ c.kind = "QoS0"
    BY <2>3 DEF Packets, Entry
  <2>5. OfItsKind(c)
    BY <2>1, <2>4 DEF OfItsKind
  <2>6. stage'[r] = "taken"
    BY <2>2, <2>3 DEF TypeOK
  <2> HIDE DEF c, r
  <2> QED
    BY <1>4, <2>1, <2>2, <2>3, <2>4, <2>5, <2>6
<1>6. CASE HubTakeTracked
  <2> DEFINE r == Head(hubQ).arg
             c == Entry(KindOf[r], r, Head(freeIds))
  <2>1. /\ AddsTo(c) /\ c \in Packets /\ r \in Requests
        /\ c.kind = KindOf[r] /\ c.req = r
        /\ Range(clientData') = Range(clientData) \cup {c}
        /\ stage' = [stage EXCEPT ![r] = "taken"]
    BY <1>6, TrackedCopies
  <2>2. HubReads("Data")
    BY <1>6 DEF HubTakeTracked
  <2>3. stage[r] = "queued"
    BY <2>1, <2>2, QueueAfterReading
  <2>4. OfItsKind(c)
    BY <2>1 DEF OfItsKind
  <2>5. stage'[r] = "taken"
    BY <2>1 DEF TypeOK
  <2> HIDE DEF c, r
  <2> QED
    BY <1>4, <2>1, <2>3, <2>4, <2>5
\* The first PUBREL of a request.
<1>7. CASE HubRecoverRec
  <2>1. PICK i \in DOMAIN clientData :
          /\ clientData[i] \in Range(clientData) /\ clientData[i].kind = "QoS2"
          /\ clientData' = [clientData EXCEPT ![i] = Entry("PubRel", clientData[i].req, clientData[i].id)]
          /\ AddsTo(Entry("PubRel", clientData[i].req, clientData[i].id))
    BY <1>7, RecCopies
  <2> DEFINE d == clientData[i]
             c == Entry("PubRel", d.req, d.id)
  <2>2. d \in Copies
    BY <2>1, CopiesOf
  <2>3. c.kind = "PubRel" /\ c.req = d.req /\ c.id = d.id
    BY DEF Entry
  <2>4. \A x \in Copies' : x \in Copies \/ x = c
    BY <2>1 DEF AddsTo
  <2>5. KindOf[d.req] = "QoS2" /\ stage'[d.req] = "taken"
    BY <1>1, <1>2, <2>1, <2>2 DEF OfItsKind
  <2>6. \A e \in Range(clientData') :
          e = c \/ (e \in Range(clientData) /\ e.req # d.req)
    BY <2>1 DEF Range, SoleInv, SoleEntries
  <2> HIDE DEF c, d
  <2>7. \A x \in Copies' : stage'[x.req] = "taken" /\ OfItsKind(x)
    BY <1>1, <1>2, <2>3, <2>4, <2>5 DEF OfItsKind
  <2>8. \A x, y \in Copies' : x.req = y.req => x.id = y.id
    BY <2>2, <2>3, <2>4 DEF OneIdInv
  <2>9. ASSUME NEW e \in Range(clientData'), e.kind = "QoS2", NEW x \in Copies', x.req = e.req
        PROVE  x.kind = "QoS2"
    BY <2>3, <2>4, <2>6, <2>9 DEF OneIdInv
  <2> QED
    BY <2>7, <2>8, <2>9 DEF OneIdInv, OfItsKind
<1>8. CASE ~ HubTakeQos0 /\ ~ HubTakeTracked /\ ~ HubRecoverRec
  <2>1. Copies' \subseteq Copies
    BY <1>8, OtherCopies
  <2>2. Range(clientData') \subseteq Range(clientData)
    <3>1. CASE clientData' = clientData
      BY <3>1
    <3>2. CASE HubRecoverDone
      BY <3>2, DoneLeaves DEF Range
    <3> QED
      BY <1>8, <3>1, <3>2, EntrySteps
  <2> QED
    BY <1>3, <2>1, <2>2
<1> QED
  BY <1>5, <1>6, <1>7, <1>8

-----------------------------------------------------------------------------
(* The queue of the TaskNetwork.                                           *)

LEMMA QueueOfNetwork ==
    ASSUME TypeOK
    PROVE  netQ \in Seq(TaskKeys) /\ Len(netQ) \in Nat /\ DOMAIN netQ = 1..Len(netQ)
  BY LenProperties DEF TypeOK

\* Nothing was sent for a task that is new.
LEMMA ReceiptOfNew ==
    ASSUME ReceiptInv, NEW w, TaskKey(w) \notin Range(netQ),
           netQ' = netQ, \A u \in tasks' : u \in tasks \/ u = w
    PROVE  ReceiptInv'
  BY DEF ReceiptInv

LEMMA NextReceipt ==
    ASSUME TypeOK, QueueInv, OneConnectionInv, SoleInv, OneIdInv, ReceiptInv, [Next]_vars
    PROVE  ReceiptInv'
<1>1. tasks \subseteq Tasks
  BY DEF TypeOK
<1>2. \A k \in Range(netQ) : stage[k.req] = "taken" /\ PacketOf(k) \in Copies
  <2>1. \A k \in Range(netQ) : PacketOf(k) \in Copies
    BY CopiesOf
  <2> QED
    BY <2>1 DEF OneIdInv, PacketOf
<1>3. ASSUME UNCHANGED <<netQ, tasks>> PROVE ReceiptInv'
  BY <1>3 DEF ReceiptInv
<1>4. ASSUME netQ' = <<>> PROVE ReceiptInv'
  BY <1>4, EmptyRange DEF ReceiptInv
<1>5. ASSUME NEW r \in Requests, ClientRequest(r) PROVE ReceiptInv'
  BY <1>3, <1>5 DEF ClientRequest, netVars
<1>6. CASE HubStartNetwork \/ NetConnectFail \/ NetLost
  BY <1>4, <1>6 DEF HubStartNetwork, NetConnectFail, NetLost
<1>7. CASE HubConnected
  <2>1. Respawned = {}
    BY <1>7, EmptyRange DEF HubConnected, OneConnectionInv, Respawned
  <2> QED
    BY <1>3, <1>7, <2>1 DEF HubConnected
<1>8. CASE \/ HubConnectFail \/ HubLost \/ HubPoolEmpty \/ HubRecoverDone
           \/ HubRecoverUnknown \/ NetConnected \/ BrokerStep \/ UNCHANGED vars
  BY <1>3, <1>8 DEF HubConnectFail, HubLost, HubPoolEmpty, HubRecoverDone,
      HubRecoverUnknown, HubReads, NetConnected, BrokerStep, BrokerTake, BrokerRefuse, vars, netVars
<1>9. CASE HubTakeQos0 \/ HubTakeTracked
  <2>1. PICK e : /\ e.req = Head(hubQ).arg /\ tasks' = tasks \cup {NewTask(e.kind, e.req, e.id)}
                 /\ HubReads("Data") /\ stage' = [stage EXCEPT ![Head(hubQ).arg] = "taken"]
    <3>1. CASE HubTakeQos0
      <4> DEFINE e == Entry("QoS0", Head(hubQ).arg, 0)
      <4>1. e.req = Head(hubQ).arg /\ tasks' = tasks \cup {NewTask(e.kind, e.req, e.id)}
        BY <3>1 DEF HubTakeQos0, Entry
      <4> HIDE DEF e
      <4> QED
        BY <3>1, <4>1 DEF HubTakeQos0
    <3>2. CASE HubTakeTracked
      <4> DEFINE e == Entry(KindOf[Head(hubQ).arg], Head(hubQ).arg, Head(freeIds))
      <4>1. e.req = Head(hubQ).arg /\ tasks' = tasks \cup {TaskOf(e)}
        BY <3>2 DEF HubTakeTracked, Entry
      <4> HIDE DEF e
      <4> QED
        BY <3>2, <4>1 DEF HubTakeTracked, TaskOf
    <3> QED
      BY <1>9, <3>1, <3>2
  <2> DEFINE w == NewTask(e.kind, e.req, e.id)
  <2>2. stage[e.req] = "queued"
    BY <2>1, QueueAfterReading
  <2>3. TaskKey(w).req = e.req
    BY DEF TaskKey, NewTask
  <2>4. TaskKey(w) \notin Range(netQ)
    BY <1>2, <2>2, <2>3
  <2>5. netQ' = netQ
    BY <2>1 DEF HubReads, netVars
  <2> HIDE DEF w
  <2> QED
    BY <2>1, <2>4, <2>5, ReceiptOfNew DEF w
<1>10. CASE HubRecoverRec
  <2>1. PICK i \in DOMAIN clientData :
          /\ clientData[i].kind = "QoS2"
          /\ tasks' = tasks \cup {TaskOf([clientData[i] EXCEPT !.kind = "PubRel"])}
    BY <1>10 DEF HubRecoverRec, Completed
  <2>2. netQ' = netQ
    BY <1>10 DEF HubRecoverRec, HubReads, netVars
  <2>3. clientData[i] \in Range(clientData) /\ clientData[i] \in Entries
    BY DEF Range, TypeOK
  <2> DEFINE w == TaskOf([clientData[i] EXCEPT !.kind = "PubRel"])
  <2>4. TaskKey(w).kind = "PubRel" /\ TaskKey(w).req = clientData[i].req
    BY <2>3 DEF TaskOf, NewTask, TaskKey, Entries
  <2>5. ASSUME TaskKey(w) \in Range(netQ) PROVE FALSE
    <3> DEFINE c == PacketOf(TaskKey(w))
    <3>1. c \in Copies
      BY <1>2, <2>5
    <3>2. c.kind = "PubRel" /\ c.req = clientData[i].req
      BY <2>4 DEF PacketOf
    <3> QED
      BY <2>1, <2>3, <3>1, <3>2 DEF OneIdInv
  <2> HIDE DEF w
  <2> QED
    BY <2>1, <2>2, <2>5, ReceiptOfNew DEF w
<1>11. ASSUME NEW t \in tasks, TaskSend(t) \/ TaskTimeout(t)
       PROVE  ReceiptInv'
  <2>1. PICK n : Transmit(t, n)
    BY <1>11 DEF TaskSend, TaskTimeout
  <2>2. CASE net = "none"
    BY <2>1, <2>2 DEF Transmit, ReceiptInv
  <2>3. CASE net # "none"
    <3> DEFINE k == TaskKey(t)
               w == [t EXCEPT !.pc = "receipt", !.resends = n]
    <3>1. tasks' = (tasks \ {t}) \cup {w} /\ netQ' = Append(netQ, k)
      BY <2>1, <2>3 DEF Transmit
    <3>2. w.pc = "receipt"
      BY <1>1 DEF Tasks
    <3>3. k \notin Range(netQ) /\ k \in TaskKeys
      BY <1>1, <1>11 DEF ReceiptInv, TaskSend, TaskTimeout, Tasks, TaskKeys, TaskKey
    <3>4. ASSUME NEW u \in tasks, u # t PROVE TaskKey(u) # k
      <4>1. ~ (t.kind = u.kind /\ t.req = u.req)
        BY <3>4 DEF SoleInv, SoleTasks
      <4> QED
        BY <4>1 DEF TaskKey
    <3>5. Range(netQ') = Range(netQ) \cup {k}
      BY <3>1, <3>3, QueueRanges
    <3>6. /\ Len(netQ') = Len(netQ) + 1 /\ netQ'[Len(netQ) + 1] = k /\ Len(netQ) \in Nat
          /\ \A m \in 1..Len(netQ) : netQ'[m] = netQ[m] /\ netQ[m] \in Range(netQ)
      <4>1. \A m \in 1..Len(netQ) : netQ[m] \in Range(netQ)
        BY QueueOfNetwork DEF Range
      <4> QED
        BY <3>1, <3>3, <4>1, QueueOfNetwork, AppendElements
    <3> HIDE DEF k, w
    <3>7. \A u \in tasks' : TaskKey(u) \in Range(netQ') => u.pc = "receipt"
      BY <3>1, <3>2, <3>4, <3>5 DEF ReceiptInv
    <3>8. ASSUME NEW m \in 1..Len(netQ'), NEW j \in 1..Len(netQ'), netQ'[m] = netQ'[j]
          PROVE  m = j
      <4>1. \A l \in 1..Len(netQ') : l \in 1..Len(netQ) \/ l = Len(netQ) + 1
        BY <3>6
      <4> QED
        BY <3>3, <3>6, <3>8, <4>1 DEF ReceiptInv
    <3> QED
      BY <3>7, <3>8 DEF ReceiptInv
  <2> QED
    BY <2>2, <2>3
<1>12. ASSUME NEW t \in tasks, TaskAcked(t) \/ TaskRecoverAgain(t) \/ TaskNotify(t)
       PROVE  ReceiptInv'
  <2>1. t.pc # "receipt" /\ netQ' = netQ
    BY <1>12 DEF TaskAcked, AckReceived, TaskRecoverAgain, TaskNotify, netVars
  <2>2. TaskKey(t) \notin Range(netQ)
    BY <2>1 DEF ReceiptInv
  <2>3. PICK p : \A u \in tasks' : u \in tasks \/ u = [t EXCEPT !.pc = p]
    BY <1>12 DEF TaskAcked, TaskRecoverAgain, TaskNotify, AfterRecover, Goto
  <2> DEFINE w == [t EXCEPT !.pc = p]
  <2>4. TaskKey(w) = TaskKey(t)
    BY <1>1 DEF Tasks, TaskKey
  <2> HIDE DEF w
  <2> QED
    BY <2>1, <2>2, <2>3, <2>4, ReceiptOfNew DEF w
<1>13. CASE NetWrite
  <2> DEFINE W(t) == IF TaskKey(t) = Head(netQ)
                     THEN [t EXCEPT !.pc = IF t.kind = "QoS0" THEN "notify" ELSE "await"]
                     ELSE t
  <2>1. (\A u \in tasks' : \E t \in tasks : u = W(t)) /\ netQ # <<>> /\ netQ' = Tail(netQ)
    BY <1>13 DEF NetWrite
  <2>2. /\ Head(netQ) = netQ[1] /\ Len(netQ) \in Nat /\ Len(netQ') = Len(netQ) - 1
        /\ \A k \in 1..Len(netQ') : k + 1 \in 1..Len(netQ) /\ netQ'[k] = netQ[k + 1]
        /\ 1 \in 1..Len(netQ) /\ DOMAIN netQ' = 1..Len(netQ')
    BY <2>1, QueueOfNetwork, TailElements
  <2>3. Head(netQ) \notin Range(netQ')
    BY <2>2 DEF ReceiptInv, Range
  <2>4. Range(netQ') \subseteq Range(netQ)
    BY <2>1, QueueRanges
  <2>5. ASSUME NEW t \in tasks, TaskKey(W(t)) \in Range(netQ') PROVE W(t).pc = "receipt"
    <3>1. TaskKey(W(t)) = TaskKey(t)
      BY <1>1 DEF Tasks, TaskKey
    <3>2. TaskKey(t) # Head(netQ)
      BY <2>3, <2>5, <3>1
    <3> QED
      BY <2>4, <2>5, <3>1, <3>2 DEF ReceiptInv
  <2> HIDE DEF W
  <2>6. \A u \in tasks' : TaskKey(u) \in Range(netQ') => u.pc = "receipt"
    BY <2>1, <2>5
  <2>7. ASSUME NEW m \in 1..Len(netQ'), NEW j \in 1..Len(netQ'), netQ'[m] = netQ'[j]
        PROVE  m = j
    <3>1. m + 1 = j + 1
      BY <2>2, <2>7 DEF ReceiptInv
    <3> QED
      BY <2>2, <3>1
  <2> QED
    BY <2>6, <2>7 DEF ReceiptInv
<1>14. CASE NetForward
  <2> DEFINE W(t) == IF IsRel(Head(fromBroker), t) /\ ~ t.acked
                     THEN [t EXCEPT !.acked = TRUE, !.refused = Head(fromBroker).refused]
                     ELSE t
  <2>1. (\A u \in tasks' : \E t \in tasks : u = W(t)) /\ netQ' = netQ
    BY <1>14 DEF NetForward, netVars
  <2>2. \A t \in tasks : TaskKey(W(t)) = TaskKey(t) /\ W(t).pc = t.pc
    BY <1>1 DEF Tasks, TaskKey
  <2> HIDE DEF W
  <2> QED
    BY <2>1, <2>2 DEF ReceiptInv
<1> QED
  BY <1>5, <1>6, <1>7, <1>8, <1>9, <1>10, <1>11, <1>12, <1>13, <1>14
     DEF Next, HubStep, TaskStep, NetStep

-----------------------------------------------------------------------------
(* Who recovers an id.                                                     *)

\* Nothing speaks of the id any more, apart from tasks that only report.
Clean(id) ==
    /\ RecoverMsg(id) \notin Range(hubQ)
    /\ \A t \in tasks : t.id = id => t.pc = "notify"
TakeIsClean == HubTakeTracked => Clean(Head(freeIds))

LEMMA RecoverMsgs ==
    ASSUME NEW i \in 0..MaxPacketId
    PROVE  /\ RecoverMsg(i) \in HubMessages /\ RecoverMsg(i).type = "RecoverId"
           /\ RecoverMsg(i).arg = i
           /\ \A r : DataMsg(r) # RecoverMsg(i)
  BY DEF RecoverMsg, DataMsg, HubMessages

\* What becomes of the RecoverIds of one id when an event is read, and when
\* another event is queued.
LEMMA RecoverIdsRead ==
    ASSUME TypeOK, hubQ # <<>>, hubQ' = Tail(hubQ), NEW i,
           \A m, n \in 1..Len(hubQ) :
               hubQ[m] = RecoverMsg(i) /\ hubQ[n] = RecoverMsg(i) => m = n
    PROVE  /\ \A m, n \in 1..Len(hubQ') :
               hubQ'[m] = RecoverMsg(i) /\ hubQ'[n] = RecoverMsg(i) => m = n
           /\ RecoverMsg(i) \notin Range(hubQ) => RecoverMsg(i) \notin Range(hubQ')
           /\ Head(hubQ) = RecoverMsg(i) => RecoverMsg(i) \notin Range(hubQ')
<1>1. /\ Head(hubQ) = hubQ[1] /\ Len(hubQ) \in Nat /\ Len(hubQ') = Len(hubQ) - 1
      /\ \A k \in 1..Len(hubQ') : k + 1 \in 1..Len(hubQ) /\ hubQ'[k] = hubQ[k + 1]
      /\ 1 \in 1..Len(hubQ)
  BY QueueOfHub, TailElements
<1>2. DOMAIN hubQ = 1..Len(hubQ) /\ DOMAIN hubQ' = 1..Len(hubQ')
  BY QueueOfHub, TailElements
<1>3. \A m, n \in 1..Len(hubQ') :
        hubQ'[m] = RecoverMsg(i) /\ hubQ'[n] = RecoverMsg(i) => m = n
  <2>1. ASSUME NEW m \in 1..Len(hubQ'), NEW n \in 1..Len(hubQ'),
               hubQ'[m] = RecoverMsg(i), hubQ'[n] = RecoverMsg(i)
        PROVE  m = n
    <3>1. m + 1 = n + 1
      BY <1>1, <2>1
    <3> QED
      BY <1>1, <3>1
  <2> QED
    BY <2>1
<1>4. RecoverMsg(i) \notin Range(hubQ) => RecoverMsg(i) \notin Range(hubQ')
  BY <1>1, <1>2 DEF Range
<1>5. ASSUME Head(hubQ) = RecoverMsg(i), NEW k \in 1..Len(hubQ'), hubQ'[k] = RecoverMsg(i)
      PROVE  FALSE
  <2>1. k + 1 = 1
    BY <1>1, <1>5
  <2> QED
    BY <2>1
<1>6. Head(hubQ) = RecoverMsg(i) => RecoverMsg(i) \notin Range(hubQ')
  BY <1>2, <1>5 DEF Range
<1> QED
  BY <1>3, <1>4, <1>6

LEMMA RecoverIdsMore ==
    ASSUME TypeOK, NEW m \in HubMessages, hubQ' = Append(hubQ, m), NEW i,
           \A k, n \in 1..Len(hubQ) :
               hubQ[k] = RecoverMsg(i) /\ hubQ[n] = RecoverMsg(i) => k = n,
           m = RecoverMsg(i) => RecoverMsg(i) \notin Range(hubQ)
    PROVE  /\ \A k, n \in 1..Len(hubQ') :
               hubQ'[k] = RecoverMsg(i) /\ hubQ'[n] = RecoverMsg(i) => k = n
           /\ Range(hubQ') = Range(hubQ) \cup {m}
<1>1. /\ Len(hubQ) \in Nat /\ Len(hubQ') = Len(hubQ) + 1 /\ hubQ'[Len(hubQ) + 1] = m
      /\ \A k \in 1..Len(hubQ) : hubQ'[k] = hubQ[k]
      /\ DOMAIN hubQ = 1..Len(hubQ) /\ DOMAIN hubQ' = 1..Len(hubQ')
  BY QueueOfHub, AppendElements
<1>2. \A k \in 1..Len(hubQ') : k \in 1..Len(hubQ) \/ k = Len(hubQ) + 1
  BY <1>1
<1>3. \A k \in 1..Len(hubQ) : hubQ[k] \in Range(hubQ)
  BY <1>1 DEF Range
<1>4. Range(hubQ') = Range(hubQ) \cup {m}
  BY <1>1, <1>2 DEF Range
<1> QED
  BY <1>1, <1>2, <1>3, <1>4

\* An entry is still recovered once when its tasks are ones that were there.
LEMMA RecoversOnceKept ==
    ASSUME TypeOK, NEW e, RecoversOnce(e),
           \/ hubQ' = hubQ
           \/ hubQ # <<>> /\ hubQ' = Tail(hubQ)
           \/ \E m \in HubMessages : m # RecoverMsg(e.id) /\ hubQ' = Append(hubQ, m),
           \A u \in tasks' : u.id = e.id /\ u.pc # "notify" =>
              \E t \in tasks : /\ t.id = e.id /\ t.pc # "notify"
                               /\ t.req = u.req /\ t.kind = u.kind
    PROVE  RecoversOnce(e)'
<1>1. /\ \A m, n \in 1..Len(hubQ') :
            hubQ'[m] = RecoverMsg(e.id) /\ hubQ'[n] = RecoverMsg(e.id) => m = n
      /\ RecoverMsg(e.id) \notin Range(hubQ) => RecoverMsg(e.id) \notin Range(hubQ')
  <2>1. CASE hubQ' = hubQ
    BY <2>1 DEF RecoversOnce
  <2>2. CASE hubQ # <<>> /\ hubQ' = Tail(hubQ)
    BY <2>2, RecoverIdsRead DEF RecoversOnce
  <2>3. ASSUME NEW m \in HubMessages, m # RecoverMsg(e.id), hubQ' = Append(hubQ, m)
        PROVE  /\ \A k, n \in 1..Len(hubQ') :
                    hubQ'[k] = RecoverMsg(e.id) /\ hubQ'[n] = RecoverMsg(e.id) => k = n
               /\ RecoverMsg(e.id) \notin Range(hubQ) => RecoverMsg(e.id) \notin Range(hubQ')
    BY <2>3, RecoverIdsMore DEF RecoversOnce
  <2> QED
    BY <2>1, <2>2, <2>3
<1> QED
  BY <1>1 DEF RecoversOnce

\* Steps of the tasks and the network that queue no RecoverId.
LEMMA RecoverMoved ==
    ASSUME TypeOK, RecoverInv, clientData' = clientData,
           \/ hubQ' = hubQ
           \/ hubQ # <<>> /\ hubQ' = Tail(hubQ)
           \/ \E r \in Requests : hubQ' = Append(hubQ, DataMsg(r)),
           \A u \in tasks' : \E t \in tasks : Continues(u, t)
    PROVE  RecoverInv'
<1>1. \A e \in Range(clientData) : e \in Entries
  BY DEF TypeOK, Range
<1>2. \A u \in tasks' : \E t \in tasks :
        /\ u.kind = t.kind /\ u.req = t.req /\ u.id = t.id
        /\ u.pc # "notify" => t.pc # "notify"
  <2>1. \A u, t : TaskKey(u) = TaskKey(t) =>
            u.kind = t.kind /\ u.req = t.req /\ u.id = t.id
    BY DEF TaskKey
  <2> QED
    BY <2>1 DEF Continues
<1>3. ASSUME NEW e \in Range(clientData), KindOf[e.req] # "QoS1"
      PROVE  RecoversOnce(e)'
  <2>1. e.id \in 0..MaxPacketId
    BY <1>1 DEF Entries
  <2>2. \A r \in Requests : DataMsg(r) \in HubMessages /\ DataMsg(r) # RecoverMsg(e.id)
    BY <2>1, RecoverMsgs DEF DataMsg, HubMessages
  <2>3. RecoversOnce(e)
    BY <1>3 DEF RecoverInv
  <2> QED
    BY <1>2, <2>2, <2>3, RecoversOnceKept
<1>4. \A u \in tasks' : u.kind = "QoS2" => PacketOf(u) \in Range(clientData)
  BY <1>2 DEF RecoverInv, PacketOf
<1> QED
  BY <1>3, <1>4 DEF RecoverInv

\* An acknowledged task takes its place in RecoversOnce to the queue.
LEMMA RecoverAcked ==
    ASSUME TypeOK, SoleInv, OneIdInv, RecoverInv, NEW t \in tasks, TaskAcked(t)
    PROVE  RecoverInv'
<1>1. /\ t \in Tasks /\ t.pc = "await" /\ clientData' = clientData
      /\ hubQ' = Append(hubQ, RecoverMsg(t.id)) /\ tasks' = AfterRecover(t)
  BY DEF TaskAcked, AckReceived, TypeOK
<1>2. t.id \in 0..MaxPacketId /\ RecoverMsg(t.id) \in HubMessages
  BY <1>1, RecoverMsgs DEF Tasks
<1>3. PICK p \in {"again", "notify"} :
        /\ p = "again" => t.kind = "QoS1"
        /\ \A u \in tasks' : (u \in tasks /\ u # t) \/ (u = [t EXCEPT !.pc = p] /\ t.kind # "QoS2")
  BY <1>1 DEF AfterRecover, Goto
<1> DEFINE w == [t EXCEPT !.pc = p]
<1>4. w.pc = p /\ w.id = t.id /\ w.req = t.req /\ w.kind = t.kind
  BY <1>1 DEF Tasks
<1>5. \A u \in tasks' : (u \in tasks /\ u # t) \/ (u = w /\ t.kind # "QoS2")
  BY <1>3
<1> HIDE DEF w
<1>6. ASSUME NEW e \in Range(clientData), KindOf[e.req] # "QoS1"
      PROVE  RecoversOnce(e)'
  <2>1. e \in Entries /\ e \in Copies
    BY CopiesOf DEF TypeOK, Range
  <2>2. e.id \in 0..MaxPacketId /\ RecoversOnce(e)
    BY <1>6, <2>1 DEF Entries, RecoverInv
  <2>3. CASE e.id # t.id
    <3>1. RecoverMsg(t.id) # RecoverMsg(e.id)
      BY <2>3 DEF RecoverMsg
    <3> QED
      BY <1>1, <1>2, <1>4, <1>5, <2>2, <2>3, <3>1, RecoversOnceKept
  <2>4. CASE e.id = t.id
    <3>1. t.req = e.req /\ t.kind = e.kind /\ RecoverMsg(e.id) \notin Range(hubQ)
      BY <1>1, <2>2, <2>4 DEF RecoversOnce
    <3>2. t.kind # "QoS1"
      BY <1>6, <2>1, <3>1 DEF OneIdInv, OfItsKind
    <3>3. ASSUME NEW u \in tasks', u.id = e.id, u.pc # "notify" PROVE FALSE
      <4>1. CASE u \in tasks /\ u # t
        <5>1. u.req = e.req /\ u.kind = e.kind
          BY <2>2, <3>3, <4>1 DEF RecoversOnce
        <5> QED
          BY <3>1, <4>1, <5>1 DEF SoleInv, SoleTasks
      <4>2. CASE u = w
        BY <1>3, <1>4, <3>2, <3>3, <4>2
      <4> QED
        BY <1>5, <3>3, <4>1, <4>2
    <3>4. \A k, n \in 1..Len(hubQ') :
             hubQ'[k] = RecoverMsg(e.id) /\ hubQ'[n] = RecoverMsg(e.id) => k = n
      BY <1>1, <1>2, <2>2, <2>4, <3>1, RecoverIdsMore DEF RecoversOnce
    <3> QED
      BY <3>3, <3>4 DEF RecoversOnce
  <2> QED
    BY <2>3, <2>4
<1>7. ASSUME NEW u \in tasks', u.kind = "QoS2" PROVE PacketOf(u) \in Range(clientData)
  BY <1>4, <1>5, <1>7 DEF RecoverInv
<1> QED
  BY <1>1, <1>6, <1>7 DEF RecoverInv

\* Only a QoS 1 publish dispatches RecoverId a second time.
LEMMA RecoverAgain ==
    ASSUME TypeOK, SoleInv, OneIdInv, RecoverInv, NEW t \in tasks, TaskRecoverAgain(t)
    PROVE  RecoverInv'
<1>1. /\ t \in Tasks /\ t.pc = "again" /\ clientData' = clientData /\ t.kind = "QoS1"
      /\ hubQ' = Append(hubQ, RecoverMsg(t.id))
      /\ \A u \in tasks' : u \in tasks \/ u = [t EXCEPT !.pc = "notify"]
  BY DEF TaskRecoverAgain, TypeOK, SoleInv, SoleTasks, Goto
<1>2. RecoverMsg(t.id) \in HubMessages
  BY <1>1, RecoverMsgs DEF Tasks
<1> DEFINE w == [t EXCEPT !.pc = "notify"]
<1>3. w.pc = "notify" /\ w.kind = "QoS1"
  BY <1>1 DEF Tasks
<1>4. \A u \in tasks' : u \in tasks \/ u = w
  BY <1>1
<1> HIDE DEF w
<1>5. ASSUME NEW e \in Range(clientData), KindOf[e.req] # "QoS1"
      PROVE  RecoversOnce(e)'
  <2>1. e \in Copies /\ RecoversOnce(e)
    BY <1>5, CopiesOf DEF RecoverInv
  <2>2. e.kind # "QoS1"
    BY <1>5, <2>1 DEF OneIdInv, OfItsKind
  <2>3. e.id # t.id
    BY <1>1, <2>1, <2>2 DEF RecoversOnce
  <2>4. RecoverMsg(t.id) # RecoverMsg(e.id)
    BY <2>3 DEF RecoverMsg
  <2> QED
    BY <1>1, <1>2, <1>3, <1>4, <2>1, <2>4, RecoversOnceKept
<1>6. \A u \in tasks' : u.kind = "QoS2" => PacketOf(u) \in Range(clientData)
  BY <1>3, <1>4 DEF RecoverInv
<1> QED
  BY <1>1, <1>5, <1>6 DEF RecoverInv

\* The ids of entries, and those of the pool.
LEMMA IdsOfEntries ==
    ASSUME TypeOK, IdsConserved
    PROVE  /\ \A e, d \in Range(clientData) : e.id = d.id => e = d
           /\ \A e \in Range(clientData) : e \in Entries /\ e.id \in HeldIds
           /\ freeIds # <<>> => Head(freeIds) \in 1..MaxPacketId /\ Head(freeIds) \notin HeldIds
<1>1. clientData \in Seq(Entries) /\ freeIds \in Seq(1..MaxPacketId)
  BY DEF TypeOK
<1>2. \A e, d \in Range(clientData) : e.id = d.id => e = d
  BY DEF IdsConserved, Range
<1>3. \A e \in Range(clientData) : e \in Entries /\ e.id \in HeldIds
  BY <1>1 DEF Range, HeldIds
<1>4. ASSUME freeIds # <<>>
      PROVE  Head(freeIds) \in 1..MaxPacketId /\ Head(freeIds) \notin HeldIds
  <2>1. Range(freeIds) = {Head(freeIds)} \cup Range(Tail(freeIds))
    BY <1>1, <1>4, RangeOfQueue
  <2>2. Head(freeIds) \in 1..MaxPacketId
    BY <1>1, <1>4, HeadOfQueue
  <2> QED
    BY <2>1, <2>2 DEF IdsConserved
<1> QED
  BY <1>2, <1>3, <1>4

\* A request gets an id of which nothing speaks.
LEMMA RecoverTaken ==
    ASSUME TypeOK, QueueInv, IdsConserved, SoleInv, RecoverInv, TakeIsClean, HubTakeTracked
    PROVE  RecoverInv'
<1>1. PICK c \in Packets :
        /\ c = Entry(KindOf[Head(hubQ).arg], Head(hubQ).arg, Head(freeIds))
        /\ freeIds # <<>> /\ c.id = Head(freeIds)
        /\ Range(clientData') = Range(clientData) \cup {c}
  BY TrackedCopies
<1>2. /\ tasks' = tasks \cup {TaskOf(c)} /\ hubQ # <<>> /\ hubQ' = Tail(hubQ)
      /\ hubQ \in Seq(HubMessages)
  BY <1>1 DEF HubTakeTracked, HubReads, TypeOK
<1>3. /\ TaskOf(c).kind = c.kind /\ TaskOf(c).req = c.req /\ TaskOf(c).id = c.id
      /\ PacketOf(TaskOf(c)) = c
  BY <1>1 DEF TaskOf, NewTask, PacketOf, Entry
<1>4. Clean(c.id) /\ c.id \notin HeldIds /\ c.id \in 0..MaxPacketId
  BY <1>1, IdsOfEntries DEF TakeIsClean
<1>5. \A u \in tasks' : u \in tasks \/ u = TaskOf(c)
  BY <1>2
<1>6. ASSUME NEW e \in Range(clientData), KindOf[e.req] # "QoS1"
      PROVE  RecoversOnce(e)'
  <2>1. RecoversOnce(e) /\ e.id # c.id
    BY <1>4, <1>6, IdsOfEntries DEF RecoverInv
  <2> QED
    BY <1>2, <1>3, <1>5, <2>1, RecoversOnceKept
<1>7. RecoversOnce(c)'
  <2>1. RecoverMsg(c.id) \notin Range(hubQ')
    <3>1. \A m, n \in 1..Len(hubQ) :
             hubQ[m] = RecoverMsg(c.id) /\ hubQ[n] = RecoverMsg(c.id) => m = n
      BY <1>4, QueueOfHub DEF Clean, Range
    <3> QED
      BY <1>2, <1>4, <3>1, RecoverIdsRead DEF Clean
  <2>2. DOMAIN hubQ' = 1..Len(hubQ')
    BY <1>2, HeadOfQueue
  <2>3. \A m, n \in 1..Len(hubQ') :
           hubQ'[m] = RecoverMsg(c.id) /\ hubQ'[n] = RecoverMsg(c.id) => m = n
    BY <2>1, <2>2 DEF Range
  <2>4. \A u \in tasks' : u.id = c.id /\ u.pc # "notify" => u = TaskOf(c)
    BY <1>4, <1>5 DEF Clean
  <2>5. \A u \in tasks' : u.id = c.id /\ u.pc # "notify" =>
           u.req = c.req /\ u.kind = c.kind /\ RecoverMsg(c.id) \notin Range(hubQ')
    BY <1>3, <2>1, <2>4
  <2> QED
    BY <2>3, <2>5 DEF RecoversOnce
<1>8. \A u \in tasks' : u.kind = "QoS2" => PacketOf(u) \in Range(clientData')
  BY <1>1, <1>3, <1>5 DEF RecoverInv
<1>9. ASSUME NEW e \in Range(clientData'), KindOf[e.req] # "QoS1" PROVE RecoversOnce(e)'
  <2>1. CASE e \in Range(clientData)
    BY <1>6, <1>9, <2>1
  <2>2. CASE e = c
    BY <1>7, <2>2
  <2> QED
    BY <1>1, <1>9, <2>1, <2>2
<1> QED
  BY <1>8, <1>9 DEF RecoverInv

\* The RecoverId that is read was the only one, and no task is left beside it.
LEMMA ReadsRecover ==
    ASSUME TypeOK, RecoverInv, HubReads("RecoverId"),
           NEW d \in Range(clientData), d.id = Head(hubQ).arg, KindOf[d.req] # "QoS1"
    PROVE  /\ Head(hubQ) = RecoverMsg(d.id) /\ RecoverMsg(d.id) \notin Range(hubQ')
           /\ \A t \in tasks : t.id = d.id => t.pc = "notify"
<1>1. /\ hubQ # <<>> /\ hubQ' = Tail(hubQ) /\ Head(hubQ) \in HubMessages
      /\ Head(hubQ).type = "RecoverId" /\ Head(hubQ) \in Range(hubQ)
  BY HubReading
<1>2. Head(hubQ) = RecoverMsg(d.id)
  BY <1>1 DEF HubMessages, RecoverMsg
<1>3. RecoversOnce(d)
  BY DEF RecoverInv
<1>4. RecoverMsg(d.id) \notin Range(hubQ')
  BY <1>1, <1>2, <1>3, RecoverIdsRead DEF RecoversOnce
<1> QED
  BY <1>1, <1>2, <1>3, <1>4 DEF RecoversOnce

LEMMA RecoverRec ==
    ASSUME TypeOK, IdsConserved, SoleInv, OneIdInv, RecoverInv, HubRecoverRec
    PROVE  RecoverInv'
<1>1. PICK i \in DOMAIN clientData :
        /\ clientData[i] \in Entries /\ clientData[i] \in Range(clientData)
        /\ clientData[i].kind = "QoS2" /\ clientData[i].id = Head(hubQ).arg
        /\ clientData' = [clientData EXCEPT ![i] = Entry("PubRel", clientData[i].req, clientData[i].id)]
        /\ HubReads("RecoverId")
  BY RecCopies
<1>2. PICK d \in Range(clientData) : d = clientData[i]
  BY <1>1
<1> DEFINE c == Entry("PubRel", d.req, d.id)
<1>3. c.kind = "PubRel" /\ c.req = d.req /\ c.id = d.id
  BY DEF Entry
<1>4. tasks' = tasks \cup {TaskOf(c)}
  <2>1. PICK j \in DOMAIN clientData :
          /\ clientData[j].id = Head(hubQ).arg
          /\ tasks' = tasks \cup {TaskOf([clientData[j] EXCEPT !.kind = "PubRel"])}
    BY DEF HubRecoverRec, FirstWith
  <2>2. clientData[j] = clientData[i]
    BY <1>1, <2>1 DEF IdsConserved
  <2>3. c = [clientData[i] EXCEPT !.kind = "PubRel"]
    BY <1>1, <1>2 DEF Entry, Entries
  <2> QED
    BY <2>1, <2>2, <2>3
<1>5. TaskOf(c).kind = c.kind /\ TaskOf(c).req = c.req /\ TaskOf(c).id = c.id
  BY DEF TaskOf, NewTask
<1>6. \A e \in Range(clientData') : e = c \/ (e \in Range(clientData) /\ e.id # d.id)
  BY <1>1, <1>2 DEF Range, IdsConserved
<1>7. \A e \in Range(clientData) : e = d \/ e \in Range(clientData')
  BY <1>1, <1>2 DEF Range
<1> HIDE DEF c
<1>8. d \in Copies /\ KindOf[d.req] = "QoS2"
  BY <1>1, <1>2, CopiesOf DEF OneIdInv, OfItsKind
<1>9. /\ RecoverMsg(d.id) \notin Range(hubQ')
      /\ \A t \in tasks : t.id = d.id => t.pc = "notify"
  BY <1>1, <1>2, <1>8, ReadsRecover
<1>10. hubQ # <<>> /\ hubQ' = Tail(hubQ) /\ hubQ \in Seq(HubMessages)
  BY <1>1 DEF HubReads, TypeOK
<1>11. \A u \in tasks' : u \in tasks \/ u = TaskOf(c)
  BY <1>4
<1>12. ASSUME NEW e \in Range(clientData'), KindOf[e.req] # "QoS1" PROVE RecoversOnce(e)'
  <2>1. CASE e \in Range(clientData) /\ e.id # d.id
    <3>1. RecoversOnce(e)
      BY <1>12, <2>1 DEF RecoverInv
    <3> QED
      BY <1>3, <1>5, <1>10, <1>11, <2>1, <3>1, RecoversOnceKept
  <2>2. CASE e = c
    <3>1. DOMAIN hubQ' = 1..Len(hubQ')
      BY <1>10, HeadOfQueue
    <3>2. \A m, n \in 1..Len(hubQ') :
             hubQ'[m] = RecoverMsg(c.id) /\ hubQ'[n] = RecoverMsg(c.id) => m = n
      BY <1>3, <1>9, <3>1 DEF Range
    <3>3. \A u \in tasks' : u.id = c.id /\ u.pc # "notify" => u = TaskOf(c)
      BY <1>3, <1>9, <1>11
    <3>4. \A u \in tasks' : u.id = c.id /\ u.pc # "notify" =>
             u.req = c.req /\ u.kind = c.kind /\ RecoverMsg(c.id) \notin Range(hubQ')
      BY <1>3, <1>5, <1>9, <3>3
    <3> QED
      BY <2>2, <3>2, <3>4 DEF RecoversOnce
  <2> QED
    BY <1>6, <1>12, <2>1, <2>2
<1>13. ASSUME NEW u \in tasks', u.kind = "QoS2" PROVE PacketOf(u) \in Range(clientData')
  <2>1. u \in tasks
    BY <1>3, <1>5, <1>11, <1>13
  <2>2. PacketOf(u) \in Range(clientData) /\ u.pc # "notify"
    BY <1>13, <2>1 DEF RecoverInv, SoleInv, SoleTasks
  <2>3. PacketOf(u) # d
    BY <1>9, <2>1, <2>2 DEF PacketOf
  <2> QED
    BY <1>7, <2>2, <2>3
<1> QED
  BY <1>12, <1>13 DEF RecoverInv

LEMMA RecoverDone ==
    ASSUME TypeOK, IdsConserved, SoleInv, RecoverInv, HubRecoverDone
    PROVE  RecoverInv'
<1>1. PICK d \in Range(clientData) :
        /\ d.kind # "QoS2"
        /\ \A e \in Range(clientData) : e = d \/ e \in Range(clientData')
        /\ Range(clientData') \subseteq Range(clientData) \ {d}
        /\ HubReads("RecoverId") /\ UNCHANGED <<tasks, stage>>
  BY DoneRemoves
<1>2. hubQ # <<>> /\ hubQ' = Tail(hubQ)
  BY <1>1 DEF HubReads
<1>3. ASSUME NEW e \in Range(clientData'), KindOf[e.req] # "QoS1" PROVE RecoversOnce(e)'
  <2>1. RecoversOnce(e)
    BY <1>1, <1>3 DEF RecoverInv
  <2> QED
    BY <1>1, <1>2, <2>1, RecoversOnceKept
<1>4. \A u \in tasks' : u.kind = "QoS2" => PacketOf(u) \in Range(clientData')
  BY <1>1 DEF RecoverInv, PacketOf
<1> QED
  BY <1>3, <1>4 DEF RecoverInv

LEMMA NextRecover ==
    ASSUME TypeOK, QueueInv, IdsConserved, OneConnectionInv, SoleInv, OneIdInv,
           ReceiptInv, RecoverInv, TakeIsClean, [Next]_vars
    PROVE  RecoverInv'
<1>1. \A t \in tasks : Continues(t, t)
  BY DEF Continues
<1>2. ASSUME NEW r \in Requests, ClientRequest(r) PROVE RecoverInv'
  <2>1. UNCHANGED <<clientData, tasks>> /\ hubQ' = Append(hubQ, DataMsg(r))
    BY <1>2 DEF ClientRequest
  <2> QED
    BY <1>1, <2>1, RecoverMoved
<1>3. CASE \/ HubStartNetwork \/ HubConnectFail \/ HubLost \/ HubPoolEmpty
           \/ HubRecoverUnknown \/ BrokerStep \/ UNCHANGED vars
  <2>1. /\ UNCHANGED <<clientData, tasks>>
        /\ hubQ' = hubQ \/ (hubQ # <<>> /\ hubQ' = Tail(hubQ))
    BY <1>3 DEF HubStartNetwork, HubConnectFail, HubLost, HubPoolEmpty, HubRecoverUnknown,
                HubReads, BrokerStep, BrokerTake, BrokerRefuse, vars, hubVars
  <2> QED
    BY <1>1, <2>1, RecoverMoved
<1>4. CASE HubConnected
  <2>1. Respawned = {}
    BY <1>4, EmptyRange DEF HubConnected, OneConnectionInv, Respawned
  <2>2. UNCHANGED <<clientData, tasks, hubQ>>
    BY <1>4, <2>1 DEF HubConnected
  <2> QED
    BY <1>1, <2>2, RecoverMoved
<1>5. CASE HubTakeQos0
  <2> DEFINE r == Head(hubQ).arg
             w == NewTask("QoS0", r, 0)
  <2>1. /\ clientData' = clientData /\ tasks' = tasks \cup {w}
        /\ hubQ # <<>> /\ hubQ' = Tail(hubQ)
    BY <1>5 DEF HubTakeQos0, HubReads
  <2>2. w.kind = "QoS0" /\ w.id = 0
    BY DEF NewTask
  <2> HIDE DEF w
  <2>3. ASSUME NEW e \in Range(clientData), KindOf[e.req] # "QoS1" PROVE RecoversOnce(e)'
    <3>1. RecoversOnce(e) /\ e.id # 0
      BY <2>3, IdsOfEntries DEF RecoverInv, Entries
    <3> QED
      BY <2>1, <2>2, <3>1, RecoversOnceKept
  <2>4. \A u \in tasks' : u.kind = "QoS2" => PacketOf(u) \in Range(clientData')
    BY <2>1, <2>2 DEF RecoverInv
  <2> QED
    BY <2>1, <2>3, <2>4 DEF RecoverInv
<1>6. ASSUME NEW t \in tasks, TaskAcked(t) \/ TaskRecoverAgain(t) PROVE RecoverInv'
  BY <1>6, RecoverAcked, RecoverAgain
<1>7. CASE /\ TaskStep \/ (\E t \in tasks : TaskTimeout(t)) \/ NetStep
                \/ NetConnectFail \/ NetLost
           /\ ~ \E t \in tasks : TaskAcked(t) \/ TaskRecoverAgain(t)
  <2>1. UNCHANGED <<clientData, hubQ>>
    BY <1>7 DEF TaskStep, TaskTimeout, TaskSend, TaskNotify, NetStep, NetConnected,
         NetWrite, NetForward, NetConnectFail, NetLost, hubVars
  <2>2. SoleTasks
    BY DEF SoleInv
  <2> QED
    BY <1>7, <2>1, <2>2, TasksMove, RecoverMoved
<1> QED
  BY <1>2, <1>3, <1>4, <1>5, <1>6, <1>7, RecoverTaken, RecoverRec, RecoverDone
     DEF Next, HubStep

-----------------------------------------------------------------------------
(* The order of the packets on their way.                                  *)

LEMMA PipeType ==
    ASSUME TypeOK
    PROVE  /\ Len(toBroker) \in Nat /\ Len(netQ) \in Nat /\ PipeLen \in Nat
           /\ \A n \in 1..PipeLen : Pipe(n) \in Packets /\ Pipe(n) \in Copies
<1>1. /\ Len(toBroker) \in Nat /\ DOMAIN toBroker = 1..Len(toBroker)
      /\ Len(netQ) \in Nat /\ DOMAIN netQ = 1..Len(netQ)
  BY LenProperties DEF TypeOK
<1>2. ASSUME NEW n \in 1..PipeLen PROVE Pipe(n) \in Copies
  <2>1. CASE n <= Len(toBroker)
    <3>1. n \in DOMAIN toBroker /\ Pipe(n) = toBroker[n]
      BY <1>1, <2>1 DEF Pipe, PipeLen
    <3> QED
      BY <3>1, CopiesOf DEF Range
  <2>2. CASE ~ (n <= Len(toBroker))
    <3> DEFINE k == n - Len(toBroker)
    <3>1. k \in DOMAIN netQ /\ Pipe(n) = PacketOf(netQ[k])
      BY <1>1, <2>2 DEF Pipe, PipeLen
    <3> HIDE DEF k
    <3> QED
      BY <3>1, CopiesOf DEF Range
  <2> QED
    BY <2>1, <2>2
<1> QED
  BY <1>1, <1>2, CopiesType DEF PipeLen

\* The connection or its queue is cut off, or nothing changes.
PipeKept == /\ PipeLen' \in 0..PipeLen
            /\ \A m \in 1..PipeLen' : Pipe(m)' = Pipe(m)

LEMMA PipeUnchanged ==
    ASSUME TypeOK, UNCHANGED <<toBroker, netQ>>
    PROVE  PipeKept
  BY PipeType DEF PipeKept, PipeLen, Pipe

LEMMA PipeCut ==
    ASSUME TypeOK, netQ' = <<>>, toBroker' = toBroker \/ toBroker' = <<>>
    PROVE  PipeKept
<1>1. Len(toBroker) \in Nat /\ Len(netQ) \in Nat
  BY PipeType
<1>2. CASE toBroker' = toBroker
  <2>1. PipeLen' = Len(toBroker)
    BY <1>1, <1>2 DEF PipeLen
  <2>2. \A m \in 1..Len(toBroker) : Pipe(m)' = Pipe(m)
    BY <1>1, <1>2 DEF Pipe
  <2> QED
    BY <1>1, <2>1, <2>2 DEF PipeKept, PipeLen
<1>3. CASE toBroker' = <<>>
  <2>1. PipeLen' = 0
    BY <1>3 DEF PipeLen
  <2> QED
    BY <1>1, <2>1 DEF PipeKept, PipeLen
<1> QED
  BY <1>2, <1>3

\* Writing moves a packet from the queue to the connection.
LEMMA PipeWritten ==
    ASSUME TypeOK, NetWrite
    PROVE  PipeKept
<1>1. PICK k \in TaskKeys :
        /\ k = netQ[1] /\ toBroker' = Append(toBroker, PacketOf(k))
        /\ netQ # <<>> /\ netQ' = Tail(netQ)
  <2>1. /\ netQ # <<>> /\ netQ' = Tail(netQ)
        /\ toBroker' = Append(toBroker, PacketOf(Head(netQ)))
    BY DEF NetWrite, PacketOf
  <2> QED
    BY <2>1, QueueOfNetwork, TailElements
<1>2. /\ Len(netQ) \in Nat /\ Len(netQ') = Len(netQ) - 1
      /\ \A j \in 1..Len(netQ') : netQ'[j] = netQ[j + 1]
  BY <1>1, QueueOfNetwork, TailElements
<1>3. PacketOf(k) \in Packets /\ toBroker \in Seq(Packets)
  BY DEF PacketOf, TaskKeys, Packets, TypeOK
<1>4. /\ Len(toBroker) \in Nat /\ Len(toBroker') = Len(toBroker) + 1
      /\ toBroker'[Len(toBroker) + 1] = PacketOf(k)
      /\ \A j \in 1..Len(toBroker) : toBroker'[j] = toBroker[j]
  BY <1>1, <1>3, AppendElements
<1>5. PipeLen' = PipeLen /\ PipeLen \in Nat
  BY <1>2, <1>4 DEF PipeLen
<1>6. ASSUME NEW m \in 1..PipeLen PROVE Pipe(m)' = Pipe(m)
  <2>1. CASE m <= Len(toBroker)
    BY <1>2, <1>4, <2>1 DEF Pipe
  <2>2. CASE m = Len(toBroker) + 1
    BY <1>1, <1>2, <1>4, <2>2 DEF Pipe
  <2>3. CASE m > Len(toBroker) + 1
    <3> DEFINE j == m - (Len(toBroker) + 1)
    <3>1. j \in 1..Len(netQ') /\ j + 1 = m - Len(toBroker)
      BY <1>2, <1>4, <1>5, <2>3 DEF PipeLen
    <3>2. Pipe(m)' = PacketOf(netQ'[j])
      BY <1>4, <2>3 DEF Pipe, PacketOf
    <3>3. Pipe(m) = PacketOf(netQ[j + 1])
      BY <1>4, <2>3, <3>1 DEF Pipe
    <3> QED
      BY <1>2, <3>1, <3>2, <3>3
  <2> QED
    BY <1>4, <2>1, <2>2, <2>3
<1> QED
  BY <1>5, <1>6 DEF PipeKept

\* Sending, and reading at the other end.
LEMMA PipeSent ==
    ASSUME TypeOK, NEW k \in TaskKeys, netQ' = Append(netQ, k), toBroker' = toBroker
    PROVE  /\ PipeLen \in Nat /\ PipeLen' = PipeLen + 1
           /\ \A m \in 1..PipeLen : Pipe(m)' = Pipe(m)
           /\ \A m : m = PipeLen + 1 => Pipe(m)' = PacketOf(k)
<1>1. /\ Len(netQ) \in Nat /\ Len(netQ') = Len(netQ) + 1 /\ netQ'[Len(netQ) + 1] = k
      /\ \A j \in 1..Len(netQ) : netQ'[j] = netQ[j]
      /\ Len(toBroker) \in Nat
  BY QueueOfNetwork, AppendElements, PipeType
<1>2. PipeLen \in Nat /\ PipeLen' = PipeLen + 1
  BY <1>1 DEF PipeLen
<1>3. ASSUME NEW m \in 1..PipeLen PROVE Pipe(m)' = Pipe(m)
  <2>1. CASE m <= Len(toBroker)
    BY <2>1 DEF Pipe
  <2>2. CASE ~ (m <= Len(toBroker))
    <3>1. m - Len(toBroker) \in 1..Len(netQ)
      BY <1>1, <2>2 DEF PipeLen
    <3> QED
      BY <1>1, <2>2, <3>1 DEF Pipe, PacketOf
  <2> QED
    BY <2>1, <2>2
<1>4. ASSUME NEW m, m = PipeLen + 1 PROVE Pipe(m)' = PacketOf(k)
  <2>1. m - Len(toBroker) = Len(netQ) + 1 /\ ~ (m <= Len(toBroker))
    BY <1>1, <1>4 DEF PipeLen
  <2> QED
    BY <1>1, <2>1 DEF Pipe, PacketOf
<1> QED
  BY <1>2, <1>3, <1>4

LEMMA PipeRead ==
    ASSUME TypeOK, BrokerStep
    PROVE  /\ PipeLen >= 1 /\ PipeLen' = PipeLen - 1 /\ Head(toBroker) = Pipe(1)
           /\ \A m \in 1..PipeLen' : Pipe(m)' = Pipe(m + 1)
<1>1. toBroker # <<>> /\ toBroker' = Tail(toBroker) /\ netQ' = netQ
  BY DEF BrokerStep, BrokerTake, BrokerRefuse, netVars
<1>2. /\ Len(toBroker) \in Nat /\ Len(toBroker) >= 1 /\ Len(toBroker') = Len(toBroker) - 1
      /\ Head(toBroker) = toBroker[1]
      /\ \A k \in 1..Len(toBroker') : toBroker'[k] = toBroker[k + 1]
  BY <1>1, TailElements DEF TypeOK
<1>3. Len(netQ) \in Nat
  BY PipeType
<1>4. PipeLen >= 1 /\ PipeLen' = PipeLen - 1 /\ Head(toBroker) = Pipe(1)
  BY <1>1, <1>2, <1>3 DEF PipeLen, Pipe
<1>5. ASSUME NEW m \in 1..PipeLen' PROVE Pipe(m)' = Pipe(m + 1)
  <2>1. CASE m <= Len(toBroker')
    BY <1>2, <2>1 DEF Pipe
  <2>2. CASE ~ (m <= Len(toBroker'))
    <3>1. m - Len(toBroker') = (m + 1) - Len(toBroker) /\ ~ (m + 1 <= Len(toBroker))
      BY <1>2, <2>2
    <3>2. Pipe(m)' = PacketOf(netQ[m - Len(toBroker')])
      BY <1>1, <2>2 DEF Pipe, PacketOf
    <3>3. Pipe(m + 1) = PacketOf(netQ[(m + 1) - Len(toBroker)])
      BY <3>1 DEF Pipe
    <3> QED
      BY <3>1, <3>2, <3>3
  <2> QED
    BY <2>1, <2>2
<1> QED
  BY <1>4, <1>5

LEMMA OrderKept ==
    ASSUME NEW p, NEW n \in Nat, InOrder(p, n), UNCHANGED brokerVars,
           \A m \in 1..(n - 1) : Pipe(m)' = Pipe(m)
    PROVE  InOrder(p, n)'
<1>1. ASSUME NEW m \in 1..(n - 1), Pipe(m).kind = "PubRel", Pipe(m).id = p.id
      PROVE  /\ accepted[p.req] = 0
             /\ \A k \in 1..(m - 1) : ~ (Pipe(k)'.kind = "QoS2" /\ Pipe(k)'.req = p.req)
  <2>1. \A k \in 1..(m - 1) : k \in 1..(n - 1)
    OBVIOUS
  <2>2. \A k \in 1..(m - 1) : Pipe(k)' = Pipe(k)
    BY <2>1
  <2>3. /\ accepted[p.req] = 0
        /\ \A k \in 1..(m - 1) : ~ (Pipe(k).kind = "QoS2" /\ Pipe(k).req = p.req)
    BY <1>1 DEF InOrder
  <2> QED
    BY <2>2, <2>3
<1>2. UNCHANGED <<accepted, brokerHeld>>
  BY DEF brokerVars
<1>3. accepted[p.req] = 0 \/ [req |-> p.req, id |-> p.id] \in brokerHeld
  BY DEF InOrder
<1> QED
  BY <1>1, <1>2, <1>3 DEF InOrder

\* What is behind all is in order at an earlier place, too.
LEMMA OrderBefore ==
    ASSUME NEW p, NEW n \in Nat, NEW j \in 1..n, InOrder(p, n)
    PROVE  InOrder(p, j)
<1>1. \A m \in 1..(j - 1) : m \in 1..(n - 1)
  OBVIOUS
<1> QED
  BY <1>1 DEF InOrder

\* Steps that send nothing to the broker and start no task of a QoS 2 publish.
LEMMA OrderMoved ==
    ASSUME TypeOK, QueueInv, OrderInv, [Next]_vars, PipeKept, UNCHANGED brokerVars,
           \A u \in tasks' : u.kind = "QoS2" => \E t \in tasks : PacketOf(t) = PacketOf(u)
    PROVE  OrderInv'
<1>1. PipeLen \in Nat /\ PipeLen' \in 0..PipeLen
  BY PipeType DEF PipeKept
<1>4. PICK l \in 0..PipeLen : l = PipeLen'
  BY <1>1
<1>2. ASSUME NEW p \in Packets, NEW n \in 1..(PipeLen' + 1), p.kind = "QoS2", Sends(p, n)'
      PROVE  InOrder(p, n)'
  <2>1. n \in Nat /\ n \in 1..(PipeLen + 1) /\ \A m \in 1..(n - 1) : m \in 1..l
    <3>1. n \in 1..(l + 1)
      BY <1>4
    <3> QED
      BY <1>1, <3>1
  <2>4. \A m \in 1..(n - 1) : m \in 1..PipeLen'
    BY <1>4, <2>1
  <2>2. \A m \in 1..(n - 1) : Pipe(m)' = Pipe(m)
    BY <2>4 DEF PipeKept
  <2>3. InOrder(p, n)
    <3>1. CASE n \in 1..PipeLen' /\ Pipe(n)' = p
      <4>1. Pipe(n) = p /\ n \in 1..PipeLen
        BY <1>1, <3>1 DEF PipeKept
      <4> QED
        BY <1>2, <2>1, <4>1 DEF OrderInv, Sends
    <3>2. CASE \E u \in tasks' : PacketOf(u) = p
      <4>1. PICK u \in tasks' : PacketOf(u) = p
        BY <3>2
      <4>5. u.kind = "QoS2"
        BY <1>2, <4>1 DEF PacketOf
      <4>6. \E t \in tasks : PacketOf(t) = p
        BY <4>1, <4>5
      <4>2. Sends(p, PipeLen + 1)
        BY <4>6 DEF Sends
      <4>3. InOrder(p, PipeLen + 1)
        BY <1>1, <1>2, <4>2 DEF OrderInv
      <4> QED
        BY <1>1, <2>1, <4>3, OrderBefore
    <3> QED
      BY <1>2, <3>1, <3>2 DEF Sends, PacketOf
  <2> QED
    BY <2>1, <2>2, <2>3, OrderKept
<1>3. \A r \in Requests : stage'[r] # "taken" => accepted'[r] = 0
  BY TakenStays DEF OrderInv, brokerVars
<1> QED
  BY <1>2, <1>3 DEF OrderInv

\* A request that gets its id has nothing on the way, and was not taken.
LEMMA OrderTaken ==
    ASSUME TypeOK, QueueInv, OneIdInv, OrderInv, HubTakeTracked
    PROVE  OrderInv'
<1>1. PICK c \in Packets :
        /\ c = Entry(KindOf[Head(hubQ).arg], Head(hubQ).arg, Head(freeIds))
        /\ c.req = Head(hubQ).arg
  BY TrackedCopies
<1>2. /\ tasks' = tasks \cup {TaskOf(c)} /\ HubReads("Data")
      /\ stage' = [stage EXCEPT ![Head(hubQ).arg] = "taken"]
      /\ UNCHANGED <<brokerVars, toBroker, netQ>>
  BY <1>1 DEF HubTakeTracked, HubReads, netVars, wireVars
<1>3. PacketOf(TaskOf(c)) = c
  BY <1>1 DEF TaskOf, NewTask, PacketOf, Entry
<1>4. stage[c.req] = "queued" /\ c.req \in Requests
  BY <1>1, <1>2, QueueAfterReading, HubReading
<1>5. /\ PipeLen \in Nat /\ PipeLen' = PipeLen
      /\ \A m \in 1..PipeLen : Pipe(m)' = Pipe(m) /\ Pipe(m).req # c.req
  <2>1. PipeLen \in Nat /\ \A m \in 1..PipeLen : Pipe(m).req # c.req
    BY <1>4, PipeType DEF OneIdInv
  <2>2. PipeLen' = PipeLen /\ \A m \in 1..PipeLen : Pipe(m)' = Pipe(m)
    BY <1>2 DEF PipeLen, Pipe
  <2> QED
    BY <2>1, <2>2
<1>6. ASSUME NEW p \in Packets, NEW n \in 1..(PipeLen' + 1), p.kind = "QoS2", Sends(p, n)'
      PROVE  InOrder(p, n)'
  <2>1. n \in 1..(PipeLen + 1) /\ n \in Nat /\ \A m \in 1..(n - 1) : m \in 1..PipeLen
    BY <1>5
  <2>2. CASE Sends(p, n)
    <3>1. InOrder(p, n)
      BY <1>6, <2>1, <2>2 DEF OrderInv
    <3>2. \A m \in 1..(n - 1) : Pipe(m)' = Pipe(m)
      BY <1>5, <2>1
    <3> QED
      BY <1>2, <2>1, <3>1, <3>2, OrderKept
  <2>3. CASE p = c
    <3>1. accepted'[c.req] = 0
      BY <1>2, <1>4 DEF OrderInv, brokerVars
    <3>2. \A m \in 1..(n - 1) : \A k \in 1..(m - 1) : Pipe(k)'.req # c.req
      <4>1. \A m \in 1..(n - 1) : \A k \in 1..(m - 1) : k \in 1..PipeLen
        BY <1>5
      <4> QED
        BY <1>5, <4>1
    <3> QED
      BY <2>3, <3>1, <3>2 DEF InOrder
  <2>4. Sends(p, n) \/ p = c
    <3>1. CASE n \in 1..PipeLen' /\ Pipe(n)' = p
      BY <1>5, <3>1 DEF Sends
    <3>2. CASE n = PipeLen' + 1 /\ \E u \in tasks' : PacketOf(u) = p
      BY <1>2, <1>3, <1>5, <3>2 DEF Sends
    <3> QED
      BY <1>6, <3>1, <3>2 DEF Sends, PacketOf
  <2> QED
    BY <2>2, <2>3, <2>4
<1>7. \A r \in Requests : stage'[r] # "taken" => accepted'[r] = 0
  BY <1>2, <1>4, <1>1 DEF OrderInv, brokerVars, TypeOK
<1> QED
  BY <1>6, <1>7 DEF OrderInv

\* Sending: no PUBREL is sent while a publish of its id may be sent again.
LEMMA OrderSent ==
    ASSUME TypeOK, QueueInv, SoleInv, OneIdInv, RecoverInv, OrderInv, [Next]_vars,
           NEW t \in tasks, TaskSend(t) \/ TaskTimeout(t)
    PROVE  OrderInv'
<1>1. PICK j : Transmit(t, j)
  BY DEF TaskSend, TaskTimeout
<1>2. /\ UNCHANGED <<toBroker, brokerVars, stage>> /\ t \in Tasks /\ t.pc # "notify"
  BY DEF TaskSend, TaskTimeout, wireVars, hubVars, TypeOK
<1>3. CASE net = "none"
  <2>1. netQ' = netQ /\ tasks' \subseteq tasks
    BY <1>1, <1>3 DEF Transmit
  <2> QED
    BY <1>2, <2>1, PipeUnchanged, OrderMoved
<1>4. CASE net # "none"
  <2>1. netQ' = Append(netQ, TaskKey(t)) /\ TaskKey(t) \in TaskKeys
    BY <1>1, <1>2, <1>4 DEF Transmit, Tasks, TaskKeys, TaskKey
  <2>2. PacketOf(TaskKey(t)) = PacketOf(t)
    BY DEF TaskKey, PacketOf
  <2>3. \A u \in tasks' : \E x \in tasks : PacketOf(x) = PacketOf(u)
    <3> DEFINE w == [t EXCEPT !.pc = "receipt", !.resends = j]
    <3>1. PacketOf(w) = PacketOf(t)
      BY <1>2 DEF PacketOf, Tasks
    <3>2. \A u \in tasks' : u \in tasks \/ u = w
      BY <1>1, <1>4 DEF Transmit
    <3> HIDE DEF w
    <3> QED
      BY <3>1, <3>2
  <2>4. /\ PipeLen \in Nat /\ PipeLen' = PipeLen + 1
        /\ \A m \in 1..PipeLen : Pipe(m)' = Pipe(m)
        /\ \A m : m = PipeLen + 1 => Pipe(m)' = PacketOf(t)
    BY <1>2, <2>1, <2>2, PipeSent
  <2>5. ASSUME NEW p \in Packets, NEW n \in 1..(PipeLen' + 1), p.kind = "QoS2", Sends(p, n)'
        PROVE  InOrder(p, n)'
    <3>1. CASE n <= PipeLen + 1
      <4>1. n \in Nat /\ n \in 1..(PipeLen + 1) /\ \A m \in 1..(n - 1) : m \in 1..PipeLen
        BY <2>4, <3>1
      <4>2. Sends(p, n)
        <5>1. n \in 1..PipeLen' /\ Pipe(n)' = p
          BY <2>4, <2>5, <3>1 DEF Sends
        <5> QED
          BY <2>4, <4>1, <5>1 DEF Sends
      <4>3. InOrder(p, n)
        BY <2>5, <4>1, <4>2 DEF OrderInv
      <4>4. \A m \in 1..(n - 1) : Pipe(m)' = Pipe(m)
        BY <2>4, <4>1
      <4> QED
        BY <1>2, <4>1, <4>3, <4>4, OrderKept
    <3>2. CASE n = PipeLen + 2
      <4>1. PICK u \in tasks : PacketOf(u) = p
        <5>1. \E u \in tasks' : PacketOf(u) = p
          BY <2>4, <2>5, <3>2 DEF Sends, PacketOf
        <5> QED
          BY <2>3, <5>1
      <4>2. InOrder(p, PipeLen + 1)
        <5>1. Sends(p, PipeLen + 1)
          BY <4>1 DEF Sends
        <5> QED
          BY <2>4, <2>5, <5>1 DEF OrderInv
      <4>3. ~ (t.kind = "PubRel" /\ t.id = p.id)
        <5>1. p \in Range(clientData)
          BY <2>5, <4>1 DEF RecoverInv, PacketOf
        <5>2. p \in Copies
          BY <5>1, CopiesOf
        <5>3. KindOf[p.req] # "QoS1"
          BY <2>5, <5>2 DEF OneIdInv, OfItsKind
        <5>4. RecoversOnce(p)
          BY <5>1, <5>3 DEF RecoverInv
        <5> QED
          BY <1>2, <2>5, <5>4 DEF RecoversOnce
      <4>4. ASSUME NEW m \in 1..(n - 1), Pipe(m)'.kind = "PubRel", Pipe(m)'.id = p.id
            PROVE  /\ accepted[p.req] = 0
                   /\ \A k \in 1..(m - 1) : ~ (Pipe(k)'.kind = "QoS2" /\ Pipe(k)'.req = p.req)
        <5>1. m # PipeLen + 1
          BY <2>4, <4>3, <4>4 DEF PacketOf
        <5>2. m \in 1..PipeLen /\ \A k \in 1..(m - 1) : k \in 1..PipeLen
          BY <2>4, <3>2, <5>1
        <5>3. Pipe(m)' = Pipe(m) /\ \A k \in 1..(m - 1) : Pipe(k)' = Pipe(k)
          BY <2>4, <5>2
        <5>4. m \in 1..((PipeLen + 1) - 1)
          BY <2>4, <5>2
        <5> QED
          BY <4>2, <4>4, <5>3, <5>4 DEF InOrder
      <4>5. accepted[p.req] = 0 \/ [req |-> p.req, id |-> p.id] \in brokerHeld
        BY <4>2 DEF InOrder
      <4>6. UNCHANGED <<accepted, brokerHeld>>
        BY <1>2 DEF brokerVars
      <4> QED
        BY <4>4, <4>5, <4>6 DEF InOrder
    <3> QED
      BY <2>4, <3>1, <3>2
  <2>6. \A r \in Requests : stage'[r] # "taken" => accepted'[r] = 0
    BY <1>2 DEF OrderInv, brokerVars
  <2> QED
    BY <2>5, <2>6 DEF OrderInv
<1> QED
  BY <1>3, <1>4

\* The broker reads the first packet.
LEMMA OrderRead ==
    ASSUME TypeOK, OneIdInv, OrderInv, BrokerStep
    PROVE  OrderInv' /\ (ExactlyOnce => ExactlyOnce')
<1>1. /\ PipeLen \in Nat /\ PipeLen >= 1 /\ PipeLen' = PipeLen - 1
      /\ \A m \in 1..PipeLen' : Pipe(m)' = Pipe(m + 1)
  BY PipeType, PipeRead
<1>2. PICK h \in Packets : h = Head(toBroker) /\ h = Pipe(1) /\ h \in Copies
  BY <1>1, PipeType, PipeRead
<1> DEFINE held == {x \in brokerHeld : x.id = h.id}
<1>3. /\ \/ accepted' = accepted
         \/ /\ accepted' = [accepted EXCEPT ![h.req] = @ + 1] /\ h.kind # "PubRel"
            /\ h.kind = "QoS2" => /\ held = {}
                                  /\ [req |-> h.req, id |-> h.id] \in brokerHeld'
      /\ \/ h.kind = "PubRel" /\ brokerHeld' = brokerHeld \ held
         \/ brokerHeld \subseteq brokerHeld'
      /\ UNCHANGED <<tasks, stage>>
  <2>1. CASE BrokerTake
    <3>1. h.kind # "PubRel" => brokerHeld \subseteq brokerHeld'
      BY <1>2, <2>1 DEF BrokerTake
    <3>2. h.kind = "PubRel" => brokerHeld' = brokerHeld \ held /\ accepted' = accepted
      BY <1>2, <2>1 DEF BrokerTake
    <3>3. h.kind = "QoS2" =>
            \/ accepted' = accepted
            \/ /\ accepted' = [accepted EXCEPT ![h.req] = @ + 1] /\ held = {}
               /\ [req |-> h.req, id |-> h.id] \in brokerHeld'
      BY <1>2, <2>1 DEF BrokerTake
    <3>4. h.kind \notin {"PubRel", "QoS2"} => accepted' = [accepted EXCEPT ![h.req] = @ + 1]
      BY <1>2, <2>1 DEF BrokerTake
    <3>5. UNCHANGED <<tasks, stage>>
      BY <2>1 DEF BrokerTake, hubVars
    <3> QED
      BY <3>1, <3>2, <3>3, <3>4, <3>5
  <2>2. CASE BrokerRefuse
    BY <2>2 DEF BrokerRefuse, hubVars
  <2> QED
    BY <2>1, <2>2 DEF BrokerStep
<1>4. /\ accepted \in [Requests -> Nat] /\ h.req \in Requests
      /\ \A p \in Packets : p.req \in Requests
  BY <1>2 DEF TypeOK, Packets
<1>5. stage[h.req] = "taken" /\ OfItsKind(h)
  BY <1>2 DEF OneIdInv
<1>6. h.kind = "QoS2" => accepted[h.req] = 0 \/ [req |-> h.req, id |-> h.id] \in brokerHeld
  <2>1. 1 \in 1..PipeLen /\ 1 \in 1..(PipeLen + 1)
    BY <1>1
  <2>2. Sends(h, 1)
    BY <1>2, <2>1 DEF Sends
  <2> QED
    BY <1>2, <2>1, <2>2 DEF OrderInv, InOrder
<1>7. held = {} => [req |-> h.req, id |-> h.id] \notin brokerHeld
  <2>1. [req |-> h.req, id |-> h.id].id = h.id
    OBVIOUS
  <2> QED
    BY <2>1
<1>8. \A r \in Requests : KindOf[r] = "QoS2" =>
        \/ accepted'[r] = accepted[r]
        \/ r = h.req /\ h.kind = "QoS2" /\ held = {} /\ accepted[r] = 0 /\ accepted'[r] = 1
  <2> SUFFICES ASSUME NEW r \in Requests, KindOf[r] = "QoS2", accepted'[r] # accepted[r]
               PROVE  r = h.req /\ h.kind = "QoS2" /\ held = {} /\ accepted[r] = 0 /\ accepted'[r] = 1
    OBVIOUS
  <2>1. /\ h.kind # "PubRel" /\ (h.kind = "QoS2" => held = {})
        /\ accepted' = [accepted EXCEPT ![h.req] = @ + 1]
    BY <1>3
  <2> HIDE DEF held
  <2>2. r = h.req
    BY <1>4, <2>1
  <2>3. h.kind = "QoS2"
    BY <1>5, <2>1, <2>2 DEF OfItsKind
  <2>4. accepted[r] = 0
    BY <1>6, <1>7, <2>1, <2>2, <2>3
  <2> QED
    BY <1>4, <2>1, <2>2, <2>3, <2>4
<1>9. ASSUME NEW p \in Packets, NEW n \in 1..(PipeLen' + 1), p.kind = "QoS2", Sends(p, n)'
      PROVE  InOrder(p, n)'
  <2> DEFINE pair == [req |-> p.req, id |-> p.id]
  <2>1. n \in 1..PipeLen /\ n + 1 \in 1..(PipeLen + 1) /\ 1 \in 1..n
    BY <1>1
  <2>2. Sends(p, n + 1)
    <3>1. CASE n \in 1..PipeLen' /\ Pipe(n)' = p
      <4>1. Pipe(n + 1) = p /\ n + 1 \in 1..PipeLen
        BY <1>1, <3>1
      <4> QED
        BY <4>1 DEF Sends
    <3>2. CASE n = PipeLen' + 1 /\ \E u \in tasks' : PacketOf(u) = p
      <4>1. n + 1 = PipeLen + 1
        BY <1>1, <3>2
      <4>2. \E u \in tasks : PacketOf(u) = p
        BY <1>3, <3>2
      <4> QED
        BY <4>1, <4>2 DEF Sends
    <3> QED
      BY <1>9, <3>1, <3>2 DEF Sends, PacketOf
  <2>3. InOrder(p, n + 1)
    BY <1>9, <2>1, <2>2 DEF OrderInv
  <2>4. p \in Copies
    <3>1. CASE n + 1 \in 1..PipeLen /\ Pipe(n + 1) = p
      BY <3>1, PipeType
    <3>2. CASE \E u \in tasks : PacketOf(u) = p
      BY <3>2, CopiesOf
    <3> QED
      BY <2>2, <3>1, <3>2 DEF Sends
  <2>5. KindOf[p.req] = "QoS2" /\ p.req \in Requests
    BY <1>4, <1>9, <2>4 DEF OneIdInv, OfItsKind
  <2>6. \A m \in 1..(n - 1) : /\ m + 1 \in 1..((n + 1) - 1) /\ Pipe(m)' = Pipe(m + 1)
                              /\ \A k \in 1..(m - 1) : k + 1 \in 1..((m + 1) - 1) /\ Pipe(k)' = Pipe(k + 1)
    <3>1. \A m \in 1..(n - 1) : m \in 1..PipeLen' /\ m + 1 \in 1..((n + 1) - 1)
      BY <1>1
    <3>2. \A m \in 1..(n - 1) : \A k \in 1..(m - 1) : k \in 1..PipeLen' /\ k + 1 \in 1..((m + 1) - 1)
      BY <1>1
    <3> QED
      BY <1>1, <3>1, <3>2
  \* p itself is taken: no PUBREL of its id is before another copy.
  <2>7. CASE accepted'[p.req] # accepted[p.req]
    <3>1. p.req = h.req /\ h.kind = "QoS2" /\ held = {}
      BY <1>8, <2>5, <2>7
    <3>2. p.id = h.id
      BY <1>2, <2>4, <3>1 DEF OneIdInv
    <3>3. pair \in brokerHeld'
      BY <1>3, <2>7, <3>1, <3>2
    <3>4. ASSUME NEW m \in 1..(n - 1), Pipe(m)'.kind = "PubRel", Pipe(m)'.id = p.id PROVE FALSE
      <4>1. m + 1 \in 1..((n + 1) - 1) /\ Pipe(m + 1).kind = "PubRel" /\ Pipe(m + 1).id = p.id
        BY <2>6, <3>4
      <4>2. ~ (Pipe(1).kind = "QoS2" /\ Pipe(1).req = p.req)
        <5>1. 1 \in 1..((m + 1) - 1)
          BY <1>1
        <5> QED
          BY <2>3, <4>1, <5>1 DEF InOrder
      <4> QED
        BY <1>2, <3>1, <4>2
    <3> QED
      BY <3>3, <3>4 DEF InOrder
  <2>8. CASE accepted'[p.req] = accepted[p.req]
    <3>1. accepted'[p.req] = 0 \/ pair \in brokerHeld'
      <4>1. CASE accepted[p.req] = 0
        BY <2>8, <4>1
      <4>2. CASE pair \in brokerHeld /\ accepted[p.req] # 0
        <5>1. CASE h.kind = "PubRel"
          <6>1. h.id # p.id
            <7>1. 1 \in 1..((n + 1) - 1)
              BY <2>1
            <7> QED
              BY <1>2, <2>3, <4>2, <5>1, <7>1 DEF InOrder
          <6>2. pair \notin held
            BY <6>1
          <6> QED
            BY <1>3, <4>2, <5>1, <6>2
        <5>2. CASE h.kind # "PubRel"
          BY <1>3, <4>2, <5>2
        <5> QED
          BY <5>1, <5>2
      <4> QED
        BY <2>3, <4>1, <4>2 DEF InOrder
    <3>2. ASSUME NEW m \in 1..(n - 1), Pipe(m)'.kind = "PubRel", Pipe(m)'.id = p.id
          PROVE  /\ accepted'[p.req] = 0
                 /\ \A k \in 1..(m - 1) : ~ (Pipe(k)'.kind = "QoS2" /\ Pipe(k)'.req = p.req)
      <4>1. m + 1 \in 1..((n + 1) - 1) /\ Pipe(m + 1).kind = "PubRel" /\ Pipe(m + 1).id = p.id
        BY <2>6, <3>2
      <4>2. /\ accepted[p.req] = 0
            /\ \A k \in 1..((m + 1) - 1) : ~ (Pipe(k).kind = "QoS2" /\ Pipe(k).req = p.req)
        BY <2>3, <4>1 DEF InOrder
      <4>3. ASSUME NEW k \in 1..(m - 1) PROVE ~ (Pipe(k)'.kind = "QoS2" /\ Pipe(k)'.req = p.req)
        BY <2>6, <4>2
      <4> QED
        BY <2>8, <4>2, <4>3
    <3> QED
      BY <3>1, <3>2 DEF InOrder
  <2> QED
    BY <2>7, <2>8
<1>10. \A r \in Requests : stage'[r] # "taken" => accepted'[r] = 0
  <2>1. \A r \in Requests : r # h.req => accepted'[r] = accepted[r]
    <3> HIDE DEF held
    <3> QED
      BY <1>3, <1>4
  <2> QED
    BY <1>3, <1>5, <2>1 DEF OrderInv
<1>11. ExactlyOnce => ExactlyOnce'
  BY <1>8 DEF ExactlyOnce
<1> QED
  BY <1>9, <1>10, <1>11 DEF OrderInv

LEMMA NextOrder ==
    ASSUME TypeOK, QueueInv, OneConnectionInv, SoleInv, OneIdInv, ReceiptInv,
           RecoverInv, OrderInv, ExactlyOnce, [Next]_vars
    PROVE  OrderInv' /\ ExactlyOnce'
<1>1. CASE BrokerStep
  BY <1>1, OrderRead
<1>2. CASE UNCHANGED brokerVars
  <2>1. ExactlyOnce'
    BY <1>2 DEF ExactlyOnce, brokerVars
  <2> SUFFICES OrderInv'
    BY <2>1
  <2>2. ASSUME UNCHANGED <<toBroker, netQ>>,
               \A u \in tasks' : u.kind = "QoS2" => u \in tasks
        PROVE  OrderInv'
    <3>1. PipeKept
      BY <2>2, PipeUnchanged
    <3>2. \A u \in tasks' : u.kind = "QoS2" => \E t \in tasks : PacketOf(t) = PacketOf(u)
      BY <2>2
    <3> QED
      BY <1>2, <3>1, <3>2, OrderMoved
  <2>3. ASSUME NEW r \in Requests, ClientRequest(r) PROVE OrderInv'
    BY <2>2, <2>3 DEF ClientRequest, netVars, wireVars
  <2>4. CASE HubStartNetwork
    <3>1. PipeKept /\ tasks' = tasks
      BY <2>4, PipeCut DEF HubStartNetwork, wireVars
    <3>2. \A u \in tasks' : u.kind = "QoS2" => \E t \in tasks : PacketOf(t) = PacketOf(u)
      BY <3>1
    <3> QED
      BY <1>2, <3>1, <3>2, OrderMoved
  <2>5. CASE HubConnected
    <3>1. Respawned = {}
      BY <2>5, EmptyRange DEF HubConnected, OneConnectionInv, Respawned
    <3>2. UNCHANGED <<tasks, toBroker, netQ>>
      BY <2>5, <3>1 DEF HubConnected, wireVars
    <3> QED
      BY <2>2, <3>2
  <2>6. CASE \/ HubConnectFail \/ HubLost \/ HubPoolEmpty \/ HubRecoverDone
             \/ HubRecoverUnknown \/ UNCHANGED vars
    BY <2>2, <2>6 DEF HubConnectFail, HubLost, HubPoolEmpty, HubRecoverDone,
         HubRecoverUnknown, HubReads, netVars, wireVars, vars
  <2>7. CASE HubTakeQos0
    <3> DEFINE w == NewTask("QoS0", Head(hubQ).arg, 0)
    <3>1. UNCHANGED <<toBroker, netQ>> /\ tasks' = tasks \cup {w} /\ w.kind # "QoS2"
      BY <2>7 DEF HubTakeQos0, HubReads, netVars, wireVars, NewTask
    <3> HIDE DEF w
    <3> QED
      BY <2>2, <3>1
  <2>8. CASE HubRecoverRec
    <3>1. PICK i \in DOMAIN clientData :
            tasks' = tasks \cup {TaskOf([clientData[i] EXCEPT !.kind = "PubRel"])}
      BY <2>8 DEF HubRecoverRec
    <3> DEFINE w == TaskOf([clientData[i] EXCEPT !.kind = "PubRel"])
    <3>2. clientData[i] \in Entries
      BY DEF TypeOK
    <3>3. w.kind = "PubRel"
      BY <3>2 DEF TaskOf, NewTask, Entries
    <3>4. UNCHANGED <<toBroker, netQ>>
      BY <2>8 DEF HubRecoverRec, HubReads, netVars, wireVars
    <3> HIDE DEF w
    <3>5. \A u \in tasks' : u \in tasks \/ u = w
      BY <3>1 DEF w
    <3> QED
      BY <2>2, <3>3, <3>4, <3>5
  <2>9. CASE HubTakeTracked
    BY <2>9, OrderTaken
  <2>10. ASSUME NEW t \in tasks, TaskSend(t) \/ TaskTimeout(t) PROVE OrderInv'
    BY <2>10, OrderSent
  <2>11. CASE /\ TaskStep \/ (\E t \in tasks : TaskTimeout(t)) \/ NetStep
                   \/ NetConnectFail \/ NetLost
              /\ ~ \E t \in tasks : TaskSend(t) \/ TaskTimeout(t)
    <3>1. PipeKept
      <4>1. CASE NetWrite
        BY <4>1, PipeWritten
      <4>2. CASE NetConnectFail \/ NetLost
        BY <4>2, PipeCut DEF NetConnectFail, NetLost, wireVars
      <4>3. CASE \/ NetConnected \/ NetForward
                 \/ \E t \in tasks : TaskAcked(t) \/ TaskRecoverAgain(t) \/ TaskNotify(t)
        BY <4>3, PipeUnchanged DEF NetConnected, NetForward, TaskAcked, TaskRecoverAgain,
             TaskNotify, netVars, wireVars
      <4> QED
        BY <2>11, <4>1, <4>2, <4>3 DEF TaskStep, NetStep
    <3>2. SoleTasks
      BY DEF SoleInv
    <3>3. \A u \in tasks' : \E t \in tasks : Continues(u, t)
      BY <2>11, <3>2, TasksMove
    <3>4. \A u, t : Continues(u, t) => PacketOf(t) = PacketOf(u)
      BY DEF Continues, TaskKey, PacketOf
    <3>5. \A u \in tasks' : u.kind = "QoS2" => \E t \in tasks : PacketOf(t) = PacketOf(u)
      BY <3>3, <3>4
    <3> QED
      BY <1>2, <3>1, <3>5, OrderMoved
  <2>12. CASE BrokerStep
    BY <1>1, <2>12
  <2> QED
    BY <2>3, <2>4, <2>5, <2>6, <2>7, <2>8, <2>9, <2>10, <2>11, <2>12 DEF Next, HubStep
<1> QED
  BY <1>1, <1>2, BrokerSteps

-----------------------------------------------------------------------------
(* When an id that is given out is clean: it is a new one, or no request   *)
(* dispatches RecoverId twice.                                             *)

LEMMA NextQos0 ==
    ASSUME TypeOK, OneConnectionInv, SoleInv, ReceiptInv, Qos0Inv, [Next]_vars
    PROVE  Qos0Inv'
<1>1. CASE UNCHANGED tasks
  BY <1>1 DEF Qos0Inv
<1>2. ASSUME NEW w, \A u \in tasks' : u \in tasks \/ u = w,
             w.kind = "QoS0" => w.pc # "await" /\ w.id = 0
      PROVE  Qos0Inv'
  BY <1>2 DEF Qos0Inv
<1>3. \A kind, r, i : NewTask(kind, r, i).pc = "send" /\ NewTask(kind, r, i).kind = kind
                      /\ NewTask(kind, r, i).id = i
  BY DEF NewTask
<1>4. CASE HubTakeQos0
  <2>1. PICK r : tasks' = tasks \cup {NewTask("QoS0", r, 0)}
    BY <1>4 DEF HubTakeQos0
  <2> QED
    BY <1>2, <1>3, <2>1
<1>5. CASE HubTakeTracked
  <2> DEFINE r == Head(hubQ).arg
             w == NewTask(KindOf[r], r, Head(freeIds))
  <2>1. KindOf[r] # "QoS0" /\ tasks' = tasks \cup {w}
    BY <1>5 DEF HubTakeTracked, TaskOf, Entry
  <2>2. w.kind # "QoS0"
    BY <2>1 DEF NewTask
  <2>3. \A u \in tasks' : u \in tasks \/ u = w
    BY <2>1
  <2> HIDE DEF w
  <2> QED
    BY <1>2, <2>2, <2>3
<1>6. CASE HubRecoverRec
  <2>1. PICK j \in DOMAIN clientData :
          tasks' = tasks \cup {TaskOf([clientData[j] EXCEPT !.kind = "PubRel"])}
    BY <1>6 DEF HubRecoverRec
  <2> DEFINE w == TaskOf([clientData[j] EXCEPT !.kind = "PubRel"])
  <2>2. clientData[j] \in Entries
    BY DEF TypeOK
  <2>3. w.kind = "PubRel"
    BY <2>2 DEF TaskOf, NewTask, Entries
  <2>4. \A u \in tasks' : u \in tasks \/ u = w
    BY <2>1
  <2> HIDE DEF w
  <2> QED
    BY <1>2, <2>3, <2>4
<1>7. CASE HubConnected
  <2>1. Respawned = {}
    BY <1>7, EmptyRange DEF HubConnected, OneConnectionInv, Respawned
  <2> QED
    BY <1>1, <1>7, <2>1 DEF HubConnected
<1>8. CASE TaskStep \/ (\E t \in tasks : TaskTimeout(t)) \/ NetStep \/ NetConnectFail \/ NetLost
  <2>1. \A u \in tasks' : \E t \in tasks : Continues(u, t)
    BY <1>8, TasksMove DEF SoleInv
  <2>2. ASSUME NEW u \in tasks', u.kind = "QoS0" PROVE u.pc # "await" /\ u.id = 0
    <3>1. PICK t \in tasks : Continues(u, t)
      BY <2>1
    <3>2. t.kind = "QoS0" /\ t.id = u.id /\ (u.pc = "await" => t.pc = "await")
      BY <2>2, <3>1 DEF Continues, TaskKey
    <3> QED
      BY <3>2 DEF Qos0Inv
  <2> QED
    BY <2>2 DEF Qos0Inv
<1>9. ASSUME NEW r \in Requests, ClientRequest(r) PROVE Qos0Inv'
  BY <1>1, <1>9 DEF ClientRequest
<1>10. CASE \/ HubStartNetwork \/ HubConnectFail \/ HubLost \/ HubPoolEmpty \/ HubRecoverDone
            \/ HubRecoverUnknown \/ BrokerStep \/ UNCHANGED vars
  BY <1>1, <1>10 DEF HubStartNetwork, HubConnectFail, HubLost, HubPoolEmpty, HubRecoverDone,
       HubRecoverUnknown, BrokerStep, BrokerTake, BrokerRefuse, vars
<1> QED
  BY <1>4, <1>5, <1>6, <1>7, <1>8, <1>9, <1>10 DEF Next, HubStep

LEMMA FreshIsClean ==
    ASSUME IdsSuffice, FreshIdsInv, Qos0Inv, [Next]_vars
    PROVE  TakeIsClean
<1> SUFFICES ASSUME HubTakeTracked PROVE Clean(Head(freeIds))
  BY DEF TakeIsClean
<1>1. TypeOK /\ QueueInv /\ FreshInv /\ CopiesInv /\ TruthInv
  BY DEF FreshIdsInv
<1>2. Given \in Nat /\ Given < MaxPacketId
  BY <1>1, GivenSteps
<1>3. Head(freeIds) = Given + 1
  BY <1>1, <1>2, FreshHead
<1>4. PICK i \in 1..MaxPacketId : i = Head(freeIds) /\ i \notin 1..Given
  BY <1>2, <1>3
<1>5. RecoverMsg(i) \notin Range(hubQ)
  <2>1. RecoverMsg(i).type = "RecoverId" /\ RecoverMsg(i).arg = i
    BY RecoverMsgs
  <2> QED
    BY <1>1, <1>4, <2>1 DEF TruthInv, IdHolds
<1>6. ASSUME NEW t \in tasks, t.id = i PROVE FALSE
  <2>1. t.kind # "QoS0"
    BY <1>6 DEF Qos0Inv
  <2> QED
    BY <1>1, <1>4, <1>6, <2>1, TaskIsNumbered
<1> QED
  BY <1>4, <1>5, <1>6 DEF Clean

LEMMA HeldIsClean ==
    ASSUME TypeOK, IdsConserved, HeldTokens, Qos0Inv
    PROVE  TakeIsClean
<1> SUFFICES ASSUME HubTakeTracked PROVE Clean(Head(freeIds))
  BY DEF TakeIsClean
<1>1. PICK i \in 1..MaxPacketId : i = Head(freeIds) /\ i \notin HeldIds
  BY IdsOfEntries DEF HubTakeTracked
<1>2. RecoverMsg(i) \notin Range(hubQ)
  <2>1. RecoverMsg(i).type = "RecoverId" /\ RecoverMsg(i).arg = i
    BY RecoverMsgs
  <2> QED
    BY <1>1, <2>1 DEF HeldTokens
<1>3. ASSUME NEW t \in tasks, t.id = i, t.pc # "notify" PROVE FALSE
  <2>1. PacketOf(t) \in Range(clientData)
    BY <1>3 DEF Qos0Inv, HeldTokens
  <2>2. PacketOf(t).id = i
    BY <1>3 DEF PacketOf
  <2> QED
    BY <1>1, <2>1, <2>2, IdsOfEntries
<1> QED
  BY <1>1, <1>2, <1>3 DEF Clean

\* What a step must do to keep the ids that are in use.
LEMMA HeldTokensKept ==
    ASSUME TypeOK, HeldTokens,
           \A m \in Range(hubQ') : m.type = "RecoverId" => m \in Range(hubQ) \/ m.arg \in HeldIds,
           \A u \in tasks' : u.kind # "QoS0" /\ u.pc # "notify" =>
               \/ PacketOf(u) \in Range(clientData')
               \/ \E t \in tasks : PacketOf(t) = PacketOf(u) /\ t.pc # "notify"
                                   /\ t.kind # "QoS0",
           clientData' = clientData
    PROVE  HeldTokens'
<1>1. HeldIds' = HeldIds /\ Range(clientData') = Range(clientData)
  BY DEF HeldIds
<1> QED
  BY <1>1 DEF HeldTokens

LEMMA IdsFromEntries == /\ HeldIds = {e.id : e \in Range(clientData)}
                        /\ HeldIds' = {e.id : e \in Range(clientData')}
  BY DEF HeldIds, Range

\* RecoverId of a QoS 2 publish: its entry and what it becomes.
LEMMA RecReplaces ==
    ASSUME TypeOK, IdsConserved, HubRecoverRec
    PROVE  \E d \in Range(clientData), c \in Packets :
             /\ d.id = Head(hubQ).arg /\ d.kind = "QoS2" /\ c.id = d.id
             /\ tasks' = tasks \cup {TaskOf(c)} /\ PacketOf(TaskOf(c)) = c
             /\ c \in Range(clientData')
             /\ \A e \in Range(clientData) : e = d \/ e \in Range(clientData')
<1>1. PICK i \in DOMAIN clientData :
        /\ clientData[i] \in Entries /\ clientData[i] \in Range(clientData)
        /\ clientData[i].kind = "QoS2" /\ clientData[i].id = Head(hubQ).arg
        /\ clientData' = [clientData EXCEPT ![i] = Entry("PubRel", clientData[i].req, clientData[i].id)]
        /\ HubReads("RecoverId")
  BY RecCopies
<1>2. PICK d \in Range(clientData) : d = clientData[i]
  BY <1>1
<1> DEFINE c == Entry("PubRel", d.req, d.id)
<1>3. c.kind = "PubRel" /\ c.req = d.req /\ c.id = d.id /\ c \in Packets
  BY <1>1, <1>2 DEF Entry, Entries, Packets
<1>4. tasks' = tasks \cup {TaskOf(c)}
  <2>1. PICK j \in DOMAIN clientData :
          /\ clientData[j].id = Head(hubQ).arg
          /\ tasks' = tasks \cup {TaskOf([clientData[j] EXCEPT !.kind = "PubRel"])}
    BY DEF HubRecoverRec, FirstWith
  <2>2. clientData[j] = clientData[i]
    BY <1>1, <2>1 DEF IdsConserved
  <2>3. c = [clientData[i] EXCEPT !.kind = "PubRel"]
    BY <1>1, <1>2 DEF Entry, Entries
  <2> QED
    BY <2>1, <2>2, <2>3
<1>5. PacketOf(TaskOf(c)) = c
  BY DEF TaskOf, NewTask, PacketOf, Entry
<1>6. /\ c \in Range(clientData')
      /\ \A e \in Range(clientData) : e = d \/ e \in Range(clientData')
  BY <1>1, <1>2 DEF Range
<1> QED
  BY <1>1, <1>2, <1>3, <1>4, <1>5, <1>6

LEMMA NextHeldTokens ==
    ASSUME \A r \in Requests : KindOf[r] # "QoS1",
           TypeOK, QueueInv, IdsConserved, OneConnectionInv, SoleInv, OneIdInv,
           ReceiptInv, RecoverInv, Qos0Inv, HeldTokens, [Next]_vars
    PROVE  HeldTokens'
<1>1. \A r : DataMsg(r).type = "Data"
  BY DEF DataMsg
<1>2. HubReads("Data") \/ HubReads("RecoverId") => Range(hubQ') \subseteq Range(hubQ)
  BY HubReading
<1>3. ASSUME NEW w, \A u \in tasks' : u \in tasks \/ u = w, w.kind = "QoS0" \/ w \in tasks,
             clientData' = clientData, Range(hubQ') \subseteq Range(hubQ)
      PROVE  HeldTokens'
  BY <1>3, HeldTokensKept
<1>4. CASE UNCHANGED <<clientData, tasks>> /\ Range(hubQ') \subseteq Range(hubQ)
  BY <1>4, HeldTokensKept
<1>5. ASSUME NEW r \in Requests, ClientRequest(r) PROVE HeldTokens'
  <2>1. /\ UNCHANGED <<clientData, tasks>> /\ hubQ' = Append(hubQ, DataMsg(r))
        /\ DataMsg(r) \in HubMessages
    BY <1>5 DEF ClientRequest, DataMsg, HubMessages
  <2>2. Range(hubQ') = Range(hubQ) \cup {DataMsg(r)}
    BY <2>1, RangeOfQueue DEF TypeOK
  <2> QED
    BY <1>1, <2>1, <2>2, HeldTokensKept
<1>6. CASE \/ HubStartNetwork \/ HubConnectFail \/ HubLost \/ HubPoolEmpty
           \/ HubRecoverUnknown \/ BrokerStep \/ UNCHANGED vars
  <2>1. /\ UNCHANGED <<clientData, tasks>>
        /\ hubQ' = hubQ \/ HubReads("Data") \/ HubReads("RecoverId")
    BY <1>6 DEF HubStartNetwork, HubConnectFail, HubLost, HubPoolEmpty, HubRecoverUnknown,
                BrokerStep, BrokerTake, BrokerRefuse, vars, hubVars
  <2> QED
    BY <1>2, <1>4, <2>1
<1>7. CASE HubConnected
  <2>1. Respawned = {}
    BY <1>7, EmptyRange DEF HubConnected, OneConnectionInv, Respawned
  <2> QED
    BY <1>4, <1>7, <2>1 DEF HubConnected
<1>8. CASE HubTakeQos0
  <2>1. PICK r : tasks' = tasks \cup {NewTask("QoS0", r, 0)}
    BY <1>8 DEF HubTakeQos0
  <2>2. NewTask("QoS0", r, 0).kind = "QoS0" /\ clientData' = clientData /\ HubReads("Data")
    BY <1>8 DEF HubTakeQos0, NewTask
  <2> QED
    BY <1>2, <1>3, <2>1, <2>2
<1>9. CASE HubTakeTracked
  <2>1. PICK c \in Packets :
          /\ c = Entry(KindOf[Head(hubQ).arg], Head(hubQ).arg, Head(freeIds))
          /\ Range(clientData') = Range(clientData) \cup {c}
    BY <1>9, TrackedCopies
  <2>2. tasks' = tasks \cup {TaskOf(c)} /\ HubReads("Data")
    BY <1>9, <2>1 DEF HubTakeTracked
  <2>3. PacketOf(TaskOf(c)) = c
    BY <2>1 DEF TaskOf, NewTask, PacketOf, Entry
  <2>4. HeldIds \subseteq HeldIds'
    <3>1. HeldIds = {e.id : e \in Range(clientData)} /\ HeldIds' = {e.id : e \in Range(clientData')}
      BY IdsFromEntries
    <3> QED
      BY <2>1, <3>1
  <2> QED
    BY <1>2, <2>1, <2>2, <2>3, <2>4 DEF HeldTokens
<1>10. CASE HubRecoverRec
  <2>1. PICK d \in Range(clientData), c \in Packets :
          /\ d.id = Head(hubQ).arg /\ d.kind = "QoS2" /\ c.id = d.id
          /\ tasks' = tasks \cup {TaskOf(c)} /\ PacketOf(TaskOf(c)) = c
          /\ c \in Range(clientData')
          /\ \A e \in Range(clientData) : e = d \/ e \in Range(clientData')
    BY <1>10, RecReplaces
  <2>2. HubReads("RecoverId") /\ KindOf[d.req] # "QoS1"
    BY <1>10, IdsOfEntries DEF HubRecoverRec, Entries
  <2>3. \A t \in tasks : t.id = d.id => t.pc = "notify"
    BY <2>1, <2>2, ReadsRecover
  <2>4. HeldIds \subseteq HeldIds'
    <3>1. HeldIds = {e.id : e \in Range(clientData)} /\ HeldIds' = {e.id : e \in Range(clientData')}
      BY IdsFromEntries
    <3> QED
      BY <2>1, <3>1
  <2>5. ASSUME NEW u \in tasks, u.kind # "QoS0", u.pc # "notify"
        PROVE  PacketOf(u) \in Range(clientData')
    <3>1. PacketOf(u) \in Range(clientData)
      BY <2>5 DEF HeldTokens
    <3>2. PacketOf(u) # d
      BY <2>3, <2>5 DEF PacketOf
    <3> QED
      BY <2>1, <3>1, <3>2
  <2> QED
    BY <1>2, <2>1, <2>2, <2>4, <2>5 DEF HeldTokens
<1>11. CASE HubRecoverDone
  <2>1. PICK d \in Range(clientData) :
          /\ d.id = Head(hubQ).arg
          /\ \A e \in Range(clientData) : e = d \/ e \in Range(clientData')
          /\ HubReads("RecoverId") /\ UNCHANGED <<tasks, stage>>
    BY <1>11, DoneRemoves
  <2>2. KindOf[d.req] # "QoS1"
    BY IdsOfEntries DEF Entries
  <2>3. /\ RecoverMsg(d.id) \notin Range(hubQ')
        /\ \A t \in tasks : t.id = d.id => t.pc = "notify"
    BY <2>1, <2>2, ReadsRecover
  <2>4. \A i \in HeldIds : i = d.id \/ i \in HeldIds'
    <3>1. HeldIds = {e.id : e \in Range(clientData)} /\ HeldIds' = {e.id : e \in Range(clientData')}
      BY IdsFromEntries
    <3> QED
      BY <2>1, <3>1
  <2>5. ASSUME NEW m \in Range(hubQ'), m.type = "RecoverId" PROVE m.arg \in HeldIds'
    <3>1. m \in Range(hubQ) /\ m \in HubMessages
      BY <1>2, <2>1, QueueOfHub DEF Range
    <3>2. m = RecoverMsg(m.arg)
      BY <2>5, <3>1 DEF HubMessages, RecoverMsg
    <3>3. m.arg \in HeldIds /\ m.arg # d.id
      BY <2>3, <2>5, <3>1, <3>2 DEF HeldTokens
    <3> QED
      BY <2>4, <3>3
  <2>6. ASSUME NEW u \in tasks, u.kind # "QoS0", u.pc # "notify"
        PROVE  PacketOf(u) \in Range(clientData')
    <3>1. PacketOf(u) \in Range(clientData)
      BY <2>6 DEF HeldTokens
    <3>2. PacketOf(u) # d
      BY <2>3, <2>6 DEF PacketOf
    <3> QED
      BY <2>1, <3>1, <3>2
  <2> QED
    BY <2>1, <2>5, <2>6 DEF HeldTokens
<1>12. ASSUME NEW t \in tasks PROVE ~ TaskRecoverAgain(t)
  <2>1. t.req \in Requests /\ (t.pc = "again" => t.kind = "QoS1" /\ OfItsKind(t))
    BY DEF TypeOK, Tasks, SoleInv, SoleTasks
  <2> QED
    BY <2>1 DEF TaskRecoverAgain, OfItsKind
<1>13. CASE TaskStep \/ (\E t \in tasks : TaskTimeout(t)) \/ NetStep \/ NetConnectFail \/ NetLost
  <2>1. \A u \in tasks' : \E t \in tasks : Continues(u, t)
    BY <1>13, TasksMove DEF SoleInv
  <2>2. ASSUME NEW u \in tasks', u.kind # "QoS0", u.pc # "notify"
        PROVE  \E t \in tasks : PacketOf(t) = PacketOf(u) /\ t.pc # "notify" /\ t.kind # "QoS0"
    BY <2>1, <2>2 DEF Continues, TaskKey, PacketOf
  <2>3. ASSUME NEW t \in tasks, TaskAcked(t) PROVE HeldTokens'
    <3>1. /\ t.pc = "await" /\ clientData' = clientData /\ hubQ' = Append(hubQ, RecoverMsg(t.id))
          /\ t \in Tasks
      BY <2>3 DEF TaskAcked, AckReceived, TypeOK
    <3>2. PacketOf(t) \in Range(clientData)
      BY <3>1 DEF Qos0Inv, HeldTokens
    <3>3. t.id \in HeldIds
      <4>1. PacketOf(t).id = t.id
        BY DEF PacketOf
      <4> QED
        BY <3>2, <4>1, IdsOfEntries
    <3>4. RecoverMsg(t.id) \in HubMessages /\ RecoverMsg(t.id).arg = t.id
      BY <3>1 DEF Tasks, RecoverMsg, HubMessages
    <3>5. Range(hubQ') = Range(hubQ) \cup {RecoverMsg(t.id)}
      BY <3>1, <3>4, RangeOfQueue DEF TypeOK
    <3>6. \A m \in Range(hubQ') : m.type = "RecoverId" => m \in Range(hubQ) \/ m.arg \in HeldIds
      BY <3>3, <3>4, <3>5
    <3> QED
      BY <2>2, <3>1, <3>6, HeldTokensKept
  <2>4. CASE ~ \E t \in tasks : TaskAcked(t)
    <3>1. UNCHANGED <<clientData, hubQ>>
      BY <1>12, <1>13, <2>4 DEF TaskStep, TaskTimeout, TaskSend, TaskNotify, NetStep,
           NetConnected, NetWrite, NetForward, NetConnectFail, NetLost, hubVars
    <3>2. \A m \in Range(hubQ') : m.type = "RecoverId" => m \in Range(hubQ) \/ m.arg \in HeldIds
      BY <3>1
    <3> QED
      BY <2>2, <3>1, <3>2, HeldTokensKept
  <2> QED
    BY <2>3, <2>4
<1> QED
  BY <1>5, <1>6, <1>7, <1>8, <1>9, <1>10, <1>11, <1>13 DEF Next, HubStep

-----------------------------------------------------------------------------
(* A QoS 2 publish is taken by the broker at most once, however often      *)
(* TaskPublishQos2 and TaskPublishQos2Rel send on timeouts and in whatever *)
(* order the hub reads (MaxAttempts = 1 is a connection that is not lost), *)
(* if packet ids never run out or no QoS 1 publish shares them.  Without   *)
(* that it is false: the second RecoverId of TaskPublishQos1 may complete  *)
(* a QoS 2 publish that has got its id.                                    *)
THEOREM TakenOnce ==
    ASSUME MaxAttempts = 1,
           IdsSuffice \/ \A r \in Requests : KindOf[r] # "QoS1"
    PROVE  Spec => []ExactlyOnce
<1> DEFINE NoQos1 == \A r \in Requests : KindOf[r] # "QoS1"
           Ids == (IdsSuffice /\ FreshIdsInv) \/ (NoQos1 /\ HeldTokens)
           Inv == /\ TypeOK /\ QueueInv /\ IdsConserved /\ OneConnectionInv /\ SoleInv
                  /\ OneIdInv /\ ReceiptInv /\ RecoverInv /\ OrderInv /\ ExactlyOnce
                  /\ Qos0Inv /\ Ids
<1>1. ASSUME Init PROVE Inv
  <2>1. /\ clientData = <<>> /\ tasks = {} /\ hub = "ToConnect" /\ net = "none"
        /\ netEvents = <<>> /\ attempt = 0 /\ netQ = <<>> /\ hubQ = <<>>
        /\ toBroker = <<>> /\ brokerHeld = {}
        /\ \A r \in Requests : notified[r] = 0 /\ accepted[r] = 0
    BY <1>1 DEF Init
  <2>2. /\ Range(clientData) = {} /\ Range(netQ) = {} /\ Range(toBroker) = {}
        /\ Range(hubQ) = {}
    BY <2>1, EmptyRange
  <2>3. Copies = {}
    BY <2>1, <2>2 DEF Copies
  <2>4. SoleInv
    BY <2>1, <2>2 DEF SoleInv, SoleTasks, SoleEntries, UntakenUnheard, NotifiedOnce
  <2>5. Len(hubQ) = 0 /\ Len(netQ) = 0 /\ Len(toBroker) = 0
    BY <2>1
  <2>6. QueueInv
    BY <2>5 DEF QueueInv, Queued
  <2>7. OneIdInv
    BY <2>2, <2>3 DEF OneIdInv
  <2>8. ReceiptInv
    BY <2>1, <2>5 DEF ReceiptInv
  <2>9. RecoverInv /\ Qos0Inv /\ HeldTokens
    BY <2>1, <2>2 DEF RecoverInv, Qos0Inv, HeldTokens
  <2>10. OrderInv
    <3>1. \A p, n : ~ Sends(p, n)
      <4>1. PipeLen = 0
        BY <2>5 DEF PipeLen
      <4> QED
        BY <2>1, <4>1 DEF Sends
    <3> QED
      BY <2>1, <3>1 DEF OrderInv
  <2>11. ExactlyOnce
    BY <2>1 DEF ExactlyOnce
  <2>12. IdsSuffice => FreshIdsInv
    BY <1>1, InitFreshIds
  <2> QED
    BY <1>1, <2>1, <2>4, <2>6, <2>7, <2>8, <2>9, <2>10, <2>11, <2>12, InitType, InitIds
       DEF OneConnectionInv
<1>2. ASSUME Inv, [Next]_vars PROVE Inv'
  <2>1. TypeOK' /\ QueueInv'
    BY <1>2, NextType, NextQueue
  <2>2. IdsConserved'
    BY <1>2, <2>1, NextIds
  <2>3. OneConnectionInv'
    BY <1>2, NextOneConnection
  <2>4. SoleInv'
    BY <1>2, NextSole
  <2>5. OneIdInv'
    BY <1>2, NextOneId
  <2>6. ReceiptInv' /\ Qos0Inv'
    BY <1>2, NextReceipt, NextQos0
  <2>7. TakeIsClean
    BY <1>2, FreshIsClean, HeldIsClean
  <2>8. RecoverInv'
    BY <1>2, <2>7, NextRecover
  <2>9. OrderInv' /\ ExactlyOnce'
    BY <1>2, NextOrder
  <2>10. IdsSuffice /\ FreshIdsInv => FreshIdsInv'
    BY <1>2, NextFreshIds
  <2>11. NoQos1 /\ HeldTokens => HeldTokens'
    BY <1>2, NextHeldTokens
  <2>12. Ids'
    BY <1>2, <2>10, <2>11 DEF IdsSuffice
  <2> QED
    BY <2>1, <2>2, <2>3, <2>4, <2>5, <2>6, <2>8, <2>9, <2>12
<1>3. Inv => ExactlyOnce
  OBVIOUS
<1> HIDE DEF Inv
<1> QED
  BY <1>1, <1>2, <1>3, PTL DEF Spec
================================================================================
