------------------------ MODULE OutboundSession_proofs ------------------------
(* Theorems about OutboundSession, for every set of requests, every size   *)
(* of the packet id pool and every bound on attempts and retransmissions.  *)
EXTENDS OutboundSession, SequenceLemmas

-----------------------------------------------------------------------------
(* Type correctness.                                                       *)

USE KindAssumption, PoolAssumption, BoundAssumption
    DEF Tracked, RequestKinds, TaskKinds, EntryKinds

\* The sets the messages, entries and tasks are drawn from.
LEMMA TaskOfType ==
    ASSUME TypeOK, NEW e \in Entries
    PROVE  TaskOf(e) \in Tasks
  BY DEF TypeOK, Entries, Tasks, TaskOf, NewTask

LEMMA InitType == Init => TypeOK
  BY DEF Init, TypeOK, FullPool

LEMMA HubStepType == TypeOK /\ HubStep => TypeOK'
<1> SUFFICES ASSUME TypeOK, HubStep PROVE TypeOK'
  OBVIOUS
<1>1. CASE HubStartNetwork
  BY <1>1 DEF HubStartNetwork, TypeOK, wireVars, brokerVars
<1>2. CASE HubConnected
  <2>1. netEvents' \in Seq({"Connected", "ConnectFail", "ConnectedErr"})
    BY <1>2, HeadOfQueue DEF HubConnected, TypeOK
  <2>2. Respawned \subseteq Tasks
    <3>1. Range(clientData) \subseteq Entries
      BY DEF Range, TypeOK
    <3> QED
      BY <3>1, TaskOfType DEF Respawned
  <2> QED
    BY <1>2, <2>1, <2>2 DEF HubConnected, TypeOK, wireVars, brokerVars
<1>3. CASE HubConnectFail
  BY <1>3, HeadOfQueue DEF HubConnectFail, TypeOK, wireVars, brokerVars
<1>4. CASE HubLost
  BY <1>4, HeadOfQueue DEF HubLost, TypeOK, wireVars, brokerVars
<1>5. ASSUME NEW type \in {"Data", "RecoverId"}, HubReads(type)
      PROVE  /\ Head(hubQ) \in HubMessages /\ Head(hubQ).type = type
             /\ hubQ' \in Seq(HubMessages)
             /\ UNCHANGED <<hub, netVars, wireVars, brokerVars, notified, claimed>>
  BY <1>5, HeadOfQueue DEF HubReads, TypeOK
<1>6. ASSUME HubReads("Data")
      PROVE  Head(hubQ).arg \in Requests
  BY <1>5, <1>6 DEF HubMessages
<1>7. CASE HubTakeQos0
  <2>1. NewTask("QoS0", Head(hubQ).arg, 0) \in Tasks
    BY <1>6, <1>7 DEF HubTakeQos0, NewTask, Tasks, TypeOK
  <2> QED
    BY <1>5, <1>6, <1>7, <2>1
       DEF HubTakeQos0, TypeOK, netVars, wireVars, brokerVars
<1>8. CASE HubTakeTracked
  <2> DEFINE r == Head(hubQ).arg
             e == Entry(KindOf[r], r, Head(freeIds))
  <2>1. r \in Requests
    BY <1>6, <1>8 DEF HubTakeTracked
  <2>2. Head(freeIds) \in 1..MaxPacketId /\ Tail(freeIds) \in Seq(1..MaxPacketId)
    BY <1>8, HeadOfQueue DEF HubTakeTracked, TypeOK
  <2>3. e \in Entries
    BY <1>8, <2>1, <2>2 DEF HubTakeTracked, Entry, Entries
  <2>4. TaskOf(e) \in Tasks
    BY <2>3, TaskOfType
  <2>5. clientData' \in Seq(Entries)
    BY <1>8, <2>3 DEF HubTakeTracked, TypeOK
  <2> QED
    BY <1>5, <1>8, <2>1, <2>2, <2>4, <2>5
       DEF HubTakeTracked, TypeOK, netVars, wireVars, brokerVars
<1>9. CASE HubPoolEmpty
  BY <1>5, <1>6, <1>9 DEF HubPoolEmpty, TypeOK, netVars, wireVars, brokerVars
<1>10. CASE HubRecoverRec
  <2>1. PICK i \in DOMAIN clientData :
           /\ clientData' = [clientData EXCEPT ![i] =
                                [clientData[i] EXCEPT !.kind = "PubRel"]]
           /\ tasks' = tasks \cup
                       {TaskOf([clientData[i] EXCEPT !.kind = "PubRel"])}
    BY <1>10 DEF HubRecoverRec
  <2>2. [clientData[i] EXCEPT !.kind = "PubRel"] \in Entries
    <3>1. clientData[i] \in Entries
      BY DEF TypeOK
    <3> QED
      BY <3>1 DEF Entries
  <2>3. clientData' \in Seq(Entries)
    BY <2>1, <2>2, ExceptSeq DEF TypeOK
  <2>4. tasks' \subseteq Tasks
    BY <2>1, <2>2, TaskOfType DEF TypeOK
  <2> QED
    BY <1>5, <1>10, <2>3, <2>4
       DEF HubRecoverRec, TypeOK, netVars, wireVars, brokerVars
<1>11. CASE HubRecoverDone
  <2>1. PICK i \in DOMAIN clientData :
           /\ clientData[i].id = Head(hubQ).arg
           /\ clientData' = RemoveAt(clientData, i)
           /\ freeIds' = Push(Head(hubQ).arg)
    BY <1>11 DEF HubRecoverDone, FirstWith
  <2>2. clientData[i] \in Entries /\ i \in 1..Len(clientData)
    BY <2>1 DEF TypeOK
  <2>3. clientData' \in Seq(Entries)
    BY <2>1, <2>2, RemoveAtElements DEF TypeOK
  <2>4. freeIds' \in Seq(1..MaxPacketId)
    <3>1. Head(hubQ).arg \in 1..MaxPacketId
      BY <2>1, <2>2 DEF Entries
    <3>2. Append(freeIds, Head(hubQ).arg) \in Seq(1..MaxPacketId)
      BY <3>1 DEF TypeOK
    <3> QED
      BY <2>1, <3>2 DEF TypeOK, Push
  <2> QED
    BY <1>5, <1>11, <2>3, <2>4
       DEF HubRecoverDone, TypeOK, netVars, wireVars, brokerVars
<1>12. CASE HubRecoverUnknown
  BY <1>5, <1>12 DEF HubRecoverUnknown, TypeOK, netVars, wireVars, brokerVars
<1> QED
  BY <1>1, <1>2, <1>3, <1>4, <1>7, <1>8, <1>9, <1>10, <1>11, <1>12 DEF HubStep

LEMMA TaskStepType ==
    ASSUME TypeOK, NEW t \in tasks,
           TaskSend(t) \/ TaskTimeout(t) \/ TaskAcked(t)
               \/ TaskRecoverAgain(t) \/ TaskNotify(t)
    PROVE  TypeOK'
<1>1. t \in Tasks
  BY DEF TypeOK
<1>2. TaskKey(t) \in TaskKeys /\ RecoverMsg(t.id) \in HubMessages
  BY <1>1 DEF Tasks, TaskKeys, TaskKey, RecoverMsg, HubMessages
<1>3. \A pc \in {"again", "notify"} : Goto(t, pc) \subseteq Tasks
  BY <1>1 DEF Goto, Tasks, TypeOK
<1>4. ASSUME NEW n \in 0..MaxResends, Transmit(t, n)
      PROVE  tasks' \subseteq Tasks /\ netQ' \in Seq(TaskKeys)
  <2>1. [t EXCEPT !.pc = "receipt", !.resends = n] \in Tasks
    BY <1>1 DEF Tasks
  <2>2. tasks \subseteq Tasks /\ netQ \in Seq(TaskKeys)
    BY DEF TypeOK
  <2>3. Append(netQ, TaskKey(t)) \in Seq(TaskKeys)
    BY <1>2, <2>2, AppendProperties
  <2>4. CASE net = "none"
    BY <1>4, <2>2, <2>4 DEF Transmit
  <2>5. CASE net # "none"
    BY <1>4, <2>1, <2>2, <2>3, <2>5 DEF Transmit
  <2> QED
    BY <2>4, <2>5
<1>5. CASE TaskSend(t)
  <2>1. t.resends \in 0..MaxResends
    BY <1>1 DEF Tasks
  <2> QED
    BY <1>4, <1>5, <2>1 DEF TaskSend, TypeOK, hubVars, wireVars, brokerVars
<1>6. CASE TaskTimeout(t)
  <2>1. t.resends + 1 \in 0..MaxResends
    BY <1>1, <1>6 DEF Tasks, TaskTimeout
  <2> QED
    BY <1>4, <1>6, <2>1 DEF TaskTimeout, TypeOK, hubVars, wireVars, brokerVars
<1>7. CASE TaskAcked(t)
  <2>1. tasks' \subseteq Tasks
    BY <1>3, <1>7 DEF TaskAcked, AfterRecover, TypeOK
  <2> QED
    BY <1>2, <1>7, <2>1 DEF TaskAcked, TypeOK, netVars, wireVars, brokerVars
<1>8. CASE TaskRecoverAgain(t)
  BY <1>2, <1>3, <1>8
     DEF TaskRecoverAgain, TypeOK, netVars, wireVars, brokerVars
<1>9. CASE TaskNotify(t)
  <2>1. notified' \in [Requests -> Nat]
    BY <1>1, <1>9 DEF TaskNotify, TypeOK, Tasks
  <2>2. claimed' \subseteq Requests
    BY <1>1, <1>9 DEF TaskNotify, TypeOK, Tasks
  <2> QED
    BY <1>9, <2>1, <2>2
       DEF TaskNotify, TypeOK, hubVars, netVars, wireVars, brokerVars
<1> QED
  BY <1>5, <1>6, <1>7, <1>8, <1>9

LEMMA NetworkType ==
    TypeOK /\ (NetStep \/ NetConnectFail \/ NetLost) => TypeOK'
<1> SUFFICES ASSUME TypeOK, NetStep \/ NetConnectFail \/ NetLost
             PROVE  TypeOK'
  OBVIOUS
<1>1. CASE NetConnected
  BY <1>1 DEF NetConnected, TypeOK, hubVars, wireVars, brokerVars
<1>2. CASE NetWrite
  <2> DEFINE k == Head(netQ)
             p == [kind |-> k.kind, req |-> k.req, id |-> k.id]
  <2>1. k \in TaskKeys /\ netQ' \in Seq(TaskKeys)
    BY <1>2, HeadOfQueue DEF NetWrite, TypeOK
  <2>2. p \in Packets
    BY <2>1 DEF TaskKeys, Packets
  <2>3. toBroker' \in Seq(Packets)
    BY <1>2, <2>2 DEF NetWrite, TypeOK
  <2>4. tasks' \subseteq Tasks
    <3>1. \A t \in tasks, pc \in {"await", "notify"} :
            t \in Tasks /\ [t EXCEPT !.pc = pc] \in Tasks
      BY DEF TypeOK, Tasks
    <3> QED
      BY <1>2, <3>1 DEF NetWrite
  <2> QED
    BY <1>2, <2>1, <2>3, <2>4 DEF NetWrite, TypeOK, hubVars, brokerVars
<1>3. CASE NetForward
  <2>1. fromBroker' \in Seq(Acks)
    BY <1>3, HeadOfQueue DEF NetForward, TypeOK
  <2>2. tasks' \subseteq Tasks
    <3>1. Head(fromBroker).refused \in BOOLEAN
      <4>1. Head(fromBroker) \in Acks
        BY <1>3, HeadOfQueue DEF NetForward, TypeOK
      <4> QED
        BY <4>1 DEF Acks
    <3>2. \A t \in tasks, no \in BOOLEAN :
            t \in Tasks /\ [t EXCEPT !.acked = TRUE, !.refused = no] \in Tasks
      BY DEF TypeOK, Tasks
    <3> QED
      BY <1>3, <3>1, <3>2 DEF NetForward
  <2> QED
    BY <1>3, <2>1, <2>2 DEF NetForward, TypeOK, hubVars, netVars, brokerVars
<1>4. CASE NetConnectFail
  BY <1>4 DEF NetConnectFail, WithoutQueued, TypeOK, hubVars, wireVars,
              brokerVars
<1>5. CASE NetLost
  BY <1>5 DEF NetLost, WithoutQueued, TypeOK, hubVars, brokerVars
<1> QED
  BY <1>1, <1>2, <1>3, <1>4, <1>5 DEF NetStep

LEMMA BrokerTakeType == TypeOK /\ BrokerTake => TypeOK'
<1> SUFFICES ASSUME TypeOK, BrokerTake PROVE TypeOK'
  OBVIOUS
<1> DEFINE p == Head(toBroker)
           held == {h \in brokerHeld : h.id = p.id}
<1>1. p \in Packets /\ toBroker' \in Seq(Packets)
  BY HeadOfQueue DEF BrokerTake, TypeOK
<1>2. accepted' \in [Requests -> Nat]
  <2>1. accepted \in [Requests -> Nat] /\ p.req \in Requests
    BY <1>1 DEF TypeOK, Packets
  <2>2. [accepted EXCEPT ![p.req] = @ + 1] \in [Requests -> Nat]
    <3> HIDE DEF p
    <3> QED
      BY <2>1
  <2>3. accepted' = accepted \/ accepted' = [accepted EXCEPT ![p.req] = @ + 1]
    BY DEF BrokerTake
  <2> QED
    BY <2>1, <2>2, <2>3
<1>3. brokerHeld' \subseteq [req : Requests, id : 0..MaxPacketId]
  <2>1. [req |-> p.req, id |-> p.id] \in [req : Requests, id : 0..MaxPacketId]
    BY <1>1 DEF Packets
  <2>2. \/ brokerHeld' = brokerHeld \ held
        \/ brokerHeld' = brokerHeld \cup {[req |-> p.req, id |-> p.id]}
        \/ brokerHeld' = brokerHeld
    BY DEF BrokerTake
  <2> QED
    BY <2>1, <2>2 DEF TypeOK
<1>4. released' \subseteq Requests
  BY <1>1 DEF BrokerTake, TypeOK
<1>5. fromBroker' \in Seq(Acks)
  <2>1. Ack(p, FALSE) \in [kind : TaskKinds, id : 0..MaxPacketId,
                           refused : {FALSE}]
    BY <1>1 DEF Packets, Ack
  <2>2. fromBroker' = fromBroker \/ fromBroker' = Append(fromBroker, Ack(p, FALSE))
    BY DEF BrokerTake
  <2>3. fromBroker \in Seq(Acks) /\ Ack(p, FALSE) \in Acks
    BY <2>1 DEF TypeOK, Acks
  <2> QED
    <3> DEFINE a == Ack(p, FALSE)
    <3>1. fromBroker \in Seq(Acks) /\ a \in Acks
      BY <2>3
    <3>2. fromBroker' = fromBroker \/ fromBroker' = Append(fromBroker, a)
      BY <2>2
    <3> HIDE DEF a
    <3> QED
      BY <3>1, <3>2, AppendProperties
<1> QED
  BY <1>1, <1>2, <1>3, <1>4, <1>5 DEF BrokerTake, TypeOK, hubVars, netVars

LEMMA BrokerType == TypeOK /\ BrokerStep => TypeOK'
<1> SUFFICES ASSUME TypeOK, BrokerRefuse PROVE TypeOK'
  BY BrokerTakeType DEF BrokerStep
<1> DEFINE p == Head(toBroker)
<1>1. p \in Packets /\ toBroker' \in Seq(Packets)
  BY HeadOfQueue DEF BrokerRefuse, TypeOK
<1>2. /\ Ack(p, TRUE) \in [kind : TaskKinds, id : 0..MaxPacketId,
                             refused : {TRUE}]
      /\ p.req \in Requests
  BY <1>1 DEF Packets, Ack
<1>3. fromBroker' \in Seq(Acks) /\ refused' \subseteq Requests
  <2>1. Ack(p, TRUE) \in Acks
    BY <1>2 DEF Acks
  <2>2. fromBroker' = Append(fromBroker, Ack(p, TRUE))
    BY DEF BrokerRefuse
  <2>3. fromBroker \in Seq(Acks) /\ refused' \subseteq Requests
    BY <1>2 DEF BrokerRefuse, TypeOK
  <2> QED
    BY <2>1, <2>2, <2>3, AppendProperties
<1> QED
  BY <1>1, <1>3 DEF BrokerRefuse, TypeOK, hubVars, netVars

LEMMA NextType == TypeOK /\ [Next]_vars => TypeOK'
<1> SUFFICES ASSUME TypeOK, [Next]_vars PROVE TypeOK'
  OBVIOUS
<1>1. ASSUME NEW r \in Requests, ClientRequest(r) PROVE TypeOK'
  <2>1. DataMsg(r) \in HubMessages
    BY DEF DataMsg, HubMessages
  <2> QED
    BY <1>1, <2>1 DEF ClientRequest, TypeOK, netVars, wireVars, brokerVars
<1>2. CASE HubStep
  BY <1>2, HubStepType
<1>3. CASE TaskStep \/ \E t \in tasks : TaskTimeout(t)
  BY <1>3, TaskStepType DEF TaskStep
<1>4. CASE NetStep \/ NetConnectFail \/ NetLost
  BY <1>4, NetworkType
<1>5. CASE BrokerStep
  BY <1>5, BrokerType
<1>6. CASE UNCHANGED vars
  BY <1>6 DEF vars, TypeOK, hubVars, netVars, wireVars, brokerVars
<1> QED
  BY <1>1, <1>2, <1>3, <1>4, <1>5, <1>6 DEF Next

\* Every variable keeps its type, whatever the requests, the size of the pool
\* and the bounds (connect, run and the tasks they spawn).
THEOREM TypeCorrect == Spec => []TypeOK
<1>1. Init => TypeOK
  BY InitType
<1>2. TypeOK /\ [Next]_vars => TypeOK'
  BY NextType
<1> QED
  BY <1>1, <1>2, PTL DEF Spec

-----------------------------------------------------------------------------
(* The pool of packet ids.                                                 *)

LEMMA InitIds == Init => IdsConserved
<1> SUFFICES ASSUME Init PROVE IdsConserved
  OBVIOUS
<1>1. /\ freeIds = [i \in 1..MaxPacketId |-> i] /\ clientData = <<>>
      /\ DOMAIN freeIds = 1..MaxPacketId /\ Len(freeIds) = MaxPacketId
      /\ DOMAIN clientData = {} /\ Len(clientData) = 0
  BY DEF Init, FullPool
<1>2. HeldIds = {}
  BY <1>1 DEF HeldIds
<1>3. Range(freeIds) = 1..MaxPacketId
  BY <1>1 DEF Range
<1> QED
  BY <1>1, <1>2, <1>3 DEF IdsConserved

\* IdsConserved over the indices of the two sequences: what the steps below
\* assume and establish.
Indexed(s, c) ==
    /\ \A i, j \in 1..Len(s) : s[i] = s[j] => i = j
    /\ \A i, j \in 1..Len(c) : c[i].id = c[j].id => i = j
    /\ \A i \in 1..Len(s), j \in 1..Len(c) : s[i] # c[j].id
    /\ \A x \in 1..MaxPacketId : \/ \E i \in 1..Len(s) : s[i] = x
                                \/ \E j \in 1..Len(c) : c[j].id = x
    /\ Len(s) + Len(c) = MaxPacketId

LEMMA IdsByIndex ==
    ASSUME NEW s \in Seq(1..MaxPacketId), NEW c \in Seq(Entries)
    PROVE  Indexed(s, c) <=>
             /\ \A i, j \in DOMAIN s : s[i] = s[j] => i = j
             /\ \A i, j \in DOMAIN c : c[i].id = c[j].id => i = j
             /\ Range(s) \cap {c[j].id : j \in DOMAIN c} = {}
             /\ Range(s) \cup {c[j].id : j \in DOMAIN c} = 1..MaxPacketId
             /\ Len(s) + Len(c) = MaxPacketId
<1> DEFINE ids == {c[j].id : j \in DOMAIN c}
<1>1. DOMAIN s = 1..Len(s) /\ DOMAIN c = 1..Len(c)
  OBVIOUS
<1>2. \A i \in 1..Len(s) : s[i] \in 1..MaxPacketId
  BY ElementOfSeq
<1>3. \A j \in 1..Len(c) : c[j].id \in 1..MaxPacketId
  <2>1. \A j \in 1..Len(c) : c[j] \in Entries
    BY ElementOfSeq
  <2> QED
    BY <2>1 DEF Entries
<1>4. Range(s) \cap ids = {} <=>
        \A i \in 1..Len(s), j \in 1..Len(c) : s[i] # c[j].id
  BY <1>1 DEF Range
<1>5. Range(s) \cup ids = 1..MaxPacketId <=>
        \A x \in 1..MaxPacketId : \/ \E i \in 1..Len(s) : s[i] = x
                                 \/ \E j \in 1..Len(c) : c[j].id = x
  <2>1. Range(s) \subseteq 1..MaxPacketId /\ ids \subseteq 1..MaxPacketId
    BY <1>1, <1>2, <1>3 DEF Range
  <2>2. \A x : /\ x \in Range(s) <=> \E i \in 1..Len(s) : s[i] = x
               /\ x \in ids <=> \E j \in 1..Len(c) : c[j].id = x
    BY <1>1 DEF Range
  <2> HIDE DEF ids
  <2> QED
    BY <2>1, <2>2
<1> QED
  BY <1>1, <1>4, <1>5 DEF Indexed

\* A request takes the head of the pool to the end of client_data.
LEMMA TakeKeepsIds ==
    ASSUME TypeOK, TypeOK', IdsConserved, HubTakeTracked
    PROVE  IdsConserved'
<1> DEFINE n == Len(freeIds)
           m == Len(clientData)
           e == Entry(KindOf[Head(hubQ).arg], Head(hubQ).arg, Head(freeIds))
<1>1. /\ freeIds \in Seq(1..MaxPacketId) /\ freeIds # <<>>
      /\ clientData \in Seq(Entries)
      /\ freeIds' = Tail(freeIds) /\ clientData' = Append(clientData, e)
      /\ n \in Nat /\ m \in Nat
  <2>1. freeIds \in Seq(1..MaxPacketId) /\ clientData \in Seq(Entries)
    BY DEF TypeOK
  <2>2. /\ freeIds # <<>> /\ freeIds' = Tail(freeIds)
        /\ clientData' = Append(clientData, e)
    BY DEF HubTakeTracked
  <2> QED
    BY <2>1, <2>2, LenProperties
<1>2. /\ n > 0 /\ Len(freeIds') = n - 1
      /\ \A i \in 1..n - 1 : freeIds'[i] = freeIds[i + 1]
  BY <1>1
<1>3. /\ Len(clientData') = m + 1 /\ clientData'[m + 1].id = freeIds[1]
      /\ \A j \in 1..m : clientData'[j] = clientData[j]
  BY <1>1 DEF Entry
<1>4. /\ \A i, j \in 1..n : freeIds[i] = freeIds[j] => i = j
      /\ \A i, j \in 1..m : clientData[i].id = clientData[j].id => i = j
      /\ \A i \in 1..n, j \in 1..m : freeIds[i] # clientData[j].id
      /\ \A x \in 1..MaxPacketId :
            \/ \E i \in 1..n : freeIds[i] = x
            \/ \E j \in 1..m : clientData[j].id = x
      /\ n + m = MaxPacketId
  BY <1>1, IdsByIndex DEF Indexed, IdsConserved, HeldIds
<1> HIDE DEF n, m, e
<1>5. ASSUME NEW i \in 1..n - 1, NEW j \in 1..n - 1, freeIds'[i] = freeIds'[j]
      PROVE  i = j
  <2>1. /\ i \in Nat /\ j \in Nat
        /\ i + 1 \in 1..n /\ j + 1 \in 1..n
    BY <1>1
  <2>2. freeIds[i + 1] = freeIds[j + 1]
    BY <1>2, <1>5
  <2>3. i + 1 = j + 1
    BY <1>4, <2>1, <2>2
  <2> QED
    BY <2>1, <2>3
<1>6. \A i, j \in 1..m + 1 : clientData'[i].id = clientData'[j].id => i = j
  <2>1. 1 \in 1..n
    BY <1>1, <1>2
  <2>2. \A j \in 1..m : clientData'[j].id # clientData'[m + 1].id
    BY <1>3, <1>4, <2>1
  <2>3. \A i, j \in 1..m : clientData'[i].id = clientData'[j].id => i = j
    BY <1>3, <1>4
  <2>4. \A i \in 1..m + 1 : i \in 1..m \/ i = m + 1
    BY <1>1
  <2> QED
    BY <2>2, <2>3, <2>4
<1>7. \A i \in 1..n - 1, j \in 1..m + 1 : freeIds'[i] # clientData'[j].id
  BY <1>1, <1>2, <1>3, <1>4
<1>8. ASSUME NEW x \in 1..MaxPacketId
      PROVE  \/ \E i \in 1..n - 1 : freeIds'[i] = x
             \/ \E j \in 1..m + 1 : clientData'[j].id = x
  <2>1. CASE \E i \in 1..n : freeIds[i] = x
    <3>1. PICK i \in 1..n : freeIds[i] = x
      BY <2>1
    <3>2. CASE i = 1
      BY <1>1, <1>3, <3>1, <3>2
    <3>3. CASE i # 1
      <4>1. i - 1 \in 1..n - 1 /\ freeIds'[i - 1] = x
        BY <1>1, <1>2, <3>1, <3>3
      <4> QED
        BY <4>1
    <3> QED
      BY <3>2, <3>3
  <2>2. CASE \E j \in 1..m : clientData[j].id = x
    BY <1>1, <1>3, <2>2
  <2> QED
    BY <1>4, <2>1, <2>2
<1>9. Len(freeIds') + Len(clientData') = MaxPacketId
  <2>1. (n - 1) + (m + 1) = n + m
    BY <1>1
  <2> QED
    BY <1>2, <1>3, <1>4, <2>1
<1>10. Indexed(freeIds', clientData')
  BY <1>2, <1>3, <1>5, <1>6, <1>7, <1>8, <1>9 DEF Indexed
<1>11. freeIds' \in Seq(1..MaxPacketId) /\ clientData' \in Seq(Entries)
  BY DEF TypeOK
<1> QED
  BY <1>10, <1>11, IdsByIndex DEF IdsConserved, HeldIds

\* The entry of a QoS 2 publish keeps its place and its id as a PUBREL.
LEMMA RecKeepsIds ==
    ASSUME TypeOK, TypeOK', IdsConserved, HubRecoverRec
    PROVE  IdsConserved'
<1>1. PICK i \in DOMAIN clientData :
         clientData' = [clientData EXCEPT ![i] =
                            [clientData[i] EXCEPT !.kind = "PubRel"]]
  BY DEF HubRecoverRec
<1>2. freeIds' = freeIds
  BY DEF HubRecoverRec
<1>3. \A j \in DOMAIN clientData : clientData[j] \in Entries
  BY DEF TypeOK
<1>4. /\ DOMAIN clientData' = DOMAIN clientData
      /\ Len(clientData') = Len(clientData)
      /\ \A j \in DOMAIN clientData : clientData'[j].id = clientData[j].id
  <2>1. clientData \in Seq(Entries) /\ clientData' \in Seq(Entries)
    BY DEF TypeOK
  <2>2. DOMAIN clientData' = DOMAIN clientData
    BY <1>1, <2>1
  <2>3. Len(clientData') = Len(clientData)
    BY <2>1, <2>2
  <2>4. \A j \in DOMAIN clientData : clientData'[j].id = clientData[j].id
    BY <1>1, <1>3 DEF Entries
  <2> QED
    BY <2>2, <2>3, <2>4
<1>5. HeldIds' = HeldIds
  BY <1>4 DEF HeldIds
<1> QED
  BY <1>2, <1>4, <1>5 DEF IdsConserved

\* The id of a completed entry goes to the end of the pool; there is room.
LEMMA DoneKeepsIds ==
    ASSUME TypeOK, TypeOK', IdsConserved, HubRecoverDone
    PROVE  IdsConserved'
<1> DEFINE n == Len(freeIds)
           m == Len(clientData)
<1>1. /\ freeIds \in Seq(1..MaxPacketId) /\ clientData \in Seq(Entries)
      /\ freeIds' \in Seq(1..MaxPacketId) /\ clientData' \in Seq(Entries)
      /\ n \in Nat /\ m \in Nat
  BY DEF TypeOK
<1>2. PICK k \in 1..m : /\ clientData[k].id = Head(hubQ).arg
                        /\ clientData' = RemoveAt(clientData, k)
                        /\ freeIds' = Push(clientData[k].id)
  <2>1. PICK k \in DOMAIN clientData :
               /\ clientData[k].id = Head(hubQ).arg
               /\ clientData' = RemoveAt(clientData, k)
               /\ freeIds' = Push(Head(hubQ).arg)
    BY DEF HubRecoverDone, FirstWith
  <2>2. DOMAIN clientData = 1..m
    BY <1>1
  <2> QED
    BY <2>1, <2>2
<1> DEFINE id == clientData[k].id
<1>3. /\ \A i, j \in 1..n : freeIds[i] = freeIds[j] => i = j
      /\ \A i, j \in 1..m : clientData[i].id = clientData[j].id => i = j
      /\ \A i \in 1..n, j \in 1..m : freeIds[i] # clientData[j].id
      /\ \A x \in 1..MaxPacketId :
            \/ \E i \in 1..n : freeIds[i] = x
            \/ \E j \in 1..m : clientData[j].id = x
      /\ n + m = MaxPacketId
  BY <1>1, IdsByIndex DEF Indexed, IdsConserved, HeldIds
<1>4. n < MaxPacketId
  BY <1>1, <1>3
<1>5. freeIds' = Append(freeIds, id)
  BY <1>2, <1>4 DEF Push
<1>6. /\ Len(freeIds') = n + 1 /\ freeIds'[n + 1] = id
      /\ \A i \in 1..n : freeIds'[i] = freeIds[i]
  BY <1>1, <1>5
<1>7. /\ Len(clientData') = m - 1
      /\ \A j \in 1..m - 1 :
            clientData'[j] = IF j < k THEN clientData[j] ELSE clientData[j + 1]
  BY <1>1, <1>2, RemoveAtElements
<1> HIDE DEF n, m
<1>8. \A i, j \in 1..n + 1 : freeIds'[i] = freeIds'[j] => i = j
  <2> SUFFICES ASSUME NEW i \in 1..n + 1, NEW j \in 1..n + 1,
                      freeIds'[i] = freeIds'[j]
               PROVE  i = j
    OBVIOUS
  <2>1. \A l \in 1..n : freeIds'[l] # id
    BY <1>1, <1>3, <1>6
  <2>2. \A l \in 1..n + 1 : l \in 1..n \/ l = n + 1
    BY <1>1
  <2> QED
    BY <1>3, <1>6, <2>1, <2>2
\* Every entry that is left was another one before.
<1>9. \A j \in 1..m - 1 :
        \E l \in 1..m : /\ l # k /\ clientData'[j] = clientData[l]
                       /\ l = IF j < k THEN j ELSE j + 1
  BY <1>1, <1>2, <1>7
<1>10. \A i, j \in 1..m - 1 : clientData'[i].id = clientData'[j].id => i = j
  <2> SUFFICES ASSUME NEW i \in 1..m - 1, NEW j \in 1..m - 1,
                      clientData'[i].id = clientData'[j].id
               PROVE  i = j
    OBVIOUS
  <2>1. PICK a \in 1..m : /\ clientData'[i] = clientData[a]
                          /\ a = IF i < k THEN i ELSE i + 1
    BY <1>9
  <2>2. PICK b \in 1..m : /\ clientData'[j] = clientData[b]
                          /\ b = IF j < k THEN j ELSE j + 1
    BY <1>9
  <2>3. a = b
    BY <1>3, <2>1, <2>2
  <2> QED
    BY <1>1, <1>2, <2>1, <2>2, <2>3
<1>11. \A i \in 1..n + 1, j \in 1..m - 1 : freeIds'[i] # clientData'[j].id
  <2> SUFFICES ASSUME NEW i \in 1..n + 1, NEW j \in 1..m - 1
               PROVE  freeIds'[i] # clientData'[j].id
    OBVIOUS
  <2>1. PICK l \in 1..m : l # k /\ clientData'[j] = clientData[l]
    BY <1>9
  <2>2. CASE i = n + 1
    BY <1>3, <1>6, <2>1, <2>2
  <2>3. CASE i # n + 1
    <3>1. i \in 1..n
      BY <1>1, <2>3
    <3> QED
      BY <1>3, <1>6, <2>1, <3>1
  <2> QED
    BY <2>2, <2>3
<1>12. ASSUME NEW x \in 1..MaxPacketId
       PROVE  \/ \E i \in 1..n + 1 : freeIds'[i] = x
              \/ \E j \in 1..m - 1 : clientData'[j].id = x
  <2>1. CASE \E i \in 1..n : freeIds[i] = x
    BY <1>1, <1>6, <2>1
  <2>2. CASE \E j \in 1..m : clientData[j].id = x
    <3>1. PICK j \in 1..m : clientData[j].id = x
      BY <2>2
    <3>2. CASE j = k
      BY <1>1, <1>6, <3>1, <3>2
    <3>3. CASE j < k
      <4>1. j \in 1..m - 1 /\ clientData'[j].id = x
        BY <1>1, <1>2, <1>7, <3>1, <3>3
      <4> QED
        BY <4>1
    <3>4. CASE j > k
      <4>1. /\ j - 1 \in 1..m - 1 /\ ~(j - 1 < k)
            /\ (j - 1) + 1 = j
        BY <1>1, <1>2, <3>1, <3>4
      <4>2. clientData'[j - 1].id = x
        BY <1>7, <3>1, <4>1
      <4> QED
        BY <4>1, <4>2
    <3>5. j = k \/ j < k \/ j > k
      BY <1>1
    <3> QED
      BY <3>2, <3>3, <3>4, <3>5
  <2> QED
    BY <1>3, <2>1, <2>2
<1>13. (n + 1) + (m - 1) = MaxPacketId
  BY <1>1, <1>3
<1>14. Indexed(freeIds', clientData')
  BY <1>6, <1>7, <1>8, <1>10, <1>11, <1>12, <1>13 DEF Indexed
<1> QED
  BY <1>1, <1>14, IdsByIndex DEF IdsConserved, HeldIds

LEMMA SameIds ==
    ASSUME IdsConserved, UNCHANGED <<freeIds, clientData>>
    PROVE  IdsConserved'
  BY DEF IdsConserved, HeldIds, Range

LEMMA NextIds ==
    TypeOK /\ TypeOK' /\ IdsConserved /\ [Next]_vars => IdsConserved'
<1> SUFFICES ASSUME TypeOK, TypeOK', IdsConserved, [Next]_vars
             PROVE  IdsConserved'
  OBVIOUS
<1>1. CASE HubTakeTracked
  BY <1>1, TakeKeepsIds
<1>2. CASE HubRecoverRec
  BY <1>2, RecKeepsIds
<1>3. CASE HubRecoverDone
  BY <1>3, DoneKeepsIds
<1>4. CASE \/ HubStartNetwork \/ HubConnected \/ HubConnectFail \/ HubLost
           \/ HubTakeQos0 \/ HubPoolEmpty \/ HubRecoverUnknown
  BY <1>4, SameIds
     DEF HubStartNetwork, HubConnected, HubConnectFail, HubLost, HubTakeQos0,
         HubPoolEmpty, HubRecoverUnknown
<1>5. CASE \/ TaskStep \/ \E t \in tasks : TaskTimeout(t)
           \/ \E r \in Requests : ClientRequest(r)
  BY <1>5, SameIds
     DEF ClientRequest, TaskStep, TaskSend, TaskTimeout, TaskAcked,
         TaskRecoverAgain, TaskNotify, hubVars
<1>6. CASE NetStep \/ NetConnectFail \/ NetLost \/ BrokerStep
  BY <1>6, SameIds
     DEF NetStep, NetConnected, NetWrite, NetForward, NetConnectFail, NetLost,
         BrokerStep, BrokerTake, BrokerRefuse, hubVars
<1>7. CASE UNCHANGED vars
  BY <1>7, SameIds DEF vars, hubVars
<1> QED
  BY <1>1, <1>2, <1>3, <1>4, <1>5, <1>6, <1>7 DEF Next, HubStep

\* For every size of the pool and whatever the requests, the losses and the
\* duplicated RecoverId: an id is in the pool or in one entry, never in both,
\* never nowhere, so `find` is unambiguous and push never refuses.
THEOREM IdsAreConserved == Spec => []IdsConserved
<1>1. Init => TypeOK /\ IdsConserved
  BY InitType, InitIds
<1>2. TypeOK /\ IdsConserved /\ [Next]_vars => TypeOK' /\ IdsConserved'
  BY NextType, NextIds
<1> QED
  BY <1>1, <1>2, PTL DEF Spec

-----------------------------------------------------------------------------
(* No entry is forgotten.                                                  *)

\* What the hub has not read of the TaskNetwork, in each of its states.
NetworkEventsInv ==
    \/ hub = "ToConnect" /\ net = "none" /\ netEvents = <<>>
    \/ hub = "WaitNetwork" /\ net = "connecting" /\ netEvents = <<>>
    \/ hub = "WaitNetwork" /\ net = "up" /\ netEvents = <<"Connected">>
    \/ hub = "WaitNetwork" /\ net = "none" /\ netEvents = <<"ConnectFail">>
    \/ /\ hub = "WaitNetwork" /\ net = "none"
       /\ netEvents = <<"Connected", "ConnectedErr">>
    \/ hub = "Connected" /\ net = "up" /\ netEvents = <<>>
    \/ hub = "Connected" /\ net = "none" /\ netEvents = <<"ConnectedErr">>

\* A task that has not had its acknowledgement works on entry e, or the
\* RecoverId of e is on its way to the hub.
WorksOn(t, e) ==
    /\ t.pc \in {"send", "receipt", "await"}
    /\ t.req = e.req /\ t.kind = e.kind /\ t.id = e.id

AttendedIn(T, q, e) ==
    \/ \E t \in T : WorksOn(t, e)
    \/ RecoverMsg(e.id) \in Range(q)

AttendedInv ==
    hub = "Connected" /\ net = "up" =>
        \A i \in DOMAIN clientData : AttendedIn(tasks, hubQ, clientData[i])

\* Queues of at most two events.
LEMMA ShortQueues ==
    ASSUME NEW x, NEW y
    PROVE  /\ Head(<<x>>) = x /\ Tail(<<x>>) = <<>>
           /\ Head(<<x, y>>) = x /\ Tail(<<x, y>>) = <<y>>
           /\ Append(<<>>, x) = <<x>> /\ Append(<<x>>, y) = <<x, y>>
<1>1. Head(<<x>>) = x /\ Head(<<x, y>>) = x
  OBVIOUS
<1>2. Tail(<<x>>) = <<>>
  OBVIOUS
<1>3. Tail(<<x, y>>) = <<y>>
  OBVIOUS
<1>4. Append(<<>>, x) = <<x>>
  OBVIOUS
<1>5. Append(<<x>>, y) = <<x, y>>
  <2> DEFINE S == {x, y}
             s == Append(<<x>>, y)
  <2>1. <<x>> \in Seq(S) /\ <<x, y>> \in Seq(S) /\ x \in S /\ y \in S
    OBVIOUS
  <2>2. /\ s \in Seq(S) /\ Len(s) = 2
        /\ s[1] = x /\ s[2] = y
    BY <2>1
  <2>3. Len(<<x, y>>) = 2 /\ <<x, y>>[1] = x /\ <<x, y>>[2] = y
    OBVIOUS
  <2>4. \A i \in 1..2 : i = 1 \/ i = 2
    OBVIOUS
  <2> HIDE DEF S, s
  <2>5. \A i \in 1..2 : s[i] = <<x, y>>[i]
    BY <2>2, <2>3, <2>4
  <2>6. s = <<x, y>>
    BY <2>1, <2>2, <2>3, <2>5, SeqEqual
  <2> QED
    BY <2>6 DEF s
<1> QED
  BY <1>1, <1>2, <1>3, <1>4, <1>5

LEMMA NextNetworkEvents ==
    NetworkEventsInv /\ [Next]_vars => NetworkEventsInv'
<1> SUFFICES ASSUME NetworkEventsInv, [Next]_vars PROVE NetworkEventsInv'
  OBVIOUS
<1>1. CASE HubStartNetwork
  BY <1>1 DEF HubStartNetwork, NetworkEventsInv
<1>2. CASE HubConnected \/ HubConnectFail \/ HubLost
  <2>1. CASE HubConnected
    <3>1. /\ hub = "WaitNetwork" /\ netEvents # <<>>
          /\ Head(netEvents) = "Connected"
          /\ hub' = "Connected" /\ net' = net /\ netEvents' = Tail(netEvents)
      BY <2>1 DEF HubConnected
    <3>2. \/ net = "up" /\ netEvents = <<"Connected">>
          \/ net = "none" /\ netEvents = <<"Connected", "ConnectedErr">>
      BY <3>1, ShortQueues DEF NetworkEventsInv
    <3>3. \/ net' = "up" /\ netEvents' = <<>>
          \/ net' = "none" /\ netEvents' = <<"ConnectedErr">>
      <4>1. /\ Tail(<<"Connected">>) = <<>>
            /\ Tail(<<"Connected", "ConnectedErr">>) = <<"ConnectedErr">>
        BY ShortQueues
      <4> QED
        BY <3>1, <3>2, <4>1
    <3> QED
      BY <3>1, <3>3 DEF NetworkEventsInv
  <2>2. CASE HubConnectFail
    <3>1. /\ hub = "WaitNetwork" /\ netEvents # <<>>
          /\ Head(netEvents) = "ConnectFail"
          /\ hub' = "ToConnect" /\ net' = net /\ netEvents' = Tail(netEvents)
      BY <2>2 DEF HubConnectFail
    <3>2. net = "none" /\ netEvents = <<"ConnectFail">>
      BY <3>1, ShortQueues DEF NetworkEventsInv
    <3> QED
      BY <3>1, <3>2, ShortQueues DEF NetworkEventsInv
  <2>3. CASE HubLost
    <3>1. /\ hub = "Connected" /\ netEvents # <<>>
          /\ hub' = "ToConnect" /\ net' = net /\ netEvents' = Tail(netEvents)
      BY <2>3 DEF HubLost
    <3>2. net = "none" /\ netEvents = <<"ConnectedErr">>
      BY <3>1 DEF NetworkEventsInv
    <3> QED
      BY <3>1, <3>2, ShortQueues DEF NetworkEventsInv
  <2> QED
    BY <1>2, <2>1, <2>2, <2>3
<1>3. CASE NetConnected \/ NetConnectFail \/ NetLost
  <2>1. CASE NetConnected \/ NetConnectFail
    BY <2>1, ShortQueues
       DEF NetConnected, NetConnectFail, NetworkEventsInv, hubVars
  <2>2. CASE NetLost
    <3>1. /\ hub' = hub /\ net = "up" /\ net' = "none"
          /\ netEvents' = Append(netEvents, "ConnectedErr")
      BY <2>2 DEF NetLost, hubVars
    <3>2. \/ hub = "WaitNetwork" /\ netEvents = <<"Connected">>
          \/ hub = "Connected" /\ netEvents = <<>>
      BY <3>1 DEF NetworkEventsInv
    <3>3. /\ Append(<<"Connected">>, "ConnectedErr")
                = <<"Connected", "ConnectedErr">>
          /\ Append(<<>>, "ConnectedErr") = <<"ConnectedErr">>
      BY ShortQueues
    <3> QED
      BY <3>1, <3>2, <3>3 DEF NetworkEventsInv
  <2> QED
    BY <1>3, <2>1, <2>2
<1>4. CASE UNCHANGED <<hub, net, netEvents>>
  BY <1>4 DEF NetworkEventsInv
<1>5. CASE \/ HubTakeQos0 \/ HubTakeTracked \/ HubPoolEmpty \/ HubRecoverRec
           \/ HubRecoverDone \/ HubRecoverUnknown
  BY <1>4, <1>5 DEF HubTakeQos0, HubTakeTracked, HubPoolEmpty, HubRecoverRec,
                    HubRecoverDone, HubRecoverUnknown, HubReads, netVars
<1>6. CASE \/ TaskStep \/ \E t \in tasks : TaskTimeout(t)
           \/ \E r \in Requests : ClientRequest(r)
  BY <1>4, <1>6 DEF ClientRequest, TaskStep, TaskSend, TaskTimeout, TaskAcked,
                    TaskRecoverAgain, TaskNotify, hubVars, netVars
<1>7. CASE NetWrite \/ NetForward \/ BrokerStep \/ UNCHANGED vars
  BY <1>4, <1>7 DEF NetWrite, NetForward, BrokerStep, BrokerTake, BrokerRefuse, vars,
                   hubVars, netVars
<1> QED
  BY <1>1, <1>2, <1>3, <1>5, <1>6, <1>7 DEF Next, HubStep, NetStep

LEMMA RangeOfQueue ==
    ASSUME NEW S, NEW q \in Seq(S)
    PROVE  /\ \A x \in S : Range(Append(q, x)) = Range(q) \cup {x}
           /\ q # <<>> => Range(q) = {Head(q)} \cup Range(Tail(q))
<1>1. ASSUME NEW x \in S
      PROVE  Range(Append(q, x)) = Range(q) \cup {x}
  <2>1. /\ Len(q) \in Nat /\ DOMAIN q = 1..Len(q)
        /\ DOMAIN Append(q, x) = 1..Len(q) + 1
        /\ \A i \in 1..Len(q) : Append(q, x)[i] = q[i]
        /\ Append(q, x)[Len(q) + 1] = x
    OBVIOUS
  <2>2. Range(Append(q, x)) \subseteq Range(q) \cup {x}
    <3>1. \A i \in 1..Len(q) + 1 : i \in 1..Len(q) \/ i = Len(q) + 1
      BY <2>1
    <3> QED
      BY <2>1, <3>1 DEF Range
  <2>3. Range(q) \cup {x} \subseteq Range(Append(q, x))
    <3>1. \A i \in 1..Len(q) : i \in 1..Len(q) + 1
      BY <2>1
    <3>2. Len(q) + 1 \in 1..Len(q) + 1
      BY <2>1
    <3> QED
      BY <2>1, <3>1, <3>2 DEF Range
  <2> QED
    BY <2>2, <2>3
<1>2. ASSUME q # <<>>
      PROVE  Range(q) = {Head(q)} \cup Range(Tail(q))
  <2>1. /\ Len(q) \in Nat \ {0} /\ Head(q) = q[1]
        /\ DOMAIN q = 1..Len(q) /\ DOMAIN Tail(q) = 1..Len(q) - 1
        /\ \A i \in 1..Len(q) - 1 : Tail(q)[i] = q[i + 1]
    BY <1>2
  <2>2. ASSUME NEW i \in 1..Len(q), i # 1
        PROVE  q[i] \in Range(Tail(q))
    <3>1. i - 1 \in 1..Len(q) - 1 /\ (i - 1) + 1 = i
      BY <2>1, <2>2
    <3>2. Tail(q)[i - 1] = q[i]
      BY <2>1, <3>1
    <3> QED
      BY <2>1, <3>1, <3>2 DEF Range
  <2>3. ASSUME NEW i \in 1..Len(q) - 1
        PROVE  Tail(q)[i] \in Range(q)
    BY <2>1 DEF Range
  <2>4. Range(q) \subseteq {Head(q)} \cup Range(Tail(q))
    BY <2>1, <2>2 DEF Range
  <2>5. {Head(q)} \cup Range(Tail(q)) \subseteq Range(q)
    BY <2>1, <2>3 DEF Range
  <2> QED
    BY <2>4, <2>5
<1> QED
  BY <1>1, <1>2

\* A step that leaves client_data alone and attends to what was attended to.
LEMMA AttendedKept ==
    ASSUME TypeOK, AttendedInv, clientData' = clientData,
           hub' = "Connected" /\ net' = "up" => hub = "Connected" /\ net = "up",
           \A e \in Entries : AttendedIn(tasks, hubQ, e) => AttendedIn(tasks', hubQ', e)
    PROVE  AttendedInv'
<1>1. \A i \in DOMAIN clientData : clientData[i] \in Entries
  BY DEF TypeOK
<1> QED
  BY <1>1 DEF AttendedInv, AttendedIn, WorksOn

\* An event at the end of the queue of the hub.
LEMMA MessageKept ==
    ASSUME TypeOK, NEW m \in HubMessages, hubQ' = Append(hubQ, m)
    PROVE  Range(hubQ') = Range(hubQ) \cup {m}
  BY RangeOfQueue DEF TypeOK

LEMMA TaskKeepsAttended ==
    ASSUME TypeOK, AttendedInv, NetworkEventsInv, NEW t \in tasks,
           TaskSend(t) \/ TaskTimeout(t) \/ TaskAcked(t)
               \/ TaskRecoverAgain(t) \/ TaskNotify(t)
    PROVE  AttendedInv'
<1>1. t \in Tasks /\ RecoverMsg(t.id) \in HubMessages
  BY DEF TypeOK, Tasks, RecoverMsg, HubMessages
<1>2. ASSUME NEW n, Transmit(t, n), t.pc \in {"send", "await"},
             UNCHANGED <<hub, hubQ, clientData, net>>
      PROVE  AttendedInv'
  <2>1. CASE net = "up"
    <3>1. /\ tasks' = (tasks \ {t})
                        \cup {[t EXCEPT !.pc = "receipt", !.resends = n]}
      BY <1>2, <2>1 DEF Transmit
    <3>2. \A e : WorksOn(t, e)
                => WorksOn([t EXCEPT !.pc = "receipt", !.resends = n], e)
      BY <1>1 DEF WorksOn, Tasks
    <3>3. ASSUME NEW e \in Entries, AttendedIn(tasks, hubQ, e)
          PROVE  AttendedIn(tasks', hubQ', e)
      <4>1. CASE \E u \in tasks : WorksOn(u, e)
        <5>1. PICK u \in tasks : WorksOn(u, e)
          BY <4>1
        <5>2. CASE u = t
          BY <3>1, <3>2, <5>1, <5>2 DEF AttendedIn, WorksOn
        <5>3. CASE u # t
          BY <3>1, <5>1, <5>3 DEF AttendedIn, WorksOn
        <5> QED
          BY <5>2, <5>3
      <4>2. CASE RecoverMsg(e.id) \in Range(hubQ)
        BY <1>2, <4>2 DEF AttendedIn, RecoverMsg
      <4> QED
        BY <3>3, <4>1, <4>2 DEF AttendedIn
    <3> QED
      BY <1>2, <3>3, AttendedKept
  <2>2. CASE net # "up"
    BY <1>2, <2>2 DEF AttendedInv
  <2> QED
    BY <2>1, <2>2
<1>3. CASE TaskSend(t)
  BY <1>2, <1>3 DEF TaskSend, hubVars
<1>4. CASE TaskTimeout(t)
  BY <1>2, <1>4 DEF TaskTimeout, hubVars
<1>5. CASE TaskAcked(t)
  <2>1. Range(hubQ') = Range(hubQ) \cup {RecoverMsg(t.id)}
    BY <1>1, <1>5, MessageKept DEF TaskAcked
  <2>2. tasks \ {t} \subseteq tasks'
    BY <1>5 DEF TaskAcked, AfterRecover, Goto
  <2>3. ASSUME NEW e \in Entries, AttendedIn(tasks, hubQ, e)
        PROVE  AttendedIn(tasks', hubQ', e)
    <3>1. ASSUME NEW u \in tasks, WorksOn(u, e), u # t
          PROVE  \E v \in tasks' : WorksOn(v, e)
      BY <2>2, <3>1
    <3>2. WorksOn(t, e) => RecoverMsg(e.id) \in Range(hubQ')
      BY <2>1 DEF WorksOn
    <3> QED
      BY <2>1, <2>3, <3>1, <3>2 DEF AttendedIn, WorksOn, RecoverMsg
  <2> QED
    BY <1>5, <2>3, AttendedKept DEF TaskAcked, netVars
<1>6. CASE TaskRecoverAgain(t)
  <2>1. Range(hubQ') = Range(hubQ) \cup {RecoverMsg(t.id)}
    BY <1>1, <1>6, MessageKept DEF TaskRecoverAgain
  <2>2. tasks \ {t} \subseteq tasks' /\ \A e : ~WorksOn(t, e)
    BY <1>6 DEF TaskRecoverAgain, Goto, WorksOn
  <2>3. \A e \in Entries : AttendedIn(tasks, hubQ, e) => AttendedIn(tasks', hubQ', e)
    BY <2>1, <2>2 DEF AttendedIn, WorksOn, RecoverMsg
  <2> QED
    BY <1>6, <2>3, AttendedKept DEF TaskRecoverAgain, netVars
<1>7. CASE TaskNotify(t)
  <2>1. tasks \ {t} \subseteq tasks' /\ \A e : ~WorksOn(t, e)
    BY <1>7 DEF TaskNotify, WorksOn
  <2>2. \A e \in Entries : AttendedIn(tasks, hubQ, e) => AttendedIn(tasks', hubQ', e)
    BY <1>7, <2>1 DEF TaskNotify, hubVars, AttendedIn, WorksOn, RecoverMsg
  <2> QED
    BY <1>7, <2>2, AttendedKept DEF TaskNotify, hubVars, netVars
<1> QED
  BY <1>3, <1>4, <1>5, <1>6, <1>7

\* The hub reads an event that is not the RecoverId of the entry.
LEMMA OtherMessageKept ==
    ASSUME TypeOK, NEW type, HubReads(type), NEW id,
           RecoverMsg(id) \in Range(hubQ), RecoverMsg(id) # Head(hubQ)
    PROVE  RecoverMsg(id) \in Range(hubQ')
  BY RangeOfQueue DEF HubReads, TypeOK

LEMMA HubKeepsAttended ==
    ASSUME TypeOK, TypeOK', AttendedInv, IdsConserved, NetworkEventsInv, HubStep
    PROVE  AttendedInv'
<1>1. CASE HubStartNetwork \/ HubConnectFail \/ HubLost
  BY <1>1 DEF HubStartNetwork, HubConnectFail, HubLost, AttendedInv
\* Every entry gets a task.
<1>2. CASE HubConnected
  <2>1. ASSUME NEW i \in DOMAIN clientData
        PROVE  WorksOn(TaskOf(clientData[i]), clientData[i])
    BY DEF WorksOn, TaskOf, NewTask
  <2>2. ASSUME NEW i \in DOMAIN clientData
        PROVE  TaskOf(clientData[i]) \in tasks'
    BY <1>2 DEF HubConnected, Respawned, Range
  <2>3. clientData' = clientData
    BY <1>2 DEF HubConnected
  <2> QED
    BY <2>1, <2>2, <2>3 DEF AttendedInv, AttendedIn, WorksOn
<1>3. ASSUME NEW e \in Entries, AttendedIn(tasks, hubQ, e), tasks \subseteq tasks',
             NEW type, HubReads(type), RecoverMsg(e.id) # Head(hubQ)
      PROVE  AttendedIn(tasks', hubQ', e)
  BY <1>3, OtherMessageKept DEF AttendedIn, WorksOn, RecoverMsg
<1>4. ASSUME HubReads("Data"), tasks \subseteq tasks', NEW e \in Entries,
             AttendedIn(tasks, hubQ, e)
      PROVE  AttendedIn(tasks', hubQ', e)
  <2>1. RecoverMsg(e.id) # Head(hubQ)
    BY <1>4 DEF HubReads, RecoverMsg
  <2> QED
    BY <1>3, <1>4, <2>1
<1>5. CASE HubTakeQos0 \/ HubPoolEmpty
  <2>1. HubReads("Data") /\ tasks \subseteq tasks' /\ clientData' = clientData
    BY <1>5 DEF HubTakeQos0, HubPoolEmpty
  <2> QED
    BY <1>4, <2>1, AttendedKept DEF HubReads, netVars
<1>6. CASE HubTakeTracked
  <2> DEFINE e == Entry(KindOf[Head(hubQ).arg], Head(hubQ).arg, Head(freeIds))
  <2>1. /\ HubReads("Data") /\ tasks' = tasks \cup {TaskOf(e)}
        /\ clientData' = Append(clientData, e)
    BY <1>6 DEF HubTakeTracked
  <2> HIDE DEF e
  <2>2. /\ Len(clientData) \in Nat
        /\ DOMAIN clientData' = 1..Len(clientData) + 1
        /\ clientData'[Len(clientData) + 1] = e
        /\ \A i \in 1..Len(clientData) : /\ clientData'[i] = clientData[i]
                                        /\ clientData[i] \in Entries
                                        /\ i \in DOMAIN clientData
    <3>1. clientData \in Seq(Entries) /\ clientData' \in Seq(Entries)
      BY DEF TypeOK
    <3>2. /\ Len(clientData) \in Nat
          /\ \A i \in 1..Len(clientData) : clientData[i] \in Entries
          /\ DOMAIN clientData = 1..Len(clientData)
      BY <3>1, LenProperties, ElementOfSeq
    <3>3. /\ DOMAIN clientData' = 1..Len(clientData')
          /\ Len(clientData') = Len(clientData) + 1
          /\ clientData'[Len(clientData) + 1] = e
          /\ \A i \in 1..Len(clientData) : clientData'[i] = clientData[i]
      BY <2>1, <3>1, <3>2
    <3> QED
      BY <3>2, <3>3
  <2>3. \E t \in tasks' : WorksOn(t, e)
    <3>1. WorksOn(TaskOf(e), e)
      BY DEF WorksOn, TaskOf, NewTask
    <3> QED
      BY <2>1, <3>1
  <2>4. ASSUME hub = "Connected", net = "up", NEW i \in DOMAIN clientData'
        PROVE  AttendedIn(tasks', hubQ', clientData'[i])
    <3>1. CASE i = Len(clientData) + 1
      BY <2>2, <2>3, <3>1 DEF AttendedIn, WorksOn
    <3>2. CASE i # Len(clientData) + 1
      <4>1. i \in 1..Len(clientData)
        BY <2>2, <3>2
      <4>2. AttendedIn(tasks, hubQ, clientData[i]) /\ clientData[i] \in Entries
        BY <2>2, <2>4, <4>1 DEF AttendedInv
      <4>3. AttendedIn(tasks', hubQ', clientData[i])
        BY <1>4, <2>1, <4>2 DEF AttendedIn, WorksOn
      <4> QED
        BY <2>2, <4>1, <4>3 DEF AttendedIn, WorksOn
    <3> QED
      BY <3>1, <3>2
  <2> QED
    BY <2>1, <2>4 DEF AttendedInv, HubReads, netVars
\* The entry is now a PUBREL with a task of its own; the other entries have
\* other ids, so that the RecoverId the hub reads is not theirs.
<1>7. CASE HubRecoverRec
  <2>1. PICK k \in DOMAIN clientData :
          /\ clientData[k].id = Head(hubQ).arg
          /\ clientData' = [clientData EXCEPT ![k] =
                                [clientData[k] EXCEPT !.kind = "PubRel"]]
          /\ tasks' = tasks \cup
                      {TaskOf([clientData[k] EXCEPT !.kind = "PubRel"])}
    BY <1>7 DEF HubRecoverRec, FirstWith
  <2>2. HubReads("RecoverId")
    BY <1>7 DEF HubRecoverRec
  <2> DEFINE e == [clientData[k] EXCEPT !.kind = "PubRel"]
  <2>3. WorksOn(TaskOf(e), e)
    BY DEF WorksOn, TaskOf, NewTask
  <2>4. ASSUME hub = "Connected", net = "up", NEW i \in DOMAIN clientData
        PROVE  AttendedIn(tasks', hubQ', clientData'[i])
    <3>1. CASE i = k
      <4>1. clientData'[i] = e /\ TaskOf(e) \in tasks'
        BY <2>1, <3>1
      <4> QED
        BY <2>3, <4>1 DEF AttendedIn
    <3>2. CASE i # k
      <4>1. clientData'[i] = clientData[i] /\ clientData[i] \in Entries
        <5>1. clientData[i] \in Entries
          BY <2>4 DEF TypeOK
        <5> QED
          BY <2>1, <3>2, <5>1
      <4>2. RecoverMsg(clientData[i].id) # Head(hubQ)
        BY <2>1, <3>2 DEF IdsConserved, RecoverMsg
      <4>3. AttendedIn(tasks, hubQ, clientData[i])
        BY <2>4 DEF AttendedInv
      <4> QED
        BY <1>3, <2>1, <2>2, <4>1, <4>2, <4>3
    <3> QED
      BY <3>1, <3>2
  <2>5. DOMAIN clientData' = DOMAIN clientData
    BY <2>1
  <2> QED
    BY <2>2, <2>4, <2>5 DEF AttendedInv, HubReads, netVars
<1>8. CASE HubRecoverDone
  <2>1. PICK k \in 1..Len(clientData) :
          /\ clientData[k].id = Head(hubQ).arg
          /\ clientData' = RemoveAt(clientData, k)
    <3>1. DOMAIN clientData = 1..Len(clientData)
      BY DEF TypeOK
    <3> QED
      BY <1>8, <3>1 DEF HubRecoverDone, FirstWith
  <2>2. HubReads("RecoverId") /\ tasks' = tasks
    BY <1>8 DEF HubRecoverDone
  <2>3. /\ clientData \in Seq(Entries) /\ Len(clientData) \in Nat
        /\ DOMAIN clientData = 1..Len(clientData)
        /\ DOMAIN clientData' = 1..Len(clientData')
    BY DEF TypeOK
  <2>4. /\ Len(clientData') = Len(clientData) - 1
        /\ \A j \in 1..Len(clientData) - 1 :
              clientData'[j] = IF j < k THEN clientData[j]
                                        ELSE clientData[j + 1]
    BY <2>1, <2>3, RemoveAtElements
  <2>5. ASSUME NEW j \in DOMAIN clientData'
        PROVE  \E l \in DOMAIN clientData :
                 l # k /\ clientData'[j] = clientData[l]
    <3>1. CASE j < k
      BY <2>3, <2>4, <3>1
    <3>2. CASE j >= k
      <4>1. j + 1 \in DOMAIN clientData /\ j + 1 # k /\ ~(j < k)
        BY <2>3, <2>4, <3>2
      <4> QED
        BY <2>3, <2>4, <4>1
    <3>3. j < k \/ j >= k
      BY <2>3, <2>4
    <3> QED
      BY <3>1, <3>2, <3>3
  <2>6. ASSUME hub = "Connected", net = "up", NEW j \in DOMAIN clientData'
        PROVE  AttendedIn(tasks', hubQ', clientData'[j])
    <3>1. PICK l \in DOMAIN clientData :
             l # k /\ clientData'[j] = clientData[l]
      BY <2>5
    <3>2. RecoverMsg(clientData[l].id) # Head(hubQ)
      BY <2>1, <2>3, <3>1 DEF IdsConserved, RecoverMsg
    <3>3. AttendedIn(tasks, hubQ, clientData[l]) /\ clientData[l] \in Entries
      BY <2>3, <2>6 DEF AttendedInv
    <3> QED
      BY <1>3, <2>2, <3>1, <3>2, <3>3
  <2> QED
    BY <2>2, <2>6 DEF AttendedInv, HubReads, netVars
<1>9. CASE HubRecoverUnknown
  <2>1. /\ HubReads("RecoverId") /\ tasks' = tasks /\ clientData' = clientData
        /\ \A e \in Range(clientData) : e.id # Head(hubQ).arg
    BY <1>9 DEF HubRecoverUnknown
  <2>2. ASSUME hub = "Connected", net = "up", NEW i \in DOMAIN clientData
        PROVE  AttendedIn(tasks', hubQ', clientData[i])
    <3>1. RecoverMsg(clientData[i].id) # Head(hubQ)
      BY <2>1 DEF Range, RecoverMsg
    <3>2. AttendedIn(tasks, hubQ, clientData[i]) /\ clientData[i] \in Entries
      BY <2>2 DEF AttendedInv, TypeOK
    <3> QED
      BY <1>3, <2>1, <3>1, <3>2
  <2> QED
    BY <2>1, <2>2 DEF AttendedInv, HubReads, netVars
<1> QED
  BY <1>1, <1>2, <1>5, <1>6, <1>7, <1>8, <1>9 DEF HubStep

LEMMA NextAttended ==
    /\ TypeOK /\ TypeOK' /\ IdsConserved /\ NetworkEventsInv
    /\ AttendedInv /\ [Next]_vars
    => AttendedInv'
<1> SUFFICES ASSUME TypeOK, TypeOK', IdsConserved, NetworkEventsInv,
                    AttendedInv, [Next]_vars
             PROVE  AttendedInv'
  OBVIOUS
<1>1. CASE HubStep
  BY <1>1, HubKeepsAttended
<1>2. CASE TaskStep \/ \E t \in tasks : TaskTimeout(t)
  BY <1>2, TaskKeepsAttended DEF TaskStep
<1>3. ASSUME NEW r \in Requests, ClientRequest(r) PROVE AttendedInv'
  <2>1. DataMsg(r) \in HubMessages
    BY DEF DataMsg, HubMessages
  <2>2. Range(hubQ) \subseteq Range(hubQ')
    BY <1>3, <2>1, MessageKept DEF ClientRequest
  <2>3. \A e \in Entries : AttendedIn(tasks, hubQ, e)
                            => AttendedIn(tasks', hubQ', e)
    BY <1>3, <2>2 DEF ClientRequest, AttendedIn
  <2> QED
    BY <1>3, <2>3, AttendedKept DEF ClientRequest, netVars
\* The hub is not connected, or the connection is gone.
<1>4. CASE NetConnected \/ NetConnectFail \/ NetLost
  BY <1>4 DEF NetConnected, NetConnectFail, NetLost, AttendedInv, hubVars,
              NetworkEventsInv
<1>5. CASE NetWrite
  <2>1. ASSUME NEW e \in Entries, NEW t \in tasks, WorksOn(t, e)
        PROVE  \E u \in tasks' : WorksOn(u, e)
    <3> DEFINE u == IF TaskKey(t) = Head(netQ)
                    THEN [t EXCEPT !.pc = IF t.kind = "QoS0" THEN "notify"
                                                             ELSE "await"]
                    ELSE t
    <3>1. u \in tasks'
      BY <1>5 DEF NetWrite
    <3>2. t \in Tasks /\ t.kind # "QoS0"
      BY <2>1 DEF TypeOK, WorksOn, Entries
    <3>3. WorksOn(u, e)
      BY <2>1, <3>2 DEF WorksOn, Tasks
    <3> QED
      BY <3>1, <3>3
  <2>2. \A e \in Entries : AttendedIn(tasks, hubQ, e)
                            => AttendedIn(tasks', hubQ', e)
    BY <1>5, <2>1 DEF NetWrite, hubVars, AttendedIn
  <2> QED
    BY <1>5, <2>2, AttendedKept DEF NetWrite, hubVars
<1>6. CASE NetForward
  <2>1. ASSUME NEW e \in Entries, NEW t \in tasks, WorksOn(t, e)
        PROVE  \E u \in tasks' : WorksOn(u, e)
    <3> DEFINE a == Head(fromBroker)
               u == IF IsRel(a, t) /\ ~t.acked
                    THEN [t EXCEPT !.acked = TRUE, !.refused = a.refused]
                    ELSE t
    <3>1. u \in tasks'
      BY <1>6 DEF NetForward
    <3>2. t \in Tasks
      BY DEF TypeOK
    <3>3. WorksOn(u, e)
      BY <2>1, <3>2 DEF WorksOn, Tasks
    <3> QED
      BY <3>1, <3>3
  <2>2. \A e \in Entries : AttendedIn(tasks, hubQ, e)
                            => AttendedIn(tasks', hubQ', e)
    BY <1>6, <2>1 DEF NetForward, hubVars, AttendedIn
  <2> QED
    BY <1>6, <2>2, AttendedKept DEF NetForward, hubVars, netVars
<1>7. CASE BrokerStep \/ UNCHANGED vars
  <2>1. UNCHANGED <<hubVars, tasks, net>>
    BY <1>7 DEF BrokerStep, BrokerTake, BrokerRefuse, vars, netVars
  <2> QED
    BY <2>1, AttendedKept DEF hubVars
<1> QED
  BY <1>1, <1>2, <1>3, <1>4, <1>5, <1>6, <1>7 DEF Next, NetStep

\* While the client is connected every entry of client_data has a task, a
\* RecoverId on its way, or the loss of the connection is about to be read and
\* every entry will get a task on the next one.
THEOREM NoEntryForgotten == Spec => []EntryAttended
<1> DEFINE Inv == TypeOK /\ IdsConserved /\ NetworkEventsInv /\ AttendedInv
<1>1. Init => Inv
  BY InitType, InitIds DEF Init, NetworkEventsInv, AttendedInv
<1>2. Inv /\ [Next]_vars => Inv'
  BY NextType, NextIds, NextNetworkEvents, NextAttended
<1>3. Inv => EntryAttended
  <2> SUFFICES ASSUME Inv, hub = "Connected", NEW e \in Range(clientData),
                      "ConnectedErr" \notin Range(netEvents)
               PROVE  \/ \E t \in tasks : t.req = e.req /\ t.kind = e.kind
                      \/ RecoverMsg(e.id) \in Range(hubQ)
    BY DEF EntryAttended
  <2>1. "ConnectedErr" \in Range(<<"ConnectedErr">>)
    <3>1. 1 \in DOMAIN <<"ConnectedErr">> /\ <<"ConnectedErr">>[1] = "ConnectedErr"
      OBVIOUS
    <3> QED
      BY <3>1 DEF Range
  <2>2. net = "up"
    BY <2>1 DEF NetworkEventsInv
  <2>3. AttendedIn(tasks, hubQ, e)
    BY <2>2 DEF AttendedInv, Range
  <2> QED
    BY <2>3 DEF AttendedIn, WorksOn
<1> HIDE DEF Inv
<1> QED
  BY <1>1, <1>2, <1>3, PTL DEF Spec

=============================================================================
