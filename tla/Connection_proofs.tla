-------------------------- MODULE Connection_proofs --------------------------
(* Theorems about Connection, for every number of networks, failures and   *)
(* pings.                                                                  *)
EXTENDS Connection, SequenceLemmas, FiniteSetTheorems

USE NetworksAssumption, BoundAssumption

EventTypes == {"Connected", "ConnectFail", "ConnectedErr", "BrokerDisconnect"}
PingMsgs == {"KeepAlive", "PingSuccess", "PingFail"}

-----------------------------------------------------------------------------
(* Type correctness.                                                       *)

LEMMA RemoveAtType ==
    ASSUME NEW S, NEW q \in Seq(S), NEW i \in DOMAIN q
    PROVE  RemoveAt(q, i) \in Seq(S)
  BY RemoveAtElements, LenProperties

LEMMA ArmTimerType ==
    ASSUME NEW q \in Seq(PingMsgs), ArmTimer(q)
    PROVE  hubQ' \in Seq(PingMsgs) /\ armed' \in BOOLEAN
  BY RemoveAtType DEF ArmTimer

LEMMA InitType == Init => TypeOK
<1> SUFFICES ASSUME Init PROVE TypeOK
  OBVIOUS
<1>1. events \in Seq(EventTypes) /\ hubQ \in Seq(PingMsgs)
  BY DEF Init
<1>2. /\ net \in [Networks -> {"idle", "ended", "connecting", "up", "closing"}]
      /\ told \in [Networks -> BOOLEAN] /\ said \in [Networks -> BOOLEAN]
  BY DEF Init
<1>3. commands \in {0, 1} /\ pings \in 0..MaxPings /\ failures \in 0..MaxFailures
      /\ session \in 0..MaxNetworks
  BY DEF Init
<1> QED
  BY <1>1, <1>2, <1>3 DEF Init, TypeOK, EventTypes, PingMsgs

\* A step of the hub that reads a NetworkEvent.
LEMMA ReadType ==
    ASSUME TypeOK, NEW state, NEW event, Read(state, event)
    PROVE  /\ events' \in Seq(EventTypes) /\ hub = state
           /\ UNCHANGED <<commands, net, told, said, session>>
  BY HeadOfQueue DEF TypeOK, Read, EventTypes, netVars

LEMMA DispatchType ==
    ASSUME TypeOK, NEW event \in EventTypes, Dispatch(event)
    PROVE  events' \in Seq(EventTypes)
  BY AppendProperties DEF TypeOK, Dispatch, EventTypes

LEMMA HubReadsType ==
    ASSUME TypeOK, NEW msg, HubReads(msg)
    PROVE  /\ Tail(hubQ) \in Seq(PingMsgs) /\ hubQ \in Seq(PingMsgs)
           /\ UNCHANGED <<commands, events, net, told, said, session>>
  BY HeadOfQueue DEF TypeOK, HubReads, PingMsgs, netVars

LEMMA HubStepType == TypeOK /\ HubStep => TypeOK'
<1> SUFFICES ASSUME TypeOK, HubStep PROVE TypeOK'
  OBVIOUS
<1> USE DEF HubEnter, pingVars, netVars, opts, EventTypes, PingMsgs
<1>1. CASE HubDropToConnect
  BY <1>1 DEF HubDropToConnect, TypeOK
<1>2. CASE HubStartNetwork
  BY <1>2 DEF HubStartNetwork, TypeOK
<1>3. CASE HubConnected
  <2>1. ArmTimer(hubQ) /\ hubQ \in Seq(PingMsgs)
    BY <1>3 DEF HubConnected, TypeOK
  <2> QED
    BY <1>3, <2>1, ReadType, ArmTimerType DEF HubConnected, TypeOK
<1>4. CASE HubConnectFail
  BY <1>4, ReadType DEF HubConnectFail, Retry, TypeOK
<1>5. CASE HubStaleErr
  BY <1>5, ReadType DEF HubStaleErr, TypeOK
<1>6. CASE HubLost
  BY <1>6, ReadType DEF HubLost, AfterErr, TypeOK
<1>7. CASE HubIgnores
  BY <1>7, ReadType DEF HubIgnores, TypeOK
<1>8. CASE HubBrokerDisconnect
  BY <1>8, ReadType DEF HubBrokerDisconnect, Retry, TypeOK
<1>9. CASE HubDropConnected
  BY <1>9 DEF HubDropConnected, AfterDrop, TypeOK
<1>10. CASE HubKeepAlive
  BY <1>10, HubReadsType DEF HubKeepAlive, TypeOK
<1>11. CASE HubPingSuccess
  <2>1. ArmTimer(Tail(hubQ)) /\ Tail(hubQ) \in Seq(PingMsgs)
    BY <1>11, HubReadsType DEF HubPingSuccess
  <2> QED
    BY <1>11, <2>1, HubReadsType, ArmTimerType DEF HubPingSuccess, TypeOK
<1>12. CASE HubPingFail
  BY <1>12, HubReadsType DEF HubPingFail, TypeOK
<1>13. CASE HubDisconnect
  BY <1>13 DEF HubDisconnect, Retry, TypeOK
<1> QED
  BY <1>1, <1>2, <1>3, <1>4, <1>5, <1>6, <1>7, <1>8, <1>9, <1>10, <1>11, <1>12,
     <1>13 DEF HubStep, HubEvent, HubMsg

LEMMA NetStepType ==
    ASSUME TypeOK, NEW n \in Networks,
           \/ NetConnected(n) \/ NetConnectFail(n) \/ NetLost(n)
           \/ NetTold(n) \/ NetClose(n) \/ NetCloseErr(n)
           \/ BrokerDisconnect(n) \/ BrokerCloses(n)
    PROVE  TypeOK'
<1> USE DEF hubVars, pingVars, opts, EventTypes
<1>1. ASSUME Fails PROVE failures' \in 0..MaxFailures
  BY <1>1 DEF Fails, TypeOK
<1>2. CASE NetConnected(n)
  BY <1>2, DispatchType DEF NetConnected, Enter, TypeOK, Networks
<1>3. CASE NetConnectFail(n)
  BY <1>1, <1>3, DispatchType DEF NetConnectFail, Enter, TypeOK
<1>4. CASE NetLost(n)
  BY <1>1, <1>4, DispatchType DEF NetLost, Enter, TypeOK
<1>5. CASE NetTold(n)
  BY <1>5 DEF NetTold, Enter, TypeOK
<1>6. CASE NetClose(n)
  BY <1>6 DEF NetClose, Enter, TypeOK
<1>7. CASE NetCloseErr(n)
  BY <1>1, <1>7, DispatchType DEF NetCloseErr, Enter, TypeOK
<1>8. CASE BrokerDisconnect(n)
  BY <1>1, <1>8, DispatchType DEF BrokerDisconnect, TypeOK
<1>9. CASE BrokerCloses(n)
  BY <1>9, DispatchType DEF BrokerCloses, Enter, TypeOK
<1> QED
  BY <1>2, <1>3, <1>4, <1>5, <1>6, <1>7, <1>8, <1>9

LEMMA PingEndType ==
    ASSUME TypeOK, NEW msgs \in Seq(PingMsgs), PingEnd(msgs)
    PROVE  /\ hubQ' \in Seq(PingMsgs) /\ pings' \in 0..MaxPings
           /\ UNCHANGED <<auto, calm, hub, reason, commands, events, armed, net,
                          told, said, session>>
<1>1. hubQ \in Seq(PingMsgs) /\ pings \in 0..MaxPings
  BY DEF TypeOK, PingMsgs
<1>2. hubQ' \in Seq(PingMsgs)
  BY <1>1, ConcatProperties DEF PingEnd
<1>3. pings' \in 0..MaxPings
  BY <1>1 DEF PingEnd
<1> QED
  BY <1>2, <1>3 DEF PingEnd, opts, hubVars, netVars

LEMMA NextType == TypeOK /\ [Next]_vars => TypeOK'
<1> SUFFICES ASSUME TypeOK, [Next]_vars PROVE TypeOK'
  OBVIOUS
<1> USE DEF hubVars, netVars, opts
<1>1. CASE ClientDisconnect
  BY <1>1 DEF ClientDisconnect, pingVars, TypeOK
<1>2. CASE HubRecoverDone
  <2>1. ArmTimer(hubQ) /\ hubQ \in Seq(PingMsgs)
    BY <1>2 DEF HubRecoverDone, TypeOK, PingMsgs
  <2> QED
    BY <1>2, <2>1, ArmTimerType DEF HubRecoverDone, TypeOK, PingMsgs
<1>3. CASE TimerFires
  BY <1>3, AppendProperties DEF TimerFires, TypeOK
<1>4. CASE PingSuccess
  <2>1. <<"PingSuccess">> \in Seq(PingMsgs)
    BY DEF PingMsgs
  <2> QED
    BY <1>4, <2>1, PingEndType DEF PingSuccess, TypeOK, PingMsgs
<1>5. CASE PingFail
  <2>1. \A k \in 1..2 : [i \in 1..k |-> "PingFail"] \in Seq(PingMsgs)
    BY DEF PingMsgs
  <2>2. failures' \in 0..MaxFailures
    BY <1>5 DEF PingFail, Fails, TypeOK
  <2> QED
    BY <1>5, <2>1, <2>2, PingEndType DEF PingFail, TypeOK, PingMsgs
<1>6. CASE UNCHANGED vars
  BY <1>6 DEF vars, pingVars, TypeOK
<1> QED
  BY <1>1, <1>2, <1>3, <1>4, <1>5, <1>6, HubStepType, NetStepType DEF Next

\* The variables keep their types; in particular the hub is in ToDisconnect only
\* with a reason (ToDisconnectReason).
THEOREM TypeCorrect == Spec => []TypeOK
  BY InitType, NextType, PTL DEF Spec

-----------------------------------------------------------------------------
(* The calm connection: the states of the hub, of its networks and of the  *)
(* events between them that go together.                                   *)

Quiet == \A n \in Networks : net[n] \in {"idle", "ended"}
Only(n, state) ==
    /\ net[n] = state
    /\ \A m \in Networks : m # n => net[m] \in {"idle", "ended"}
Untold == \A n \in Networks : ~told[n]

\* One network is up, and it is the one the broker holds.
OneUp == \E n \in Networks : Only(n, "up") /\ session = n

InToConnect == Untold /\ Quiet /\ events = <<>>
InWaitNetwork ==
    /\ Untold
    /\ \/ events = <<>> /\ \E n \in Networks : Only(n, "connecting")
       \/ events = <<"Connected">> /\ OneUp
       \/ events = <<"ConnectFail">> /\ Quiet
       \/ events = <<"Connected", "ConnectedErr">> /\ Quiet
InConnected ==
    /\ Untold
    /\ \/ events = <<>> /\ OneUp
       \/ events = <<"ConnectedErr">> /\ Quiet
InToDisconnect ==
    /\ Untold
    /\ \/ reason = "ClientCommand" /\ InConnected
       \/ reason = "NetworkErr" /\ events = <<>> /\ Quiet
InDisconnected == \A n \in Networks : Live(n) => told[n]

CalmInv ==
    calm =>
        /\ hubQ = <<>> /\ pings = 0
        /\ \A n \in Networks : ~said[n]
        /\ hub = "ToConnect" => InToConnect
        /\ hub = "WaitNetwork" => InWaitNetwork
        /\ hub = "Connected" => InConnected
        /\ hub = "ToDisconnect" => InToDisconnect
        /\ hub = "Disconnected" => InDisconnected

LEMMA CalmInit == Init => CalmInv
  BY DEF Init, CalmInv, InToConnect, Untold, Quiet

\* Without a KeepAlive message there is nothing to remove.
LEMMA ArmTimerEmpty ==
    ASSUME ArmTimer(<<>>)
    PROVE  hubQ' = <<>>
  BY DEF ArmTimer

LEMMA CalmHubStep ==
    ASSUME TypeOK, CalmInv, calm, HubStep
    PROVE  CalmInv'
<1> USE DEF HubEnter, hubVars, pingVars, netVars, opts, Only, Quiet, Untold, OneUp
<1>0. /\ hubQ = <<>> /\ pings = 0 /\ \A n \in Networks : ~said[n]
      /\ net \in [Networks -> {"idle", "ended", "connecting", "up", "closing"}]
      /\ told \in [Networks -> BOOLEAN]
  BY DEF CalmInv, TypeOK
<1>1. CASE HubDropToConnect
  BY <1>1 DEF HubDropToConnect, CalmInv, InToConnect, InDisconnected, Live
<1>2. CASE HubStartNetwork
  <2>1. PICK n \in Networks : net[n] = "idle"
                              /\ net' = [net EXCEPT ![n] = "connecting"]
    BY <1>2 DEF HubStartNetwork
  <2>2. InToConnect
    BY <1>2 DEF HubStartNetwork, CalmInv
  <2>3. Only(n, "connecting")'
    BY <1>0, <2>1, <2>2 DEF InToConnect
  <2>4. InWaitNetwork'
    BY <1>2, <2>2, <2>3 DEF HubStartNetwork, InToConnect, InWaitNetwork
  <2> QED
    BY <1>2, <2>4 DEF HubStartNetwork, CalmInv
<1>3. CASE HubConnected
  <2>1. InWaitNetwork /\ events # <<>> /\ Head(events) = "Connected"
        /\ events' = Tail(events)
    BY <1>3 DEF HubConnected, Read, CalmInv
  <2>2. \/ events = <<"Connected">> /\ OneUp
        \/ events = <<"Connected", "ConnectedErr">> /\ Quiet
    BY <2>1 DEF InWaitNetwork
  <2>5. UNCHANGED <<net, told, session>> /\ Untold'
    BY <1>3, <2>1 DEF HubConnected, Read, InWaitNetwork
  <2>3. InConnected'
    <3>1. CASE events = <<"Connected">> /\ OneUp
      <4>1. events' = <<>>
        BY <2>1, <3>1
      <4>2. OneUp'
        BY <2>5, <3>1
      <4> QED
        BY <2>5, <4>1, <4>2 DEF InConnected
    <3>2. CASE events = <<"Connected", "ConnectedErr">> /\ Quiet
      <4>1. events' = <<"ConnectedErr">>
        BY <2>1, <3>2
      <4> QED
        BY <2>5, <3>2, <4>1 DEF InConnected
    <3> QED
      BY <2>2, <3>1, <3>2
  <2>4. hubQ' = <<>>
    BY <1>0, <1>3, ArmTimerEmpty DEF HubConnected
  <2> QED
    BY <1>3, <2>3, <2>4 DEF HubConnected, Read, CalmInv
<1>4. CASE HubConnectFail
  <2>1. InWaitNetwork /\ events # <<>>
        /\ Head(events) \in {"ConnectFail", "BrokerDisconnect"}
        /\ events' = Tail(events) /\ UNCHANGED <<net, told, said, session>>
    BY <1>4 DEF HubConnectFail, Read, CalmInv
  <2>2. events = <<"ConnectFail">> /\ Quiet
    BY <2>1 DEF InWaitNetwork
  <2>3. InToConnect' /\ InDisconnected'
    BY <2>1, <2>2 DEF InToConnect, InDisconnected, InWaitNetwork, Live
  <2> QED
    BY <1>4, <2>1, <2>3 DEF HubConnectFail, Retry, CalmInv
<1>5. CASE HubStaleErr
  BY <1>5 DEF HubStaleErr, Read, CalmInv, InWaitNetwork
<1>6. CASE HubLost
  <2>1. InConnected /\ events # <<>> /\ Head(events) = "ConnectedErr"
        /\ events' = Tail(events) /\ UNCHANGED <<net, told, said, session>>
    BY <1>6 DEF HubLost, Read, CalmInv
  <2>2. events = <<"ConnectedErr">> /\ Quiet
    BY <2>1 DEF InConnected
  <2>3. InToDisconnect'
    BY <1>6, <2>1, <2>2 DEF HubLost, InConnected, InToDisconnect
  <2> QED
    BY <1>6, <2>1, <2>3 DEF HubLost, AfterErr, CalmInv
<1>7. CASE HubIgnores
  BY <1>7 DEF HubIgnores, Read, CalmInv, InConnected
<1>8. CASE HubBrokerDisconnect
  BY <1>8 DEF HubBrokerDisconnect, Read, CalmInv, InConnected
<1>9. CASE HubDropConnected
  <2>1. InConnected /\ UNCHANGED <<events, net, told, said, session>>
    BY <1>9 DEF HubDropConnected, CalmInv
  <2>2. InToDisconnect'
    BY <1>9, <2>1 DEF HubDropConnected, InConnected, InToDisconnect
  <2> QED
    BY <1>9, <2>2 DEF HubDropConnected, AfterDrop, CalmInv
<1>10. CASE HubMsg
  BY <1>0, <1>10 DEF HubMsg, HubKeepAlive, HubPingSuccess, HubPingFail, HubReads
<1>11. CASE HubDisconnect
  <2>1. InToDisconnect
        /\ told' = [n \in Networks |-> told[n] \/ Live(n)]
        /\ UNCHANGED <<calm, events, hubQ, pings, net, said, session>>
    BY <1>11 DEF HubDisconnect, CalmInv
  <2>2. InDisconnected'
    BY <1>0, <2>1 DEF InDisconnected, Live
  <2>3. CASE reason = "ClientCommand"
    BY <1>11, <2>1, <2>2, <2>3 DEF HubDisconnect, CalmInv
  <2>4. CASE reason # "ClientCommand"
    <3>1. events = <<>> /\ Quiet
      BY <2>1, <2>4 DEF InToDisconnect
    <3>2. Untold'
      BY <2>1, <3>1 DEF InToDisconnect, Live
    <3>3. InToConnect'
      BY <2>1, <3>1, <3>2 DEF InToConnect
    <3> QED
      BY <1>11, <2>1, <2>2, <2>4, <3>3 DEF HubDisconnect, Retry, CalmInv
  <2> QED
    BY <2>3, <2>4
<1> QED
  BY <1>1, <1>2, <1>3, <1>4, <1>5, <1>6, <1>7, <1>8, <1>9, <1>10, <1>11
  DEF HubStep, HubEvent

LEMMA AppendTo ==
    ASSUME NEW a, NEW b
    PROVE  Append(<<>>, b) = <<b>> /\ Append(<<a>>, b) = <<a, b>>
<1>1. /\ Len(<<>>) = 0 /\ Len(<<a>>) = 1 /\ <<a>>[1] = a
      /\ Len(<<b>>) = 1 /\ <<b>>[1] = b
      /\ Len(<<a, b>>) = 2 /\ <<a, b>>[1] = a /\ <<a, b>>[2] = b
  OBVIOUS
<1>2. /\ <<>> \in Seq({a, b}) /\ <<a>> \in Seq({a, b}) /\ <<b>> \in Seq({a, b})
      /\ <<a, b>> \in Seq({a, b})
  OBVIOUS
<1>3. Append(<<>>, b) = <<b>>
  BY <1>1, <1>2, AppendProperties, SeqEqual
<1>4. Append(<<a>>, b) = <<a, b>>
  <2> DEFINE s == Append(<<a>>, b)
  <2>1. /\ s \in Seq({a, b}) /\ Len(s) = Len(<<a>>) + 1
        /\ \A i \in 1..Len(<<a>>) : s[i] = <<a>>[i]
        /\ s[Len(<<a>>) + 1] = b
    BY <1>2, AppendProperties
  <2>2. Len(s) = 2 /\ s[1] = a /\ s[2] = b
    BY <1>1, <2>1
  <2> HIDE DEF s
  <2>3. \A i \in 1..Len(s) : s[i] = <<a, b>>[i]
    BY <1>1, <2>2
  <2>4. s = <<a, b>>
    BY <1>1, <1>2, <2>1, <2>2, <2>3, SeqEqual
  <2> QED
    BY <2>4 DEF s
<1> QED
  BY <1>3, <1>4

\* A TaskNetwork that ends: nobody is left, and only the hub's queue tells.
LEMMA CalmNetStep ==
    ASSUME TypeOK, CalmInv, calm, NEW n \in Networks,
           \/ NetConnected(n) \/ NetConnectFail(n) \/ NetLost(n)
           \/ NetTold(n) \/ NetClose(n) \/ NetCloseErr(n)
           \/ BrokerDisconnect(n) \/ BrokerCloses(n)
    PROVE  CalmInv'
<1> USE DEF Only, Quiet, Untold, OneUp
<1> DEFINE Away == \A m \in Networks : m # n => net[m] \in {"idle", "ended"}
<1>0. /\ hubQ = <<>> /\ pings = 0 /\ \A m \in Networks : ~said[m]
      /\ net \in [Networks -> {"idle", "ended", "connecting", "up", "closing"}]
      /\ told \in [Networks -> BOOLEAN]
      /\ hub \in {"ToConnect", "WaitNetwork", "Connected", "ToDisconnect",
                  "Disconnected"}
  BY DEF CalmInv, TypeOK
<1>1. ASSUME NEW state, Enter(n, state)
      PROVE  /\ UNCHANGED <<calm, hub, reason, hubQ, pings, told, said>>
             /\ net' = [net EXCEPT ![n] = state]
             /\ net'[n] = state
             /\ \A m \in Networks : m # n => net'[m] = net[m]
  BY <1>0, <1>1 DEF Enter, opts, hubVars, pingVars
\* When the hub has ended, a network that was told stays told.
<1>2. ASSUME NEW state, Enter(n, state), hub = "Disconnected",
             state \in {"up", "closing", "ended"}, state = "up" => Live(n)
      PROVE  CalmInv'
  <2>1. InDisconnected
    BY <1>2 DEF CalmInv
  <2>2. InDisconnected'
    BY <1>1, <1>2, <2>1 DEF InDisconnected, Live
  <2> QED
    BY <1>0, <1>1, <1>2, <2>2 DEF CalmInv
\* Before that, a network that is not idle or ended is the only one.
<1>3. ASSUME hub # "Disconnected", net[n] \notin {"idle", "ended"}
      PROVE  /\ Untold /\ Away
             /\ \/ hub = "WaitNetwork" /\ events = <<>> /\ net[n] = "connecting"
                \/ /\ hub = "WaitNetwork" /\ events = <<"Connected">>
                   /\ net[n] = "up" /\ session = n
                \/ hub = "Connected" /\ events = <<>> /\ net[n] = "up" /\ session = n
                \/ /\ hub = "ToDisconnect" /\ reason = "ClientCommand"
                   /\ events = <<>> /\ net[n] = "up" /\ session = n
  BY <1>0, <1>3
  DEF CalmInv, InToConnect, InWaitNetwork, InConnected, InToDisconnect
\* The only network ends, and says so.
<1>4. ASSUME hub # "Disconnected", net[n] = "up", Enter(n, "ended"),
             Dispatch("ConnectedErr")
      PROVE  CalmInv'
  <2>1. Untold' /\ Quiet'
    BY <1>0, <1>1, <1>3, <1>4
  <2>2. events' = Append(events, "ConnectedErr")
    BY <1>4 DEF Dispatch
  <2>3. CASE hub = "WaitNetwork"
    <3>1. events = <<"Connected">>
      BY <1>3, <1>4, <2>3
    <3>2. events' = <<"Connected", "ConnectedErr">>
      BY <2>2, <3>1, AppendTo
    <3> QED
      BY <1>0, <1>1, <1>4, <2>1, <2>3, <3>2 DEF CalmInv, InWaitNetwork
  <2>4. CASE hub # "WaitNetwork"
    <3>5. events = <<>>
      BY <1>3, <1>4, <2>4
    <3>1. events' = <<"ConnectedErr">>
      BY <2>2, <3>5, AppendTo
    <3>2. InConnected'
      BY <2>1, <3>1 DEF InConnected
    <3>3. hub = "ToDisconnect" => reason' = "ClientCommand"
      BY <1>1, <1>3, <1>4
    <3>4. hub \in {"Connected", "ToDisconnect"}
      BY <1>3, <1>4, <2>4
    <3> QED
      BY <1>0, <1>1, <1>4, <3>2, <3>3, <3>4 DEF CalmInv, InToDisconnect
  <2> QED
    BY <2>3, <2>4
<1>5. CASE NetConnected(n)
  <2>1. net[n] = "connecting" /\ Enter(n, "up") /\ Dispatch("Connected")
        /\ session' = n
    BY <1>5 DEF NetConnected
  <2>2. CASE hub = "Disconnected"
    BY <1>2, <2>1, <2>2 DEF Live
  <2>3. CASE hub # "Disconnected"
    <3>1. hub = "WaitNetwork" /\ events = <<>> /\ Untold /\ Away
      BY <1>3, <2>1, <2>3
    <3>2. events' = <<"Connected">>
      BY <2>1, <2>3, <3>1 DEF Dispatch
    <3>3. OneUp' /\ Untold'
      BY <1>1, <2>1, <3>1
    <3> QED
      BY <1>0, <1>1, <2>1, <3>1, <3>2, <3>3 DEF CalmInv, InWaitNetwork
  <2> QED
    BY <2>2, <2>3
<1>6. CASE NetConnectFail(n)
  <2>1. net[n] = "connecting" /\ Enter(n, "ended") /\ Dispatch("ConnectFail")
    BY <1>6 DEF NetConnectFail
  <2>2. CASE hub = "Disconnected"
    BY <1>2, <2>1, <2>2
  <2>3. CASE hub # "Disconnected"
    <3>1. hub = "WaitNetwork" /\ events = <<>> /\ Untold /\ Away
      BY <1>3, <2>1, <2>3
    <3>2. events' = <<"ConnectFail">>
      BY <2>1, <2>3, <3>1 DEF Dispatch
    <3>3. Quiet' /\ Untold'
      BY <1>0, <1>1, <2>1, <3>1
    <3> QED
      BY <1>0, <1>1, <2>1, <3>1, <3>2, <3>3 DEF CalmInv, InWaitNetwork
  <2> QED
    BY <2>2, <2>3
<1>7. CASE NetLost(n)
  BY <1>2, <1>4, <1>7 DEF NetLost
<1>8. CASE NetTold(n)
  <2>1. net[n] = "up" /\ told[n] /\ Enter(n, "closing")
    BY <1>8 DEF NetTold
  <2>2. hub = "Disconnected"
    BY <1>3, <2>1
  <2> QED
    BY <1>2, <2>1, <2>2
<1>9. CASE NetClose(n)
  <2>1. net[n] = "closing" /\ Enter(n, "ended")
    BY <1>9 DEF NetClose
  <2>2. hub = "Disconnected"
    BY <1>3, <2>1
  <2> QED
    BY <1>2, <2>1, <2>2
<1>10. CASE NetCloseErr(n)
  <2>1. net[n] = "closing" /\ Enter(n, "ended")
    BY <1>10 DEF NetCloseErr
  <2>2. hub = "Disconnected"
    BY <1>3, <2>1
  <2> QED
    BY <1>2, <2>1, <2>2
<1>11. CASE BrokerDisconnect(n)
  BY <1>11 DEF BrokerDisconnect
<1>12. CASE BrokerCloses(n)
  BY <1>2, <1>4, <1>12 DEF BrokerCloses
<1> QED
  BY <1>5, <1>6, <1>7, <1>8, <1>9, <1>10, <1>11, <1>12

LEMMA CalmStep == TypeOK /\ CalmInv /\ [Next]_vars => CalmInv'
<1> SUFFICES ASSUME TypeOK, CalmInv, [Next]_vars, calm' PROVE CalmInv'
  BY DEF CalmInv
<1>0. UNCHANGED calm
  BY DEF Next, vars, opts, hubVars, pingVars, netVars, ClientDisconnect, HubStep,
     HubEvent, HubMsg, HubDropToConnect, HubStartNetwork, HubConnected,
     HubConnectFail, HubStaleErr, HubLost, HubIgnores, HubBrokerDisconnect,
     HubDropConnected, HubKeepAlive, HubPingSuccess, HubPingFail, HubDisconnect,
     HubEnter, HubRecoverDone, TimerFires, NetConnected, NetConnectFail, NetLost,
     NetTold, NetClose, NetCloseErr, Enter, BrokerDisconnect, BrokerCloses,
     PingSuccess, PingFail, PingEnd
<1>1. calm /\ hubQ = <<>> /\ pings = 0
  BY <1>0 DEF CalmInv
<1>7. ASSUME UNCHANGED <<calm, hub, reason, events, hubQ, pings, net, told, said,
                         session>>
      PROVE  CalmInv'
  <2>1. /\ InToConnect' <=> InToConnect
        /\ InWaitNetwork' <=> InWaitNetwork
        /\ InConnected' <=> InConnected
        /\ InDisconnected' <=> InDisconnected
    BY <1>7 DEF InToConnect, InWaitNetwork, InConnected, InDisconnected, Quiet,
       Only, Untold, OneUp, Live
  <2>2. InToDisconnect' <=> InToDisconnect
    BY <1>7, <2>1 DEF InToDisconnect, Quiet, Untold
  <2> QED
    BY <1>7, <2>1, <2>2 DEF CalmInv
<1>2. CASE ClientDisconnect
  BY <1>2, <1>7 DEF ClientDisconnect, opts, hubVars, pingVars, netVars
<1>3. CASE HubRecoverDone
  <2>1. hubQ' = <<>>
    BY <1>1, <1>3, ArmTimerEmpty DEF HubRecoverDone
  <2> QED
    BY <1>1, <1>3, <1>7, <2>1 DEF HubRecoverDone, opts, hubVars, netVars
<1>4. CASE TimerFires
  BY <1>1, <1>4 DEF TimerFires
<1>5. CASE PingSuccess \/ PingFail
  BY <1>1, <1>5 DEF PingSuccess, PingFail, PingEnd
<1>6. CASE UNCHANGED vars
  BY <1>6, <1>7 DEF vars, opts, hubVars, pingVars, netVars
<1> QED
  BY <1>1, <1>2, <1>3, <1>4, <1>5, <1>6, CalmHubStep, CalmNetStep DEF Next

LEMMA CalmAlways == Spec => [](TypeOK /\ CalmInv)
  BY InitType, NextType, CalmInit, CalmStep, PTL DEF Spec

\* While no keep-alive timer fires and the broker sends no DISCONNECT, there is one
\* TaskNetwork at a time, however often the connection is lost and made again
\* (run_to_connect).
THEOREM OneNetworkAtATime == Spec => []OneNetwork
<1>1. TypeOK /\ CalmInv => OneNetwork
  <2> SUFFICES ASSUME TypeOK, CalmInv, calm PROVE Cardinality(Kept) <= 1
    BY DEF OneNetwork
  <2>1. Kept = {} \/ \E n \in Networks : Kept = {n}
    BY DEF TypeOK, CalmInv, InToConnect, InWaitNetwork, InConnected, InToDisconnect,
       InDisconnected, Quiet, Only, Untold, OneUp, Live, Kept
  <2>2. Cardinality({}) = 0 /\ \A n \in Networks : Cardinality({n}) = 1
    BY FS_EmptySet, FS_Singleton
  <2> QED
    BY <2>1, <2>2
<1> QED
  BY <1>1, CalmAlways, PTL

\* While the hub is Connected its network is up, or ConnectedErr is on its way
\* (run_connected).
THEOREM ConnectedHasNetwork == Spec => []ConnectedMeansNetwork
<1>1. CalmInv => ConnectedMeansNetwork
  <2> SUFFICES ASSUME CalmInv, calm, hub = "Connected"
               PROVE  \/ \E n \in Kept : net[n] = "up"
                      \/ "ConnectedErr" \in Range(events)
    BY DEF ConnectedMeansNetwork
  <2>1. InConnected
    BY DEF CalmInv
  <2>2. CASE events = <<"ConnectedErr">>
    BY <2>2 DEF Range
  <2>3. CASE OneUp
    BY <2>1, <2>3 DEF InConnected, OneUp, Only, Untold, Kept, Live
  <2> QED
    BY <2>1, <2>2, <2>3 DEF InConnected
<1> QED
  BY <1>1, CalmAlways, PTL

\* The disconnect of the user leaves no network connected that has not been told
\* to end (run, ToDisconnect).
THEOREM DisconnectTellsAll == Spec => []NothingLeftOpenWhenCalm
<1>1. CalmInv => NothingLeftOpenWhenCalm
  BY DEF CalmInv, InDisconnected, NothingLeftOpenWhenCalm, NothingLeftOpen,
         LeftOpen, Kept, Live
<1> QED
  BY <1>1, CalmAlways, PTL

=============================================================================
