------------------------------ MODULE Connection ------------------------------
(***************************************************************************)
(* The life of the connection: TaskHub's state machine (ToConnect,         *)
(* Connected, ToDisconnect, Disconnected), the TaskNetworks it starts, the *)
(* NetworkEvents they send back, the keep-alive pings and the disconnect   *)
(* of the user.  Every TaskNetwork dispatches on the same bus, so an event *)
(* does not say which of them it is about, and the Disconnect command of   *)
(* the hub reaches all that are alive.                                     *)
(***************************************************************************)
EXTENDS Naturals, Sequences, FiniteSets, SequencesExt

CONSTANTS
    MaxNetworks,        \* bound: how many TaskNetworks the hub starts
    MaxFailures,        \* bound: failures of a connection, of a ping
    MaxPings            \* bound: TaskPings at one time

ASSUME NetworksAssumption == MaxNetworks \in Nat \ {0}
ASSUME BoundAssumption == MaxFailures \in Nat /\ MaxPings \in Nat

Networks == 1..MaxNetworks

VARIABLES
    auto,           \* options.auto_reconnect
    calm,           \* the broker sends no DISCONNECT (it cannot in MQTT 3.1.1),
                    \* and no keep-alive timer fires in the time looked at
    hub,            \* TaskHub.state; "WaitNetwork" is the recv of run_to_connect
    reason,         \* the ToDisconnectReason, of the last ToDisconnect
    commands,       \* DisconnectAndDrop commands in identity_command
    events,         \* NetworkEvents in identity_network
    hubQ,           \* the HubMsgs of the keep-alive in identity
    armed,          \* the latest keep-alive timer has not fired
    pings,          \* the running TaskPings
    net,            \* where each TaskNetwork is
    told,           \* it has HubNetworkCommand::Disconnect in its queue
    said,           \* it has been sent DISCONNECT by the broker
    session,        \* broker: the network it holds for this client id, or 0
    failures        \* how many failures there were

hubVars == <<hub, reason>>
pingVars == <<hubQ, armed, pings>>
netVars == <<net, told, said, session>>
opts == <<auto, calm>>
vars == <<opts, hubVars, commands, events, pingVars, netVars, failures>>

TypeOK ==
    /\ auto \in BOOLEAN /\ calm \in BOOLEAN
    /\ hub \in {"ToConnect", "WaitNetwork", "Connected", "ToDisconnect",
                "Disconnected"}
    /\ reason \in {"none", "PingFail", "ClientCommand", "NetworkErr"}
    /\ (hub = "ToDisconnect" => reason # "none")
    /\ commands \in {0, 1}
    /\ events \in Seq({"Connected", "ConnectFail", "ConnectedErr",
                       "BrokerDisconnect"})
    /\ hubQ \in Seq({"KeepAlive", "PingSuccess", "PingFail"})
    /\ armed \in BOOLEAN /\ pings \in 0..MaxPings
    /\ net \in [Networks -> {"idle", "ended", "connecting", "up", "closing"}]
    /\ told \in [Networks -> BOOLEAN] /\ said \in [Networks -> BOOLEAN]
    /\ session \in 0..MaxNetworks
    /\ failures \in 0..MaxFailures

Init ==
    /\ auto \in BOOLEAN /\ calm \in BOOLEAN
    /\ hub = "ToConnect" /\ reason = "none"
    /\ commands = 0 /\ events = <<>>
    /\ hubQ = <<>> /\ armed = FALSE /\ pings = 0
    /\ net = [n \in Networks |-> "idle"]
    /\ told = [n \in Networks |-> FALSE] /\ said = [n \in Networks |-> FALSE]
    /\ session = 0
    /\ failures = 0

\* A TaskNetwork that reads its queue, now or after CONNACK.
Live(n) == net[n] \in {"connecting", "up"}

-----------------------------------------------------------------------------
(* The user: Client::disconnect.                                           *)

ClientDisconnect ==
    /\ hub # "Disconnected" /\ commands = 0
    /\ commands' = 1
    /\ UNCHANGED <<opts, hubVars, events, pingVars, netVars, failures>>

-----------------------------------------------------------------------------
(* TaskHub, not connected: run_to_connect.                                 *)

HubEnter(state, why) ==
    /\ hub' = state /\ reason' = why
    /\ UNCHANGED <<opts, failures>>

\* try_deal_client_command_when_to_connect.
HubDrainToConnect ==                                     \* mutant
    /\ hub = "ToConnect" /\ commands > 0
    /\ commands' = 0
    /\ HubEnter("ToConnect", "ClientCommand")
    /\ UNCHANGED <<events, pingVars, netVars>>
HubDropToConnect ==
    /\ hub = "ToConnect" /\ commands > 0
    /\ commands' = 0
    /\ HubEnter("Disconnected", "ClientCommand")
    /\ UNCHANGED <<events, pingVars, netVars>>

HubStartNetwork ==
    /\ hub = "ToConnect" /\ commands = 0
    /\ \E n \in Networks :
        /\ net[n] = "idle" /\ \A m \in 1..(n - 1) : net[m] # "idle"
        /\ net' = [net EXCEPT ![n] = "connecting"]
    /\ HubEnter("WaitNetwork", "none")
    /\ UNCHANGED <<commands, events, pingVars, told, said, session>>

\* The hub reads one NetworkEvent.
Read(state, event) ==
    /\ hub = state /\ events # <<>>
    /\ Head(events) = event
    /\ events' = Tail(events)
    /\ UNCHANGED <<commands, netVars>>

\* Where a failure leads: to run_to_connect again, or to the end.
Retry == IF auto THEN "ToConnect" ELSE "Disconnected"

\* init_keep_alive_check: a KeepAlive of an earlier timer is not latest() any
\* more, and the hub will ignore it (there is one at most: armed was its timer).
ArmTimer(q) ==
    /\ armed' = TRUE
    /\ \/ "KeepAlive" \notin Range(q) /\ hubQ' = q
       \/ \E i \in DOMAIN q : q[i] = "KeepAlive" /\ hubQ' = RemoveAt(q, i)

HubConnected ==
    /\ Read("WaitNetwork", "Connected")
    /\ HubEnter("Connected", "none")
    /\ ArmTimer(hubQ)
    /\ UNCHANGED pings

\* ConnectFail, or the DISCONNECT of a network the hub no longer waits for.
HubConnectFail ==
    /\ Read("WaitNetwork", "ConnectFail") \/ Read("WaitNetwork", "BrokerDisconnect")
    /\ HubEnter(Retry, "none")
    /\ UNCHANGED pingVars

\* "should not to rx": the loop goes round and starts one more TaskNetwork.
HubStaleErr ==
    /\ Read("WaitNetwork", "ConnectedErr")
    /\ HubEnter("ToConnect", "none")
    /\ UNCHANGED pingVars

-----------------------------------------------------------------------------
(* TaskHub, connected: update_connected_state_by_network_status, the       *)
(* command of the user and the HubMsg of the pings, in any order.          *)

\* Where ConnectedErr leads.
ErrIgnored == "Connected"                                \* mutant
AfterErr == "ToDisconnect"

HubLost ==
    /\ Read("Connected", "ConnectedErr")
    /\ HubEnter(AfterErr, "NetworkErr")
    /\ UNCHANGED pingVars

HubIgnores ==
    /\ Read("Connected", "Connected") \/ Read("Connected", "ConnectFail")
    /\ HubEnter("Connected", "none")
    /\ UNCHANGED pingVars

\* No ToDisconnect: the network that got the DISCONNECT is not told.
HubBrokerDisconnect ==
    /\ Read("Connected", "BrokerDisconnect")
    /\ HubEnter(Retry, "none")
    /\ UNCHANGED pingVars

\* Where the command of the user leads.
DropsAtOnce == "Disconnected"                            \* mutant
AfterDrop == "ToDisconnect"

HubDropConnected ==
    /\ hub = "Connected" /\ commands > 0
    /\ commands' = 0
    /\ HubEnter(AfterDrop, "ClientCommand")
    /\ UNCHANGED <<events, pingVars, netVars>>

\* The latest timer fires.
TimerFires ==
    /\ armed /\ hub # "Disconnected" /\ ~calm
    /\ armed' = FALSE
    /\ hubQ' = Append(hubQ, "KeepAlive")
    /\ UNCHANGED <<opts, hubVars, commands, events, pings, netVars, failures>>

HubReads(msg) ==
    /\ hub = "Connected" /\ hubQ # <<>>
    /\ Head(hubQ) = msg
    /\ UNCHANGED <<commands, events, netVars>>

\* A TaskPing is started.
HubKeepAlive ==
    /\ HubReads("KeepAlive")
    /\ hubQ' = Tail(hubQ)
    /\ pings < MaxPings /\ pings' = pings + 1
    /\ HubEnter("Connected", "none")
    /\ UNCHANGED armed

HubPingSuccess ==
    /\ HubReads("PingSuccess")
    /\ ArmTimer(Tail(hubQ))
    /\ HubEnter("Connected", "none")
    /\ UNCHANGED pings

\* A RecoverId that completes a request starts the timer again (it does not matter if
\* it was running).
HubRecoverDone ==
    /\ hub = "Connected" /\ ~armed
    /\ ArmTimer(hubQ)
    /\ UNCHANGED <<opts, hubVars, commands, events, pings, netVars, failures>>

HubPingFailNoReason ==                                   \* mutant
    /\ HubReads("PingFail")
    /\ hubQ' = Tail(hubQ)
    /\ HubEnter("ToDisconnect", "none")
    /\ UNCHANGED <<armed, pings>>
HubPingFail ==
    /\ HubReads("PingFail")
    /\ hubQ' = Tail(hubQ)
    /\ HubEnter("ToDisconnect", "PingFail")
    /\ UNCHANGED <<armed, pings>>

-----------------------------------------------------------------------------
(* TaskHub, ToDisconnect: the Disconnect command to every live network.    *)

HubDisconnect ==
    /\ hub = "ToDisconnect"
    /\ told' = [n \in Networks |-> told[n] \/ Live(n)]
    /\ HubEnter(IF reason = "ClientCommand" THEN "Disconnected" ELSE Retry,
                reason)
    /\ UNCHANGED <<commands, events, pingVars, net, said, session>>

HubEvent == \/ HubConnected \/ HubConnectFail \/ HubStaleErr
            \/ HubLost \/ HubIgnores \/ HubBrokerDisconnect
HubMsg == HubKeepAlive \/ HubPingSuccess \/ HubPingFail
HubStep == \/ HubDropToConnect \/ HubStartNetwork \/ HubDisconnect
           \/ HubEvent \/ HubDropConnected \/ HubMsg

-----------------------------------------------------------------------------
(* TaskNetwork n.                                                          *)

\* Once the hub is gone nobody receives what is dispatched.
Dispatch(event) ==
    events' = IF hub = "Disconnected" THEN events ELSE Append(events, event)

Enter(n, state) ==
    /\ net' = [net EXCEPT ![n] = state]
    /\ UNCHANGED <<opts, hubVars, commands, pingVars, told, said>>

Fails == failures < MaxFailures /\ failures' = failures + 1

NetConnected(n) ==
    /\ net[n] = "connecting"
    /\ Enter(n, "up")
    /\ Dispatch("Connected")
    /\ session' = n
    /\ UNCHANGED failures

NetConnectRetry(n) ==                                    \* mutant
    /\ net[n] = "connecting"
    /\ Enter(n, "connecting")
    /\ Dispatch("ConnectFail")
    /\ Fails
    /\ UNCHANGED session
NetConnectFail(n) ==
    /\ net[n] = "connecting"
    /\ Enter(n, "ended")
    /\ Dispatch("ConnectFail")
    /\ Fails
    /\ UNCHANGED session

NetLost(n) ==
    /\ net[n] = "up"
    /\ Enter(n, "ended")
    /\ Dispatch("ConnectedErr")
    /\ Fails
    /\ UNCHANGED session

\* HubNetworkCommand::Disconnect is read: the state is ToDisconnect.
NetTold(n) ==
    /\ net[n] = "up" /\ told[n]
    /\ Enter(n, "closing")
    /\ UNCHANGED <<events, session, failures>>

\* run_to_disconnected: DISCONNECT is written and the task ends in silence.
NetClose(n) ==
    /\ net[n] = "closing"
    /\ Enter(n, "ended")
    /\ UNCHANGED <<events, session, failures>>

\* The write fails: ConnectedErr, of a network the hub has given up.
NetCloseErr(n) ==
    /\ net[n] = "closing"
    /\ Enter(n, "ended")
    /\ Dispatch("ConnectedErr")
    /\ Fails
    /\ UNCHANGED session

-----------------------------------------------------------------------------
(* The broker (external).  It closes a connection after its DISCONNECT and *)
(* when the same client id connects again.                                 *)

BrokerDisconnect(n) ==
    /\ ~calm
    /\ net[n] = "up" /\ ~said[n]
    /\ said' = [said EXCEPT ![n] = TRUE]
    /\ Dispatch("BrokerDisconnect")
    /\ Fails
    /\ UNCHANGED <<opts, hubVars, commands, pingVars, net, told, session>>

BrokerCloses(n) ==
    /\ net[n] = "up" /\ (said[n] \/ session # n)
    /\ Enter(n, "ended")
    /\ Dispatch("ConnectedErr")
    /\ UNCHANGED <<session, failures>>

-----------------------------------------------------------------------------
(* TaskPing: PINGREQ up to three times, then PINGRESP.                     *)

PingEnd(msgs) ==
    /\ pings > 0 /\ pings' = pings - 1
    /\ hubQ' = IF hub = "Disconnected" THEN hubQ ELSE hubQ \o msgs
    /\ UNCHANGED <<opts, hubVars, commands, events, armed, netVars>>

PingSuccess ==
    /\ \E n \in Networks : net[n] = "up"
    /\ PingEnd(<<"PingSuccess">>)
    /\ UNCHANGED failures

\* No PINGRESP; a task that could not even send says PingFail twice.
PingFail ==
    /\ \E k \in 1..2 : PingEnd([i \in 1..k |-> "PingFail"])
    /\ IF \A n \in Networks : net[n] # "up" THEN UNCHANGED failures ELSE Fails

-----------------------------------------------------------------------------
Next ==
    \/ ClientDisconnect
    \/ HubStep \/ HubRecoverDone \/ TimerFires
    \/ \E n \in Networks :
        \/ NetConnected(n) \/ NetConnectFail(n) \/ NetLost(n)
        \/ NetTold(n) \/ NetClose(n) \/ NetCloseErr(n)
        \/ BrokerDisconnect(n) \/ BrokerCloses(n)
    \/ PingSuccess \/ PingFail

Spec == Init /\ [][Next]_vars

\* The runtime runs what is ready, timers fire, the broker answers CONNECT
\* and PINGREQ and closes what it has to close; select! polls its branches in
\* random order, so that none of the hub's queues starves.  Nothing is assumed
\* of failures or of the user.
Fairness ==
    /\ WF_vars(HubStep) /\ WF_vars(TimerFires)
    /\ WF_vars(HubEvent) /\ WF_vars(HubDropConnected) /\ WF_vars(HubMsg)
    /\ WF_vars(PingSuccess \/ PingFail)
    /\ \A n \in Networks :
        /\ WF_vars(NetConnected(n)) /\ WF_vars(NetTold(n))
        /\ WF_vars(NetClose(n)) /\ WF_vars(BrokerCloses(n))

FairSpec == Spec /\ Fairness

-----------------------------------------------------------------------------
(* Properties.                                                             *)

\* The networks that stay connected until they are told otherwise.
Kept == {n \in Networks : Live(n) /\ ~told[n]}

\* While no keep-alive timer fires and the broker sends no DISCONNECT, the hub has
\* one TaskNetwork at a time: it starts the next only when the last has ended or
\* is told to (run_to_connect 300-329).
OneNetwork == calm => Cardinality(Kept) <= 1

\* While the hub is Connected its network is, or the event that says it is
\* not is on its way (run_connected).
ConnectedMeansNetwork ==
    calm /\ hub = "Connected" =>
        \/ \E n \in Kept : net[n] = "up"
        \/ "ConnectedErr" \in Range(events)

\* Those of them that the broker does not close either: it has sent no
\* DISCONNECT and no later connection has taken over.
LeftOpen == {n \in Kept : ~said[n] /\ (net[n] = "up" => session = n)}

\* When the user's disconnect has ended the hub, every network has been told
\* to send DISCONNECT and to end ("to send disconnect packet and drop
\* resouces", task_client/data/mod.rs 23), or the broker ends it.
NothingLeftOpen ==
    hub = "Disconnected" /\ reason = "ClientCommand" => LeftOpen = {}

\* The same, while no stale event of an earlier network can be read.
NothingLeftOpenWhenCalm == calm => NothingLeftOpen

\* The user's disconnect ends the client, whatever the connection does.
DisconnectObeyed == commands > 0 ~> hub = "Disconnected"

\* Once the failures of a calm connection are over the client comes to rest: it
\* has ended, or the hub is Connected and has exactly one network, which is up.
Recovers ==
    calm => \/ <>[](hub = "Disconnected")
            \/ <>[](/\ hub = "Connected"
                    /\ \E n \in Networks : Kept = {n} /\ net[n] = "up")

=============================================================================
