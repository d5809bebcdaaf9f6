------------------------------- MODULE KeepAlive -------------------------------
(***************************************************************************)
(* The keep-alive timers.  A hub starts a timer when it becomes Connected, *)
(* when a request is completed and after each PingSuccess; when it fires,  *)
(* the hub starts a TaskPing if no later timer was started                 *)
(* (KeepAliveTime::latest).  The counter that tells which is the latest,   *)
(* KEEP_ALIVE_ID, is a static: all clients of the process share it.        *)
(***************************************************************************)
EXTENDS Naturals, Sequences, FiniteSets, SequencesExt

CONSTANTS
    Clients,        \* the clients of the process
    MaxTimers,      \* bound: timers started
    MaxPings        \* bound: TaskPings of one client at one time

ASSUME BoundAssumption == MaxTimers \in Nat /\ MaxPings \in Nat

VARIABLES
    keepAliveId,    \* KEEP_ALIVE_ID
    connected,      \* the hub of the client is Connected
    starting,       \* it is between the fetch_add and the load of default()
    timers,         \* the sleeping timers
    queue,          \* KeepAlive, PingSuccess and PingFail in its identity
    pings           \* its running TaskPings

vars == <<keepAliveId, connected, starting, timers, queue, pings>>

Timers == [client : Clients, id : 1..MaxTimers]
Msg(type, id) == [type |-> type, id |-> id]     \* id 0: no timer

TypeOK ==
    /\ keepAliveId \in 0..MaxTimers
    /\ connected \in [Clients -> BOOLEAN] /\ starting \in [Clients -> BOOLEAN]
    /\ timers \subseteq Timers
    /\ queue \in [Clients -> Seq([type : {"KeepAlive", "PingSuccess", "PingFail"},
                                  id : 0..MaxTimers])]
    /\ pings \in [Clients -> 0..MaxPings]

Init ==
    /\ keepAliveId = 0
    /\ connected = [c \in Clients |-> FALSE]
    /\ starting = [c \in Clients |-> FALSE]
    /\ timers = {}
    /\ queue = [c \in Clients |-> <<>>]
    /\ pings = [c \in Clients |-> 0]

-----------------------------------------------------------------------------
\* KeepAliveTime::default, first half: fetch_add.
StartTimer(c) ==
    /\ keepAliveId < MaxTimers
    /\ keepAliveId' = keepAliveId + 1
    /\ starting' = [starting EXCEPT ![c] = TRUE]

\* Second half: load, and the timer sleeps.
FetchAddResult == keepAliveId - 1                        \* mutant
NewId == keepAliveId

TimerStarted(c) ==
    /\ starting[c]
    /\ starting' = [starting EXCEPT ![c] = FALSE]
    /\ timers' = timers \cup {[client |-> c, id |-> NewId]}
    /\ UNCHANGED <<keepAliveId, connected, queue, pings>>

Connect(c) ==
    /\ ~connected[c]
    /\ connected' = [connected EXCEPT ![c] = TRUE]
    /\ StartTimer(c)
    /\ UNCHANGED <<timers, queue, pings>>

\* The connection ends for a reason other than a ping.
Lost(c) ==
    /\ connected[c] /\ ~starting[c]
    /\ connected' = [connected EXCEPT ![c] = FALSE]
    /\ UNCHANGED <<keepAliveId, starting, timers, queue, pings>>

TimerFires(t) ==
    /\ timers' = timers \ {t}
    /\ queue' = [queue EXCEPT ![t.client] = Append(@, Msg("KeepAlive", t.id))]
    /\ UNCHANGED <<keepAliveId, connected, starting, pings>>

\* The hub reads its queue while it is Connected.
Reads(c, type) ==
    /\ connected[c] /\ ~starting[c] /\ queue[c] # <<>>
    /\ Head(queue[c]).type = type
    /\ queue' = [queue EXCEPT ![c] = Tail(@)]
    /\ UNCHANGED timers

AnyTimer(id) == id > 0                                   \* mutant
IsLatest(id) == id = keepAliveId

ReadKeepAlive(c) ==
    /\ Reads(c, "KeepAlive")
    /\ IF IsLatest(Head(queue[c]).id)
       THEN pings[c] < MaxPings /\ pings' = [pings EXCEPT ![c] = @ + 1]
       ELSE UNCHANGED pings
    /\ UNCHANGED <<keepAliveId, connected, starting>>

ReadPingSuccess(c) ==
    /\ Reads(c, "PingSuccess")
    /\ StartTimer(c)
    /\ UNCHANGED <<connected, pings>>

\* The RecoverId of a request that is complete (OutboundSession).
RecoverDone(c) ==
    /\ connected[c] /\ ~starting[c]
    /\ StartTimer(c)
    /\ UNCHANGED <<connected, timers, queue, pings>>

ReadPingFail(c) ==
    /\ Reads(c, "PingFail")
    /\ connected' = [connected EXCEPT ![c] = FALSE]
    /\ UNCHANGED <<keepAliveId, starting, pings>>

\* What a TaskPing reports; PingFail twice if it could not even send.
SilentOnFailure == {<<"PingSuccess">>, <<>>}             \* mutant
Reports == {<<"PingSuccess">>, <<"PingFail">>, <<"PingFail", "PingFail">>}

PingEnds(c) ==
    /\ pings[c] > 0
    /\ pings' = [pings EXCEPT ![c] = @ - 1]
    /\ \E report \in Reports :
        queue' = [queue EXCEPT ![c] =
                    @ \o [i \in DOMAIN report |-> Msg(report[i], 0)]]
    /\ UNCHANGED <<keepAliveId, connected, starting, timers>>

Next ==
    \/ \E c \in Clients :
        \/ Connect(c) \/ TimerStarted(c) \/ Lost(c)
        \/ ReadKeepAlive(c) \/ ReadPingSuccess(c) \/ ReadPingFail(c)
        \/ RecoverDone(c) \/ PingEnds(c)
    \/ \E t \in timers : TimerFires(t)

Spec == Init /\ [][Next]_vars

-----------------------------------------------------------------------------
(* Properties.                                                             *)

\* The timers of c, sleeping or fired and not yet read, that will ping.
Latest(c) ==
    {t \in Timers : /\ t.client = c /\ t.id = keepAliveId
                    /\ t \in timers \/ Msg("KeepAlive", t.id) \in Range(queue[c])}

\* A connection is never left without its next ping: while the hub is
\* Connected a timer that counts is running, or a TaskPing is, or its report
\* is on the way.
PingToCome ==
    \A c \in Clients :
        connected[c] =>
            \/ starting[c] \/ pings[c] > 0 \/ Latest(c) # {}
            \/ \E m \in Range(queue[c]) : m.type # "KeepAlive"

\* Timers do not add up to several pings: however often the connection is lost
\* and made again and requests are completed while timers sleep, one of them
\* at most counts, asleep or fired and not yet read.
OneTimerCounts ==
    \A c \in Clients :
        Cardinality({i \in DOMAIN queue[c] : queue[c][i].type = "KeepAlive"
                                             /\ IsLatest(queue[c][i].id)})
          + Cardinality({t \in timers : t.client = c /\ IsLatest(t.id)}) <= 1

=============================================================================
