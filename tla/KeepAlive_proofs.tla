--------------------------- MODULE KeepAlive_proofs ---------------------------
(* Theorems about KeepAlive, for every set of clients and every bound on   *)
(* timers and pings.                                                       *)
EXTENDS KeepAlive, SequenceTheorems, FiniteSetTheorems, TLAPS

Messages == [type : {"KeepAlive", "PingSuccess", "PingFail"}, id : 0..MaxTimers]

USE BoundAssumption

-----------------------------------------------------------------------------
(* Sequences.                                                              *)

LEMMA TailElements ==
    ASSUME NEW S, NEW q \in Seq(S), q # <<>>
    PROVE  /\ Head(q) \in S /\ Head(q) = q[1] /\ 1 \in DOMAIN q
           /\ Tail(q) \in Seq(S)
           /\ \A i \in DOMAIN Tail(q) : i + 1 \in DOMAIN q /\ Tail(q)[i] = q[i + 1]
           /\ \A i \in DOMAIN q : i # 1 => i - 1 \in DOMAIN Tail(q)
  BY HeadTailProperties, LenProperties

LEMMA AppendElements ==
    ASSUME NEW S, NEW q \in Seq(S), NEW m \in S
    PROVE  /\ Append(q, m) \in Seq(S)
           /\ \A i \in DOMAIN q : i \in DOMAIN Append(q, m) /\ Append(q, m)[i] = q[i]
           /\ \A i \in DOMAIN Append(q, m) :
                \/ i \in DOMAIN q /\ Append(q, m)[i] = q[i]
                \/ i = Len(q) + 1 /\ i \notin DOMAIN q /\ Append(q, m)[i] = m
           /\ Len(q) + 1 \in DOMAIN Append(q, m) /\ Append(q, m)[Len(q) + 1] = m
  BY AppendProperties, LenProperties

LEMMA ConcatElements ==
    ASSUME NEW S, NEW q \in Seq(S), NEW r \in Seq(S)
    PROVE  /\ q \o r \in Seq(S)
           /\ \A i \in DOMAIN q : i \in DOMAIN (q \o r) /\ (q \o r)[i] = q[i]
           /\ \A i \in DOMAIN (q \o r) :
                \/ i \in DOMAIN q /\ (q \o r)[i] = q[i]
                \/ /\ i \notin DOMAIN q
                   /\ i - Len(q) \in DOMAIN r /\ (q \o r)[i] = r[i - Len(q)]
           /\ \A i \in DOMAIN r :
                i + Len(q) \in DOMAIN (q \o r) /\ (q \o r)[i + Len(q)] = r[i]
<1>1. /\ Len(q) \in Nat /\ DOMAIN q = 1..Len(q)
      /\ Len(r) \in Nat /\ DOMAIN r = 1..Len(r)
  BY LenProperties
<1>2. /\ q \o r \in Seq(S) /\ Len(q \o r) = Len(q) + Len(r)
      /\ \A i \in 1..Len(q) + Len(r) :
            (q \o r)[i] = IF i <= Len(q) THEN q[i] ELSE r[i - Len(q)]
  BY ConcatProperties
<1>3. DOMAIN (q \o r) = 1..(Len(q) + Len(r))
  BY <1>2, LenProperties
<1> QED
  BY <1>1, <1>2, <1>3

-----------------------------------------------------------------------------
(* Types, and what each action does to the queue of a client.              *)

\* A report of a TaskPing as messages.
AsMessages(report) == [i \in DOMAIN report |-> Msg(report[i], 0)]

LEMMA ReportElements ==
    ASSUME NEW report \in Reports
    PROVE  /\ AsMessages(report) \in Seq(Messages)
           /\ 1 \in DOMAIN AsMessages(report)
           /\ \A i \in DOMAIN AsMessages(report) :
                AsMessages(report)[i].type # "KeepAlive"
<1>1. CASE report = <<"PingSuccess">>
  BY <1>1 DEF AsMessages, Msg, Messages
<1>2. CASE report = <<"PingFail">>
  BY <1>2 DEF AsMessages, Msg, Messages
<1>3. CASE report = <<"PingFail", "PingFail">>
  BY <1>3 DEF AsMessages, Msg, Messages
<1> QED
  BY <1>1, <1>2, <1>3 DEF Reports

\* The type invariant needs that a timer that is being started has a number.
StartedHasId == \A c \in Clients : starting[c] => keepAliveId > 0

TypeInv == TypeOK /\ StartedHasId

\* The messages and the queue after a step of the hub.
LEMMA ReadsType ==
    ASSUME TypeOK, NEW c \in Clients, NEW type, Reads(c, type)
    PROVE  /\ queue[c] \in Seq(Messages) /\ queue[c] # <<>>
           /\ connected[c] /\ ~starting[c]
           /\ Head(queue[c]) \in Messages /\ Head(queue[c]).type = type
           /\ Tail(queue[c]) \in Seq(Messages)
           /\ queue' \in [Clients -> Seq(Messages)]
           /\ queue' = [queue EXCEPT ![c] = Tail(queue[c])]
           /\ UNCHANGED timers
<1>1. queue[c] \in Seq(Messages) /\ queue[c] # <<>>
  BY DEF TypeOK, Reads, Messages
<1> QED
  BY <1>1, TailElements DEF TypeOK, Reads, Messages

\* The number of a timer that is being started.
LEMMA StartTimerType ==
    ASSUME TypeOK, NEW c \in Clients, StartTimer(c)
    PROVE  /\ keepAliveId' \in 0..MaxTimers /\ keepAliveId' > 0
           /\ keepAliveId' = keepAliveId + 1
           /\ starting' \in [Clients -> BOOLEAN]
<1>1. keepAliveId \in 0..MaxTimers /\ keepAliveId < MaxTimers
  BY DEF TypeOK, StartTimer
<1>2. keepAliveId' = keepAliveId + 1
  BY DEF StartTimer
<1>3. starting' \in [Clients -> BOOLEAN]
  BY DEF TypeOK, StartTimer
<1> QED
  BY <1>1, <1>2, <1>3

LEMMA InitType == Init => TypeInv
  BY DEF Init, TypeInv, TypeOK, StartedHasId

LEMMA NextType == TypeInv /\ [Next]_vars => TypeInv'
<1> SUFFICES ASSUME TypeInv, [Next]_vars PROVE TypeInv'
  OBVIOUS
<1>0. TypeOK /\ StartedHasId
  BY DEF TypeInv
<1>1. ASSUME NEW c \in Clients, Connect(c) PROVE TypeInv'
  BY <1>0, <1>1, StartTimerType DEF Connect, TypeInv, TypeOK, StartedHasId
<1>2. ASSUME NEW c \in Clients, TimerStarted(c) PROVE TypeInv'
  <2>1. [client |-> c, id |-> keepAliveId] \in Timers
    BY <1>0, <1>2 DEF TimerStarted, TypeOK, StartedHasId, Timers
  <2> QED
    BY <1>0, <1>2, <2>1
       DEF TimerStarted, NewId, TypeInv, TypeOK, StartedHasId
<1>3. ASSUME NEW c \in Clients, Lost(c) PROVE TypeInv'
  BY <1>0, <1>3 DEF Lost, TypeInv, TypeOK, StartedHasId
<1>4. ASSUME NEW c \in Clients, ReadKeepAlive(c) PROVE TypeInv'
  <2>1. queue' \in [Clients -> Seq(Messages)] /\ UNCHANGED timers
    BY <1>0, <1>4, ReadsType DEF ReadKeepAlive
  <2>2. pings' \in [Clients -> 0..MaxPings]
    BY <1>0, <1>4 DEF ReadKeepAlive, TypeOK
  <2> QED
    BY <1>0, <1>4, <2>1, <2>2
       DEF ReadKeepAlive, TypeInv, TypeOK, StartedHasId, Messages
<1>5. ASSUME NEW c \in Clients, ReadPingSuccess(c) PROVE TypeInv'
  <2>1. queue' \in [Clients -> Seq(Messages)] /\ UNCHANGED timers
    BY <1>0, <1>5, ReadsType DEF ReadPingSuccess
  <2> QED
    BY <1>0, <1>5, <2>1, StartTimerType
       DEF ReadPingSuccess, TypeInv, TypeOK, StartedHasId, Messages
<1>6. ASSUME NEW c \in Clients, ReadPingFail(c) PROVE TypeInv'
  <2>1. queue' \in [Clients -> Seq(Messages)] /\ UNCHANGED timers
    BY <1>0, <1>6, ReadsType DEF ReadPingFail
  <2> QED
    BY <1>0, <1>6, <2>1
       DEF ReadPingFail, TypeInv, TypeOK, StartedHasId, Messages
<1>7. ASSUME NEW c \in Clients, RecoverDone(c) PROVE TypeInv'
  BY <1>0, <1>7, StartTimerType DEF RecoverDone, TypeInv, TypeOK, StartedHasId
<1>8. ASSUME NEW c \in Clients, PingEnds(c) PROVE TypeInv'
  <2>1. PICK report \in Reports :
            queue' = [queue EXCEPT ![c] = @ \o AsMessages(report)]
    BY <1>8 DEF PingEnds, AsMessages
  <2>4. queue[c] \in Seq(Messages)
    BY <1>0 DEF TypeOK, Messages
  <2>2. queue[c] \o AsMessages(report) \in Seq(Messages)
    BY <2>4, ReportElements, ConcatElements
  <2>3. queue' \in [Clients -> Seq(Messages)]
    BY <1>0, <2>1, <2>2 DEF TypeOK, Messages
  <2>5. pings' \in [Clients -> 0..MaxPings]
    <3>1. pings[c] \in 1..MaxPings
      BY <1>0, <1>8 DEF PingEnds, TypeOK
    <3>2. pings' = [pings EXCEPT ![c] = pings[c] - 1]
      BY <1>8 DEF PingEnds
    <3> QED
      BY <1>0, <3>1, <3>2 DEF TypeOK
  <2>6. UNCHANGED <<keepAliveId, connected, starting, timers>>
    BY <1>8 DEF PingEnds
  <2> QED
    BY <1>0, <2>3, <2>5, <2>6 DEF TypeInv, TypeOK, StartedHasId, Messages
<1>9. ASSUME NEW t \in timers, TimerFires(t) PROVE TypeInv'
  <2>1. t \in Timers
    BY <1>0 DEF TypeOK
  <2>2. Msg("KeepAlive", t.id) \in Messages /\ t.client \in Clients
    BY <2>1 DEF Timers, Msg, Messages
  <2>3. Append(queue[t.client], Msg("KeepAlive", t.id)) \in Seq(Messages)
    BY <1>0, <2>2, AppendElements DEF TypeOK, Messages
  <2>4. queue' \in [Clients -> Seq(Messages)]
    BY <1>0, <1>9, <2>2, <2>3 DEF TimerFires, TypeOK, Messages
  <2> QED
    BY <1>0, <1>9, <2>4 DEF TimerFires, TypeInv, TypeOK, StartedHasId, Messages
<1>10. CASE UNCHANGED vars
  BY <1>0, <1>10 DEF vars, TypeInv, TypeOK, StartedHasId
<1> QED
  BY <1>1, <1>2, <1>3, <1>4, <1>5, <1>6, <1>7, <1>8, <1>9, <1>10 DEF Next

\* The variables keep their types; in particular a timer that sleeps has a number
\* that KEEP_ALIVE_ID has given out (KeepAliveTime::default).
THEOREM TypeCorrect == Spec => []TypeOK
<1>1. TypeInv => TypeOK
  BY DEF TypeInv
<1> QED
  BY <1>1, InitType, NextType, PTL DEF Spec

-----------------------------------------------------------------------------
(* A ping is always to come, for one client.                               *)

\* What PingToCome asks for, position by position.
Timer(c, k) == [client |-> c, id |-> k]
WillPing(m, k) == m.type # "KeepAlive" \/ (k > 0 /\ m.id = k)

Coming(c) ==
    \/ starting[c]
    \/ pings[c] > 0
    \/ keepAliveId > 0 /\ Timer(c, keepAliveId) \in timers
    \/ \E i \in DOMAIN queue[c] : WillPing(queue[c][i], keepAliveId)

LEMMA ComingIsPingToCome ==
    ASSUME TypeOK, NEW c \in Clients
    PROVE  Coming(c) <=> \/ starting[c] \/ pings[c] > 0 \/ Latest(c) # {}
                         \/ \E m \in Range(queue[c]) : m.type # "KeepAlive"
<1> DEFINE k == keepAliveId
           q == queue[c]
<1>1. k \in 0..MaxTimers /\ q \in Seq(Messages) /\ timers \subseteq Timers
  BY DEF TypeOK, Messages
<1>2. \A i \in DOMAIN q : q[i] \in Messages
  BY <1>1, ElementOfSeq, LenProperties
<1>3. Range(q) = {q[i] : i \in DOMAIN q}
  BY DEF Range
<1>4. ASSUME k > 0, Timer(c, k) \in timers \/ Msg("KeepAlive", k) \in Range(q)
      PROVE  Latest(c) # {}
  <2>1. /\ Timer(c, k) \in Timers
        /\ Timer(c, k).client = c /\ Timer(c, k).id = k
    BY <1>1, <1>4 DEF Timers, Timer
  <2> QED
    BY <1>4, <2>1 DEF Latest
<1>5. ASSUME NEW t \in Latest(c)
      PROVE  /\ k > 0
             /\ Timer(c, k) \in timers \/ Msg("KeepAlive", k) \in Range(q)
  <2>1. t \in Timers /\ t.client = c /\ t.id = k
    BY DEF Latest
  <2>2. t = Timer(c, k) /\ k > 0
    BY <2>1 DEF Timers, Timer
  <2> QED
    BY <2>1, <2>2 DEF Latest
<1> HIDE DEF k, q
<1>6. ASSUME NEW i \in DOMAIN q, q[i].type = "KeepAlive", q[i].id = k
      PROVE  q[i] = Msg("KeepAlive", k)
  BY <1>2, <1>6 DEF Messages, Msg
<1>7. ASSUME NEW i \in DOMAIN q, q[i] = Msg("KeepAlive", k)
      PROVE  q[i].type = "KeepAlive" /\ q[i].id = k
  BY <1>7 DEF Msg
<1>8. (\E i \in DOMAIN q : WillPing(q[i], k))
        <=> \/ k > 0 /\ Msg("KeepAlive", k) \in Range(q)
            \/ \E m \in Range(q) : m.type # "KeepAlive"
  BY <1>3, <1>6, <1>7 DEF WillPing
<1>9. Latest(c) # {} <=> k > 0 /\ (Timer(c, k) \in timers
                                   \/ Msg("KeepAlive", k) \in Range(q))
  BY <1>4, <1>5
<1> QED
  BY <1>8, <1>9 DEF Coming, k, q

PingComing == \A c \in Clients : connected[c] => Coming(c)

LEMMA PingComingStep ==
    ASSUME NEW one, Clients = {one}, TypeInv, PingComing, [Next]_vars
    PROVE  PingComing'
<1> USE DEF Timer
<1>0. /\ TypeOK /\ StartedHasId /\ one \in Clients
      /\ queue[one] \in Seq(Messages)
      /\ connected[one] => Coming(one)
  BY DEF TypeInv, TypeOK, Messages, PingComing
<1> SUFFICES ASSUME connected'[one] PROVE Coming(one)'
  BY DEF PingComing
<1>1. ASSUME NEW c \in Clients, StartTimer(c) PROVE Coming(one)'
  <2>1. c = one
    OBVIOUS
  <2> QED
    BY <1>0, <1>1, <2>1 DEF StartTimer, Coming, TypeOK
<1>2. CASE TimerStarted(one)
  <2>1. keepAliveId' > 0 /\ Timer(one, keepAliveId') \in timers'
    BY <1>0, <1>2 DEF TimerStarted, NewId, StartedHasId
  <2> QED
    BY <2>1 DEF Coming
<1>3. CASE Lost(one)
  BY <1>0, <1>3 DEF Lost, TypeOK
<1>4. CASE ReadKeepAlive(one)
  <2>1. /\ Reads(one, "KeepAlive")
        /\ UNCHANGED <<keepAliveId, connected, starting, timers>>
    BY <1>0, <1>4, ReadsType DEF ReadKeepAlive
  <2>2. /\ queue[one] # <<>> /\ ~starting[one] /\ Head(queue[one]).type = "KeepAlive"
        /\ queue'[one] = Tail(queue[one])
    BY <1>0, <2>1, ReadsType DEF TypeOK, Messages
  <2>3. Coming(one)
    BY <1>0, <2>1
  <2>4. CASE Head(queue[one]).id = keepAliveId
    <3>1. pings'[one] = pings[one] + 1 /\ pings[one] \in Nat
      BY <1>0, <1>4, <2>4 DEF ReadKeepAlive, IsLatest, TypeOK
    <3> QED
      BY <3>1 DEF Coming
  <2>5. CASE Head(queue[one]).id # keepAliveId
    <3>1. UNCHANGED pings
      BY <1>4, <2>5 DEF ReadKeepAlive, IsLatest
    <3>2. ASSUME NEW i \in DOMAIN queue[one], WillPing(queue[one][i], keepAliveId)
          PROVE  \E j \in DOMAIN queue'[one] : WillPing(queue'[one][j], keepAliveId)
      <4>1. i # 1
        BY <1>0, <2>2, <2>5, <3>2, TailElements DEF WillPing
      <4>2. i - 1 \in DOMAIN Tail(queue[one])
        BY <1>0, <2>2, <4>1, TailElements
      <4>3. Tail(queue[one])[i - 1] = queue[one][i]
        <5>1. Tail(queue[one])[i - 1] = queue[one][(i - 1) + 1]
          BY <1>0, <2>2, <4>2, TailElements
        <5>2. i \in Int
          BY <1>0, LenProperties
        <5>3. (i - 1) + 1 = i
          BY <5>2
        <5> QED
          BY Zenon, <5>1, <5>3
      <4> QED
        BY <2>2, <3>2, <4>2, <4>3
    <3> QED
      BY <2>1, <2>2, <2>3, <3>1, <3>2 DEF Coming
  <2> QED
    BY <2>4, <2>5
<1>5. CASE ReadPingFail(one)
  BY <1>0, <1>5 DEF ReadPingFail, TypeOK
<1>6. CASE PingEnds(one)
  <2>1. PICK report \in Reports :
            queue' = [queue EXCEPT ![one] = @ \o AsMessages(report)]
    BY <1>6 DEF PingEnds, AsMessages
  <2>2. queue'[one] = queue[one] \o AsMessages(report)
    BY <1>0, <2>1 DEF TypeOK
  <2>3. /\ 1 + Len(queue[one]) \in DOMAIN queue'[one]
        /\ queue'[one][1 + Len(queue[one])] = AsMessages(report)[1]
    BY <1>0, <2>2, ReportElements, ConcatElements
  <2>4. AsMessages(report)[1].type # "KeepAlive"
    BY ReportElements
  <2> QED
    BY <2>3, <2>4 DEF Coming, WillPing
<1>7. ASSUME NEW t \in timers, TimerFires(t) PROVE Coming(one)'
  <2>1. t \in Timers /\ t.client = one /\ t = Timer(one, t.id)
    BY <1>0 DEF TypeOK, Timers
  <2>2. Msg("KeepAlive", t.id) \in Messages
    BY <2>1 DEF Timers, Msg, Messages
  <2>3. /\ queue'[one] = Append(queue[one], Msg("KeepAlive", t.id))
        /\ timers' = timers \ {t}
        /\ UNCHANGED <<keepAliveId, connected, starting, pings>>
    BY <1>0, <1>7, <2>1 DEF TimerFires, TypeOK
  <2>4. Coming(one)
    BY <1>0, <2>3
  <2>5. ASSUME NEW i \in DOMAIN queue[one], WillPing(queue[one][i], keepAliveId)
        PROVE  Coming(one)'
    <3>1. i \in DOMAIN queue'[one] /\ queue'[one][i] = queue[one][i]
      BY <1>0, <2>2, <2>3, AppendElements
    <3> QED
      BY <2>3, <2>5, <3>1 DEF Coming
  <2>6. ASSUME keepAliveId > 0, Timer(one, keepAliveId) \in timers
        PROVE  Coming(one)'
    <3>1. CASE t.id = keepAliveId
      <4> DEFINE n == Len(queue[one]) + 1
      <4>1. n \in DOMAIN queue'[one] /\ queue'[one][n] = Msg("KeepAlive", t.id)
        BY <1>0, <2>2, <2>3, AppendElements
      <4>2. WillPing(queue'[one][n], keepAliveId')
        BY <2>3, <2>6, <3>1, <4>1 DEF WillPing, Msg
      <4> QED
        BY <4>1, <4>2 DEF Coming
    <3>2. CASE t.id # keepAliveId
      <4>1. Timer(one, keepAliveId) # t
        <5>1. Timer(one, keepAliveId).id = keepAliveId
          OBVIOUS
        <5> QED
          BY <3>2, <5>1
      <4> QED
        BY <2>3, <2>6, <4>1 DEF Coming
    <3> QED
      BY <3>1, <3>2
  <2> QED
    BY <2>3, <2>4, <2>5, <2>6 DEF Coming
<1>8. CASE UNCHANGED vars
  BY <1>0, <1>8 DEF vars, Coming
<1>9. \A c \in Clients : c = one
  OBVIOUS
<1> QED
  BY <1>1, <1>2, <1>3, <1>4, <1>5, <1>6, <1>7, <1>8, <1>9
  DEF Next, Connect, ReadPingSuccess, RecoverDone

\* A client that is alone in its process is never left without its next ping
\* while it is Connected (init_keep_alive_check and KeepAliveTime::latest).
THEOREM AlonePings ==
    ASSUME NEW one, Clients = {one}
    PROVE  Spec => []PingToCome
<1>1. Init => PingComing
  BY DEF Init, PingComing
<1>2. PingComing /\ TypeInv /\ [Next]_vars => PingComing'
  BY PingComingStep
<1>3. PingComing /\ TypeInv => PingToCome
  <2> SUFFICES ASSUME PingComing, TypeInv, NEW c \in Clients, connected[c]
               PROVE  \/ starting[c] \/ pings[c] > 0 \/ Latest(c) # {}
                      \/ \E m \in Range(queue[c]) : m.type # "KeepAlive"
    BY DEF PingToCome
  <2>1. Coming(c) /\ TypeOK
    BY DEF PingComing, TypeInv
  <2> QED
    BY <2>1, ComingIsPingToCome
<1> QED
  BY <1>1, <1>2, <1>3, InitType, NextType, PTL DEF Spec

-----------------------------------------------------------------------------
(* One timer of a client counts at most, however many clients there are.   *)

\* The KeepAlive messages of timer k in the queue of c.
Fired(c, k) == {i \in DOMAIN queue[c] : /\ queue[c][i].type = "KeepAlive"
                                        /\ queue[c][i].id = k}

\* No timer, asleep or fired, has a number that has not been given out; while
\* one is being started none of its client has the latest; and one has it else.
Counting ==
    /\ \A t \in timers : t.id <= keepAliveId
    /\ \A c \in Clients :
        /\ \A i \in DOMAIN queue[c] :
            queue[c][i].type = "KeepAlive" => queue[c][i].id <= keepAliveId
        /\ starting[c] => /\ Fired(c, keepAliveId) = {}
                          /\ Timer(c, keepAliveId) \notin timers
        /\ Timer(c, keepAliveId) \in timers => Fired(c, keepAliveId) = {}
        /\ \A i, j \in Fired(c, keepAliveId) : i = j

\* A new number is nobody's.
LEMMA CountingStart ==
    ASSUME TypeInv, Counting, NEW c \in Clients, StartTimer(c),
           UNCHANGED timers,
           \A d \in Clients : queue'[d] = queue[d] \/ queue'[d] = Tail(queue[d]),
           \A d \in Clients : queue'[d] # queue[d] => queue[d] # <<>>
    PROVE  Counting'
<1>1. /\ keepAliveId \in 0..MaxTimers /\ keepAliveId' = keepAliveId + 1
      /\ \A d \in Clients : queue[d] \in Seq(Messages)
      /\ timers \subseteq Timers
  BY DEF TypeInv, TypeOK, StartTimer, Messages
<1>2. \A t \in timers' : t.id < keepAliveId'
  BY <1>1 DEF Counting, Timers
<1>3. ASSUME NEW d \in Clients, NEW i \in DOMAIN queue'[d]
      PROVE  /\ queue'[d][i] \in Messages
             /\ queue'[d][i].type = "KeepAlive" => queue'[d][i].id < keepAliveId'
  <2>1. ASSUME NEW j \in DOMAIN queue[d]
        PROVE  /\ queue[d][j] \in Messages
               /\ queue[d][j].type = "KeepAlive" => queue[d][j].id < keepAliveId'
    <3>1. queue[d][j] \in Messages
      BY <1>1, ElementOfSeq, LenProperties
    <3> QED
      BY <1>1, <3>1 DEF Counting, Messages
  <2>2. CASE queue'[d] = queue[d]
    BY <2>1, <2>2
  <2>3. CASE queue'[d] = Tail(queue[d]) /\ queue[d] # <<>>
    <3>1. i + 1 \in DOMAIN queue[d] /\ queue'[d][i] = queue[d][i + 1]
      BY <1>1, <2>3, TailElements
    <3> QED
      BY <2>1, <3>1
  <2> QED
    BY <2>2, <2>3
<1>4. \A d \in Clients : Fired(d, keepAliveId)' = {}
  BY <1>1, <1>3 DEF Fired, Messages
<1>5. \A d \in Clients : Timer(d, keepAliveId)' \notin timers'
  BY <1>1, <1>2 DEF Timer
<1>6. /\ \A t \in timers' : t.id <= keepAliveId'
      /\ \A d \in Clients : \A i \in DOMAIN queue'[d] :
            queue'[d][i].type = "KeepAlive" => queue'[d][i].id <= keepAliveId'
  <2>1. \A t \in timers' : t.id \in Int
    BY <1>1 DEF Timers
  <2> QED
    BY <1>1, <1>2, <1>3, <2>1 DEF Messages
<1> QED
  BY <1>4, <1>5, <1>6 DEF Counting

\* A message less, no other timer.
LEMMA CountingRead ==
    ASSUME TypeInv, Counting, NEW c \in Clients, queue[c] # <<>>,
           queue' = [queue EXCEPT ![c] = Tail(queue[c])],
           UNCHANGED <<keepAliveId, starting, timers>>
    PROVE  Counting'
<1>1. /\ queue \in [Clients -> Seq(Messages)]
      /\ queue[c] \in Seq(Messages)
  BY DEF TypeInv, TypeOK, Messages
<1>2. /\ queue'[c] = Tail(queue[c])
      /\ \A d \in Clients : d # c => queue'[d] = queue[d]
  BY <1>1
<1>3. \A i \in DOMAIN queue'[c] :
        i \in Int /\ i + 1 \in DOMAIN queue[c] /\ queue'[c][i] = queue[c][i + 1]
  BY <1>1, <1>2, TailElements, LenProperties
<1>4. \A i \in Fired(c, keepAliveId)' : i + 1 \in Fired(c, keepAliveId)
  BY <1>3 DEF Fired
<1>5. \A i, j \in Fired(c, keepAliveId)' : i = j
  <2> SUFFICES ASSUME NEW i \in Fired(c, keepAliveId)', NEW j \in Fired(c, keepAliveId)'
               PROVE  i = j
    OBVIOUS
  <2>1. i + 1 = j + 1
    BY <1>4 DEF Counting
  <2>2. i \in Int /\ j \in Int
    BY <1>3 DEF Fired
  <2> QED
    BY <2>1, <2>2
<1>6. \A d \in Clients : d # c => Fired(d, keepAliveId)' = Fired(d, keepAliveId)
  BY <1>2 DEF Fired
<1>7. Fired(c, keepAliveId) = {} => Fired(c, keepAliveId)' = {}
  BY <1>4
<1>8. \A i \in DOMAIN queue'[c] :
        queue'[c][i].type = "KeepAlive" => queue'[c][i].id <= keepAliveId'
  BY <1>3 DEF Counting
<1>9. \A d \in Clients : Timer(d, keepAliveId)' = Timer(d, keepAliveId)
  BY DEF Timer
<1> QED
  <2> SUFFICES ASSUME NEW d \in Clients
               PROVE  /\ \A i \in DOMAIN queue'[d] :
                            queue'[d][i].type = "KeepAlive"
                                => queue'[d][i].id <= keepAliveId'
                      /\ starting'[d] => /\ Fired(d, keepAliveId)' = {}
                                         /\ Timer(d, keepAliveId)' \notin timers'
                      /\ Timer(d, keepAliveId)' \in timers'
                            => Fired(d, keepAliveId)' = {}
                      /\ \A i, j \in Fired(d, keepAliveId)' : i = j
    BY DEF Counting
  <2>1. CASE d = c
    BY <1>5, <1>7, <1>8, <1>9, <2>1 DEF Counting
  <2>2. CASE d # c
    BY <1>2, <1>6, <1>9, <2>2 DEF Counting
  <2> QED
    BY <2>1, <2>2

\* What a report adds to a queue does not count.
LEMMA CountingReport ==
    ASSUME TypeInv, Counting, NEW c \in Clients, NEW r \in Seq(Messages),
           \A i \in DOMAIN r : r[i].type # "KeepAlive",
           queue' = [queue EXCEPT ![c] = queue[c] \o r],
           UNCHANGED <<keepAliveId, starting, timers>>
    PROVE  Counting'
<1>1. /\ queue \in [Clients -> Seq(Messages)]
      /\ queue[c] \in Seq(Messages)
  BY DEF TypeInv, TypeOK, Messages
<1>2. /\ queue'[c] = queue[c] \o r
      /\ \A d \in Clients : d # c => queue'[d] = queue[d]
  BY <1>1
<1>3. \A i \in DOMAIN queue'[c] :
        queue'[c][i].type = "KeepAlive"
            => i \in DOMAIN queue[c] /\ queue'[c][i] = queue[c][i]
  BY <1>1, <1>2, ConcatElements
<1>4. \A d \in Clients : Fired(d, keepAliveId)' \subseteq Fired(d, keepAliveId)
  BY <1>2, <1>3 DEF Fired
<1>5. \A d \in Clients : Timer(d, keepAliveId)' = Timer(d, keepAliveId)
  BY DEF Timer
<1> QED
  BY <1>2, <1>3, <1>4, <1>5 DEF Counting

\* A timer that fires counts in the queue instead.
LEMMA CountingFires ==
    ASSUME TypeInv, Counting, NEW t \in timers, TimerFires(t)
    PROVE  Counting'
<1> DEFINE c == t.client
           m == Msg("KeepAlive", t.id)
           n == Len(queue[c]) + 1
<1>1. /\ queue \in [Clients -> Seq(Messages)]
      /\ timers \subseteq Timers /\ t \in Timers
      /\ keepAliveId \in 0..MaxTimers
  BY DEF TypeInv, TypeOK, Messages
<1>2. /\ c \in Clients /\ t = Timer(c, t.id)
      /\ t.id \in 1..MaxTimers /\ t.id <= keepAliveId
      /\ m \in Messages /\ m.id = t.id /\ m.type = "KeepAlive"
  BY <1>1 DEF Timers, Timer, Msg, Messages, Counting
<1>3. /\ queue'[c] = Append(queue[c], m)
      /\ \A d \in Clients : d # c => queue'[d] = queue[d]
      /\ timers' = timers \ {t}
      /\ UNCHANGED <<keepAliveId, starting>>
  BY <1>1, <1>2 DEF TimerFires
<1>4. \A i \in DOMAIN queue'[c] :
        \/ i \in DOMAIN queue[c] /\ queue'[c][i] = queue[c][i]
        \/ i = n /\ queue'[c][i] = m
  BY <1>1, <1>2, <1>3, AppendElements
<1>5. \A d \in Clients : Timer(d, keepAliveId)' = Timer(d, keepAliveId)
  BY <1>3 DEF Timer
<1>6. \A d \in Clients : d # c => Fired(d, keepAliveId)' = Fired(d, keepAliveId)
  BY <1>3 DEF Fired
<1> HIDE DEF c, m, n
<1>7. \A i \in DOMAIN queue'[c] :
        queue'[c][i].type = "KeepAlive" => queue'[c][i].id <= keepAliveId'
  BY <1>2, <1>3, <1>4 DEF Counting
<1>8. CASE t.id # keepAliveId
  <2>1. Fired(c, keepAliveId)' \subseteq Fired(c, keepAliveId)
    BY <1>2, <1>3, <1>4, <1>8 DEF Fired
  <2> QED
    BY <1>3, <1>5, <1>6, <1>7, <2>1 DEF Counting
<1>9. CASE t.id = keepAliveId
  <2>1. Timer(c, keepAliveId) \in timers /\ Timer(c, keepAliveId) = t
    BY <1>2, <1>9
  <2>2. Fired(c, keepAliveId) = {} /\ ~starting[c]
    BY <1>2, <2>1 DEF Counting
  <2>3. Fired(c, keepAliveId)' \subseteq {n}
    BY <1>3, <1>4, <2>2 DEF Fired
  <2>4. Timer(c, keepAliveId)' \notin timers'
    BY <1>2, <1>3, <1>5, <2>1
  <2> QED
    BY <1>3, <1>5, <1>6, <1>7, <2>2, <2>3, <2>4 DEF Counting
<1> QED
  BY <1>8, <1>9

LEMMA CountingStep == TypeInv /\ Counting /\ [Next]_vars => Counting'
<1> SUFFICES ASSUME TypeInv, Counting, [Next]_vars PROVE Counting'
  OBVIOUS
<1>0. TypeOK
  BY DEF TypeInv
<1>1. ASSUME NEW c \in Clients, Connect(c) PROVE Counting'
  BY <1>1, CountingStart DEF Connect
<1>2. ASSUME NEW c \in Clients, TimerStarted(c) PROVE Counting'
  <2>1. /\ timers' = timers \cup {Timer(c, keepAliveId)}
        /\ starting[c] /\ starting' = [starting EXCEPT ![c] = FALSE]
        /\ UNCHANGED <<keepAliveId, queue>>
    BY <1>2 DEF TimerStarted, NewId, Timer
  <2>2. /\ starting \in [Clients -> BOOLEAN]
        /\ keepAliveId \in 0..MaxTimers
    BY <1>0 DEF TypeOK
  <2>3. Fired(c, keepAliveId) = {}
    BY <2>1 DEF Counting
  <2>4. \A d \in Clients : /\ Fired(d, keepAliveId)' = Fired(d, keepAliveId)
                           /\ Timer(d, keepAliveId)' = Timer(d, keepAliveId)
    BY <2>1 DEF Fired, Timer
  <2>5. \A d \in Clients : d # c => /\ starting'[d] = starting[d]
                                    /\ Timer(d, keepAliveId) # Timer(c, keepAliveId)
    BY <2>1, <2>2 DEF Timer
  <2>6. ~starting'[c]
    BY <2>1, <2>2
  <2>7. Timer(c, keepAliveId).id = keepAliveId
    BY DEF Timer
  <2>8. \A s \in timers' : s.id <= keepAliveId'
    BY <2>1, <2>2, <2>7 DEF Counting
  <2> QED
    BY <2>1, <2>3, <2>4, <2>5, <2>6, <2>8 DEF Counting
<1>3. ASSUME NEW c \in Clients, Lost(c) PROVE Counting'
  BY <1>3 DEF Lost, Counting, Fired, Timer
<1>4. ASSUME NEW c \in Clients, ReadKeepAlive(c) PROVE Counting'
  BY <1>0, <1>4, ReadsType, CountingRead DEF ReadKeepAlive
<1>5. ASSUME NEW c \in Clients, ReadPingSuccess(c) PROVE Counting'
  <2>1. /\ StartTimer(c) /\ UNCHANGED timers
        /\ queue[c] # <<>> /\ queue' = [queue EXCEPT ![c] = Tail(queue[c])]
    BY <1>0, <1>5, ReadsType DEF ReadPingSuccess
  <2>2. /\ \A d \in Clients : queue'[d] = queue[d] \/ queue'[d] = Tail(queue[d])
        /\ \A d \in Clients : queue'[d] # queue[d] => queue[d] # <<>>
    BY <1>0, <2>1 DEF TypeOK
  <2> QED
    BY <2>1, <2>2, CountingStart
<1>6. ASSUME NEW c \in Clients, ReadPingFail(c) PROVE Counting'
  BY <1>0, <1>6, ReadsType, CountingRead DEF ReadPingFail
<1>7. ASSUME NEW c \in Clients, RecoverDone(c) PROVE Counting'
  BY <1>7, CountingStart DEF RecoverDone
<1>8. ASSUME NEW c \in Clients, PingEnds(c) PROVE Counting'
  <2>1. PICK report \in Reports :
            queue' = [queue EXCEPT ![c] = queue[c] \o AsMessages(report)]
    BY <1>8 DEF PingEnds, AsMessages
  <2>2. UNCHANGED <<keepAliveId, starting, timers>>
    BY <1>8 DEF PingEnds
  <2> QED
    BY <2>1, <2>2, ReportElements, CountingReport
<1>9. ASSUME NEW t \in timers, TimerFires(t) PROVE Counting'
  BY <1>9, CountingFires
<1>10. CASE UNCHANGED vars
  BY <1>10 DEF vars, Counting, Fired, Timer
<1> QED
  BY <1>1, <1>2, <1>3, <1>4, <1>5, <1>6, <1>7, <1>8, <1>9, <1>10 DEF Next

\* However many clients share KEEP_ALIVE_ID, and however often each of them
\* starts a timer while others sleep, one of its timers at most will ping.
THEOREM OnePingAtATime == Spec => []OneTimerCounts
<1>1. Init => Counting
  BY DEF Init, Counting, Fired, Timer
<1>2. TypeInv /\ Counting => OneTimerCounts
  <2> SUFFICES ASSUME TypeInv, Counting, NEW c \in Clients
               PROVE  Cardinality({i \in DOMAIN queue[c] :
                                      queue[c][i].type = "KeepAlive"
                                      /\ IsLatest(queue[c][i].id)})
                        + Cardinality({t \in timers :
                                      t.client = c /\ IsLatest(t.id)}) <= 1
    BY DEF OneTimerCounts
  <2> DEFINE A == {i \in DOMAIN queue[c] : queue[c][i].type = "KeepAlive"
                                           /\ IsLatest(queue[c][i].id)}
             B == {t \in timers : t.client = c /\ IsLatest(t.id)}
             u == Timer(c, keepAliveId)
  <2>1. A = Fired(c, keepAliveId)
    BY DEF Fired, IsLatest
  <2>2. timers \subseteq Timers
    BY DEF TypeInv, TypeOK
  <2>3. \A t \in B : t = u
    BY <2>2 DEF Timers, Timer, IsLatest
  <2>4. B = {} \/ B = {u}
    BY <2>3
  <2>5. A = {} \/ \E i \in A : A = {i}
    BY <2>1 DEF Counting
  <2>6. u \in timers => A = {}
    BY <2>1 DEF Counting
  <2>7. A = {} \/ B = {}
    BY <2>4, <2>6
  <2> HIDE DEF A, B, u
  <2>8. A = {} => Cardinality(A) = 0
    BY FS_EmptySet
  <2>9. B = {} => Cardinality(B) = 0
    BY FS_EmptySet
  <2>10. B = {u} => Cardinality(B) = 1
    BY FS_Singleton
  <2>11. ASSUME NEW i \in A, A = {i} PROVE Cardinality(A) = 1
    BY <2>11, FS_Singleton
  <2>12. Cardinality(A) + Cardinality(B) <= 1
    BY <2>4, <2>5, <2>7, <2>8, <2>9, <2>10, <2>11
  <2> QED
    BY <2>12 DEF A, B
<1> QED
  BY <1>1, <1>2, InitType, NextType, CountingStep, PTL DEF Spec
=============================================================================
