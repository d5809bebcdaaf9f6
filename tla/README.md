# A verification development for for-mqtt-client

`for-mqtt-client` is an asynchronous MQTT 3.1.1 / 5 client.  A handle,
`MqttClient`, is given to the user; everything else is a set of tokio tasks that
talk over an event bus: one `TaskHub`, at any time one or more `TaskNetwork`s, and
a short-lived task for every handshake.  This directory holds TLA+ models of these
tasks and of the bytes between a `TaskNetwork` and the broker, the TLC runs that
check them on small instances, and TLAPS proofs for all instances.

Paths below are relative to the repository (`src/src/...` is the crate's own
`src/`); line numbers are those of `PROJECT.json`.

## 1. Inventory

| Part | Keeps | Operations | Talks to |
|---|---|---|---|
| Client (`tasks/task_client`) | nothing that changes | `publish`, `to_subscribe`, `unsubscribe`, `disconnect`: each dispatches one event | TaskHub |
| TaskHub (`tasks/task_hub`) | `state` (ToConnect, Connected, ToDisconnect, Disconnected); a ring buffer of packet ids; `client_data`, the unfinished requests; `rx_publish` and `rx_publish_id`, the unfinished inbound publishes | `run_to_connect`, `run_connected`, the ToDisconnect arm of `run`; handlers for client data, `HubMsg`s, `NetworkEvent`s and commands | all |
| TaskNetwork (`tasks/task_network`) | its own state (ToConnect, Connected, ToDisconnect), the read buffer and the TCP or TLS stream | connect and CONNACK, read and dispatch, write and give a receipt, end | TaskHub, handshake tasks, broker |
| Outbound tasks (`task_publish/publish_qos_{0,1,2,2_rel}.rs`, `task_subscribe`) | the packet, until it is acknowledged | send, wait for the receipt, wait for the acknowledgement, send again after a timeout (`complete_to_tx_packet`), dispatch `RecoverId`, tell the user | TaskHub, TaskNetwork, user |
| Inbound tasks (`task_publish/publish_rx_qos_{1,2}.rs`) | a packet id | PUBACK, or PUBREC until PUBREL and PUBCOMP; `AffirmRxPublish`, `AffirmRxId` | TaskHub, TaskNetwork |
| Keep-alive (`KeepAliveTime`, `keep_alive`, `task_ping`) | the static counter `KEEP_ALIVE_ID`; sleeping timers | start a timer, fire, `latest()`, PINGREQ and PINGRESP, `PingSuccess` or `PingFail` | TaskHub, TaskNetwork |
| Event bus (crate `for_event_bus`) | a bounded queue for each subscriber | login, subscribe, dispatch, receive | all |
| Frame reader (`read_from_network`, `FixedHeader`, `length`) | the bytes that have been read | wait for a whole frame, split it off, parse it; CONNACK alone in `_run_to_connect`, as many packets as there are in `deal_connected_network_packet` | TaskNetwork |
| Packet codecs (`protocol/packet`) | nothing | `read` of CONNACK, PUBLISH, the four acknowledgements, SUBACK, UNSUBACK, DISCONNECT; `write` and the remaining length of all that the client sends | frame reader, TaskNetwork |
| Id generators (`datas/id.rs`) | two static counters | `Id`: trace ids, one `fetch_add`; `SubscribeId`: never made by the crate | Client |
| Options, protocol types, TLS, examples | configuration | – | – |

**What is hard.**  No task holds a lock, and no event is answered before the next is
handled, so that correctness hangs on the order of events between five kinds of
actors:

* *Reconnection.*  After CONNACK the hub starts a task for every entry of
  `client_data`; the tasks of the old connection that still wait for an
  acknowledgement are not stopped.  Two tasks then work on one entry.
* *Packet ids* come from a pool, go through an entry, a task, the broker and
  `RecoverId`, and back.  An id given out twice, or lost, or a stale `RecoverId`
  that completes another request's entry, would lose messages.
* *Handshakes cut at any step.*  `tx_network_default` fails when the TaskNetwork is
  gone and the task ends in silence; only `client_data` (for outbound requests)
  and the broker (for inbound publishes) still know of it.
* *Acknowledging before delivering.*  PUBACK is written before the publish is
  handed to the user; the publish is in `rx_publish` meanwhile.
* *Duplicates.*  The broker repeats PUBLISH and PUBREL after a reconnection;
  `rx_publish_id` is to recognise them.
* *Several TaskNetworks.*  After a failed ping or the broker's DISCONNECT the hub
  starts a new one while the old one is still alive, and `NetworkEvent`s do not
  say whose they are.
* *Timers.*  Keep-alive timers are never cancelled; a counter shared by the whole
  process decides which still counts.
* *Reads that cut anywhere.*  A read brings a part of a frame or several frames;
  what is left behind CONNACK or behind a frame that is no packet stays in the
  buffer until the next read.
* *Lengths computed apart.*  `len_len`, `length` and `write_remaining_length` are
  three functions that must agree, and each packet computes its remaining length
  apart from the bytes it writes.

`PROJECT.json` lists these hazards at the lines where they bite.

**What makes each part correct.**

* Requests: each is taken by the broker (QoS 2: once), kept until then, answered
  to the user (once, and truthfully); packet ids are conserved.
* Inbound publishes: each is delivered (QoS 2: once, after its release), none is
  lost after it was acknowledged, each handshake ends and frees its id.
* Connection: one network at a time; Connected means that there is one; after
  failures the client comes to rest; the user's disconnect ends everything.
* Keep-alive: a connection always has a ping to come, and one timer that counts.
* Stream: the packets are dispatched as the broker meant them, in order, once, and
  in the end all of them; the lengths written are true and are read back.

## 2. Modules

| Module | Models | State |
|---|---|---|
| `OutboundSession` | Client requests, TaskHub (ids, `client_data`, respawn), all outbound tasks, TaskNetwork, broker | 18 variables |
| `InboundSession` | TaskHub (`rx_publish`, `rx_publish_id`), the inbound tasks, TaskNetwork, broker | 13 variables |
| `MessageDelivery` | abstract: what the user is promised of the messages of the broker | 3 variables |
| `Connection` | TaskHub's state machine, every TaskNetwork it starts, pings, the disconnect command, broker | 14 variables |
| `KeepAlive` | `KEEP_ALIVE_ID`, the timers and pings of several clients of one process | 6 variables |
| `RemainingLength` | the variable byte integer, byte for byte: `len_len`, `write_remaining_length`, `length` | operators |
| `Codecs` | which frames become a packet and of what, and the lengths of what the client writes (EXTENDS `RemainingLength`) | operators |
| `FrameReader` | the buffer between `read_buf` and the dispatched packets (EXTENDS `Codecs`) | 7 variables |
| `PacketStream` | abstract: an ordered stream of packets, none lost or repeated while it is open | 3 variables |
| `SequenceLemmas` | what `RemoveAt`, `Head`, `Tail` and `Append` do, index by index; induction over numbers and sequences | – |
| `…_proofs` | the theorems about the module of that name (section 5); `OutboundRequests_proofs` is about `OutboundSession` too, `Codecs_proofs` about `RemainingLength` too | – |
| `MC…` | the constants of the TLC runs | – |

The modules compose through two abstract specifications.  `FrameReader` implements
`PacketStream` (its variable `open` is "connecting or connected"): packets of one
connection come in their order, none twice or changed.  That is what the wires
of `OutboundSession` and `InboundSession` are, sequences of packets that are lost
with the connection.  `InboundSession` in turn implements `MessageDelivery`, with
`released` read off the broker's state.

One action stands for one handler, with everything the handler does before it next
waits.  Where a function waits (`.await` on the bus, on a receipt, on a timeout)
the action ends and the next one begins.  In the session modules:

* **The bus is a FIFO queue for each subscriber** (`for_event_bus` is external).
  Dispatch appends to the queue of each one that is logged in; with none, the
  event is gone.  The three `identity*` fields of TaskHub are three queues, and
  `select!` polls them in random order: a hub that is Connected may take any of
  them next.  The capacity of 1000 events is not modelled.
* **Acknowledgements** go straight from TaskNetwork to the tasks that subscribed
  to their type.  What a task finds in that queue matters only through "there is
  one with my id", one bit (`acked`), and what the first of these says (`refused`).  A timeout is possible only while no such
  acknowledgement is queued: `timeout` polls the receiver first.
* **The receipt.**  `tx_network_default` gives the packet to the TaskNetwork and
  waits for `done()`.  When there is no TaskNetwork, or it ends with the packet in
  its queue, the receipter is dropped, the task gets an error and ends without
  telling anyone.  A TaskNetwork is logged in from the moment the hub starts it,
  so packets also queue up while it connects.
* **The broker** is external: it acknowledges or refuses, keeps its session over
  reconnections (`clean_session = false`), repeats what was not acknowledged, and
  takes a QoS 2 publish once for each id until PUBREL.

### OutboundSession
Entries of `client_data` are records `[kind, req, id]`; the kind is the variant of
`UnacknowledgedClientData`, and `Completed` is `acknowledge()`.  Tasks carry a
program counter through their `run` function: `send`, `receipt` (waiting for
`done()`), `await` (in `complete_to_tx_packet`), `again` (TaskPublishQos1 dispatches
`RecoverId` twice), `notify`.  `born` is the connection the hub spawned it on, to
tell the old task from the respawned one.  `HubPoolEmpty` is the error of
`request_id`, which leaves `run`; `connect` calls `run` again and the request is
gone without any event for the user.

An acknowledgement is a kind, an id and whether it refuses.  In MQTT 5 the code reads
the reasons from 128 on of PUBACK, PUBREC and PUBCOMP (`PubAckTy::reason` and its like)
as those of any other acknowledgement, and SUBACK has failures in 3.1.1 too.
`Refusable` are the requests that the broker may refuse (`BrokerRefuse`).  A
refused PUBLISH, SUBSCRIBE or UNSUBSCRIBE is not taken; a PUBREL can only be told that
there is no such id.  All tasks go on as if they were granted (`NetForward`,
`TaskAcked`).  Where they differ is what they tell the user (`Claims`):
`SubscribeAck` and `UnsubscribeAck` pass the reasons on, and are a claim of success only
when the reason is one; `PublishSuccess` is sent whatever the reason was.
`notified` counts the answers, `claimed` has the requests of which one claimed success.

### InboundSession and MessageDelivery
The connection is one variable (`up`, `lost`: the hub has not read ConnectedErr
yet, `down`, `connecting`).  The hub reads its queue only while it is Connected.
The broker numbers its publishes cyclically, so ids are used again while events
about their last use are still under way.

`MessageDelivery` has three actions, Send, Release and Deliver.  A message of QoS 0
or 2 is delivered once at most, one of QoS 2 only when released; one of QoS 1 may
be delivered again.  The abstract `released` is the set `Released`: the QoS 2
messages that the broker has sent and no longer keeps in order to publish them
again.

### Connection
`WaitNetwork` is the `recv` inside `run_to_connect`.  Each TaskNetwork is idle,
connecting, up, closing or ended; `told` is the Disconnect command in its queue,
`said` that the broker sent it DISCONNECT, `session` which network the broker
holds for this client id: it closes the older one when a newer connects.
Events queue up in `events` without an owner, as in the code.  Keep-alive is
reduced to one timer that counts (`armed`): what the counter does is KeepAlive.
`Init` chooses `auto` (`auto_reconnect`) and `calm`: a calm broker sends no
DISCONNECT, as in MQTT 3.1.1, and no keep-alive timer fires in the time looked at.
`LeftOpen` are the networks that go on after the hub has ended: they are live, have not
been told to disconnect, the broker has sent them no DISCONNECT, and it has not taken
their session over.

### KeepAlive
`KeepAliveTime::default` is two atomic steps, `fetch_add` and `load`, with
`starting` between them.  Timers are never cancelled; a `KeepAlive` message whose
id is not the latest is read and ignored.

### RemainingLength, Codecs and FrameReader
A frame is a record of its parts (`head`, `reasons`, `written` for the property
length, `props`, `payload`); names, texts and numbers are abstracted to their
size, but the bytes of the fixed header are the bytes of the code.  `Codecs` says
which frames the `read` functions accept and what packet they make (`Readable`,
`ReadPacket`), and, apart from that, what the broker meant (`Meaning`).  It follows
the reading loops as they are: the cursor, the sets of known properties and
reason codes, the special lengths of acknowledgements.  For the other direction it has
both computations of the code, the remaining length (`LenOf`) and the pieces that are
written behind it (`Pieces`).

In `FrameReader` the bytes under way are those of the frames in `wire`, the first
`buffered` of them in the buffer.  `RunToConnect` and `RunConnected` are one read and
all that is done before the next.  `ReadFromNetwork` is one call of
`read_from_network`, on the prefix of the frame that is there.

## 3. Runs

| Run | Asks | Bounds, and why they are enough |
|---|---|---|
| `outbound_one_connection` | Without losses, are ids conserved, messages taken once (QoS 2), users told once, and never of a false success? | three requests of three kinds on two ids: ids are used again, and the pool runs empty; the subscription and the unsubscription may be refused; one retransmission for each task |
| `outbound_reconnect` | Does an entry stay until the broker has done its part, and is every request in the end answered? | a QoS 1 publish and a subscription, two connection attempts: one failure or loss at every point |
| `outbound_qos2_reconnect` | Are ids conserved, is no entry forgotten and no answer given before the broker's, and not more than one for each connection, when old and new tasks work on an entry? | one QoS 2 publish, which may be refused, beside one of QoS 0; three attempts: up to three generations of tasks |
| `outbound_refused` | (violation) Is a success reported only when there is one? | one QoS 1 publish, refused |
| `outbound_qos2_lost` | (violation) Is a QoS 2 publish kept until PUBREL is processed? | one QoS 2 publish, three attempts; one loss is enough |
| `inbound_reconnect` | Is nothing lost that was acknowledged, no QoS 2 message delivered twice or before its release, and is that what `MessageDelivery` promises? | three messages on two ids, two losses, a packet repeated: an id is used again and every handshake is cut anywhere; the longest of the runs |
| `inbound_live` | Without losses, is every message delivered and does every handshake end? | a message of each QoS, a PUBREC repeated |
| `inbound_poison` | (violation) Is every message delivered over a loss? | one QoS 2 message, one loss |
| `connection` | Calm: one network, none left open, recovery.  In any case: does the user's disconnect end the hub whatever stale events there are? | three networks, two failures, a ping: networks overlap, and a connection fails twice, in any phase, and comes up a third time; with and without `auto_reconnect` |
| `frame_reader` | Are the packets dispatched as they were sent however the bytes are cut, and in the end all of them, does a good CONNACK connect, are lengths read back and true? | two frames behind CONNACK, of all that are in `MCFrameReader`: one to four bytes of length, each packet, with and without reasons and properties, and one that is no packet.  A read ends at any byte of a header, at the first of a body, or before or at its last (`CutPoints`): between these the code cannot tell where it stands |
| `keep_alive_one_client` | Is a ping always to come, and does one timer count at most? | four timers, two pings |
| `keep_alive_two_clients` | (violation) The same for two clients of one process. | three timers |

Every property of a passing run has a mutant: a small change of one definition that
a plausible bug would make, with which TLC finds the property violated.  They are
the definitions marked `\* mutant` and are used by no specification.

`CHECK_DEADLOCK` is off: the bounded numbers of requests, attempts, frames and losses
end, and then the system rightly stops.

### What the violations show
* `outbound_qos2_lost`.  After a reconnection the old TaskPublishQos2 and the new one
  both get the PUBREC and both dispatch `RecoverId`.  The first makes the entry a
  PubRel and starts the task of its PUBREL; the second finds a PubRel and removes it,
  and frees its id, before PUBREL has been sent.  The run ends there.  What is left
  is that task, and none would be started again for it after a further loss.
* `outbound_refused`.  The broker refuses a QoS 1 publish (MQTT 5, a reason from 128 on).
  TaskPublishQos1 throws the PUBACK away and sends `PublishSuccess`; TaskPublishQos2Rel
  does the same with PUBCOMP, and TaskPublishQos2 sends PUBREL on a refusing PUBREC.
  `PublishFail` is sent nowhere.
* `inbound_poison`.  A task that answers an inbound publish ends when it cannot send;
  its id stays in `rx_publish_id`, and the publish the broker sends again is taken
  for a duplicate for ever.
* `keep_alive_two_clients`.  `KEEP_ALIVE_ID` is shared by all clients: the timer of one
  makes that of the other "not the latest", and it never pings again.

### Where the passing properties stop
Several properties hold only in the setting of their run; TLC shows that they fail
outside it, and the passing runs are not to be read as more:

* `ExactlyOnce` holds on one connection.  After a reconnection a PUBLISH can arrive after
  the PUBREL of the same message.  On one connection it fails when a QoS 1 and a QoS 2
  publish use one id in turn: the second `RecoverId` of TaskPublishQos1 makes the entry
  of the QoS 2 publish that has got its id a PubRel, and a PUBREL can then be written
  before the PUBLISH.  It is proved on one connection when ids never run out or no
  QoS 1 publish is made.
* `NotifiedOnce` holds on one connection, and is proved there.  After a reconnection the
  old and the respawned task can both report one request.
* `NoFalseSuccess` holds in `outbound_one_connection` because no publish may be refused
  there; where one may, it fails as `outbound_refused` shows, on any connection.
* `AnsweredByBroker`, and with it `NoFalseSuccess`, is checked with one request or one of each
  kind.  When two requests have one id, one after the other, an acknowledgement of
  the first that comes twice is taken for that of the second: two QoS 1 publishes with a
  retransmission, or two QoS 2 publishes over a reconnection.  `AnsweredByBroker` is
  proved for as many ids as there are requests, whatever is refused, and
  `NoFalseSuccess` when moreover no publish is.
* `AnsweredOncePerConnection` allows an event more for each reconnection.
* `EveryRequestAnswered` leaves out a request that finds the pool empty: nobody tells
  the user of it.
* `HeldUntilFinished` fails with QoS 2 over a reconnection (`outbound_qos2_lost`), and when ids
  run out and a QoS 1 publish is made: with two of them on one id and one connection,
  the first `RecoverId` of the first publish frees the id, the hub gives it to the second,
  and the second `RecoverId` removes the entry of that one, which has not been sent.
  It is proved for as many ids as requests and no QoS 2.
* `AcknowledgedIsNotLost` is checked with one QoS 1 message.  With two on one id and a
  loss, two PUBACKs of the first reach the broker, and the second of them ends the
  handshake of the next message before the client has read it.  It is proved for QoS 2
  always, and for QoS 1 without losses, or with an id for each message, or with one
  message of QoS 1.
* `EveryMessageDelivered` fails without any loss when an id is used again before
  AffirmRxId of its last use is read: `inbound_live` has an id for each message.
* `OneNetwork`, `ConnectedMeansNetwork`, `NothingLeftOpenWhenCalm` and `Recovers` are
  about calm connections.  With DISCONNECT from the broker or failing pings the
  ConnectedErr of a network that was taken over can end the new one, again and
  again.  `NothingLeftOpen` fails when the broker sends DISCONNECT, the user
  disconnects while the next TaskNetwork is connecting, and the broker closes the first
  connection: its ConnectedErr wakes `run_to_connect`, which goes round its loop, takes
  the disconnect there (`HubDropToConnect`) and ends without telling that TaskNetwork.
* `FailsForAReason` allows that a good CONNACK fails when the first read ends inside its
  fixed header: `read_from_network` then returns `InsufficientBytes`, and
  `_run_to_connect` passes it on, although the comment in `length` is "wait for one
  more byte".  A body that is cut is waited for.
* `ImplementsPacketStream` has frames with one subscription identifier at most.  Each
  of them moves the cursor of `PublishProperties::read` one byte too far; with two
  the last property can stay unread and become part of the payload.  The client
  itself cannot ask for identifiers.  What is no packet for the code is not in the
  stream either: a DISCONNECT of MQTT 5 that has a reason but no property length,
  which the standard allows, is dropped.
* `OutgoingLengthsTrue` claims that a publish the client accepts has a length of four
  bytes for MQTT 3.1.1 only.  The limit in `publish_with_trace_id` is payload + 4 +
  topic; with a packet id and the property length of MQTT 5 the remaining length can be
  268435456, for which `write_remaining_length` writes five bytes.

## 4. Fairness
`FairSpec` is used for the liveness properties only.  tokio runs every task that is
ready, so each of the hub, the tasks, the TaskNetwork and the broker has weak
fairness.  `Connection` adds weak fairness for each of the hub's queues, because
`select!` polls its branches in random order and a queue that stays non-empty
is read in the end.  Nothing is assumed of the user, of timeouts, of failures
or losses.  Of the broker is assumed that it answers CONNECT and acknowledges what
it reads; the code has no timeout for CONNACK (listed as a hazard).

In `FrameReader` the network is polled and bytes that were sent come.  It also assumes
that there is always one more PINGRESP: bytes left in the buffer behind CONNACK or
behind a frame that is no packet are looked at only after the next read, and on a
connection where nothing else is sent it is the keep-alive that brings one.  The
keep-alive cannot be turned off (`set_keep_alive` refuses less than five seconds), each
timer is followed by another, and TaskPing asks again when it has no answer.

## 5. Proofs
TLC checks the small instances of section 3; the theorems below hold for all values
of the constants.  Assumed are only the named assumptions of the constants:
kinds and qualities of service are given for each request and message, pools have at
least one id, bounds are naturals; for `FrameReader`, that a length can be said in
four bytes (`LengthAssumption`: a malformed length, and the buffer it throws away,
cannot come from a broker that keeps to the protocol), that the broker's good
CONNACKs are ones the code can read (`ConnAckAssumption`), and that it sends no second
CONNACK and no more than one subscription identifier in a packet
(`LaterAssumption`).  Requests and messages need not even be finite, unless a theorem
says so.

Some theorems have a premise on the constants, because without it the property is
false (section 3 says how); it is in the statement of the theorem.

Proofs about recursive functions go by induction.  The library's induction theorems
take an operator as a parameter, which the provers cannot instantiate; but that the
natural numbers are well-founded does not, so that `SequenceLemmas` proves induction
for a set: `SetInduction` (a set that has 0, and with n also n + 1, has every
number) and `SeqInduction` (the same for the empty sequence and `Append`).

### OutboundSession_proofs
* `TypeCorrect`: `Spec => []TypeOK`.
* `IdsAreConserved`: `Spec => []IdsConserved`, for every size of the pool (65535 in
  the code).  `IdsConserved` is inductive with `TypeOK` alone, because it is stated
  with the lengths: a full pool leaves no room for an entry, so that the push in
  `RecoverId` is never refused.  The work is in `DoneKeepsIds`: the removal from the
  middle of `client_data` and the push must keep both sequences free of
  repetitions and disjoint; `RemoveAtElements` and `IdsByIndex` say what they do index
  by index.
* `NoEntryForgotten`: `Spec => []EntryAttended`.  This one is not inductive: that a task
  which loses its receipt may end depends on a ConnectedErr being under way.  It is
  strengthened with `NetworkEventsInv`, which says what may be in `identity_network`
  in each state of the hub and the network (two events at most, and which), and with
  `AttendedInv`, which says that while the hub is Connected and its network up each
  entry has a task that still sends or waits for the acknowledgement of that very
  entry and id (and not merely of its kind), or that its `RecoverId` is queued.
  `IdsConserved` is needed too: a `RecoverId` read for an id concerns the one entry with
  that id and leaves the others attended.

### OutboundRequests_proofs
What a single request may rely on.  Two premises occur.  *Fresh ids*: no more requests
are made than there are packet ids (65535 in the code), so that no id is given out
twice.  *One connection*: `MaxAttempts = 1`, a connection that is made and not lost, so
that no task has a respawned twin.

* `AnswersAreTrue` (`AnsweredByBroker`), with fresh ids and any number of connections, losses
  and retransmissions, and whatever the broker refuses.  In `FreshIdsInv` a request is in
  the hub's queue once (`QueueInv`); the ids that were never given out stand first in
  the pool, in order, and those that come back behind them (`FreshInv`); therefore an id
  names one request wherever there is a copy of it, in entries, tasks, packets and
  the broker (`CopiesInv`); and no acknowledgement, `RecoverId` or task claims what the
  broker has not done, or not refused, for the request that its id names (`TruthInv`).
* `SuccessIsTrue` (`NoFalseSuccess`), with fresh ids and when the broker refuses no QoS 1 or
  QoS 2 publish; subscriptions and unsubscriptions it may refuse as it likes.  `ClaimInv`
  adds what has been claimed.  Without the second premise it is false
  (`outbound_refused`), which is why it is stated apart from `AnswersAreTrue`.
* `KeptUntilTaken` and `HeldUntilTheEnd` (`HeldUntilFinished`), with fresh ids: an entry goes
  only when a `RecoverId` of its id is read, and that is truthful (`TruthInv`).  A QoS 2
  request, which can lose its own entry, does the others no harm: `KeptUntilTaken` speaks
  of each request that is not QoS 2, whatever there is beside it.  (A request that was
  refused need not be kept: `HeldUntilFinished` says so.)
* `ReportedOnce` (`NotifiedOnce`), on one connection, with ids that are used again:
  `OneConnectionInv` says where the hub and its TaskNetwork stand, `SoleInv` that a
  request has one entry and one task of a kind, and was not reported while that can
  still report it.
* `TakenOnce` (`ExactlyOnce`), on one connection, with fresh ids or without QoS 1.  The
  heart of it is `OrderInv`: a publish on its way, or one that may still be sent, has
  not been taken, or the broker still knows it; and a PUBREL of its id that comes
  before it is one of an earlier request, and is in front of all its copies.  For this a
  request must keep its id and have no publish left once it has gone on to PUBREL
  (`OneIdInv`), a task must not send before its receipt (`ReceiptInv`), and only the task
  of an entry, or one `RecoverId`, may still recover its id (`RecoverInv`).  The premises enter
  in one place: an id that is taken from the pool is one of which nothing speaks any
  more (`TakeIsClean`), because it is new (`FreshIsClean`) or because every `RecoverId` and
  every task belongs to an entry (`HeldIsClean`).  With neither, the second `RecoverId` of
  a QoS 1 publish can still be on its way.

### InboundSession_proofs
* `TypeCorrect`: `TypeInv` adds to `TypeOK` that a publish with a handshake has an id
  (`Numbered`), without which `rx_publish` could get an entry for id 0.
* `AfterRelease`, `DeliversAsPromised` (`Spec => ImplementsDelivery`) and `DeliveredOnce`,
  over any number of losses and retransmissions.  They rest on one inductive
  invariant, `IInv`, in five parts:
  * `SentInv`: whatever the client or the broker holds was sent, a message keeps its
    id, and the broker's unfinished ids differ.
  * `HandshakeInv`: there is one task for an id, it has its publish in `rx_publish` until
    it has affirmed it, and its id is in use until the AffirmRxId, its last event,
    is read.  This is what makes `rx_publish_id` recognise duplicates.
  * `OnceInv`, for QoS 2: while the broker may publish a message again, no task has gone
    past PUBREL and the user has not got it (`WireEarly`); afterwards each copy still in
    the hub's queue meets its id in use (`QueuedIsDup`); what is in `rx_publish` has not
    been delivered (`KeptIsNew`).
  * `RelInv`: when a publish that may still come has the id of a PUBREL on the wire, the
    client has not seen its message.  An id is used again only after PUBCOMP, so that
    a stale PUBREL concerns an older message; without this a repeated PUBREL would
    release the next owner of the id.
  * `Qos0Inv`: a message of QoS 0 is in one place at a time.

  `NextDelivery` is the refinement step: each action of `InboundSession` is a Send,
  Release or Deliver of one message, or a stutter.  `DeliveredOnce` is then the
  promise of `MessageDelivery`.
* `AcknowledgedIsKept` (`Spec => []AcknowledgedIsNotLost`) and `CompletedIsKept`, the same for
  QoS 2 without a premise.  What the client has is `Safe`: delivered, or in `rx_publish` with
  its AffirmRxPublish queued or about to be; no step undoes that (`SafeKept`).  `HeldInv`
  follows the handshake backwards from there.  A message whose handshake has ended is
  safe (`EndedInv`), and so is one for which the last packet, PUBACK or PUBCOMP, is on the
  wire (`WireInv`).  That packet was in the TaskNetwork's queue and had a task that waited
  for its receipt (`NetQInv`).  Where it is written once, the broker has the message
  unfinished until then, and no packet on the wire can end its handshake earlier
  (`NotEndedInv`, `LastInv`).  That is so of PUBCOMP, and of PUBACK without losses, when
  a publish comes once (`NoLossInv`).  Over losses a PUBACK can be written again: then
  it must be told that it is of no other message, because ids are not used twice
  (`FreshInv`) or there is one message of QoS 1 (`AckInv`).  `Covered` are the
  messages for which one of these holds.

### Connection_proofs
`TypeCorrect`; and for calm connections, with any number of networks and failures,
`OneNetworkAtATime`, `ConnectedHasNetwork` and `DisconnectTellsAll`, from `CalmInv`: for each
state of the hub, which NetworkEvents are queued and what its networks do then (in
`WaitNetwork` for instance nothing is queued and one is connecting, or Connected is queued
and one is up, or ConnectFail and none is, or Connected and ConnectedErr and none is).

### KeepAlive_proofs
`TypeCorrect`; `AlonePings`: a client alone in its process always has a ping to come
(`PingComing`; that there is one client is the premise of the theorem, for two it is
false); `OnePingAtATime`: each client, of however many, has at most one timer that
counts, from `Counting`, which says that numbers of timers were given out and that the
latest is in one place.

### Codecs_proofs and FrameReader_proofs
* `EveryLengthReadsBack`: for every natural number and whatever bytes follow, `length`
  reads what `write_remaining_length` wrote, in as many bytes as `len_len` says; above
  268435455 the bytes are malformed.  By the digits: `SumOfDigits` and
  `EndsAtLastDigit`, one case for each number of bytes.
* `EveryPrefixWaits`: no part of a written length is taken for a length.
* `HeadersAlwaysReadBack` and `GoodConnAckConnects` (`Spec => FailsForAReason`), for every set
  of frames: from `WireInv` (what is on the wire, and that the first frame of a
  connection is the answer to CONNECT) and `WholeHeader`, which applies
  `EveryLengthReadsBack` to the header of a frame.
* `OutgoingLengths` (`Spec => []OutgoingLengthsTrue`), for packets of every size: the two
  computations, `LenOf` and the sum of `Pieces`, are compared packet by packet in
  `LengthIsWritten`, from what a sum is of sequences that are put together
  (`TotalConcat`, by induction).
* `TypeCorrect`, whose hard part is that `buffered` counts bytes that are there
  (`BufferInv`): `TakenIsThere` shows that `read_from_network` takes a frame only when its
  last byte has come (a header that is cut waits by `EveryPrefixWaits`), and
  `StartOfRest` that the frames behind those that are taken keep their lengths.
* `DispatchesAsSent` (`Spec => ImplementsPacketStream`).  The refinement rests on
  `StreamInv`: what has been sent is what has been dispatched, followed by the packets
  of the frames on the way (without the CONNACK, while it has not been read).  Two
  facts carry it: the packets of frames that are split in two are those of the parts
  (`PacketsConcat`, by induction), and what is read of a frame is what the broker
  meant (`PacketIsMeant`).  The latter is about the reading loop of properties: its
  cursor is never more than one byte ahead (`CursorIsClose`), and every property has
  two bytes at least, so that the loop stops behind the last and not before it
  (`AllPropertiesRead`).  With two subscription identifiers the cursor is two bytes
  ahead, and the lemma fails for the same reason as the code.

### Only model-checked
All liveness (`EveryRequestAnswered`, `EveryMessageDelivered`, `EveryHandshakeEnds`, `Recovers`,
`DisconnectObeyed`, and `EverythingDispatched`, the fairness of `PacketStream`).
The provers have no rule for fairness with `ENABLED`.  Every safety property of a
passing run but `AnsweredOncePerConnection` is a theorem; where the theorem has a
premise, section 3 says how the property fails without it.

## 6. Not modelled
* **TLS, sockets, certificates**: I/O of other crates.  A connection is bytes that come
  or an end.
* **Options, protocol types, builders, examples**: records without behaviour.
  `auto_reconnect` and the keep-alive enter `Connection` and `KeepAlive`.
* **The capacity of the event bus.**  Its queues hold 1000 events.  What happens when one
  is full is in the crate `for_event_bus`, which is not in the repository: it cannot
  be said from the code whether `dispatch` then waits or fails.
* **A broker that does not answer CONNECT.**  There is no timeout for CONNACK; the hub then
  waits for ever and is deaf to the disconnect command.  Nothing in the repository
  promises more.
* **Id generators.**  Trace ids are one `fetch_add`; `SubscribeId`, whose `default` wraps in
  two steps, is made nowhere in the crate (the builders leave it `None`).
* **What no user can reach**: wills (`LastWill` cannot be constructed from outside),
  properties of CONNECT and of the builders, `ViolenceDisconnectAndDrop` (dispatched
  nowhere).
* **The layout of single fields**: the codecs are modelled at the level of sizes, sets
  of known properties and codes.  Topics of more than 65535 bytes, whose length is cut
  to 16 bits, are listed as a hazard only.

What could follow: an abstract specification of a request's life that
`OutboundSession` implements on one connection (over reconnections it does not, see
`outbound_qos2_lost`), from the invariants of `OutboundRequests_proofs`.
