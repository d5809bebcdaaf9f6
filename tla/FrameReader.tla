---------------------------- MODULE FrameReader ----------------------------
(***************************************************************************)
(* A TaskNetwork reading the stream of its broker: read_buf appends to a   *)
(* buffer whatever bytes have come, a part of a frame or several frames;   *)
(* read_from_network takes the first frame off the buffer when it is all   *)
(* there.  _run_to_connect takes one packet, the CONNACK; run_connected    *)
(* takes as many as it can after each read.                                *)
(*                                                                         *)
(* The bytes under way are those of the frames in wire, in order; the      *)
(* first buffered of them are in the buffer.                               *)
(***************************************************************************)
EXTENDS Codecs, FiniteSets

CONSTANTS
    FirstFrames,    \* FirstFrames[p]: what the broker answers CONNECT with
    LaterFrames,    \* LaterFrames[p]: what it sends afterwards, but for PINGRESP
    MaxFrames,      \* bound: how many of these it sends
    Outgoing        \* packets of the client whose lengths are looked at

ASSUME FramesAssumption ==
    /\ DOMAIN FirstFrames = Protocols
    /\ DOMAIN LaterFrames = Protocols
    /\ \A p \in Protocols : \A f \in FirstFrames[p] \cup LaterFrames[p] :
        f.props \in Seq([ty : STRING, n : Nat]) /\ f.payload \in Seq([ty : STRING, n : Nat])

ASSUME LengthAssumption ==
    \A p \in Protocols : \A f \in FirstFrames[p] \cup LaterFrames[p] :
        RemainingLen(f) \in 0..MaxLength

\* The broker's CONNACKs are ones that the code can read.
ASSUME ConnAckAssumption ==
    \A p \in Protocols : \A f \in FirstFrames[p] :
        f.ty = "ConnAck" /\ f.reasons = <<0>> => Readable(f, p)

\* What a broker that keeps to the protocol sends later: no second CONNACK, and
\* properties of a byte at least.  This client asks for no subscription
\* identifiers; one in a PUBLISH does no harm, but with two of them the cursor of
\* the reading loop goes wrong.
ASSUME LaterAssumption ==
    \A p \in Protocols : \A f \in LaterFrames[p] :
        /\ f.ty \notin {"ConnAck", "PingResp"}
        /\ \A i \in 1..Len(f.props) : f.props[i].n >= 1
        /\ \A i, j \in 1..Len(f.props) :
            f.props[i].ty = "SubscriptionIdentifier"
              /\ f.props[j].ty = "SubscriptionIdentifier" => i = j

ASSUME BoundAssumption == MaxFrames \in Nat

\* Packets of the client are of a type that it writes, and have sizes.
ASSUME OutgoingAssumption ==
    \A p \in Outgoing :
        /\ p.ty \in ClientPackets
        /\ {p.qos, p.text, p.payload, p.user, p.password} \subseteq Nat

VARIABLES
    protocol,       \* the version of the connection
    phase,          \* "connecting", "connected", "failed" or "lost"
    wire,           \* the frames whose bytes are in the buffer or on the way
    buffered,       \* how many of these bytes are in the buffer
    budget,         \* how many frames the broker may still send
    sent,           \* history: the packets the broker has sent (no PINGRESP)
    dispatched      \* history: the packets dispatched to the tasks

vars == <<protocol, phase, wire, buffered, budget, sent, dispatched>>

Init ==
    /\ protocol \in Protocols
    /\ phase = "connecting"
    /\ wire = <<>>
    /\ buffered = 0
    /\ budget = MaxFrames
    /\ sent = <<>>
    /\ dispatched = <<>>

Open == phase \in {"connecting", "connected"}

----------------------------------------------------------------------------
PingResp == [ty |-> "PingResp", head |-> 0, reasons |-> <<>>, written |-> FALSE,
             props |-> <<>>, payload |-> <<>>]

\* All there can be on the way, and what the codecs make of it (as functions, so
\* that it is computed once).
Frames == {PingResp} \cup UNION {FirstFrames[p] \cup LaterFrames[p] : p \in Protocols}

HeaderOf == [f \in Frames |-> FixedHeader(f)]
LengthOf == [f \in Frames |-> FrameLength(f)]
ReadableIn == [p \in Protocols |-> {f \in Frames : Readable(f, p)}]

----------------------------------------------------------------------------
(***************************************************************************)
(* The broker, which keeps to the protocol.                                *)
(***************************************************************************)
Succeeds(f) == f.ty = "ConnAck" /\ f.reasons = <<0>>

BrokerAnswers ==
    /\ phase = "connecting"
    /\ wire = <<>>
    /\ \E f \in FirstFrames[protocol] : wire' = <<f>>
    /\ UNCHANGED <<protocol, phase, buffered, budget, sent, dispatched>>

\* After a good CONNACK, even before the client has read it: the session may
\* hold messages for it.
BrokerSends ==
    /\ \/ phase = "connected"
       \/ phase = "connecting" /\ wire # <<>> /\ Succeeds(wire[1])
    /\ budget > 0
    /\ \E f \in LaterFrames[protocol] :
        /\ wire' = Append(wire, f)
        /\ sent' = IF f \in ReadableIn[protocol] THEN Append(sent, Meaning(f)) ELSE sent
    /\ budget' = budget - 1
    /\ UNCHANGED <<protocol, phase, buffered, dispatched>>

----------------------------------------------------------------------------
(***************************************************************************)
(* The buffer.                                                             *)
(***************************************************************************)

\* Where the i-th frame begins, and after it the next one.
Start(i) == Total([j \in 1..(i - 1) |-> LengthOf[wire[j]]])

\* A TaskPing asks again when it has no answer, and one timer after the other
\* starts the next: there is always one more PINGRESP to come.
BrokerPings ==
    /\ phase = "connected"
    /\ \A i \in 1..Len(wire) : wire[i] = PingResp => Start(i + 1) <= buffered
    /\ wire' = Append(wire, PingResp)
    /\ UNCHANGED <<protocol, phase, buffered, budget, sent, dispatched>>

\* How much may be in the buffer after a read.  The bytes of a body are alike:
\* all that is asked of them is whether the last one is there.
CutPoints ==
    UNION {{Start(i) + n : n \in 1..(Len(HeaderOf[wire[i]]) + 1)
                                 \cup {LengthOf[wire[i]] - 1, LengthOf[wire[i]]}}
           : i \in 1..Len(wire)}

Arrivals == CutPoints \cap (buffered + 1)..Start(Len(wire) + 1)

\* parse_fixed_header_by_slice, when the buffer begins with n bytes of frame f.
ParseHeader(f, n) ==
    LET seen == IF n < Len(HeaderOf[f]) THEN SubSeq(HeaderOf[f], 1, n) ELSE HeaderOf[f]
    IN  IF n < 2 THEN Insufficient ELSE Length(Tail(seen))

\* read_from_network, when n bytes have been buffered and those of the frames
\* before the i-th have been taken.  That the length is malformed, and the buffer
\* discarded, cannot be for the lengths of LengthAssumption.
ShortIsAnError(i, n) ==                                  \* mutant
    LET header == ParseHeader(wire[i], n - Start(i))
    IN  IF \/ header.status # "Ok"
           \/ 1 + header.len_len + header.len > n - Start(i) THEN "InsufficientBytes"
        ELSE IF wire[i] \in ReadableIn[protocol] THEN "Packet" ELSE "Malformed"
ReadFromNetwork(i, n) ==
    LET header == ParseHeader(wire[i], n - Start(i))
    IN  IF header.status # "Ok" THEN "InsufficientBytes"
        ELSE IF 1 + header.len_len + header.len > n - Start(i) THEN "None"
        ELSE IF wire[i] \in ReadableIn[protocol] THEN "Packet" ELSE "Malformed"

\* stream.split_to: what is in the buffer when its first k frames are taken.
NothingIsTaken(n, k) == n                                \* mutant
AfterSplit(n, k) == n - Start(k + 1)

----------------------------------------------------------------------------
(***************************************************************************)
(* _run_to_connect: one packet, which has to be a CONNACK; any error ends  *)
(* the connection.  Bytes after the CONNACK stay in the buffer.            *)
(***************************************************************************)
ConnectWaits(n) ==
    /\ ReadFromNetwork(1, n) = "None"
    /\ buffered' = n
    /\ UNCHANGED <<phase, wire>>

ConnectSucceeds(n) ==
    /\ ReadFromNetwork(1, n) = "Packet"
    /\ Succeeds(wire[1])
    /\ phase' = "connected"
    /\ wire' = Tail(wire)
    /\ buffered' = AfterSplit(n, 1)

ConnectFails(n) ==
    /\ \/ ReadFromNetwork(1, n) \in {"InsufficientBytes", "Malformed"}
       \/ ReadFromNetwork(1, n) = "Packet" /\ ~ Succeeds(wire[1])
    /\ phase' = "failed"
    /\ buffered' = n
    /\ UNCHANGED wire

RunToConnect ==
    /\ phase = "connecting"
    /\ \E n \in Arrivals : ConnectWaits(n) \/ ConnectSucceeds(n) \/ ConnectFails(n)
    /\ UNCHANGED <<protocol, budget, sent, dispatched>>

(***************************************************************************)
(* deal_connected_network_packet: frames are taken until one is not all    *)
(* there, or until one is not a packet; what is left waits for the next    *)
(* read.  A second CONNACK is ignored.                                     *)
(***************************************************************************)
Taken(n, k) ==
    LET result == [i \in 1..Len(wire) |-> ReadFromNetwork(i, n)]
    IN  /\ \A i \in 1..(k - 1) : result[i] = "Packet"
        /\ k > 0 => result[k] \in {"Packet", "Malformed"}
        /\ k < Len(wire) /\ (k > 0 => result[k] = "Packet") =>
                result[k + 1] \notin {"Packet", "Malformed"}

\* Whether the packet of f goes to a task (that of a PINGRESP is not kept here).
NoPubRec(f, version) ==                                  \* mutant
    f.ty \notin {"ConnAck", "PingResp", "PubRec"} /\ f \in ReadableIn[version]
IsDispatched(f, version) ==
    f.ty \notin {"ConnAck", "PingResp"} /\ f \in ReadableIn[version]

PacketsOf(frames, version) ==
    LET packets[i \in 0..Len(frames)] ==
            IF i = 0 THEN <<>>
            ELSE IF IsDispatched(frames[i], version)
            THEN Append(packets[i - 1], ReadPacket(frames[i]))
            ELSE packets[i - 1]
    IN  packets[Len(frames)]

RunConnected ==
    /\ phase = "connected"
    /\ \E n \in Arrivals, k \in 0..Len(wire) :
        /\ Taken(n, k)
        /\ wire' = SubSeq(wire, k + 1, Len(wire))
        /\ buffered' = AfterSplit(n, k)
        /\ dispatched' = dispatched \o PacketsOf(SubSeq(wire, 1, k), protocol)
    /\ UNCHANGED <<protocol, phase, budget, sent>>

\* The end of the stream, an I/O error, or the disconnect command.
Lost ==
    /\ Open
    /\ phase' = "lost"
    /\ UNCHANGED <<protocol, wire, buffered, budget, sent, dispatched>>

----------------------------------------------------------------------------
Next ==
    \/ BrokerAnswers
    \/ BrokerSends
    \/ BrokerPings
    \/ RunToConnect
    \/ RunConnected
    \/ Lost

Spec == Init /\ [][Next]_vars

\* The network is polled, the bytes come, and pings are answered.
FairSpec ==
    /\ Spec
    /\ WF_vars(RunToConnect)
    /\ WF_vars(RunConnected)
    /\ WF_vars(BrokerPings)

----------------------------------------------------------------------------
(***************************************************************************)
(* Properties.                                                             *)
(***************************************************************************)

\* Every variable has its type, and the buffer holds no more than has been sent.
TypeOK ==
    /\ protocol \in Protocols
    /\ phase \in {"connecting", "connected", "failed", "lost"}
    /\ \A i \in 1..Len(wire) :
        wire[i] \in FirstFrames[protocol] \cup LaterFrames[protocol] \cup {PingResp}
    /\ buffered \in 0..Start(Len(wire) + 1)
    /\ budget \in 0..MaxFrames
    /\ Len(sent) <= MaxFrames

Messages == UNION {{Meaning(f) : f \in LaterFrames[p]} : p \in Protocols}

\* However the bytes are cut, the packets of the broker are dispatched as the
\* broker meant them, in its order, once and with none left out.
\* (deal_connected_network_packet, read_from_network and the read functions.)
Stream == INSTANCE PacketStream
    WITH Packets <- Messages,
         open    <- Open

ImplementsPacketStream == Stream!Spec

\* And all of them are dispatched while the connection is open: what is left in
\* the buffer after CONNACK or after a frame that is no packet is taken up when
\* the next PINGRESP comes.
EverythingDispatched == Stream!Fairness

\* A good CONNACK connects, unless the read that brought its first bytes did not
\* bring its whole fixed header: that its body is cut, or that other packets are
\* behind it, does no harm.  (A fixed header that is cut does: "wait for one more
\* byte", packet/mod.rs 249, is an error that _run_to_connect passes on.)
FailsForAReason ==
    [][phase = "connecting" /\ phase' = "failed" =>
        \/ ~ Succeeds(wire[1])
        \/ buffered' < Len(HeaderOf[wire[1]])]_vars

\* The lengths of the frames on the way, and all others that are looked at, are
\* read as they were written (write_remaining_length, length and len_len, which
\* are apart in the code and have their own limits).
HeadersReadBack ==
    /\ \A i \in 1..Len(wire) : ReadsBack(RemainingLen(wire[i]), <<>>)
    /\ LengthsReadBack

\* Every packet the client writes says the length that it has, so that the broker
\* finds the next one, and a publish that MQTT 3.1.1 lets the client accept has a
\* length that can be said.
OutgoingLengthsTrue ==
    \A p \in Outgoing :
        /\ LenOf(p, protocol) = Total(Pieces(p, protocol))
        /\ protocol = "V4" /\ p.ty = "Publish" /\ Accepts(p) =>
                Count(LenOf(p, protocol)) <= 4
============================================================================
