------------------------------- MODULE Codecs -------------------------------
(***************************************************************************)
(* What the codecs of protocol/packet make of a frame, at the level of the *)
(* sizes of its parts.  A frame is what the broker writes:                 *)
(*   ty       the packet type                                              *)
(*   head     how many bytes the flags, topic and packet id take           *)
(*   reasons  the reason or return codes, <<>> when left out               *)
(*   written  whether the property length is there (MQTT 5)                *)
(*   props    the properties                                               *)
(*   payload  what follows                                                 *)
(* A property, and a piece of payload, is [ty, n]: n bytes after its tag   *)
(* byte.  Names, texts and numbers in them are abstracted to their size.   *)
(***************************************************************************)
EXTENDS RemainingLength

Protocols == {"V4", "V5"}

Acks == {"PubAck", "PubRec", "PubRel", "PubComp"}

\* The sum of the numbers in s.
Total(s) ==
    LET sum[i \in 0..Len(s)] == IF i = 0 THEN 0 ELSE sum[i - 1] + s[i]
    IN  sum[Len(s)]

----------------------------------------------------------------------------
(***************************************************************************)
(* Properties.                                                             *)
(***************************************************************************)

\* The properties that each packet may have, by the names of PropertyType: any
\* other is an error.
ConnAckKnows ==
    {"SessionExpiryInterval", "ReceiveMaximum", "MaximumQos", "RetainAvailable",
     "AssignedClientIdentifier", "MaximumPacketSize", "TopicAliasMaximum",
     "ReasonString", "UserProperty", "WildcardSubscriptionAvailable",
     "SubscriptionIdentifierAvailable", "SharedSubscriptionAvailable",
     "ServerKeepAlive", "ResponseInformation", "ServerReference",
     "AuthenticationMethod", "AuthenticationData"}
PublishKnows ==
    {"PayloadFormatIndicator", "MessageExpiryInterval", "TopicAlias",
     "ResponseTopic", "CorrelationData", "UserProperty",
     "SubscriptionIdentifier", "ContentType"}
DisconnectKnows ==
    {"SessionExpiryInterval", "ReasonString", "UserProperty", "ServerReference"}
AckKnows == {"ReasonString", "UserProperty"}
SubAckKnows == {"ReasonString", "UserProperty"}
UnsubAckKnows == {"ReasonString", "UserProperty"}

Knows(ty) ==
    CASE ty = "ConnAck"    -> ConnAckKnows
      [] ty = "Publish"    -> PublishKnows
      [] ty = "Disconnect" -> DisconnectKnows
      [] ty \in Acks       -> AckKnows
      [] ty = "SubAck"     -> SubAckKnows
      [] ty = "UnsubAck"   -> UnsubAckKnows

\* The bytes of the properties or of the payload s, tags included.
SizeOf(s) == Total([i \in 1..Len(s) |-> 1 + s[i].n])

\* By how much the reading loop moves its cursor for property p.  A subscription
\* identifier moves it by one more than the bytes that are read.
TagCountedTwice(ty, p) == 1 + 1 + p.n                    \* mutant
CursorStep(ty, p) ==
    IF ty = "Publish" /\ p.ty = "SubscriptionIdentifier"
    THEN 1 + 1 + p.n
    ELSE 1 + p.n

\* The reading loop: where the cursor is after j properties, and how many have
\* been read when it reaches the property length.
Cursor(ty, props, j) == Total([i \in 1..j |-> CursorStep(ty, props[i])])

PropertiesRead(ty, props) ==
    CHOOSE j \in 0..Len(props) :
        /\ Cursor(ty, props, j) >= SizeOf(props)
        /\ \A i \in 0..(j - 1) : Cursor(ty, props, i) < SizeOf(props)

\* PublishProperties::read, ConnAckProperties::read and the like succeed: there
\* is a property length, and every property that is read is one of the packet's.
ReadsProperties(f) ==
    /\ f.written
    /\ \A i \in 1..PropertiesRead(f.ty, f.props) : f.props[i].ty \in Knows(f.ty)

PropertiesOf(f) == SubSeq(f.props, 1, PropertiesRead(f.ty, f.props))
LeftOver(f) == SubSeq(f.props, PropertiesRead(f.ty, f.props) + 1, Len(f.props))

----------------------------------------------------------------------------
(***************************************************************************)
(* Reason and return codes.                                                *)
(***************************************************************************)

AckReasons == {0, 16, 128, 131, 135, 144, 145, 151, 153}
RecReasons == {0, 16, 128, 131, 135, 144, 145, 151, 153}
RelReasons == {0, 146}
CompReasons == {0, 146}
ConnectReturnV3 == 0..5
ConnectReturnV5 == {0, 140, 144, 149, 151, 159} \cup 128..138 \cup 153..157
SubscribeReasonsV4 == {0, 1, 2, 128}
SubscribeReasonsV5 == {0, 1, 2, 128, 131, 135, 143, 145, 151, 158, 161, 162}
UnsubscribeReasons == {0, 17, 128, 131, 135, 143, 145}
DisconnectReasons ==
    {0, 4, 135, 137, 139, 147} \cup 128..131 \cup 141..144 \cup 148..162

ReasonsOf(ty, protocol) ==
    CASE ty = "ConnAck" /\ protocol = "V4" -> ConnectReturnV3
      [] ty = "ConnAck" /\ protocol = "V5" -> ConnectReturnV5
      [] ty = "SubAck" /\ protocol = "V4"  -> SubscribeReasonsV4
      [] ty = "SubAck" /\ protocol = "V5"  -> SubscribeReasonsV5
      [] ty = "UnsubAck"                   -> UnsubscribeReasons
      [] ty = "PubAck"                     -> AckReasons
      [] ty = "PubRec"                     -> RecReasons
      [] ty = "PubRel"                     -> RelReasons
      [] ty = "PubComp"                    -> CompReasons
      [] ty = "Disconnect"                 -> DisconnectReasons

\* Every reason code of f is one the code knows.
KnownReasons(f, protocol) ==
    \A i \in 1..Len(f.reasons) : f.reasons[i] \in ReasonsOf(f.ty, protocol)

----------------------------------------------------------------------------
(***************************************************************************)
(* Frames.                                                                 *)
(***************************************************************************)

\* The remaining length of f: everything after the fixed header.
RemainingLen(f) ==
      f.head
    + Len(f.reasons)
    + (IF f.written THEN LenLen(SizeOf(f.props)) + SizeOf(f.props) ELSE 0)
    + SizeOf(f.payload)

\* The fixed header: the type byte and the remaining length.  The low bits of
\* the type byte are flags (of no matter here).
TypeByte(ty) ==
    16 * (CASE ty = "ConnAck" -> 2   [] ty = "Publish" -> 3  [] ty = "PubAck" -> 4
            [] ty = "PubRec" -> 5    [] ty = "PubRel" -> 6   [] ty = "PubComp" -> 7
            [] ty = "SubAck" -> 9    [] ty = "UnsubAck" -> 11
            [] ty = "PingResp" -> 13 [] ty = "Disconnect" -> 14)

FixedHeader(f) == <<TypeByte(f.ty)>> \o WriteRemainingLength(RemainingLen(f))

\* FixedHeader::frame_length.
FrameLength(f) == Len(FixedHeader(f)) + RemainingLen(f)

\* PubCommon::read.
ReadsAck(f, protocol) ==
    IF protocol = "V4" THEN RemainingLen(f) = 2
    ELSE \/ RemainingLen(f) = 2
         \/ RemainingLen(f) = 3 /\ KnownReasons(f, protocol)
         \/ RemainingLen(f) >= 4 /\ ReadsProperties(f) /\ KnownReasons(f, protocol)

\* SubAck::read: there must be a code.
ReadsSubAck(f, protocol) ==
    /\ protocol = "V5" => ReadsProperties(f)
    /\ Len(f.reasons) > 0
    /\ KnownReasons(f, protocol)

\* UnsubAck::read: the same, but in MQTT 3.1.1 only the packet id is read.
ReadsUnsubAck(f, protocol) ==
    protocol = "V5" =>
        ReadsProperties(f) /\ Len(f.reasons) > 0 /\ KnownReasons(f, protocol)

\* Disconnect::read, of MQTT 5: the property length is read whenever there is a
\* reason code.
ReadsDisconnect(f, protocol) ==
    /\ protocol = "V5"
    /\ \/ RemainingLen(f) = 0
       \/ KnownReasons(f, protocol) /\ ReadsProperties(f)

\* ConnAck::read.
ReadsConnAck(f, protocol) ==
    /\ Len(f.reasons) = 1
    /\ protocol = "V5" => ReadsProperties(f)
    /\ KnownReasons(f, protocol)

\* Publish::read.
ReadsPublish(f, protocol) == protocol = "V5" => ReadsProperties(f)

\* Whether read_from_network makes a packet of the frame f.
Readable(f, protocol) ==
    CASE f.ty = "ConnAck"    -> ReadsConnAck(f, protocol)
      [] f.ty = "Publish"    -> ReadsPublish(f, protocol)
      [] f.ty \in Acks       -> ReadsAck(f, protocol)
      [] f.ty = "SubAck"     -> ReadsSubAck(f, protocol)
      [] f.ty = "UnsubAck"   -> ReadsUnsubAck(f, protocol)
      [] f.ty = "PingResp"   -> TRUE
      [] f.ty = "Disconnect" -> ReadsDisconnect(f, protocol)

Packet(ty, reasons, props, payload) ==
    [ty |-> ty, reasons |-> reasons, props |-> props, payload |-> payload]

\* The packet that is made of a readable frame: a reason that is left out is
\* Success, and what the loop has not read of the properties is in the payload.
ReadPacket(f) ==
    Packet(f.ty,
           IF f.reasons = <<>> /\ f.ty \in Acks \cup {"Disconnect"} THEN <<0>>
           ELSE f.reasons,
           PropertiesOf(f),
           LeftOver(f) \o f.payload)

\* The packet that the broker means by the frame f (MQTT 5, sections 3.2 to 3.14).
Meaning(f) ==
    Packet(f.ty,
           IF f.reasons = <<>> /\ f.ty \in Acks \cup {"Disconnect"} THEN <<0>>
           ELSE f.reasons,
           f.props, f.payload)

----------------------------------------------------------------------------
(***************************************************************************)
(* What the client writes: [ty, qos, text, payload, user, password], where *)
(* text is the size of the topic, the filter or the client id.  The client *)
(* sets no properties and no will: their setters cannot be reached.        *)
(***************************************************************************)
ClientPackets == {"Connect", "Publish", "Subscribe", "Unsubscribe",
                  "PingReq", "Disconnect"} \cup Acks

\* write_mqtt_string.
StringLen(n) == 2 + n

\* What write_filter has put into the filters of SUBSCRIBE and of UNSUBSCRIBE.
FilterLen(p) == StringLen(p.text) + 1
PathLen(p) == StringLen(p.text)

\* Login::len.
LoginLenAlwaysBoth(p) == StringLen(p.user) + StringLen(p.password)   \* mutant
LoginLen(p) ==
      (IF p.user > 0 THEN StringLen(p.user) ELSE 0)
    + (IF p.password > 0 THEN StringLen(p.password) ELSE 0)

\* The property length of a packet without properties.
NoProperties(protocol) == IF protocol = "V5" THEN 1 ELSE 0

\* What each packet says its remaining length is.
ConnectLen(p, protocol) ==
    StringLen(4) + 1 + 1 + 2 + NoProperties(protocol) + StringLen(p.text) + LoginLen(p)
PublishLen(p, protocol) ==
    StringLen(p.text) + p.payload + (IF p.qos > 0 THEN 2 ELSE 0)
      + NoProperties(protocol)
SubscribeLen(p, protocol) == 2 + NoProperties(protocol) + FilterLen(p)
UnsubscribeLen(p, protocol) == 2 + NoProperties(protocol) + PathLen(p)
AckLen == 2

LenOf(p, protocol) ==
    CASE p.ty = "Connect"     -> ConnectLen(p, protocol)
      [] p.ty = "Publish"     -> PublishLen(p, protocol)
      [] p.ty = "Subscribe"   -> SubscribeLen(p, protocol)
      [] p.ty = "Unsubscribe" -> UnsubscribeLen(p, protocol)
      [] p.ty \in Acks        -> AckLen
      [] p.ty \in {"PingReq", "Disconnect"} -> 0

\* The pieces each packet puts into the buffer after the remaining length.
WrittenProperties(protocol) == IF protocol = "V5" THEN <<Count(0)>> ELSE <<>>
WrittenStrings(s) == [i \in 1..Len(s) |-> 2 + s[i]]

LoginPieces(p) ==
    WrittenStrings((IF p.user > 0 THEN <<p.user>> ELSE <<>>)
                     \o (IF p.password > 0 THEN <<p.password>> ELSE <<>>))
ConnectPieces(p, protocol) ==
    WrittenStrings(<<4>>) \o <<1, 1, 2>> \o WrittenProperties(protocol)
      \o WrittenStrings(<<p.text>>) \o LoginPieces(p)
PublishPieces(p, protocol) ==
    WrittenStrings(<<p.text>>) \o (IF p.qos = 0 THEN <<>> ELSE <<2>>)
      \o WrittenProperties(protocol) \o <<p.payload>>
SubscribePieces(p, protocol) ==
    <<2>> \o WrittenProperties(protocol) \o WrittenStrings(<<p.text>>) \o <<1>>
UnsubscribePieces(p, protocol) ==
    <<2>> \o WrittenProperties(protocol) \o WrittenStrings(<<p.text>>)

Pieces(p, protocol) ==
    CASE p.ty = "Connect"     -> ConnectPieces(p, protocol)
      [] p.ty = "Publish"     -> PublishPieces(p, protocol)
      [] p.ty = "Subscribe"   -> SubscribePieces(p, protocol)
      [] p.ty = "Unsubscribe" -> UnsubscribePieces(p, protocol)
      [] p.ty \in Acks        -> <<2>>
      [] p.ty \in {"PingReq", "Disconnect"} -> <<>>

\* publish: the length the client refuses a message for.
Accepts(p) == p.payload + 4 + p.text <= MaxLength

============================================================================
