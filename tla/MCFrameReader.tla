--------------------------- MODULE MCFrameReader ---------------------------
(***************************************************************************)
(* Frames of both versions of the protocol, packets of the client and      *)
(* lengths for the run of FrameReader.                                     *)
(***************************************************************************)
EXTENDS FrameReader, TLC

Frame(ty, head, reasons, written, props, payload) ==
    [ty |-> ty, head |-> head, reasons |-> reasons, written |-> written,
     props |-> props, payload |-> payload]

Prop(ty, n) == [ty |-> ty, n |-> n]
Bytes(n) == <<[ty |-> "bytes", n |-> n - 1]>>

MCFirstFrames ==
    "V4" :> {Frame("ConnAck", 1, <<0>>, FALSE, <<>>, <<>>),
             Frame("ConnAck", 1, <<5>>, FALSE, <<>>, <<>>)}
    @@
    "V5" :> {Frame("ConnAck", 1, <<0>>, TRUE,
                   <<Prop("ReceiveMaximum", 2), Prop("ResponseInformation", 140)>>, <<>>),
             Frame("ConnAck", 1, <<135>>, TRUE, <<>>, <<>>),
             Frame("Disconnect", 0, <<137>>, TRUE, <<>>, <<>>)}

\* Payloads for a remaining length of two, three and four bytes; the DISCONNECT of a
\* reason alone is a frame that the code makes no packet of.
MCLaterFrames ==
    "V4" :> {Frame("Publish", 5, <<>>, FALSE, <<>>, Bytes(MaxLength - 5)),
             Frame("PubAck", 2, <<>>, FALSE, <<>>, <<>>),
             Frame("SubAck", 2, <<1, 128>>, FALSE, <<>>, <<>>),
             Frame("UnsubAck", 2, <<>>, FALSE, <<>>, <<>>)}
    @@
    "V5" :> {Frame("Publish", 5, <<>>, TRUE,
                   <<Prop("UserProperty", 6), Prop("SubscriptionIdentifier", 1),
                     Prop("PayloadFormatIndicator", 1)>>, Bytes(16378)),
             Frame("PubRec", 2, <<>>, FALSE, <<>>, <<>>),
             Frame("PubAck", 2, <<16>>, FALSE, <<>>, <<>>),
             Frame("PubComp", 2, <<146>>, TRUE, <<Prop("ReasonString", 4)>>, <<>>),
             Frame("SubAck", 2, <<1, 135>>, TRUE, <<>>, <<>>),
             Frame("Disconnect", 0, <<142>>, FALSE, <<>>, <<>>)}

\* Around the limits of one, two, three and four bytes.
MCLengths == UNION {(Weight[i] - 1)..(Weight[i] + 1) : i \in 1..5}

Out(ty, qos, text, payload, user, password) ==
    [ty |-> ty, qos |-> qos, text |-> text, payload |-> payload,
     user |-> user, password |-> password]

\* A login with and without a name and a password; the longest publish that is
\* accepted; every other packet.
MCOutgoing ==
         {Out("Connect", 0, 7, 0, user, password) : user, password \in {0, 4}}
    \cup {Out("Publish", qos, 3, payload, 0, 0) :
            qos \in 0..2, payload \in {0, MaxLength - 7, MaxLength - 6}}
    \cup {Out(ty, 1, 3, 0, 0, 0) :
            ty \in ClientPackets \ {"Connect", "Publish"}}
============================================================================
