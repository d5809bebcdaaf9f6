-------------------------- MODULE MCInboundSession --------------------------
(* Small instances of InboundSession for TLC.                              *)
EXTENDS InboundSession

CONSTANTS m0, m1, m2, m3

\* One message of each quality of service.
MCEach == (m0 :> 0) @@ (m1 :> 1) @@ (m2 :> 2)
\* A QoS 1 and two QoS 2 messages.
MCAcknowledged == (m1 :> 1) @@ (m2 :> 2) @@ (m3 :> 2)
\* One QoS 2 message.
MCQos2 == (m2 :> 2)
=============================================================================
