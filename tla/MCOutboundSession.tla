-------------------------- MODULE MCOutboundSession --------------------------
(* Small instances of OutboundSession for TLC.                             *)
EXTENDS OutboundSession

CONSTANTS r1, r2, r3

\* More numbered requests than packet ids.
MCOneConnection == (r1 :> "QoS2") @@ (r2 :> "Unsub") @@ (r3 :> "Sub")
\* A QoS 1 publish and a subscription.
MCReconnect == (r1 :> "QoS1") @@ (r2 :> "Sub")
\* A QoS 2 publish beside one of QoS 0.
MCQos2AndQos0 == (r1 :> "QoS2") @@ (r2 :> "QoS0")
\* One QoS 2 publish.
MCQos2 == (r1 :> "QoS2")
\* A refused QoS 1 publish.
MCQos1 == (r1 :> "QoS1")
=============================================================================
