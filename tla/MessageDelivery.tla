--------------------------- MODULE MessageDelivery ---------------------------
(***************************************************************************)
(* What a client promises its user of the messages that the broker has for *)
(* it, whatever happens to the connection: no message is invented; one of  *)
(* QoS 0 is delivered once at most; one of QoS 2 once at most, and not     *)
(* before the broker has released it, so that it can throw it away.  One   *)
(* of QoS 1 may be delivered again and again.                              *)
(***************************************************************************)
EXTENDS Naturals

CONSTANTS
    Messages,       \* the messages the broker has for this client
    QosOf           \* their quality of service: 0, 1 or 2

VARIABLES
    sent,           \* the messages the broker has sent
    released,       \* those of QoS 2 that it has released
    delivered       \* how often the user got each message

vars == <<sent, released, delivered>>

Init ==
    /\ sent = {}
    /\ released = {}
    /\ delivered = [m \in Messages |-> 0]

Send(m) ==
    /\ m \notin sent
    /\ sent' = sent \cup {m}
    /\ UNCHANGED <<released, delivered>>

Release(m) ==
    /\ m \in sent /\ QosOf[m] = 2
    /\ released' = released \cup {m}
    /\ UNCHANGED <<sent, delivered>>

Deliver(m) ==
    /\ m \in sent
    /\ QosOf[m] = 0 => delivered[m] = 0
    /\ QosOf[m] = 2 => delivered[m] = 0 /\ m \in released
    /\ delivered' = [delivered EXCEPT ![m] = @ + 1]
    /\ UNCHANGED <<sent, released>>

Next == \E m \in Messages : Send(m) \/ Release(m) \/ Deliver(m)

Spec == Init /\ [][Next]_vars
==============================================================================
