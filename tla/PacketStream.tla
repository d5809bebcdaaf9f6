---------------------------- MODULE PacketStream ----------------------------
(***************************************************************************)
(* What a TaskNetwork promises of the packets of its broker: those that    *)
(* are sent on one connection are dispatched in their order, none twice,   *)
(* none changed, none left out, and all of them as long as the connection  *)
(* is open.                                                                *)
(***************************************************************************)
EXTENDS Integers, Sequences

CONSTANT Packets    \* what can be sent

VARIABLES sent, dispatched, open

vars == <<sent, dispatched, open>>

Init ==
    /\ sent = <<>>
    /\ dispatched = <<>>
    /\ open = TRUE

Send(p) ==
    /\ open
    /\ sent' = Append(sent, p)
    /\ UNCHANGED <<dispatched, open>>

\* One or more packets come out of one read.
Dispatch ==
    /\ open
    /\ \E n \in (Len(dispatched) + 1)..Len(sent) : dispatched' = SubSeq(sent, 1, n)
    /\ UNCHANGED <<sent, open>>

Close ==
    /\ open' = FALSE
    /\ UNCHANGED <<sent, dispatched>>

Next ==
    \/ \E p \in Packets : Send(p)
    \/ Dispatch
    \/ Close

Spec == Init /\ [][Next]_vars

\* What has been sent is dispatched in the end, or the connection closed.
Fairness == WF_vars(Dispatch)
============================================================================
