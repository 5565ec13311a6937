----------------------------- MODULE LacpAbstract -----------------------------
(***************************************************************************)
(* What the LACP engine of a Valve (src/faucet/valve.py) promises for each *)
(* LACP port, with time, replies and the datapath left out: the port's     *)
(* LACP state is the actor state of the partner PDU it recorded last, or   *)
(* down with no PDU recorded once it has been reset.  A received PDU       *)
(* replaces the recorded one and sets the state to its actor state; any    *)
(* set of ports may be reset at once (a connect, a port status event, an   *)
(* expiry).  So a port's LACP is up only while the last PDU its partner    *)
(* sent, and that it kept, said the partner is up.                         *)
(***************************************************************************)
CONSTANTS
    Ports,   \* the LACP ports
    Pdus,    \* the PDUs a partner may send
    None     \* no PDU recorded

VARIABLES
    lacp,    \* port -> 0 (down) or 1 (up)
    partner  \* port -> the PDU recorded last, or None

absVars == <<lacp, partner>>

Init ==
    /\ lacp = [p \in Ports |-> 0]
    /\ partner = [p \in Ports |-> None]

Receive(p, pdu) ==
    /\ lacp' = [lacp EXCEPT ![p] = pdu.actorUp]
    /\ partner' = [partner EXCEPT ![p] = pdu]

Reset(S) ==
    /\ lacp' = [p \in Ports |-> IF p \in S THEN 0 ELSE lacp[p]]
    /\ partner' = [p \in Ports |-> IF p \in S THEN None ELSE partner[p]]

Next ==
    \/ \E p \in Ports, pdu \in Pdus : Receive(p, pdu)
    \/ \E S \in SUBSET Ports : Reset(S)

Spec == Init /\ [][Next]_absVars

=============================================================================
