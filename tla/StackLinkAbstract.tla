-------------------------- MODULE StackLinkAbstract --------------------------
(***************************************************************************)
(* What the stack link engine promises for each stack port (the table of  *)
(* the stack link state machine): a port is INIT only before it has heard *)
(* any probe, leaves DOWN for INIT only then, is DOWN only after a probe,  *)
(* and comes UP only after a probe while it is cabled to the port its     *)
(* configuration names as its peer.  Any number of ports may change in    *)
(* one step (one fast_state_expire evaluates every stack port of a DP).   *)
(***************************************************************************)
CONSTANTS
    Ports,   \* stack ports of all DPs
    Peer     \* port -> the remote port its configuration expects

VARIABLES
    linkState, \* port -> "INIT" | "UP" | "DOWN"
    probed,    \* the ports that have heard a probe
    cabling    \* port -> the port it is physically connected to

absVars == <<linkState, probed, cabling>>

States == {"INIT", "UP", "DOWN"}

Init ==
    /\ linkState = [p \in Ports |-> "DOWN"]
    /\ probed = {}
    /\ cabling \in [Ports -> Ports]

\* A change of p's state the table allows, given the probes heard after
\* the step.
Allowed(p) ==
    \/ /\ linkState'[p] = "INIT"
       /\ linkState[p] = "DOWN"
       /\ p \notin probed'
    \/ /\ linkState'[p] = "UP"
       /\ p \in probed'
       /\ cabling[p] = Peer[p]
    \/ /\ linkState'[p] = "DOWN"
       /\ p \in probed'

Next ==
    /\ probed \subseteq probed'
    /\ probed' \subseteq Ports
    /\ linkState' \in [Ports -> States]
    /\ \A p \in Ports : linkState'[p] = linkState[p] \/ Allowed(p)
    /\ UNCHANGED cabling

Spec == Init /\ [][Next]_absVars

=============================================================================
