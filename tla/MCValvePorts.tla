---------------------------- MODULE MCValvePorts ----------------------------
(* Small instance of ValvePorts: two LACP ports of one bundle and a plain  *)
(* port, two VLANs sharing ports, three PDUs (up from two actor systems,   *)
(* and down), and a clock long enough for an LACP timeout to elapse.       *)
EXTENDS ValvePorts

MCPorts == {1, 2, 3}
MCLacpPorts == {1, 2}
MCVlans == {100, 200}
MCVlanPorts == [v \in MCVlans |-> IF v = 100 THEN {1, 2, 3} ELSE {2, 3}]
MCPdus == {[actorUp |-> 1, system |-> "s1"],
           [actorUp |-> 1, system |-> "s2"],
           [actorUp |-> 0, system |-> "s1"]}
MCReasons == {"ADD", "DELETE", "MODIFY"}
\* Without OFPPR_ADD, so that only a reconnect can bring a down port back.
MCReconnectReasons == {"DELETE", "MODIFY"}
=============================================================================
