-------------------------- MODULE MCValvePacketIn --------------------------
(***************************************************************************)
(* ValvePacketIn for TLC: two ports and two VLANs, and four                *)
(* configurations: both ports in VLAN 10 and port 2 also in VLAN 20;       *)
(* port 2 moved out of every VLAN and VLAN 20 deleted (a warm reload);     *)
(* the first with ignore_learn_ins 1; the first with the limiter off.      *)
(* ignore_learn_ins is otherwise 2, so every second packet-in of a second  *)
(* is the one the limiter drops, and a reload may change N mid-second.     *)
(***************************************************************************)
EXTENDS ValvePacketIn, TLC

MCPorts == {1, 2}
MCVlans == {10, 20}

MCConfig(vs, m10, m20, n) ==
    [ports |-> {1, 2}, vlans |-> vs, member |-> (10 :> m10 @@ 20 :> m20), ignore |-> n]

MCC1 == MCConfig({10, 20}, {1, 2}, {2}, 2)
MCC2 == MCConfig({10}, {1}, {}, 2)
MCC3 == MCConfig({10, 20}, {1, 2}, {2}, 1)
MCC4 == MCConfig({10, 20}, {1, 2}, {2}, 0)

MCConfigs == {MCC1, MCC2, MCC3, MCC4}

\* The configurations of the reload runs: the limiter on in both.
MCReloadConfigs == {MCC1, MCC2}

=============================================================================
