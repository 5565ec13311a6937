---------------------------- MODULE MCValveReload ----------------------------
(***************************************************************************)
(* Three ports and two VLANs, and four configurations, each reachable from *)
(* the others by a reload:                                                 *)
(*   C1: VLAN 10 on ports 1 and 2, VLAN 20 on ports 2 and 3, layout P1;    *)
(*   C2: port 3 and VLAN 20 removed, so port 2 changes (from C1);          *)
(*   C3: ports 2 and 3 swap VLANs, VLAN 20's setting changes, layout P2;   *)
(*   C4: every port moves to another VLAN (all ports changed, from C1).    *)
(***************************************************************************)
EXTENDS ValveReload, TLC

MCPorts == {1, 2, 3}

MCVlans == {10, 20}

MCConfig(ps, vs, m10, m20, conf20, pipe) ==
    [ports |-> ps, vlans |-> vs, member |-> (10 :> m10 @@ 20 :> m20),
     vconf |-> (10 :> "a" @@ 20 :> conf20), pipeline |-> pipe]

MCC1 == MCConfig({1, 2, 3}, {10, 20}, {1, 2}, {2, 3}, "a", "P1")
MCC2 == MCConfig({1, 2}, {10}, {1, 2}, {}, "a", "P1")
MCC3 == MCConfig({1, 2, 3}, {10, 20}, {1, 3}, {2}, "b", "P2")
MCC4 == MCConfig({1, 2, 3}, {10, 20}, {3}, {1, 2}, "a", "P1")

MCConfigs == {MCC1, MCC2, MCC3, MCC4}

=============================================================================
