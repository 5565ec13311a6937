----------------------------- MODULE ValvePorts -----------------------------
(***************************************************************************)
(* One Valve (src/faucet/valve.py, class Valve) driving one datapath: the  *)
(* port lifecycle and the LACP engine.                                     *)
(*                                                                         *)
(* Controller state kept per port: the operational status set              *)
(* dp.dyn_up_port_nos, port.dyn_phys_up, and for LACP ports dyn_lacp_up,   *)
(* dyn_last_lacp_pkt, dyn_lacp_updated_time and dyn_lacp_last_resp_time.   *)
(* Datapath state kept as the effect of the flow messages the handlers     *)
(* return: the flood output set programmed for each VLAN and, per LACP     *)
(* port, whether the high-priority input drop installed by lacp_down is    *)
(* present.  Each handler is one action that returns the whole effect of   *)
(* its message list; flood programming for a VLAN replaces the previous    *)
(* one, so the last flood_manager.add_vlan/update_vlan call of a handler   *)
(* decides what the datapath floods to.                                    *)
(***************************************************************************)
EXTENDS Naturals, FiniteSets

CONSTANTS
    Ports,           \* port numbers of the datapath configuration
    LacpPorts,       \* ports with port.lacp set
    Vlans,           \* configured VLANs
    VlanPorts,       \* VLAN -> member ports (tagged or native)
    Pdus,            \* LACP PDUs a partner may send, as records
    PortReasons,     \* reason codes a switch reports in port status
    LacpForwarding,  \* dp.lacp_forwarding(port): non-stacked DP or stack root
    LacpTimeout,     \* dp.lacp_timeout
    LacpRespInterval,\* port.lacp_resp_interval
    MaxTime,         \* last instant of the bounded clock
    None             \* Python None

ASSUME PortsAssumption == LacpPorts \subseteq Ports
ASSUME VlanAssumption == VlanPorts \in [Vlans -> SUBSET Ports]
ASSUME PduAssumption == \A pdu \in Pdus : pdu.actorUp \in {0, 1}
\* OpenFlow 1.3 defines only these three port status reasons.
ASSUME ReasonAssumption == PortReasons \subseteq {"ADD", "DELETE", "MODIFY"}
ASSUME TimeAssumption ==
    /\ LacpTimeout \in Nat /\ LacpRespInterval \in Nat
    /\ MaxTime \in Nat \ {0}
ASSUME NoneAssumption == None \notin Nat /\ None \notin Pdus
ASSUME ForwardingAssumption == LacpForwarding \in BOOLEAN

VARIABLES
    running,      \* dp.dyn_running
    upPortNos,    \* dp.dyn_up_port_nos
    physUp,       \* port.dyn_phys_up
    lacpUp,       \* port.dyn_lacp_up (0 or 1)
    lastLacpPkt,  \* port.dyn_last_lacp_pkt
    lacpUpdated,  \* port.dyn_lacp_updated_time
    lacpLastResp, \* port.dyn_lacp_last_resp_time
    floodSet,     \* datapath: flood output ports programmed for each VLAN
    inDrop,       \* datapath: lacp_down's in_port drop flow is installed
    now           \* the time the event loop passes to the handlers

vars == <<running, upPortNos, physUp, lacpUp, lastLacpPkt, lacpUpdated,
          lacpLastResp, floodSet, inDrop, now>>

Times == 1..MaxTime

-----------------------------------------------------------------------------
(* Helpers taken from the managers the Valve calls.                        *)

\* Python truthiness of a timestamp (None and 0 are false).
Truthy(t) == t # None /\ t # 0

\* port.vlans(): the VLANs a port is a member of.
VlansOf(p) == {v \in Vlans : p \in VlanPorts[v]}

VlansOfSet(S) == UNION {VlansOf(p) : p \in S}

\* A port the flood manager outputs to, given the port and LACP state: up,
\* and for an LACP port only when the bundle is up and selected for
\* forwarding.
ForwardingIn(p, phys, lup) ==
    /\ phys[p]
    /\ p \in LacpPorts => (lup[p] = 1 /\ LacpForwarding)

\* The flood output set flood_manager.add_vlan/update_vlan computes.
FloodPortsIn(v, phys, lup) == {p \in VlanPorts[v] : ForwardingIn(p, phys, lup)}

FloodPorts(v) == FloodPortsIn(v, physUp, lacpUp)

\* Reprogram flooding for the VLANs vs from the port state phys and the
\* LACP state lup the handler leaves.
Reflood(vs, phys, lup) ==
    floodSet' = [v \in Vlans |->
                   IF v \in vs THEN FloodPortsIn(v, phys, lup) ELSE floodSet[v]]

\* lacp_down on the ports S: the LACP fields it resets.
MutLacpUpAfterDown(S) == lacpUp
MutLacpUpAfterDownNone(S) == [q \in LacpPorts |-> IF q \in S THEN None ELSE lacpUp[q]]
LacpUpAfterDown(S) == [q \in LacpPorts |-> IF q \in S THEN 0 ELSE lacpUp[q]]

MutPktAfterDown(S) == lastLacpPkt
PktAfterDown(S) == [q \in LacpPorts |-> IF q \in S THEN None ELSE lastLacpPkt[q]]

MutLacpDownFields(S) ==
    /\ lacpUp' = LacpUpAfterDown(S)
    /\ lastLacpPkt' = lastLacpPkt
    /\ lacpUpdated' = [q \in LacpPorts |-> IF q \in S THEN None ELSE lacpUpdated[q]]
    /\ lacpLastResp' = [q \in LacpPorts |-> IF q \in S THEN None ELSE lacpLastResp[q]]
LacpDownFields(S) ==
    /\ lacpUp' = LacpUpAfterDown(S)
    /\ lastLacpPkt' = PktAfterDown(S)
    /\ lacpUpdated' = [q \in LacpPorts |-> IF q \in S THEN None ELSE lacpUpdated[q]]
    /\ lacpLastResp' = [q \in LacpPorts |-> IF q \in S THEN None ELSE lacpLastResp[q]]

\* lacp_down installs the in_port drop on each port of S.
InstallDrops(S) == inDrop' = [q \in Ports |-> q \in S \/ inDrop[q]]

-----------------------------------------------------------------------------
Init ==
    /\ running = FALSE
    /\ upPortNos = {}
    /\ physUp = [p \in Ports |-> FALSE]
    /\ lacpUp = [p \in LacpPorts |-> 0]
    /\ lastLacpPkt = [p \in LacpPorts |-> None]
    /\ lacpUpdated = [p \in LacpPorts |-> None]
    /\ lacpLastResp = [p \in LacpPorts |-> None]
    /\ floodSet = [v \in Vlans |-> {}]
    /\ inDrop = [p \in Ports |-> FALSE]
    /\ now = 1

\* The LACP ports ports_add(cold_start=True) runs lacp_down on.
MutConnectLacpDown(discovered) == {}
ConnectLacpDown(discovered) == discovered \cap LacpPorts

\* datapath_connect: delete all flows, ports_add(cold_start=True) on the
\* discovered ports, then _add_vlans on every VLAN; dyn_running set.
DatapathConnect(discovered) ==
    /\ ~running
    /\ running' = TRUE
    /\ upPortNos' = discovered
    /\ LET phys == [p \in Ports |-> p \in discovered \/ physUp[p]] IN
       /\ physUp' = phys
       /\ LacpDownFields(ConnectLacpDown(discovered))
       /\ inDrop' = [p \in Ports |-> p \in ConnectLacpDown(discovered)]
       /\ Reflood(Vlans, phys, LacpUpAfterDown(ConnectLacpDown(discovered)))
    /\ UNCHANGED now

\* datapath_disconnect: only dyn_running changes.
DatapathDisconnect ==
    /\ running
    /\ running' = FALSE
    /\ UNCHANGED <<upPortNos, physUp, lacpUp, lastLacpPkt, lacpUpdated,
                   lacpLastResp, floodSet, inDrop, now>>

\* _set_port_status: record the port's operational status.
SetPortStatus(p, status) ==
    upPortNos' = IF status THEN upPortNos \cup {p} ELSE upPortNos \ {p}

\* port_status_handler: whether the port is (re)added.
NewPortStatus(reason, linkUp) ==
    reason = "ADD" \/ (reason = "MODIFY" /\ linkUp)

\* The VLANs ports_delete refloods: lacp_down's add_vlan for an LACP port
\* and the trailing update_vlan loop for every port.
MutDeletedPortVlans(p) == IF p \in LacpPorts THEN VlansOf(p) ELSE {}
DeletedPortVlans(p) == VlansOf(p)

\* The VLANs ports_add (not cold) refloods.
AddedPortVlans(p) == VlansOf(p)

\* port_status_handler(port_no, reason, state): _set_port_status, then for a
\* known reason port_add (after port_delete on a flap) or port_delete.  Both
\* run lacp_down(cold_start=False) on an LACP port.
PortStatus(p, reason, linkUp) ==
    /\ running
    /\ SetPortStatus(p, linkUp)
    /\ IF reason \in {"ADD", "DELETE", "MODIFY"}
       THEN LET up == NewPortStatus(reason, linkUp)
                phys == [physUp EXCEPT ![p] = up]
            IN
            /\ physUp' = phys
            /\ LacpDownFields({p} \cap LacpPorts)
            /\ InstallDrops({p} \cap LacpPorts)
            /\ Reflood(IF up THEN AddedPortVlans(p) ELSE DeletedPortVlans(p),
                       phys, LacpUpAfterDown({p} \cap LacpPorts))
       ELSE UNCHANGED <<physUp, lacpUp, lastLacpPkt, lacpUpdated,
                        lacpLastResp, floodSet, inDrop>>
    /\ UNCHANGED <<running, now>>

\* lacp_handler on a parsed LACP PDU received on LACP port p (packet-ins are
\* only parsed while dyn_running).  lacp_up/lacp_down run first on a state
\* change; a reply is sent on a changed PDU or when the last one is older
\* than lacp_resp_interval; the PDU and its time are then recorded.
LacpRcv(p, pdu) ==
    /\ running
    /\ LET age == IF Truthy(lacpLastResp[p]) THEN now - lacpLastResp[p] ELSE None
           stateChange == lacpUp[p] # pdu.actorUp
           goesUp == stateChange /\ pdu.actorUp = 1
           goesDown == stateChange /\ pdu.actorUp = 0
           pktChange == lastLacpPkt[p] = None \/ lastLacpPkt[p] # pdu
           reply == pktChange \/ (age # None /\ age > LacpRespInterval)
           lup == IF goesDown THEN LacpUpAfterDown({p})
                  ELSE IF goesUp THEN [lacpUp EXCEPT ![p] = 1]
                  ELSE lacpUp
       IN
       /\ lacpUp' = lup
       /\ lastLacpPkt' = [lastLacpPkt EXCEPT ![p] = pdu]
       /\ lacpUpdated' = [lacpUpdated EXCEPT ![p] = now]
       /\ lacpLastResp' = [lacpLastResp EXCEPT ![p] =
                              IF reply THEN now ELSE IF goesDown THEN None ELSE @]
       /\ inDrop' = IF goesDown THEN [inDrop EXCEPT ![p] = TRUE]
                    ELSE IF goesUp /\ LacpForwarding THEN [inDrop EXCEPT ![p] = FALSE]
                    ELSE inDrop
       /\ Reflood(IF goesDown \/ (goesUp /\ LacpForwarding) THEN VlansOf(p) ELSE {},
                  physUp, lup)
    /\ UNCHANGED <<running, upPortNos, physUp, now>>

\* dp.lags_up(): LACP ports whose LACP is up.
LagsUp == {p \in LacpPorts : lacpUp[p] = 1}

\* The LACP ports _lacp_state_expire takes down.
LacpExpired == {p \in LagsUp : now - lacpUpdated[p] > LacpTimeout}

\* state_expire: while dyn_running, _lacp_state_expire runs lacp_down on
\* every LACP port whose last PDU is older than lacp_timeout.
StateExpire ==
    /\ running
    /\ LacpDownFields(LacpExpired)
    /\ InstallDrops(LacpExpired)
    /\ Reflood(VlansOfSet(LacpExpired), physUp, LacpUpAfterDown(LacpExpired))
    /\ UNCHANGED <<running, upPortNos, physUp, now>>

\* The event loop's clock advances.
Tick ==
    /\ now < MaxTime
    /\ now' = now + 1
    /\ UNCHANGED <<running, upPortNos, physUp, lacpUp, lastLacpPkt,
                   lacpUpdated, lacpLastResp, floodSet, inDrop>>

Next ==
    \/ \E d \in SUBSET Ports : DatapathConnect(d)
    \/ DatapathDisconnect
    \/ \E p \in Ports, r \in PortReasons, l \in BOOLEAN : PortStatus(p, r, l)
    \/ \E p \in LacpPorts, pdu \in Pdus : LacpRcv(p, pdu)
    \/ StateExpire
    \/ Tick

Spec == Init /\ [][Next]_vars

-----------------------------------------------------------------------------
(* Properties.                                                             *)

TypeOK ==
    /\ running \in BOOLEAN
    /\ upPortNos \subseteq Ports
    /\ physUp \in [Ports -> BOOLEAN]
    /\ lacpUp \in [LacpPorts -> {0, 1}]
    /\ lastLacpPkt \in [LacpPorts -> Pdus \cup {None}]
    /\ lacpUpdated \in [LacpPorts -> Times \cup {None}]
    /\ lacpLastResp \in [LacpPorts -> Times \cup {None}]
    /\ floodSet \in [Vlans -> SUBSET Ports]
    /\ inDrop \in [Ports -> BOOLEAN]
    /\ now \in Times

\* While the datapath is connected, the flood set programmed for every VLAN
\* is exactly the set of its forwarding members: no handler that changes a
\* port's physical or LACP state (port status, LACP PDU, LACP expiry,
\* connect) leaves a VLAN flooding to a port that stopped forwarding, or
\* not flooding to one that started.
FloodInSync ==
    running => \A v \in Vlans : floodSet[v] = FloodPorts(v)

\* While connected, an operationally up LACP port carries lacp_down's input
\* drop exactly when its bundle is not up and forwarding: LACP that is down
\* never lets traffic in, LACP that is up is never blackholed.
LacpDropInSync ==
    running =>
        \A p \in LacpPorts \cap upPortNos :
            inDrop[p] <=> ~(lacpUp[p] = 1 /\ LacpForwarding)

\* _lacp_state_expire computes now - dyn_lacp_updated_time for every port
\* with LACP up: that time is never None there, or state_expire raises.
LacpExpireSafe ==
    \A p \in LacpPorts : lacpUp[p] = 1 => lacpUpdated[p] # None

\* Every LACP PDU lacp_handler processes leaves the port with a reply sent
\* no longer than lacp_resp_interval ago: a partner that keeps sending the
\* same PDU is answered at least once per interval.
LacpReplyTimely ==
    [][\A p \in LacpPorts, pdu \in Pdus :
          LacpRcv(p, pdu) =>
              /\ lacpLastResp'[p] # None
              /\ now - lacpLastResp'[p] <= LacpRespInterval]_vars

\* The spec (section 8, invariant 1): while connected, no flood output
\* includes a port whose operational status is down.
NoFloodToDownPort ==
    running => \A v \in Vlans : floodSet[v] \subseteq upPortNos

\* The LACP engine implements LacpAbstract: lacp_handler records each PDU
\* and sets dyn_lacp_up to its actor state (through lacp_up or lacp_down
\* on a change), and every other change of either field is lacp_down's
\* reset of both (on connect, on a port status event, on expiry).
Abs == INSTANCE LacpAbstract WITH
    Ports <- LacpPorts, lacp <- lacpUp, partner <- lastLacpPkt

AbsSpec == Abs!Spec

=============================================================================
