---------------------------- MODULE ValvePacketIn ----------------------------
(***************************************************************************)
(* The packet-in path of one Valve (src/faucet/valve.py): for each packet  *)
(* the switch sends, rate_limit_packet_ins counts it against the current   *)
(* second, parse_pkt_meta validates it against the configuration in force  *)
(* and rcv_packet dispatches it, a VLAN packet to learning, an untagged    *)
(* one to the LACP/LLDP handlers.  Composed with what changes under it:    *)
(* the clock, datapath connect and disconnect, and reload_config, whose    *)
(* dp_init resets the per-second counter and whose warm path reprograms    *)
(* the switch's VLAN table while packet-ins it admitted under the old one  *)
(* are still queued.                                                       *)
(*                                                                         *)
(* A packet is its in_port, its VLAN (None when untagged) and the kind of  *)
(* its source MAC; cookie, reason and parse failures, which the switch     *)
(* running faucet's own flows does not produce, are left out.  Learning is *)
(* the decision to call learn_host for (in_port, VLAN); what the host      *)
(* manager then does lives outside the source tree.  All ports are         *)
(* non-stack ports.                                                        *)
(***************************************************************************)
EXTENDS Naturals, FiniteSets

CONSTANTS
    Ports,        \* port numbers
    Vlans,        \* VLAN ids
    Configs,      \* configurations the operator may load
    Stacked,      \* dp.stack is set
    MaxTime,      \* bound on the clock (seconds)
    MaxInflight,  \* bound on packet-ins queued at once
    MaxPerSec,    \* bound on the packet-ins the switch sends in one second
    None          \* Python None

\* ports, vlans, member: each VLAN's (tagged or native) ports; ignore:
\* ignore_learn_ins.
IsConfig(c) ==
    /\ c.ports \subseteq Ports
    /\ c.vlans \subseteq Vlans
    /\ c.member \in [Vlans -> SUBSET c.ports]
    /\ \A v \in Vlans \ c.vlans : c.member[v] = {}
    /\ c.ignore \in Nat

ASSUME ConfigAssumption == Configs # {} /\ \A c \in Configs : IsConfig(c)
ASSUME BoundsAssumption ==
    Stacked \in BOOLEAN /\ MaxTime \in Nat \ {0} /\ MaxInflight \in Nat /\ MaxPerSec \in Nat
ASSUME NoneAssumption == None \notin Vlans

Packets == [port : Ports, vid : Vlans \cup {None}, src : {"unicast", "multicast", "zero"}]

VARIABLES
    cfg,          \* self.dp
    running,      \* dp.dyn_running
    dpCfg,        \* the configuration the switch's VLAN table was programmed for
    inflight,     \* packet-ins sent by the switch, not yet handled
    now,          \* the clock, in seconds
    lastSec,      \* _last_packet_in_sec
    countSec,     \* _packet_in_count_sec
    secIn,        \* packet-ins handled in the current second (history)
    secIgnored,   \* of which rate_limit_packet_ins ignored (history)
    secSameN      \* ignore_learn_ins has not changed this second (history)

vars == <<cfg, running, dpCfg, inflight, now, lastSec, countSec, secIn, secIgnored, secSameN>>

-----------------------------------------------------------------------------
\* rate_limit_packet_ins: the counter after this packet-in, restarted when
\* the second is not the one last counted.
MutNextCount == countSec + 1
NextCount == (IF lastSec # now THEN 0 ELSE countSec) + 1

\* ... and whether it ignores the packet-in.
RateLimited(n) == cfg.ignore # 0 /\ n % cfg.ignore = 0

\* parse_pkt_meta returns a PacketMeta: the DP runs, the port is
\* configured, a tagged packet's VLAN is configured, the source is unicast
\* and not all zeros, and on a stacked DP the port is a member of the VLAN.
ParsePktMeta(pk) ==
    /\ running
    /\ pk.port \in cfg.ports
    /\ pk.vid # None => pk.vid \in cfg.vlans
    /\ pk.src = "unicast"
    /\ (Stacked /\ pk.vid # None) => pk.port \in cfg.member[pk.vid]

\* rcv_packet: a valid packet with a VLAN goes to _vlan_rcv_packet and
\* learn_host on its port.
Learns(pk) == ~RateLimited(NextCount) /\ ParsePktMeta(pk) /\ pk.vid # None

\* The switch's VLAN table under configuration c admits the packet.
Admitted(c, pk) ==
    /\ pk.port \in c.ports
    /\ pk.vid # None => pk.port \in c.member[pk.vid]

\* dp.get_config_changes: every port of the new configuration changed.
ChangedPorts(old, new) ==
    {p \in new.ports : p \notin old.ports \/
                       \E v \in Vlans : (p \in old.member[v]) # (p \in new.member[v])}
AllPortsChanged(old, new) == new.ports # {} /\ new.ports \subseteq ChangedPorts(old, new)

-----------------------------------------------------------------------------
\* Valve.__init__, which ends with dp_init(): the counters start at 0.
Init ==
    /\ cfg \in Configs
    /\ running = FALSE
    /\ dpCfg = cfg
    /\ inflight = {}
    /\ now = 1
    /\ lastSec = 0
    /\ countSec = 0
    /\ secIn = 0
    /\ secIgnored = 0
    /\ secSameN = TRUE

\* datapath_connect programs the tables for the configuration in force.
DatapathConnect ==
    /\ ~running
    /\ running' = TRUE
    /\ dpCfg' = cfg
    /\ UNCHANGED <<cfg, inflight, now, lastSec, countSec, secIn, secIgnored, secSameN>>

\* datapath_disconnect: the connection and the packet-ins queued on it go.
DatapathDisconnect ==
    /\ running
    /\ running' = FALSE
    /\ inflight' = {}
    /\ UNCHANGED <<cfg, dpCfg, now, lastSec, countSec, secIn, secIgnored, secSameN>>

\* The switch sends a packet-in for a packet its tables admit.
SwitchPacketIn(pk) ==
    /\ running
    /\ Cardinality(inflight) < MaxInflight
    /\ secIn + Cardinality(inflight) < MaxPerSec
    /\ Admitted(dpCfg, pk)
    /\ inflight' = inflight \cup {pk}
    /\ UNCHANGED <<cfg, running, dpCfg, now, lastSec, countSec, secIn, secIgnored, secSameN>>

\* The packet-in handler: rate_limit_packet_ins(now), then parse_pkt_meta
\* and rcv_packet (whose outcome is Learns(pk)).
PacketIn(pk) ==
    /\ pk \in inflight
    /\ inflight' = inflight \ {pk}
    /\ lastSec' = now
    /\ countSec' = NextCount
    /\ secIn' = secIn + 1
    /\ secIgnored' = IF RateLimited(NextCount) THEN secIgnored + 1 ELSE secIgnored
    /\ UNCHANGED <<cfg, running, dpCfg, now, secSameN>>

Tick ==
    /\ now < MaxTime
    /\ now' = now + 1
    /\ secIn' = 0
    /\ secIgnored' = 0
    /\ secSameN' = TRUE
    /\ UNCHANGED <<cfg, running, dpCfg, inflight, lastSec, countSec>>

\* reload_config: dp_init(new_dp) restarts the packet-in counter; a cold
\* start while running closes the connection (send_flows(None)); a warm
\* one reprograms the running switch for the new configuration.
ReloadConfig(new) ==
    /\ cfg' = new
    /\ lastSec' = 0
    /\ countSec' = 0
    /\ IF AllPortsChanged(cfg, new)
       THEN /\ running' = FALSE
            /\ inflight' = IF running THEN {} ELSE inflight
            /\ UNCHANGED dpCfg
       ELSE /\ dpCfg' = IF running THEN new ELSE dpCfg
            /\ UNCHANGED <<running, inflight>>
    /\ secSameN' = (secSameN /\ new.ignore = cfg.ignore)
    /\ UNCHANGED <<now, secIn, secIgnored>>

Next ==
    \/ DatapathConnect
    \/ DatapathDisconnect
    \/ \E pk \in Packets : SwitchPacketIn(pk)
    \/ \E pk \in inflight : PacketIn(pk)
    \/ Tick
    \/ \E c \in Configs : ReloadConfig(c)

Spec == Init /\ [][Next]_vars

-----------------------------------------------------------------------------
(* Properties.                                                             *)

TypeOK ==
    /\ cfg \in Configs /\ dpCfg \in Configs
    /\ running \in BOOLEAN
    /\ inflight \subseteq Packets
    /\ now \in 1 .. MaxTime /\ lastSec \in 0 .. MaxTime
    /\ countSec \in Nat /\ secIn \in 0 .. MaxPerSec /\ secIgnored \in 0 .. secIn
    /\ secSameN \in BOOLEAN

\* A packet-in is learned only on a VLAN its port is a member of in the
\* configuration in force, even when the switch admitted it under an
\* earlier configuration and a warm reload came in between.
LearnOnMember ==
    [][\A pk \in inflight :
          (PacketIn(pk) /\ Learns(pk)) => pk.port \in cfg.member[pk.vid]]_vars

\* rate_limit_packet_ins never ignores more than one packet-in in N within
\* a second in which N (ignore_learn_ins) stayed the same: reloads and the
\* turn of the second only restart the count.
RateLimitNoOverDrop ==
    (cfg.ignore # 0 /\ secSameN) => secIgnored * cfg.ignore <= secIn

\* The spec (rate limiting: a per-second counter, every Nth packet-in is
\* dropped): within a second in which N stayed the same, exactly one
\* packet-in in N is ignored.
IgnoredEveryNth ==
    (cfg.ignore # 0 /\ secSameN) => secIgnored = secIn \div cfg.ignore

=============================================================================
