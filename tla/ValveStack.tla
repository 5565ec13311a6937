----------------------------- MODULE ValveStack -----------------------------
(***************************************************************************)
(* The stack link engine of the Valves of a stack (src/faucet/valve.py):   *)
(* LLDP beacons sent by fast_advertise on every stack port, received by    *)
(* lldp_handler and checked by _verify_stack_lldp, the per-port state      *)
(* machine _next_stack_link_state evaluated by _update_stack_link_state on *)
(* every probe and on every fast_state_expire, and the fan-out of each     *)
(* change to the flood manager of every stacked Valve, and to the flood    *)
(* rules of every running datapath.                                        *)
(*                                                                         *)
(* Time is kept as ages rather than timestamps: the age of the last probe  *)
(* of each port, and the time since each Valve's last fast_advertise,      *)
(* each saturating at the only bound the code compares it with.  Every     *)
(* comparison the code makes gives the same answer on the saturated age.   *)
(* Beacons in flight may be lost, duplicated and delivered in any order.   *)
(***************************************************************************)
EXTENDS Naturals, FiniteSets

CONSTANTS
    Dps,            \* the stacked DPs, one Valve each
    StackPorts,     \* the stack ports of all of them
    DpOf,           \* stack port -> its DP
    Peer,           \* port.stack['dp'] and port.stack['port']: the expected remote port
    Cablings,       \* the physical cablings considered (port -> port at the other end)
    MaxLldpLost,    \* port.max_lldp_lost
    SendInterval,   \* remote_dp.lldp_beacon['send_interval']
    FastAdvInterval,\* dp.fast_advertise_interval
    None            \* Python None

\* A cable joins two ports: each end's beacons reach the other end.
Involutions == {f \in [StackPorts -> StackPorts] : \A p \in StackPorts : f[f[p]] = p}

ASSUME DpAssumption == DpOf \in [StackPorts -> Dps]
ASSUME PeerAssumption == Peer \in Involutions
ASSUME CablingAssumption == Cablings \subseteq Involutions /\ Cablings # {}
ASSUME TimingAssumption ==
    /\ MaxLldpLost \in Nat \ {0}
    /\ SendInterval \in Nat \ {0}
    /\ FastAdvInterval \in Nat \ {0}
ASSUME NoneAssumption == None \notin Nat \cup BOOLEAN \cup {"INIT", "UP", "DOWN"}

\* The only bound the code compares a probe's age with:
\* time_since_lldp_seen / send_interval < max_lldp_lost.
SeenCap == MaxLldpLost * SendInterval

VARIABLES
    running,       \* dp.dyn_running of each Valve
    wire,          \* the physical cabling (one of Cablings, fixed)
    seenAge,       \* now - dyn_stack_probe_info['last_seen_lldp_time'], capped; None if never seen
    stackCorrect,  \* dyn_stack_probe_info['stack_correct'] (None if never seen)
    stackState,    \* port.dyn_stack_current_state
    topo,          \* Valve -> the stack ports its flood_manager holds as up
    floodTopo,     \* Valve -> the topology its datapath's flood rules were programmed from
    advAge,        \* now - _last_fast_advertise_sec, capped at fast_advertise_interval
    beacons        \* LLDP beacons in flight, by the port that sent them

vars == <<running, wire, seenAge, stackCorrect, stackState, topo, floodTopo,
          advAge, beacons>>

States == {"INIT", "UP", "DOWN"}

PortsOf(d) == {p \in StackPorts : DpOf[p] = d}

UpPorts == {p \in StackPorts : stackState[p] = "UP"}

-----------------------------------------------------------------------------
(* The stack link state machine.                                           *)

\* Python truthiness of a time difference.
Truthy(t) == t # None /\ t # 0

\* num_lost_lldp < port.max_lldp_lost, on the age of the last probe.
MutNotTimedOut(age) == age <= SeenCap
NotTimedOut(age) == age < SeenCap

MutNextStackState(p, ls, sc) ==
    IF ls[p] = None
    THEN IF stackState[p] = "DOWN" THEN "INIT" ELSE None
    ELSE IF ~sc[p]
    THEN IF stackState[p] # "DOWN" THEN "DOWN" ELSE None
    ELSE IF ~NotTimedOut(ls[p])
    THEN IF stackState[p] # "DOWN" /\ Truthy(ls[p]) THEN "DOWN" ELSE None
    ELSE IF stackState[p] = "DOWN" THEN "UP" ELSE None

\* _next_stack_link_state(port, now), given the probe info ls (age) and sc
\* (stack_correct) the port holds when it is evaluated; None for no change.
NextStackState(p, ls, sc) ==
    IF ls[p] = None
    THEN IF stackState[p] = "DOWN" THEN "INIT" ELSE None
    ELSE IF ~sc[p]
    THEN IF stackState[p] # "DOWN" THEN "DOWN" ELSE None
    ELSE IF ~NotTimedOut(ls[p])
    THEN IF stackState[p] # "DOWN" /\ Truthy(ls[p]) THEN "DOWN" ELSE None
    ELSE IF stackState[p] # "UP" THEN "UP" ELSE None

\* next_state() is applied only when there is one.
MutApplyState(s, ns) == ns
ApplyState(s, ns) == IF ns = None THEN s ELSE ns

\* The Valves _update_stack_link_state fans a change out to: itself and
\* every other Valve whose DP has a stack root.
MutFanOut(d) == {d}
FanOut(d) == Dps

\* Of those, the ones whose datapath gets the new flood rules: the running
\* ones.
MutReflooded(d) == {w \in {d} : running[w]}
Reflooded(d) == {w \in FanOut(d) : running[w]}

\* _update_stack_link_state(ports, now, other_valves) called by Valve d on
\* the ports S, with the probe info ls/sc: each port's next state is
\* applied, every change is passed to update_stack_topo of every stacked
\* Valve, and if any port changed every running one reprograms flooding.
UpdateStackLinkState(d, S, ls, sc) ==
    LET changed == {p \in S : NextStackState(p, ls, sc) # None}
        st == [p \in StackPorts |->
                 IF p \in S THEN ApplyState(stackState[p], NextStackState(p, ls, sc))
                 ELSE stackState[p]]
        up == {p \in changed : st[p] = "UP"}
        newTopo == [w \in Dps |->
                      IF w \in FanOut(d) THEN (topo[w] \ changed) \cup up ELSE topo[w]]
    IN
    /\ stackState' = st
    /\ topo' = newTopo
    /\ floodTopo' = [w \in Dps |->
                       IF changed # {} /\ w \in Reflooded(d) THEN newTopo[w]
                       ELSE floodTopo[w]]

-----------------------------------------------------------------------------
Init ==
    /\ running = [d \in Dps |-> FALSE]
    /\ wire \in Cablings
    /\ seenAge = [p \in StackPorts |-> None]
    /\ stackCorrect = [p \in StackPorts |-> None]
    /\ stackState = [p \in StackPorts |-> "DOWN"]
    /\ topo = [d \in Dps |-> {}]
    /\ floodTopo = [d \in Dps |-> {}]
    /\ advAge = [d \in Dps |-> FastAdvInterval]
    /\ beacons = {}

\* datapath_connect: flooding for every VLAN is programmed from the flood
\* manager's current stack topology.
DatapathConnect(d) ==
    /\ ~running[d]
    /\ running' = [running EXCEPT ![d] = TRUE]
    /\ floodTopo' = [floodTopo EXCEPT ![d] = topo[d]]
    /\ UNCHANGED <<wire, seenAge, stackCorrect, stackState, topo, advAge, beacons>>

\* datapath_disconnect.
DatapathDisconnect(d) ==
    /\ running[d]
    /\ running' = [running EXCEPT ![d] = FALSE]
    /\ UNCHANGED <<wire, seenAge, stackCorrect, stackState, topo, floodTopo,
                   advAge, beacons>>

\* fast_advertise: once fast_advertise_interval has passed, a beacon goes
\* out on every stack port; only a connected datapath transmits it.
FastAdvertise(d) ==
    /\ ~(advAge[d] < FastAdvInterval)
    /\ advAge' = [advAge EXCEPT ![d] = 0]
    /\ beacons' = IF running[d] THEN beacons \cup PortsOf(d) ELSE beacons
    /\ UNCHANGED <<running, wire, seenAge, stackCorrect, stackState, topo, floodTopo>>

\* _verify_stack_lldp: the probe names the configured remote DP and port.
MutStackCorrect(q, b) == TRUE
StackCorrect(q, b) == b = Peer[q]

\* lldp_handler on the beacon b arriving at the port cabled to b (a
\* packet-in, so only while that datapath is connected): the probe info
\* is recorded and _update_stack_link_state runs on that port.  The beacon
\* is consumed or, duplicated, stays in flight.
LldpRcv(b) ==
    /\ b \in beacons
    /\ LET q == wire[b]
           ls == [seenAge EXCEPT ![q] = 0]
           sc == [stackCorrect EXCEPT ![q] = StackCorrect(q, b)]
       IN
       /\ running[DpOf[q]]
       /\ seenAge' = ls
       /\ stackCorrect' = sc
       /\ UpdateStackLinkState(DpOf[q], {q}, ls, sc)
    /\ beacons' \in {beacons, beacons \ {b}}
    /\ UNCHANGED <<running, wire, advAge>>

\* A beacon is lost.
LoseBeacon(b) ==
    /\ b \in beacons
    /\ beacons' = beacons \ {b}
    /\ UNCHANGED <<running, wire, seenAge, stackCorrect, stackState, topo,
                   floodTopo, advAge>>

\* fast_state_expire: every stack port of the DP is re-evaluated.
FastStateExpire(d) ==
    /\ UpdateStackLinkState(d, PortsOf(d), seenAge, stackCorrect)
    /\ UNCHANGED <<running, wire, seenAge, stackCorrect, advAge, beacons>>

\* Time passes: every age grows, up to the bound it is compared with.
Tick ==
    /\ seenAge' = [p \in StackPorts |->
                     IF seenAge[p] = None THEN None
                     ELSE IF seenAge[p] < SeenCap THEN seenAge[p] + 1 ELSE SeenCap]
    /\ advAge' = [d \in Dps |->
                    IF advAge[d] < FastAdvInterval THEN advAge[d] + 1 ELSE FastAdvInterval]
    /\ UNCHANGED <<running, wire, stackCorrect, stackState, topo, floodTopo, beacons>>

Next ==
    \/ \E d \in Dps : DatapathConnect(d) \/ DatapathDisconnect(d)
    \/ \E d \in Dps : FastAdvertise(d) \/ FastStateExpire(d)
    \/ \E b \in StackPorts : LldpRcv(b) \/ LoseBeacon(b)
    \/ Tick

Spec == Init /\ [][Next]_vars

\* The controller runs fast_advertise and fast_state_expire of every Valve
\* from its periodic timers, and time passes; the network does not lose
\* forever a beacon that is sent again and again.
FairSpec ==
    /\ Spec
    /\ WF_vars(Tick)
    /\ \A d \in Dps : WF_vars(FastAdvertise(d)) /\ WF_vars(FastStateExpire(d))
    /\ \A b \in StackPorts : SF_vars(LldpRcv(b))

-----------------------------------------------------------------------------
(* Properties.                                                             *)

TypeOK ==
    /\ running \in [Dps -> BOOLEAN]
    /\ wire \in Cablings
    /\ seenAge \in [StackPorts -> (0..SeenCap) \cup {None}]
    /\ stackCorrect \in [StackPorts -> BOOLEAN \cup {None}]
    /\ stackState \in [StackPorts -> States]
    /\ topo \in [Dps -> SUBSET StackPorts]
    /\ floodTopo \in [Dps -> SUBSET StackPorts]
    /\ advAge \in [Dps -> 0..FastAdvInterval]
    /\ beacons \subseteq StackPorts

\* The fan-out of _update_stack_link_state keeps every Valve's flood manager
\* agreeing on the stack topology: each holds exactly the stack ports, of
\* any DP, whose state is UP, whichever Valve evaluated them.
ViewsAgree ==
    \A d \in Dps : topo[d] = UpPorts

\* Every connected datapath floods along the current stack topology: a
\* link change evaluated by any Valve reaches the flood rules of every
\* running datapath, and a reconnecting one is programmed from it.
FloodTopoFresh ==
    \A d \in Dps : running[d] => floodTopo[d] = UpPorts

\* fast_state_expire takes down a link that has stopped hearing probes:
\* an UP port whose last probe is max_lldp_lost send intervals old goes
\* DOWN unless a probe arrives first.
LinkDownOnSilence ==
    \A p \in StackPorts :
        (stackState[p] = "UP" /\ seenAge[p] = SeenCap)
            ~> (stackState[p] = "DOWN" \/ seenAge[p] # SeenCap)

\* A link cabled as configured between two connected datapaths comes up:
\* fast_advertise's beacons reach the other end and lldp_handler moves the
\* port to UP, unless one of the datapaths disconnects.
LinkComesUp ==
    \A p \in StackPorts :
        (wire[p] = Peer[p] /\ running[DpOf[p]] /\ running[DpOf[wire[p]]])
            ~> (stackState[p] = "UP" \/ ~running[DpOf[p]] \/ ~running[DpOf[wire[p]]])

\* The stack link engine implements the abstract state machine, with the
\* ports that have a last_seen_lldp_time as the ones that heard a probe.
Abs == INSTANCE StackLinkAbstract WITH
           Ports <- StackPorts,
           linkState <- stackState,
           probed <- {p \in StackPorts : seenAge[p] # None},
           cabling <- wire

AbsSpec == Abs!Spec

=============================================================================
