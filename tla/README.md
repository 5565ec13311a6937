# TLA+ models of the Faucet Valve

This directory holds TLA+ models of `src/faucet/valve.py`. That file is the
`Valve` class: one instance drives one OpenFlow datapath (DP) for the Faucet
controller. The models are checked with TLC on small instances. Proofs,
checked by TLAPS, cover every value of the constants.

## 1. Inventory of the system

`Valve` is a set of event handlers. The Ryu event loop calls them one at a
time, with the current time `now`. Each handler updates the controller's
dynamic state (the `dyn_*` fields of the `DP`, `Port` and `VLAN` objects). It
then returns the OpenFlow messages the datapath must apply. No two handlers
of one controller run concurrently. What interleaves is the *events*: port
status messages, packet-ins (LACP, LLDP, data), timers and reloads. These
arrive in any order, and several valves affect each other through the stack.

| Component | Code (valve.py) | State | Operations |
|---|---|---|---|
| Port lifecycle | `datapath_connect` 649, `datapath_disconnect` 678, `_add_ports_and_vlans` 385, `_set_port_status` 416, `port_status_handler` 428, `ports_add` 767, `ports_delete` 867 | `dp.dyn_running`, `dp.dyn_up_port_nos`, `port.dyn_phys_up`, flood programming | connect, disconnect, port status ADD/DELETE/MODIFY (with a flap treated as delete + add) |
| LACP engine | `lacp_handler` 999, `lacp_up` 941, `lacp_down` 913, `_lacp_actions` 960, `_lacp_state_expire` 1519, `state_expire` 1537 | `dyn_lacp_up`, `dyn_last_lacp_pkt`, `dyn_lacp_updated_time`, `dyn_lacp_last_resp_time`, in_port drop flow | PDU receipt, bundle up/down, reply timer, expiry |
| Stack link engine | `fast_advertise` 512, `_send_lldp_beacon_on_port` 490, `lldp_handler` 1090, `_verify_stack_lldp` 1057, `_next_stack_link_state` 537, `_update_stack_link_state` 586, `fast_state_expire` 632 | per stack port: beacon receive time and state, stack state (init/up/down/bad); the stack topology of every valve | send beacon, receive beacon, expire, fan out to other valves |
| Configuration reload | `reload_config` 1637, `_apply_config_changes` 1578, `dp_init` 141 | the DP configuration, `dyn_running` | cold or warm restart; delete/add changed ports and VLANs |
| Packet-in path | `rcv_packet` 1495, `parse_pkt_meta` 1254, `rate_limit_packet_ins` 1150, `learn_host` 1178, `_vlan_rcv_packet` 1437 | `_packet_in_count_sec`, `_last_packet_in_sec`, host tables | validate, rate limit, learn, dispatch to LACP/LLDP/routing |
| Timers | `advertise` 475, `fast_advertise` 512, `state_expire` 1537 | `_last_advertise_sec`, `_last_fast_advertise_sec` | periodic advertisement and expiry |
| Error correlation | `oferror` 1747, `send_flows` 1783, `recent_ofmsgs` (113) | a deque of the last 32 messages | record sent messages, match an error's xid |
| Hardware variants | `TfmValve`, `ArubaValve`, `NoviFlowValve`, `prepare_send_flows` | none beyond the messages | pipeline and message formatting |

How the components interact:

* The LACP engine is started by the port lifecycle. `ports_add` runs
  `lacp_down` on each LACP port.
* Flooding depends on both the port lifecycle and the LACP engine. Every
  `lacp_up`/`lacp_down` and every port add or delete reprograms the flood
  rules of the port's VLANs.
* `state_expire` and `fast_state_expire` are timer-driven. They take LACP
  bundles and stack links down.
* Stack link changes fan out to every other valve's topology view.
* A reload may force a cold start. A cold start goes through the same
  connect path.

What makes the code hard to test:

* Sequences of events for one port, such as a PDU, a flap and an expiry, in
  orders nobody writes a test for.
* State carried across a disconnect: `dyn_phys_up` is never cleared.
* Timestamps tested for truthiness, where 0 and `None` are both false.
* Handlers that read the state before a nested call (`lacp_down`) resets it.
* The periodic timers, and several valves that must agree on the stack.

The properties each component needs:

* **Port lifecycle:** the flood output of a VLAN is its forwarding members.
* **LACP engine:**
  * a port with LACP down drops its input, and one with LACP up is never
    blackholed;
  * expiry never reads a missing time;
  * a repeated PDU is still answered once per interval;
  * a bundle that stops receiving PDUs eventually goes down.
* **Stack:**
  * a link is up only after a consistent beacon, and goes down after the
    timeout;
  * every valve eventually sees the same topology.
* **Reload:** a cold start leaves the same state as a connect.
* **Packet-in:** the rate limiter passes at most the configured share.
* **Error ring:** at most 32 recent messages are kept, the newest last.

## 2. Modules

| Module | Models | Status |
|---|---|---|
| `LacpAbstract` | what the LACP engine promises: the abstract per-port LACP machine | written |
| `ValvePorts` | port lifecycle and LACP engine of one valve, refining `LacpAbstract` | written |
| `MCValvePorts` + `MCValvePorts*.cfg` | the TLC instance of `ValvePorts` | written |
| `ValvePortsProofs` | TLAPS proofs about `ValvePorts` | written |
| `StackLinkAbstract` | what the stack link engine promises: the abstract per-port link machine | written |
| `ValveStack` | the stack link engine of several valves, refining `StackLinkAbstract` | written |
| `MCValveStack` + `MCValveStack*.cfg` | the TLC instances of `ValveStack` | written |
| `ValveStackProofs` | TLAPS proofs about `ValveStack`, the refinement included | written |
| `ValveReload` | `reload_config`/`_apply_config_changes`, composed with connect, disconnect and port status; TfmValve's pipeline | written |
| `MCValveReload` + `MCValveReload*.cfg` | the TLC instances of `ValveReload` | written |
| `ValveReloadProofs` | TLAPS proofs about `ValveReload` | written |
| `OfErrorRing` | `recent_ofmsgs`, `send_flows` and `oferror`, with the Ryu datapath's xid counter | written |
| `MCOfErrorRing` + `MCOfErrorRing*.cfg` | the TLC instances of `OfErrorRing` | written |
| `ValvePacketIn` | `rate_limit_packet_ins`, `parse_pkt_meta`, `rcv_packet`, against the clock, connect, disconnect and reload | written |
| `MCValvePacketIn` + `MCValvePacketIn*.cfg` | the TLC instances of `ValvePacketIn` | written |
| `OfErrorRingProofs` | TLAPS proofs about `OfErrorRing` | written |
| `ValvePacketInProofs` | TLAPS proofs about `ValvePacketIn` | written |

### ValvePorts: state

| Variable | Code |
|---|---|
| `running` | `dp.dyn_running` |
| `upPortNos` | `dp.dyn_up_port_nos` |
| `physUp[p]` | `port.dyn_phys_up` |
| `lacpUp`, `lastLacpPkt`, `lacpUpdated`, `lacpLastResp` | `port.dyn_lacp_up`, `dyn_last_lacp_pkt`, `dyn_lacp_updated_time`, `dyn_lacp_last_resp_time` |
| `floodSet[v]` | the flood outputs the datapath holds for VLAN `v`: the last `flood_manager.add_vlan`/`update_vlan` programming of a handler |
| `inDrop[p]` | the high-priority in_port drop that `lacp_down` installs and `lacp_up` deletes |
| `now` | the `now` argument of the handlers |

The datapath is modelled by the effect of the message list each handler
returns. Message formatting, logging, metrics and notifications are left out.

### ValvePorts: actions

Each action is one whole handler:

* `DatapathConnect(discovered)` is `datapath_connect`. It includes:
  * deleting all flows;
  * `_set_port_status` on every port;
  * `ports_add(cold_start=True)` on the up ports, which runs `lacp_down`
    without reflooding;
  * `_add_vlans` on every VLAN.
* `DatapathDisconnect` is `datapath_disconnect`, which only clears
  `dyn_running`.
* `PortStatus(p, reason, linkUp)` is `port_status_handler`. It runs
  `_set_port_status` and then, for a known reason:
  * `port_add`, preceded by `port_delete` on a flap, or
  * `port_delete`.

  Each of these runs `lacp_down` on an LACP port and refloods the port's
  VLANs. A flap's delete followed by an add leaves the same final state as
  the add alone, so it is not a separate step.
* `LacpRcv(p, pdu)` is `lacp_handler` on a parsed PDU. In order, it:
  1. computes `age` and `lacp_pkt_change` from the old state;
  2. runs `lacp_up`/`lacp_down` on a state change;
  3. decides the reply from the old values;
  4. records the PDU and the time.
* `StateExpire` is `state_expire` while running, which runs
  `_lacp_state_expire` over `lags_up()`.
* `Tick` advances the clock up to `MaxTime`.

### ValvePorts: abstractions

* Every port is enabled and has `opstatus_reconf`. Stack, coprocessor,
  output-only, mirror and dot1x ports are left out.
* `dp.lacp_forwarding(port)` is a constant, `LacpForwarding`: true for a
  non-stacked DP or a stack root.
* A PDU is a record carrying the actor's up bit. Two PDUs are equal exactly
  when their `str()` forms are equal.
* The flood manager's choice of output ports (`valve_flood.py`, outside
  `src/`) is modelled from the spec: up ports, and for an LACP port only when
  the bundle is up and forwarding. It is marked `spec_modelled`.
* Hosts, routes and ACL flows are not state here.
* Connect happens only while not running. Port status events and packet-ins
  happen only while running; Ryu delivers them only after the switch
  features handshake.

### ValveStack: state

| Variable | Code |
|---|---|
| `running[d]` | `dp.dyn_running` of valve `d` |
| `wire` | the physical cabling, one of `Cablings`, fixed for a run |
| `seenAge[p]` | `now - dyn_stack_probe_info['last_seen_lldp_time']`, capped; `None` before the first probe |
| `stackCorrect[p]` | `dyn_stack_probe_info['stack_correct']` |
| `stackState[p]` | `port.dyn_stack_current_state` (INIT, UP, DOWN) |
| `topo[d]` | the UP stack ports the flood manager of valve `d` holds |
| `floodTopo[d]` | the topology the flood rules of `d`'s datapath were programmed from |
| `advAge[d]` | `now - _last_fast_advertise_sec`, capped |
| `beacons` | the LLDP beacons in flight, by sending port |

### ValveStack: actions

* `DatapathConnect(d)` / `DatapathDisconnect(d)`: `datapath_connect` programs
  flooding from the flood manager's current topology; disconnect only clears
  `dyn_running`.
* `FastAdvertise(d)`: `fast_advertise`. Once the interval has passed it resets
  the timer; a running datapath sends a beacon on each of its stack ports.
* `LldpRcv(b)`: `lldp_handler` on a beacon from port `b`, arriving at
  `wire[b]`. It records the probe time and the `_verify_stack_lldp` verdict
  (the beacon names the configured peer), then runs `_update_stack_link_state`
  on that port. The beacon is consumed, or stays in flight as a duplicate.
* `LoseBeacon(b)`: the network drops a beacon.
* `FastStateExpire(d)`: `fast_state_expire` runs `_update_stack_link_state` on
  every stack port of `d`.
* `Tick`: time passes, and every age grows up to its cap.

`UpdateStackLinkState` is the whole of `_update_stack_link_state`:
`_next_stack_link_state` for each port, applied when it is not `None`. Each
change goes to `update_stack_topo` of every stacked valve, and if any port
changed, every running datapath gets new flood rules.

### ValveStack: abstractions

* Ages replace timestamps. The probe's age saturates at
  `MaxLldpLost * SendInterval`, the only bound the code compares it with, and
  the advertise age at `FastAdvInterval`. Each comparison of the code gives
  the same answer on the capped age, so the state space is finite and every
  decision is kept.
* The probe's checks are reduced to "the beacon's sender is my configured
  peer". Beacons from non-stack ports, tunnels and the BAD state are not
  modelled.
* All DPs have a stack root, so the fan-out reaches every valve.

### ValveReload

State: `cfg` (`self.dp`), `running`, `upPortNos`, `physUp`, and the
datapath as the effect of what was sent: `floodSet` (each VLAN's flood
outputs), `lastPipeline` (`_last_pipeline_flows`) and `dpPipeline` (the
table layout the switch runs), and the history `deleted`: the ports whose
last port status was `OFPPR_DELETE`. A configuration is a record of its ports,
VLANs, per-VLAN members, a per-VLAN setting unrelated to ports, and its
pipeline.

`ReloadConfig(new)` is the whole of `reload_config` and
`_apply_config_changes`. The cold/warm choice is `PipelineChange(old) \/
AllPortsChanged(old, new)`. A cold start is `dp_init` (`CloneDynState`) and,
while running, the disconnect that `send_flows(None)` performs. A warm start
is a chain of LET terms in the code's order: `ports_delete(deleted)` and
`_del_vlans(deleted)` on the old configuration, `ports_delete(changed)` on
the old configuration, `dp_init(new_dp)`, `_del_vlans`/`_add_vlans` of the
changed VLANs on the new one, `ports_add(all_up_port_nos)`. The messages
reach the switch only while running. `DatapathConnect`, `DatapathDisconnect`
and `PortStatus` are the handlers of `ValvePorts` without LACP. The switch
may send any reason with any link state. An `OFPPR_DELETE` that shows the
link up leaves the port in `dyn_up_port_nos`, while `port_delete` stops
flooding to it. `Tfm` says
whether the valve is a `TfmValve`, which sends (and records) the table
layout at connect.

`get_config_changes` lives in `dp.py`, outside `src/`, so `ChangedPorts`,
`DeletedVids`, `ChangedVids` and `AllPortsChanged` are modelled from the
spec. The spec says both that a deleted port and that a changed port is
deleted; the model takes deleted ports out of `changed`, as the code's two
separate `ports_delete` calls suggest.

### OfErrorRing

State: `ring` (`recent_ofmsgs`), `xid` (the Ryu datapath's counter),
`connected`, `pending` (errors the switch will send, each with its xid and
the message it rejected) and the histories `sentLog`, `issued` and
`firstOfConn`. `SendFlows(k, rejected)` is `send_flows` with a batch of `k`
messages: `prepare_send_flows` extends the deque (`ExtendRing` keeps the
newest `RingSize`), then `send_msg` numbers each message with the counter
advanced and masked with `MAX_XID` (`NextXid`: the remainder by
`XidMod = MaxXid + 1`, as `MAX_XID` is all ones, which `RingAssumption`
states). `OfError(e)` is `oferror`: its cause is
`CausedBy(xid)`, the oldest entry with that xid. The Ryu side is modelled
from the spec: `Connect` starts the counter at a random value, and
`RyuRequest` (echo, features, stats) consumes an xid without entering the
deque. `Disconnect` is `datapath_disconnect`; the deque is not cleared.

### ValvePacketIn

State: `cfg`, `running`, `dpCfg` (the configuration the switch's VLAN
table was programmed for), `inflight` (packet-ins sent, not yet handled),
`now`, `lastSec` and `countSec` (`_last_packet_in_sec` and
`_packet_in_count_sec`), and the histories `secIn` and `secIgnored` for the
current second, with `secSameN`, which records that no reload changed
`ignore_learn_ins` during it. A packet is its port, its VLAN or `None`, and the kind of
its source MAC. `PacketIn(pk)` is `rate_limit_packet_ins(now)` followed by
`parse_pkt_meta` and `rcv_packet`. `Learns(pk)` holds when the packet
reaches `learn_host`. `ReloadConfig(new)` keeps what a reload does to
this state: `dp_init` resets both counters; a cold start closes a running
connection, dropping what is queued on it; a warm one reprograms the
switch's VLAN table. The switch (`SwitchPacketIn`) sends only packets its
current table admits. `Tick` advances the clock.

The clock is in whole seconds. The code passes `rate_limit_packet_ins` the
event loop's float `now` and compares it with `_last_packet_in_sec` as it is,
so the real counter restarts on every distinct `now`, not once per second.
In the model it restarts only when the second turns. It therefore drops at
least as many packet-ins as the code does. `RateLimitNoOverDrop`, an upper
bound on the drops, holds for the code whenever it holds for the model. A
bound from below would not carry over.

## 3. Runs

| Run | cfg | Result | Shows |
|---|---|---|---|
| `valve_ports` | `MCValvePorts.cfg` | pass | 293,760 states, depth 15; `TypeOK`, `FloodInSync`, `LacpDropInSync`, `LacpExpireSafe`, `LacpReplyTimely`, and `AbsSpec` (the refinement of `LacpAbstract`) |
| `add_link_down` | `MCValvePorts_AddLinkDown.cfg` | violation | finding 1 |
| `reconnect_stale_phys_up` | `MCValvePorts_Reconnect.cfg` | violation | finding 2 |
| `valve_stack` | `MCValveStack.cfg` | pass | 1,227,776 states; `TypeOK`, `ViewsAgree`, `FloodTopoFresh`, and `AbsSpec` (the refinement) |
| `stack_liveness` | `MCValveStack_Live.cfg` | pass | `LinkDownOnSilence`, `LinkComesUp` under `FairSpec` |
| `valve_reload` | `MCValveReload.cfg` | pass | 17,254 states; `FloodInSync`, `UpPortsFlooded` |
| `reload_pipeline_stale` | `MCValveReload_Pipeline.cfg` | violation | finding 3 |
| `of_error_ring` | `MCOfErrorRing.cfg` | pass | 9,604 states, depth 17; `TypeOK`, `ErrorCorrelatedInSession` |
| `of_error_reconnect` | `MCOfErrorRing_Reconnect.cfg` | violation | finding 4 |
| `valve_packet_in` | `MCValvePacketIn.cfg` | pass | 20,524 states, depth 16; `RateLimitNoOverDrop` |
| `packet_in_stale_vlan` | `MCValvePacketIn_Unstacked.cfg` | violation | finding 5 |
| `rate_limit_reload_reset` | `MCValvePacketIn_EveryNth.cfg` | violation | finding 6 |

### Bounds

* Three ports. Ports 1 and 2 use LACP; port 3 is plain.
* Two VLANs. VLAN 100 has all three ports. VLAN 200 has ports 2 and 3, so
  one LACP port is in both VLANs and one VLAN has no LACP port.
* Three PDUs:
  * two "up" PDUs from different actor systems, so that a changed PDU
    without a state change occurs;
  * one "down" PDU.
* `LacpTimeout = 2` and `LacpRespInterval = 1` on a clock of five ticks.
  This is long enough for the reply timer to lapse and for a bundle to
  expire after a later PDU, both within one run.

Every action and every branch of `lacp_handler` is reached.

Stack, safety (`valve_stack`):

* Two DPs with two stack ports each.
* Two cablings: as configured (1-2, 3-4), and crossed (1-4, 3-2). The crossed
  cabling produces incorrect probes, so the DOWN branch for a bad probe is
  reached.
* `MaxLldpLost = 2`, `SendInterval = 1` and `FastAdvInterval = 1`, so a probe
  times out after two ticks. Beacons may be lost, duplicated and reordered.

Stack, liveness (`stack_liveness`): one link between two DPs, since the
four-port instance is too large for the liveness check.

Reload (`valve_reload`): three ports, two VLANs and four configurations
(see `MCValveReload.tla`). Between them they delete a port and a VLAN, move
ports between VLANs, change a VLAN's setting, change the pipeline, and
change every port. So every step of the warm chain, and the cold start
through `AllPortsChanged`, changes something. Port status may name port 3
while a configuration lacks it, which is how a port comes to be up but not
configured before a reload adds it.

Error ring (`of_error_ring`): a deque of 2, batches of up to 2 messages,
4 messages in all, and `MaxXid = 1` (a 1-bit xid) over 6 issued xids. So
batches overflow the deque and the counter wraps. The violation run uses
`MaxXid = 3` (2-bit xids) and 3 xids in all, so a repeated xid can only come from a reconnect.

Packet-in (`valve_packet_in`): two ports, two VLANs, and four
configurations: one with VLAN 10 on ports 1 and 2 and VLAN 20 on port 2, one with
VLAN 10 on port 1 only, the first with `ignore_learn_ins = 1`, and the first
without rate limiting. A clock of two seconds, at most 2 packet-ins queued
and 4 per second. With `ignore_learn_ins = 2` the second packet-in of a
second is ignored and a reload falls between two of them; reloads between
`N = 2` and `N = 1` change the limit within a second.

### Properties

* **`FloodInSync`:** while connected, each VLAN floods to exactly its
  forwarding members. To break it, a handler must change a port and forget
  one of its VLANs (the mutant drops the trailing `update_vlan` loop of
  `ports_delete`).
* **`LacpDropInSync`:** while connected, an up LACP port has lacp_down's drop
  installed exactly when its bundle is not up and forwarding. This holds
  across connect, where all flows are deleted, and across `lacp_up` when
  forwarding is off.
* **`LacpExpireSafe`:** a port with LACP up has a last-update time.
  Otherwise `_lacp_state_expire` raises on `now - None`.
* **`LacpReplyTimely`:** an action property. Every PDU processed leaves the
  port answered no more than `lacp_resp_interval` ago. This depends on
  `lacp_down` resetting the recorded PDU together with the reply time.
* **`AbsSpec`:** the refinement of `LacpAbstract`. In the abstract machine a
  port's LACP state is the actor state of the partner PDU it recorded last,
  or down with none recorded. A PDU replaces the recorded one and sets the
  state; a reset (connect, port status, expiry) clears both. `Abs` maps
  `lacp` to `dyn_lacp_up` and `partner` to `dyn_last_lacp_pkt`. A
  `lacp_down` that forgets to clear `dyn_last_lacp_pkt` breaks it.

Stack:

* **`ViewsAgree`:** every valve's flood manager holds exactly the UP stack
  ports, whichever valve evaluated a port. Fanning the change out only to the
  evaluating valve breaks it.
* **`FloodTopoFresh`:** every running datapath floods along the current
  topology. Reprogramming only the evaluating valve's datapath breaks it.
* **`AbsSpec`:** the refinement of `StackLinkAbstract`. A port is INIT only
  before any probe, and it comes UP only after a probe while it is cabled to
  its configured peer. Accepting every probe as correct breaks it.
* **`LinkDownOnSilence`:** an UP port whose probe has reached the timeout goes
  DOWN, unless a new probe arrives. Testing the age with `<=` instead of `<`
  breaks it.
* **`LinkComesUp`:** a link cabled as configured between two running DPs comes
  UP. Moving only DOWN ports to UP, so that INIT is stuck, breaks it.

Reload:

* **`FloodInSync`** (shared with `ValvePorts`): across warm reloads, every
  VLAN of the configuration in force floods to exactly its up members, and a
  removed VLAN floods nowhere. `ports_delete(changed)` runs before
  `dp_init`, so it must reflood the changed ports' *old* VLANs; the mutant
  that refloods the new ones breaks it.
* **`UpPortsFlooded`:** every member the switch last reported up, other
  than in an `OFPPR_DELETE`, is flooded to, whatever reasons and link
  states the port status messages carry. This includes a port the new configuration adds after the switch reported
  it. Restricting `all_up_port_nos` to ports of the old configuration breaks
  it.

Error ring:

* **`ErrorCorrelatedInSession`:** an action property. An error about one of
  the last `RingSize` messages is attributed to that message, as long as
  they were all sent on this connection and within one turn of the counter.
  Keeping the oldest entries instead of the newest breaks it.
Packet-in:

* **`RateLimitNoOverDrop`:** within a second in which no reload changed
  `ignore_learn_ins` (N), at most one packet-in in N is ignored. A reload to
  a smaller N in mid-second restarts the count under the new N while the
  packet-ins already ignored stay counted, so the bound is not claimed
  across such a reload. Not restarting the count at a new second
  breaks it.

### Fairness

The controller's periodic timers call `fast_advertise` and
`fast_state_expire` for every valve, and time passes. This justifies weak
fairness on `Tick`, `FastAdvertise(d)` and `FastStateExpire(d)`. Strong
fairness on `LldpRcv(b)` is an assumption about the network: a beacon that is
sent again and again is not lost forever.

### Findings: the spec's invariant that no flood output includes a port whose operational status is down does not hold

1. **A port status ADD is treated as up even when its state says the link
   is down** (valve.py 464). `_set_port_status` takes the port out of
   `dyn_up_port_nos`, but `port_add` puts it in the flood. The shortest
   trace has three states.
2. **`dyn_phys_up` survives a disconnect.** At reconnect,
   `_add_ports_and_vlans` only re-adds up ports. A port that went down while
   the datapath was disconnected therefore keeps `dyn_phys_up` and is
   flooded to at cold start. The trace is: connect with port 3 up,
   disconnect, connect with no ports up.

3. **A pipeline change is applied warm** (valve.py 1571).
   `_pipeline_change` compares the layout sent at connect with
   `_pipeline_flows()`, which reads `self.dp`: still the old configuration,
   since `dp_init(new_dp)` comes later. A reload that changes only the
   pipeline is therefore warm, and a TfmValve's switch keeps its old tables,
   against the spec's "cold if the pipeline changes".
4. **An OpenFlow error is blamed on a message of an earlier connection**
   (valve.py 1754). `recent_ofmsgs` is never cleared, and Ryu's xid counter
   restarts at random on each connection. `oferror` takes the oldest match.
   Trace: connect, send (xid 2), disconnect, connect (xid 1), send (xid 2),
   the error for the second message names the first. With 32-bit xids this
   needs a collision and is rare.
5. **A packet-in is learned on a VLAN its port has left** (valve.py 1300).
   The membership check of `parse_pkt_meta` applies only to a stacked DP.
   A packet-in sent before a warm reload removes the port from the VLAN is
   learned on it afterwards. The spec does not say which is intended.
   The run checks `LearnOnMember`, an action property: a packet-in is
   learned only on a VLAN its port is a member of in the configuration in
   force. On a stacked DP the check itself ensures this.
6. **A reload restarts the packet-in count** (valve.py 151). `dp_init`
   resets `_packet_in_count_sec`, so a reload in mid-second lets the next
   packet-in through where the spec's every-Nth rule would drop it.

## 4. Proofs (`ValvePortsProofs`)

### Assumptions

All are stated in `ValvePorts` and evaluated by TLC in every run:

* `LacpPorts \subseteq Ports`;
* every VLAN's members are ports;
* a PDU's actor bit is 0 or 1;
* the reasons are the three OpenFlow 1.3 ones;
* the timeouts are naturals, and `MaxTime >= 1`;
* `None` is neither a time nor a PDU;
* `LacpForwarding` is Boolean.

### Theorems

* `TypeCorrect`: `Spec => []TypeOK`.
* `IInvariant`: `Spec => []IInv`.
* From `IInvariant`:
  * `FloodInSyncTheorem`, `LacpDropInSyncTheorem` and
    `LacpExpireSafeTheorem`, each `Spec => []P`;
  * `LacpReplyTimelyTheorem`, `Spec => LacpReplyTimely`, an action property.
* `Refinement`: `Spec => AbsSpec`, where `AbsSpec` is `LacpAbstract`'s
  specification under the mapping `lacp <- lacpUp`,
  `partner <- lastLacpPkt`. It needs only `TypeOK`.
  * The initial states map to the abstract one.
  * `AbsStep` shows that every step is an abstract step or leaves both
    fields alone. Connect, a port status event with a known reason and
    `state_expire` are `Reset` of `ConnectLacpDown(d)`, `{p} \cap LacpPorts`
    and `LacpExpired` (lemma `AbsReset`).
  * `lacp_handler` is `Receive` (lemma `AbsReceive`). The proof splits on
    `goesDown`, `goesUp` and no change of state. In the last case the PDU's
    actor bit already equals `dyn_lacp_up`, so `lacpUp' = [lacpUp EXCEPT
    ![p] = pdu.actorUp]` holds in all three.

### The inductive invariant

`IInv` is `TypeOK`, `FloodInSync`, `LacpDropInSync` and `LacpExpireSafe`,
plus `LacpPktConsistent`: a recorded PDU agrees with `dyn_lacp_up`, and the
port has a reply time.

`LacpPktConsistent` is needed because `LacpReplyTimely` is not inductive on
its own. When `lacp_handler` does not reply, the PDU is unchanged, so the old
PDU's actor bit equals `dyn_lacp_up`. From this:

* the handler cannot be taking the bundle down, which would clear the reply
  time;
* the reply time it keeps is not `None`, and `age` was tested against the
  interval.

`LacpDropInSync` needs `TypeOK`. When `lacp_up` runs with forwarding off, the
drop stays, and it was present because the port was down (0, not just "not
1").

TLC checked `IInv` as an invariant of the full instance before the proof was
written. The step proof has one lemma per action, with one step per conjunct
the action can disturb.

## 4b. Proofs (`ValveStackProofs`)

### Assumptions (stated in `ValveStack`)

* `DpOf` maps each stack port to a DP.
* `Peer` is an involution on the stack ports, and so is every cabling.
* The three timing constants are positive naturals.
* `None` is not a time, a Boolean or a link state.

### Theorems

* `TypeCorrect`, `ViewsAgreeTheorem` and `FloodTopoFreshTheorem`, each
  `Spec => []P`, from `IInvariant`.
* `Refinement`: `Spec => AbsSpec`. `Init` maps to the abstract initial state.
  Every step is either a stutter (connect, disconnect, advertise, lost beacon,
  `Tick`, which keeps "has a probe" unchanged) or an abstract step
  (`lldp_handler`, `fast_state_expire`).

### The inductive invariant

`IInv` is `TypeOK`, `ViewsAgree` and `FloodTopoFresh`, plus two facts:

* `ProbeConsistent`: a port has a `stack_correct` exactly when it has a
  probe time. Without it, `_next_stack_link_state` could read `not None`.
* `CorrectMeansCabled`: a port whose last probe was correct is cabled to its
  configured peer. This holds because a cable is an involution: the beacon
  from `b` lands on `wire[b]`, and `wire[wire[b]] = b`. The refinement step
  to UP needs this fact.

TLC checked `IInv` on the `valve_stack` instance before the proof was
written. The lemma `UpdateFacts` captures the effect of one
`_update_stack_link_state`. `NextStackStateFacts` shows that
`_next_stack_link_state` returns either `None` or a different state, and
that the state it returns is justified by the probe.

## 4c. Proofs (`ValveReloadProofs`)

Assumptions, stated in `ValveReload`: every configuration is well formed
(`IsConfig`: its ports and VLANs are within `Ports` and `Vlans`, members
are ports, a VLAN not configured has no members), and `Tfm` is Boolean.

Theorems: `TypeCorrect`, `FloodInSyncTheorem` and `UpPortsFloodedTheorem`,
each `Spec => []P` for every value of the constants, from `IInvariant`.

The inductive invariant is `IInv == TypeOK /\ PhysConfigured /\ UpIsPhys
/\ FloodInSync`. `FloodInSync` alone is not inductive:

* `PhysConfigured` (only ports of the configuration have `dyn_phys_up`) is
  what makes the flood set of a warm reload independent of ports the new
  configuration drops; `clone_dyn_state` keeps it.
* `UpIsPhys` (while running, every configured port reported up, other
  than by a delete, has `dyn_phys_up`) gives `UpPortsFlooded` from `FloodInSync`, and is kept by a
  warm reload because `ports_add(all_up_port_nos)` raises every changed
  port that is up.

The warm step is the hard case. `WarmPhys` computes each port's
`dyn_phys_up` after the chain; `WarmFlood` splits on which step last wrote
each VLAN (not touched, deleted, changed, reflooded by a port delete or a
port add) and shows that each leaves the VLAN in sync with the new
configuration. This is where the order of the code matters: a VLAN that
`ports_delete(changed)` refloods under the old membership is rewritten by
`_add_vlans` or `ports_add` whenever its membership changed.

## 4d. Proofs (`ValvePacketInProofs`)

Assumptions, stated in `ValvePacketIn`: every configuration is well formed
and has `ignore_learn_ins` in `Nat` (`ConfigAssumption`); `Stacked` is
Boolean, `MaxTime` positive, `MaxInflight` and `MaxPerSec` natural
(`BoundsAssumption`).

Theorems: `TypeCorrect` (`Spec => []TypeOK`) and `RateLimitNoOverDropTheorem`
(`Spec => []RateLimitNoOverDrop`), for every configuration set and bound.

The inductive invariant is `IInv == TypeBool /\ TypeData /\ InflightBudget
/\ CountNotAhead /\ RateInv`. `RateLimitNoOverDrop` alone is not inductive,
as it says nothing about where the counter stands inside its cycle of N:

* `RateInv` states the count as quotient and remainder: with `EffCount`
  the count `rate_limit_packet_ins` will use this second (0 once the second
  has turned), `EffCount = q * N + r` with `r < N` and
  `secIgnored * N + r <= secIn`. A packet-in raises `r`; when `r + 1 = N`
  the count wraps to 0 and the packet-in is ignored, which the `N`
  packet-ins counted since the last ignore pay for.
* `CountNotAhead` (`_last_packet_in_sec` is never ahead of the clock) makes
  a new second restart `EffCount`; `InflightBudget` keeps the per-second
  bound of the switch's sends.
* `TypeOK` is split into its Boolean and its data part, proved as separate
  steps, because the SMT backend fails on goals mixing the two.

## 4e. Proofs (`OfErrorRingProofs`)

Assumptions, stated in `OfErrorRing`: `RingSize` positive, `MaxXid` a
natural (the proofs do not use that it is all ones), the batch and message
bounds natural.

Theorems: `TypeCorrect` (`Spec => []TypeOK`), `IInvariant`, and
`ErrorCorrelatedInSessionTheorem` (`Spec => ErrorCorrelatedInSession`), for
every ring size, `MAX_XID`, batch size and bound.

The inductive invariant relates the deque, the log of messages sent and the
counter:

* `RingIsRecent`: `recent_ofmsgs` is the last `min(sent, RingSize)`
  messages of the log, entry by entry. `ExtendRing` (the deque's `extend`)
  keeps this: the newest entries of `ring \o batch` are the newest entries
  of `sentLog \o batch`.
* `IdIsPlace` and `SeqOrdered`: a message's identity is its place in the
  log, and messages took their xids in strictly increasing order.
* `XidInv`: for a message of the current connection taken fewer than
  `MAX_XID + 1` xids ago, its xid advanced by the xids issued since equals
  the counter (modulo `MAX_XID + 1`). `Connect` makes it vacuous;
  `SendFlows` and `RyuRequest` keep it by `ModAdd`,
  `(a + k) % n = ((a % n) + k) % n`.
* `PendingInv`: an error the switch will send is about a message of the
  current connection and carries its xid; there is none while disconnected.

The correlation follows: under `RecentWindowFresh` every entry of the deque
has an age below `MAX_XID + 1`. Two entries with the same xid therefore
have the same age (`ModCancel`), hence the same sequence number and the
same place in the log. So the only match of the error's xid is the message
it is about, and `CausedBy` returns it. The lemma `OnlyCauseMatches` needs
only that the error is pending, not that it is the one `OfError` handles.

The arithmetic lemmas (`ModOf`, `DivMod`, `ModAdd`, `ModCancel`) are proved
from the bounds `SMT` knows about `\div`. `SMT` does not prove the division
identity `c = (c \div n) * n + c % n` directly, nor that `2^w` is
positive; so the constant is `MaxXid` itself, not a width.

### Only model-checked

`LinkDownOnSilence` and `LinkComesUp`, since TLAPS cannot prove liveness
under fairness; the liveness of LACP expiry is planned. Also the findings,
which are violations. Every safety invariant and action property of the
passing runs has a theorem, and so does each of the two refinements
(`StackLinkAbstract`, `LacpAbstract`). TLAPS cannot
prove what a recursive definition computes for every input, nor a property
under fairness or about `ENABLED`; no module with a theorem uses recursion.

## 5. Not modelled yet

* Stack: tunnels, the BAD state, admin-down stack ports, `del_port` of hosts and the
  probe's remote DP id and MAC checks.
* Reload: ACL and LACP changes, and whether `dp.py` decides a cold start on
  DP-level changes beyond the two conditions the spec names.
* Packet-in: host learning, ban rules, routing, stack route learning
  across DPs, the global VLAN, cookies and unparseable packets. The caller
  of `rate_limit_packet_ins` is outside `valve.py`; its order (rate limit,
  then parse) follows the spec.
* The timers' own scheduling (`advertise`, host and route expiry).
* Hardware variants other than TfmValve's pipeline, which only format
  messages; `valve_flowreorder`, which does not change which messages enter
  `recent_ofmsgs`.
* Host learning and routing, which live in managers outside `src/`.
