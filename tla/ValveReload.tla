----------------------------- MODULE ValveReload -----------------------------
(***************************************************************************)
(* Configuration reload of one Valve (src/faucet/valve.py), composed with  *)
(* the port lifecycle it reconciles: reload_config and                     *)
(* _apply_config_changes choose a cold start (dp_init, then a forced       *)
(* reconnection) or a warm one (ports_delete, _del_vlans, dp_init,         *)
(* _add_vlans, ports_add, in that order), against datapath_connect,        *)
(* datapath_disconnect and port_status_handler, which keep running under   *)
(* whichever configuration is current.                                     *)
(*                                                                         *)
(* A configuration is a record: its ports, its VLANs, each VLAN's member   *)
(* ports, a VLAN setting that is not about ports, and the table pipeline   *)
(* it requires.  The datapath is kept as the effect of the messages the    *)
(* handlers send: the flood output set of each VLAN and, for the           *)
(* TfmValve variant, the table layout sent in table-features messages.     *)
(* LACP (modelled in ValvePorts) and ACLs are left out: every port is a    *)
(* plain port with opstatus_reconf.                                        *)
(***************************************************************************)
EXTENDS Naturals, FiniteSets

CONSTANTS
    Ports,      \* port numbers a configuration or the switch may name
    Vlans,      \* VLAN ids a configuration may name
    Configs,    \* the configurations the operator may load
    Tfm,        \* the hardware is a TfmValve (sends table features)
    None        \* Python None

\* What a configuration names.
IsConfig(c) ==
    /\ c.ports \subseteq Ports
    /\ c.vlans \subseteq Vlans
    /\ c.member \in [Vlans -> SUBSET c.ports]
    /\ \A v \in Vlans \ c.vlans : c.member[v] = {}
    /\ DOMAIN c.vconf = Vlans

ASSUME ConfigAssumption == Configs # {} /\ \A c \in Configs : IsConfig(c)
ASSUME TfmAssumption == Tfm \in BOOLEAN
ASSUME NoneAssumption == \A c \in Configs : None # c.pipeline

VARIABLES
    cfg,          \* self.dp: the configuration in force
    running,      \* dp.dyn_running
    upPortNos,    \* dp.dyn_up_port_nos
    physUp,       \* port.dyn_phys_up (FALSE for a port the DP does not have)
    floodSet,     \* datapath: flood output ports programmed for each VLAN
    lastPipeline, \* _last_pipeline_flows: the layout sent at the last connect
    dpPipeline,   \* datapath: the table layout it runs
    deleted       \* ports whose last port status was OFPPR_DELETE (history)

vars == <<cfg, running, upPortNos, physUp, floodSet, lastPipeline, dpPipeline, deleted>>

-----------------------------------------------------------------------------
(* Helpers.                                                                *)

\* port.vlans() under configuration c.
PortVlans(c, p) == {v \in c.vlans : p \in c.member[v]}

VlansOfSet(c, S) == UNION {PortVlans(c, p) : p \in S}

\* The flood output set flood_manager.add_vlan/update_vlan computes for v.
FloodPortsIn(c, v, phys) == {p \in c.member[v] : phys[p]}

\* Flooding for the VLANs vs reprogrammed, on top of the flood state fs.
Reflood(c, vs, phys, fs) ==
    [v \in Vlans |-> IF v \in vs THEN FloodPortsIn(c, v, phys) ELSE fs[v]]

\* _del_vlans: every flow of the VLANs vs is deleted.
DelVlans(vs, fs) == [v \in Vlans |-> IF v \in vs THEN {} ELSE fs[v]]

\* ports_delete / ports_add on the ports S under configuration c: the ports
\* the DP has get dyn_phys_up set to up.
SetPhys(c, S, phys, up) == [p \in Ports |-> IF p \in S \cap c.ports THEN up ELSE phys[p]]

\* dp.get_config_changes(logger, new_dp): what a reload from old to new
\* changes.
DeletedPorts(old, new) == old.ports \ new.ports
ChangedPorts(old, new) ==
    {p \in new.ports : p \notin old.ports \/ PortVlans(old, p) # PortVlans(new, p)}
DeletedVids(old, new) == old.vlans \ new.vlans
ChangedVids(old, new) ==
    {v \in new.vlans : v \notin old.vlans \/ old.vconf[v] # new.vconf[v]}
AllPortsChanged(old, new) ==
    new.ports # {} /\ new.ports \subseteq ChangedPorts(old, new)

\* new_dp.clone_dyn_state(self.dp): the new DP's ports keep the old ones'
\* dyn_phys_up; a port the new DP does not have has none.
CloneDynState(phys, new) == [p \in Ports |-> p \in new.ports /\ phys[p]]

\* _pipeline_flows(): the layout the tables of self.dp require, sent only
\* by TfmValve.
PipelineFlows(c) == IF Tfm THEN c.pipeline ELSE None

\* _pipeline_change(): the layout sent at the last connect differs from
\* the one _pipeline_flows() computes, which reads self.dp, still the old
\* configuration while _apply_config_changes runs.
PipelineChange(c) == lastPipeline # None /\ lastPipeline # PipelineFlows(c)

\* all_up_port_nos: the changed ports that are in dyn_up_port_nos.
MutAllUpPortNos(changed) == {p \in changed : p \in upPortNos /\ p \in cfg.ports}
AllUpPortNos(changed) == {p \in changed : p \in upPortNos}

\* The VLANs ports_delete(changed_ports) refloods: it runs before dp_init,
\* so on the old configuration.
MutChangedDeleteVlans(old, new, S) == VlansOfSet(new, S)
ChangedDeleteVlans(old, new, S) == VlansOfSet(old, S)

-----------------------------------------------------------------------------
Init ==
    /\ cfg \in Configs
    /\ running = FALSE
    /\ upPortNos = {}
    /\ physUp = [p \in Ports |-> FALSE]
    /\ floodSet = [v \in Vlans |-> {}]
    /\ lastPipeline = None
    /\ dpPipeline = None
    /\ deleted = {}

\* datapath_connect: _add_default_flows deletes every flow (a TfmValve
\* first sends, and records, the table layout); _add_ports_and_vlans sets
\* the status of every configured port from the discovered ones, adds the
\* up ones (cold) and programs every VLAN.
DatapathConnect(discovered) ==
    /\ ~running
    /\ running' = TRUE
    /\ LET up == discovered \cap cfg.ports
           phys == SetPhys(cfg, up, physUp, TRUE)
       IN
       /\ upPortNos' = (upPortNos \ cfg.ports) \cup up
       /\ physUp' = phys
       /\ floodSet' = Reflood(cfg, cfg.vlans, phys, [v \in Vlans |-> {}])
    /\ lastPipeline' = IF Tfm THEN PipelineFlows(cfg) ELSE lastPipeline
    /\ dpPipeline' = IF Tfm THEN PipelineFlows(cfg) ELSE dpPipeline
    /\ deleted' = deleted \ discovered
    /\ UNCHANGED cfg

\* datapath_disconnect.
DatapathDisconnect ==
    /\ running
    /\ running' = FALSE
    /\ UNCHANGED <<cfg, upPortNos, physUp, floodSet, lastPipeline, dpPipeline, deleted>>

\* port_status_handler(port_no, reason, state): _set_port_status for any
\* port number, then, for a port of the configuration, port_add (after
\* port_delete on a flap) or port_delete, each refreshing the port's VLANs.
PortStatus(p, reason, linkUp) ==
    /\ running
    /\ upPortNos' = IF linkUp THEN upPortNos \cup {p} ELSE upPortNos \ {p}
    /\ IF p \in cfg.ports
       THEN LET up == reason = "ADD" \/ (reason = "MODIFY" /\ linkUp)
                phys == [physUp EXCEPT ![p] = up]
            IN  /\ physUp' = phys
                /\ floodSet' = Reflood(cfg, PortVlans(cfg, p), phys, floodSet)
       ELSE UNCHANGED <<physUp, floodSet>>
    /\ deleted' = IF reason = "DELETE" THEN deleted \cup {p} ELSE deleted \ {p}
    /\ UNCHANGED <<cfg, running, lastPipeline, dpPipeline>>

\* reload_config(now, new): _apply_config_changes, then the messages are
\* sent only while dyn_running; a cold start while running returns None,
\* on which send_flows calls datapath_disconnect and closes the session.
ReloadConfig(new) ==
    LET old == cfg
        changed == ChangedPorts(old, new)
        allUp == AllUpPortNos(changed)
        \* ports_delete(deleted_ports), on the old configuration
        phys1 == SetPhys(old, DeletedPorts(old, new), physUp, FALSE)
        fs1 == Reflood(old, VlansOfSet(old, DeletedPorts(old, new)), phys1, floodSet)
        \* _del_vlans(deleted_vlans)
        fs2 == DelVlans(DeletedVids(old, new), fs1)
        \* ports_delete(changed_ports), on the old configuration
        phys2 == SetPhys(old, changed, phys1, FALSE)
        fs3 == Reflood(old, ChangedDeleteVlans(old, new, changed), phys2, fs2)
        \* dp_init(new_dp)
        phys3 == CloneDynState(phys2, new)
        \* _del_vlans and _add_vlans on changed_vlans
        fs4 == Reflood(new, ChangedVids(old, new), phys3,
                       DelVlans(ChangedVids(old, new), fs3))
        \* ports_add(all_up_port_nos), on the new configuration
        phys4 == SetPhys(new, allUp, phys3, TRUE)
        fs5 == Reflood(new, VlansOfSet(new, allUp \cap new.ports), phys4, fs4)
    IN
    /\ new \in Configs
    /\ cfg' = new
    /\ IF PipelineChange(old) \/ AllPortsChanged(old, new)
       THEN \* cold start: dp_init only
            /\ physUp' = CloneDynState(physUp, new)
            /\ running' = FALSE
            /\ UNCHANGED floodSet
       ELSE \* warm start
            /\ physUp' = phys4
            /\ floodSet' = IF running THEN fs5 ELSE floodSet
            /\ UNCHANGED running
    /\ UNCHANGED <<upPortNos, lastPipeline, dpPipeline, deleted>>

Next ==
    \/ \E d \in SUBSET Ports : DatapathConnect(d)
    \/ DatapathDisconnect
    \/ \E p \in Ports : \E r \in {"ADD", "DELETE", "MODIFY"}, l \in BOOLEAN : PortStatus(p, r, l)
    \/ \E c \in Configs : ReloadConfig(c)

Spec == Init /\ [][Next]_vars

-----------------------------------------------------------------------------
(* Properties.                                                             *)

TypeOK ==
    /\ cfg \in Configs
    /\ running \in BOOLEAN
    /\ upPortNos \subseteq Ports
    /\ physUp \in [Ports -> BOOLEAN]
    /\ floodSet \in [Vlans -> SUBSET Ports]
    /\ lastPipeline \in {c.pipeline : c \in Configs} \cup {None}
    /\ dpPipeline \in {c.pipeline : c \in Configs} \cup {None}
    /\ deleted \subseteq Ports

\* While connected, every VLAN of the configuration in force floods to
\* exactly its members that are up, and a VLAN the configuration no longer
\* has floods nowhere: a warm reload, which deletes and re-adds ports and
\* VLANs under two configurations, leaves no VLAN flooding by the old
\* membership.
FloodInSync ==
    running =>
        \A v \in Vlans :
            floodSet[v] = IF v \in cfg.vlans THEN FloodPortsIn(cfg, v, physUp) ELSE {}

\* While connected, every member of a VLAN that the switch last reported
\* up, other than by deleting it, is flooded to: a warm reload re-adds the
\* changed ports that were up, including a port the new configuration adds
\* after the switch reported it while it was not configured.  (An
\* OFPPR_DELETE whose state shows the link up leaves the port in
\* dyn_up_port_nos while port_delete stops flooding to it.)
UpPortsFlooded ==
    running =>
        \A v \in cfg.vlans : (cfg.member[v] \cap upPortNos) \ deleted \subseteq floodSet[v]

\* The spec (reload_config: cold if the pipeline changes): a connected
\* TfmValve's datapath runs the table layout the configuration in force
\* requires.
PipelineInSync ==
    (Tfm /\ running) => dpPipeline = PipelineFlows(cfg)

=============================================================================
