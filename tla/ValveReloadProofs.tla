-------------------------- MODULE ValveReloadProofs --------------------------
(***************************************************************************)
(* Proofs about ValveReload for every set of ports, VLANs and              *)
(* configurations: the flood state a warm reload leaves behind is the one  *)
(* the new configuration and the switch's port status require.             *)
(*                                                                         *)
(* FloodInSync is not inductive by itself.  A warm reload keeps the flood  *)
(* set of a VLAN whose ports did not change, so it needs to know that a    *)
(* port with dyn_phys_up is a port of the configuration (PhysConfigured:   *)
(* otherwise a port the old configuration did not have could turn up in    *)
(* the new one's flooding); and UpPortsFlooded needs that a configured     *)
(* port the switch reported up, other than by deleting it, has            *)
(* dyn_phys_up while connected (UpIsPhys).                                 *)
(***************************************************************************)
EXTENDS ValveReload, TLAPS

USE ConfigAssumption, TfmAssumption

\* A port with dyn_phys_up is a port of the configuration in force.
PhysConfigured == \A p \in Ports : physUp[p] => p \in cfg.ports

\* While connected, a configured port the switch last reported up, other
\* than by deleting it, has dyn_phys_up.
UpIsPhys == running => \A p \in (cfg.ports \cap upPortNos) \ deleted : physUp[p]

IInv == TypeOK /\ PhysConfigured /\ UpIsPhys /\ FloodInSync

-----------------------------------------------------------------------------
(* The warm path of _apply_config_changes, step by step, as ReloadConfig   *)
(* computes it from the current state.                                     *)

WChanged(new) == ChangedPorts(cfg, new)
WAllUp(new) == AllUpPortNos(WChanged(new))
WPhys1(new) == SetPhys(cfg, DeletedPorts(cfg, new), physUp, FALSE)
WFs1(new) == Reflood(cfg, VlansOfSet(cfg, DeletedPorts(cfg, new)), WPhys1(new), floodSet)
WFs2(new) == DelVlans(DeletedVids(cfg, new), WFs1(new))
WPhys2(new) == SetPhys(cfg, WChanged(new), WPhys1(new), FALSE)
WFs3(new) == Reflood(cfg, ChangedDeleteVlans(cfg, new, WChanged(new)), WPhys2(new), WFs2(new))
WPhys3(new) == CloneDynState(WPhys2(new), new)
WFs4(new) == Reflood(new, ChangedVids(cfg, new), WPhys3(new),
                     DelVlans(ChangedVids(cfg, new), WFs3(new)))
WPhys4(new) == SetPhys(new, WAllUp(new), WPhys3(new), TRUE)
WFs5(new) == Reflood(new, VlansOfSet(new, WAllUp(new) \cap new.ports), WPhys4(new), WFs4(new))

\* Cold: _pipeline_change() or all_ports_changed.
Cold(new) == PipelineChange(cfg) \/ AllPortsChanged(cfg, new)

\* What the flood set of v must be under configuration c.
Target(c, v, phys) == IF v \in c.vlans THEN FloodPortsIn(c, v, phys) ELSE {}

\* A reload step is either the cold or the warm path.
LEMMA ReloadCases ==
    ASSUME NEW new \in Configs, ReloadConfig(new)
    PROVE  /\ cfg' = new
           /\ UNCHANGED <<upPortNos, lastPipeline, dpPipeline, deleted>>
           /\ Cold(new) => /\ physUp' = CloneDynState(physUp, new)
                           /\ running' = FALSE
                           /\ floodSet' = floodSet
           /\ ~Cold(new) => /\ physUp' = WPhys4(new)
                            /\ floodSet' = IF running THEN WFs5(new) ELSE floodSet
                            /\ running' = running
BY DEF ReloadConfig, Cold, WChanged, WAllUp, WPhys1, WFs1, WFs2, WPhys2, WFs3,
       WPhys3, WFs4, WPhys4, WFs5

\* dyn_phys_up after each step of the warm path, on a state where only
\* configured ports have it.
LEMMA WarmPhys ==
    ASSUME TypeOK, PhysConfigured, NEW new \in Configs, NEW p \in Ports
    PROVE  LET C == WChanged(new)
               D == DeletedPorts(cfg, new)
           IN  /\ WPhys2(new)[p] <=> physUp[p] /\ p \notin D /\ p \notin C
               /\ WPhys3(new)[p] <=> physUp[p] /\ p \in new.ports /\ p \notin C
               /\ WPhys1(new)[p] <=> physUp[p] /\ p \notin D
               /\ WPhys4(new)[p] <=> \/ p \in WAllUp(new)
                                     \/ physUp[p] /\ p \in new.ports /\ p \notin C
               /\ WAllUp(new) \subseteq C
               /\ C \subseteq new.ports
<1>1. IsConfig(cfg) /\ IsConfig(new)
  BY DEF TypeOK
<1>2. physUp[p] \in BOOLEAN /\ (physUp[p] => p \in cfg.ports)
  BY DEF TypeOK, PhysConfigured
<1>3. WAllUp(new) \subseteq WChanged(new) /\ WChanged(new) \subseteq new.ports
  BY DEF WAllUp, AllUpPortNos, WChanged, ChangedPorts
<1>4. WPhys1(new)[p] <=> physUp[p] /\ p \notin DeletedPorts(cfg, new)
  BY <1>2 DEF WPhys1, SetPhys
<1>5. WPhys2(new)[p] <=> physUp[p] /\ p \notin DeletedPorts(cfg, new) /\ p \notin WChanged(new)
  BY <1>2, <1>4 DEF WPhys2, SetPhys
<1>6. WPhys3(new)[p] <=> physUp[p] /\ p \in new.ports /\ p \notin WChanged(new)
  BY <1>5 DEF WPhys3, CloneDynState, DeletedPorts
<1>7. WPhys4(new)[p] <=> \/ p \in WAllUp(new)
                         \/ physUp[p] /\ p \in new.ports /\ p \notin WChanged(new)
  BY <1>3, <1>6 DEF WPhys4, SetPhys
<1>8. QED
  BY <1>3, <1>4, <1>5, <1>6, <1>7

\* A port that is in both configurations and not changed is in the same
\* VLANs in both.
LEMMA SameVlans ==
    ASSUME NEW new, NEW p, p \in cfg.ports, p \in new.ports,
           p \notin ChangedPorts(cfg, new), NEW v
    PROVE  (v \in cfg.vlans /\ p \in cfg.member[v]) <=> (v \in new.vlans /\ p \in new.member[v])
<1>1. PortVlans(cfg, p) = PortVlans(new, p)
  BY DEF ChangedPorts
<1>2. QED
  BY <1>1 DEF PortVlans

\* The heart of the warm path: with the invariant holding before, every
\* VLAN ends up flooding exactly as the new configuration requires.  A
\* VLAN's flood set is last written by the first of these that touches it:
\* ports_add of the up changed ports, _add_vlans of the changed VLANs,
\* ports_delete of the changed ports, _del_vlans of the deleted VLANs,
\* ports_delete of the deleted ports; a VLAN none touches keeps its set.
LEMMA WarmFlood ==
    ASSUME IInv, running, NEW new \in Configs, NEW v \in Vlans
    PROVE  WFs5(new)[v] = Target(new, v, WPhys4(new))
<1> DEFINE C == WChanged(new)
           D == DeletedPorts(cfg, new)
           A == WAllUp(new)
           p4 == WPhys4(new)
           AV == VlansOfSet(new, A \cap new.ports)
<1>1. TypeOK /\ PhysConfigured /\ IsConfig(cfg) /\ IsConfig(new)
  <2>1. TypeOK /\ PhysConfigured
    BY DEF IInv
  <2>2. IsConfig(cfg) /\ IsConfig(new)
    BY <2>1 DEF TypeOK
  <2>3. QED
    BY <2>1, <2>2
<1>2. \A p \in Ports :
         /\ WPhys1(new)[p] <=> physUp[p] /\ p \notin D
         /\ WPhys2(new)[p] <=> physUp[p] /\ p \notin D /\ p \notin C
         /\ WPhys3(new)[p] <=> physUp[p] /\ p \in new.ports /\ p \notin C
         /\ p4[p] <=> p \in A \/ (physUp[p] /\ p \in new.ports /\ p \notin C)
  BY <1>1, WarmPhys
<1>3. A \subseteq C /\ C \subseteq new.ports
  BY DEF WAllUp, AllUpPortNos, WChanged, ChangedPorts
\* A port flooded before and untouched by the reload stays flooded.
<1>4. ASSUME NEW p \in Ports, v \in cfg.vlans, p \in cfg.member[v], physUp[p],
             p \notin D, p \notin C
      PROVE  v \in new.vlans /\ p \in new.member[v] /\ p4[p]
  <2>1. p \in cfg.ports /\ p \in new.ports
    BY <1>1, <1>4 DEF PhysConfigured, DeletedPorts
  <2>2. v \in new.vlans /\ p \in new.member[v]
    BY <2>1, <1>4, SameVlans DEF WChanged
  <2>3. QED
    BY <2>1, <2>2, <1>2, <1>4
\* A port flooded after, in a VLAN ports_add did not touch, was flooded
\* before and is untouched by the reload.
<1>5. ASSUME NEW p \in Ports, v \in new.vlans, p \in new.member[v], p4[p], v \notin AV
      PROVE  physUp[p] /\ p \notin D /\ p \notin C /\ v \in cfg.vlans /\ p \in cfg.member[v]
  <2>0. p \in new.ports
    BY <1>1, <1>5 DEF IsConfig
  <2>1. p \notin A
    BY <2>0, <1>5 DEF VlansOfSet, PortVlans
  <2>2. physUp[p] /\ p \in new.ports /\ p \notin C
    BY <2>1, <1>2, <1>5
  <2>3. p \in cfg.ports /\ p \notin D
    BY <2>2, <1>1 DEF PhysConfigured, DeletedPorts
  <2>4. QED
    BY <2>2, <2>3, <1>5, SameVlans DEF WChanged
<1>6. CASE v \in AV
  BY <1>6 DEF WFs5, Reflood, Target, VlansOfSet, PortVlans
<1>7. CASE v \notin AV
  <2>0. WFs5(new)[v] = WFs4(new)[v]
    BY <1>7 DEF WFs5, Reflood
  <2>1. CASE v \in ChangedVids(cfg, new)
    <3>1. v \in new.vlans
      BY <2>1 DEF ChangedVids
    <3>2. WFs4(new)[v] = FloodPortsIn(new, v, WPhys3(new))
      BY <2>1 DEF WFs4, Reflood
    <3>3. \A p \in new.member[v] : WPhys3(new)[p] <=> p4[p]
      BY <1>1, <1>2, <1>7, <3>1 DEF IsConfig, VlansOfSet, PortVlans
    <3>4. QED
      BY <2>0, <3>1, <3>2, <3>3 DEF FloodPortsIn, Target
  <2>2. CASE v \notin ChangedVids(cfg, new)
    <3>0. WFs4(new)[v] = WFs3(new)[v]
      BY <2>2 DEF WFs4, Reflood, DelVlans
    <3>1. CASE v \in VlansOfSet(cfg, C)
      <4>0. v \in cfg.vlans /\ WFs3(new)[v] = FloodPortsIn(cfg, v, WPhys2(new))
        BY <3>1 DEF WFs3, Reflood, ChangedDeleteVlans, VlansOfSet, PortVlans
      <4>1. CASE v \in new.vlans
        <5>1. \A p \in Ports : (p \in cfg.member[v] /\ WPhys2(new)[p])
                                  => (p \in new.member[v] /\ p4[p])
          BY <4>0, <1>2, <1>4
        <5>2. \A p \in Ports : (p \in new.member[v] /\ p4[p])
                                  => (p \in cfg.member[v] /\ WPhys2(new)[p])
          BY <4>1, <1>7, <1>2, <1>5
        <5>3. QED
          BY <5>1, <5>2, <4>0, <4>1, <3>0, <2>0, <1>1 DEF FloodPortsIn, Target, IsConfig
      <4>2. CASE v \notin new.vlans
        <5>1. \A p \in Ports : ~(p \in cfg.member[v] /\ WPhys2(new)[p])
          BY <4>0, <4>2, <1>2, <1>4
        <5>2. QED
          BY <5>1, <4>0, <4>2, <3>0, <2>0, <1>1 DEF FloodPortsIn, Target, IsConfig
      <4>3. QED
        BY <4>1, <4>2
    <3>2. CASE v \notin VlansOfSet(cfg, C)
      <4>0. WFs3(new)[v] = WFs2(new)[v]
        BY <3>2 DEF WFs3, Reflood, ChangedDeleteVlans
      <4>1. CASE v \in DeletedVids(cfg, new)
        BY <4>1, <4>0, <3>0, <2>0 DEF WFs2, DelVlans, DeletedVids, Target
      <4>2. CASE v \notin DeletedVids(cfg, new)
        <5>0. WFs2(new)[v] = WFs1(new)[v]
          BY <4>2 DEF WFs2, DelVlans
        <5>1. CASE v \in VlansOfSet(cfg, D)
          <6>1. v \in cfg.vlans /\ v \in new.vlans
                /\ WFs1(new)[v] = FloodPortsIn(cfg, v, WPhys1(new))
            BY <5>1, <4>2 DEF WFs1, Reflood, VlansOfSet, PortVlans, DeletedVids
          <6>2. \A p \in Ports : (p \in cfg.member[v] /\ WPhys1(new)[p])
                                    => (p \in new.member[v] /\ p4[p])
            <7> SUFFICES ASSUME NEW p \in Ports, p \in cfg.member[v], WPhys1(new)[p]
                         PROVE  p \in new.member[v] /\ p4[p]
              OBVIOUS
            <7>1. p \notin C
              BY <3>2, <6>1 DEF VlansOfSet, PortVlans
            <7>2. QED
              BY <7>1, <6>1, <1>2, <1>4
          <6>3. \A p \in Ports : (p \in new.member[v] /\ p4[p])
                                    => (p \in cfg.member[v] /\ WPhys1(new)[p])
            BY <6>1, <1>7, <1>2, <1>5
          <6>4. QED
            BY <6>1, <6>2, <6>3, <5>0, <4>0, <3>0, <2>0, <1>1
               DEF FloodPortsIn, Target, IsConfig
        <5>2. CASE v \notin VlansOfSet(cfg, D)
          <6>0. WFs1(new)[v] = floodSet[v]
            BY <5>2 DEF WFs1, Reflood
          <6>1. CASE v \in cfg.vlans
            <7>1. v \in new.vlans /\ floodSet[v] = FloodPortsIn(cfg, v, physUp)
              BY <6>1, <4>2 DEF IInv, FloodInSync, DeletedVids
            <7>2. \A p \in Ports : (p \in cfg.member[v] /\ physUp[p])
                                      => (p \in new.member[v] /\ p4[p])
              <8> SUFFICES ASSUME NEW p \in Ports, p \in cfg.member[v], physUp[p]
                           PROVE  p \in new.member[v] /\ p4[p]
                OBVIOUS
              <8>1. p \notin C /\ p \notin D
                BY <3>2, <5>2, <6>1 DEF VlansOfSet, PortVlans
              <8>2. QED
                BY <8>1, <6>1, <1>4
            <7>3. \A p \in Ports : (p \in new.member[v] /\ p4[p])
                                      => (p \in cfg.member[v] /\ physUp[p])
              BY <7>1, <1>7, <1>5
            <7>4. QED
              BY <7>1, <7>2, <7>3, <6>0, <5>0, <4>0, <3>0, <2>0, <1>1
                 DEF FloodPortsIn, Target, IsConfig
          <6>2. CASE v \notin cfg.vlans
            <7>1. floodSet[v] = {} /\ v \notin new.vlans
              BY <6>2, <2>2 DEF IInv, FloodInSync, ChangedVids
            <7>2. QED
              BY <7>1, <6>0, <5>0, <4>0, <3>0, <2>0 DEF Target
          <6>3. QED
            BY <6>1, <6>2
        <5>3. QED
          BY <5>1, <5>2
      <4>3. QED
        BY <4>1, <4>2
    <3>3. QED
      BY <3>1, <3>2
  <2>3. QED
    BY <2>1, <2>2
<1>8. QED
  BY <1>6, <1>7

-----------------------------------------------------------------------------
(* The invariant is inductive.                                             *)

\* The flood state the helpers compute keeps its type.
LEMMA RefloodType ==
    ASSUME NEW c, IsConfig(c), NEW vs, NEW phys, NEW fs \in [Vlans -> SUBSET Ports]
    PROVE  Reflood(c, vs, phys, fs) \in [Vlans -> SUBSET Ports]
BY DEF Reflood, FloodPortsIn, IsConfig

LEMMA IInvInit == Init => IInv
<1> SUFFICES ASSUME Init PROVE IInv
  OBVIOUS
<1>1. TypeOK
  BY NoneAssumption DEF Init, TypeOK
<1>2. QED
  BY <1>1 DEF Init, IInv, PhysConfigured, UpIsPhys, FloodInSync

\* datapath_connect.
LEMMA ConnectStep ==
    ASSUME IInv, NEW d \in SUBSET Ports, DatapathConnect(d)
    PROVE  IInv'
<1> DEFINE up == d \cap cfg.ports
           phys == SetPhys(cfg, up, physUp, TRUE)
<1>1. TypeOK /\ PhysConfigured /\ IsConfig(cfg)
  BY DEF IInv, TypeOK
<1>2. /\ running' /\ cfg' = cfg
      /\ upPortNos' = (upPortNos \ cfg.ports) \cup up
      /\ physUp' = phys
      /\ floodSet' = Reflood(cfg, cfg.vlans, phys, [v \in Vlans |-> {}])
      /\ lastPipeline' = IF Tfm THEN PipelineFlows(cfg) ELSE lastPipeline
      /\ dpPipeline' = IF Tfm THEN PipelineFlows(cfg) ELSE dpPipeline
      /\ deleted' = deleted \ d
  BY DEF DatapathConnect
<1>3. phys \in [Ports -> BOOLEAN]
  BY <1>1 DEF SetPhys, TypeOK
<1>4. TypeOK'
  <2>1. floodSet' \in [Vlans -> SUBSET Ports]
    BY <1>1, <1>2, RefloodType
  <2>2. Tfm => PipelineFlows(cfg) \in {c.pipeline : c \in Configs}
    BY <1>1 DEF PipelineFlows, TypeOK
  <2>3. QED
    BY <1>1, <1>2, <1>3, <2>1, <2>2 DEF TypeOK
<1>5. PhysConfigured'
  BY <1>1, <1>2 DEF PhysConfigured, SetPhys
<1>6. UpIsPhys'
  BY <1>2 DEF UpIsPhys, SetPhys
<1>7. FloodInSync'
  BY <1>2 DEF FloodInSync, Reflood
<1>8. QED
  BY <1>4, <1>5, <1>6, <1>7 DEF IInv

\* datapath_disconnect.
LEMMA DisconnectStep ==
    ASSUME IInv, DatapathDisconnect
    PROVE  IInv'
BY DEF DatapathDisconnect, IInv, TypeOK, PhysConfigured, UpIsPhys, FloodInSync

\* port_status_handler, for any reason and link state.
LEMMA PortStatusStep ==
    ASSUME IInv, NEW p \in Ports, NEW r \in {"ADD", "DELETE", "MODIFY"},
           NEW l \in BOOLEAN, PortStatus(p, r, l)
    PROVE  IInv'
<1>1. TypeOK /\ PhysConfigured /\ UpIsPhys /\ FloodInSync /\ IsConfig(cfg)
  BY DEF IInv, TypeOK
<1>2. /\ upPortNos' = IF l THEN upPortNos \cup {p} ELSE upPortNos \ {p}
      /\ UNCHANGED <<cfg, running, lastPipeline, dpPipeline>>
      /\ deleted' = IF r = "DELETE" THEN deleted \cup {p} ELSE deleted \ {p}
  BY DEF PortStatus
<1>3. CASE p \in cfg.ports
  <2> DEFINE up == r = "ADD" \/ (r = "MODIFY" /\ l)
             phys == [physUp EXCEPT ![p] = up]
  <2>1. physUp' = phys /\ floodSet' = Reflood(cfg, PortVlans(cfg, p), phys, floodSet)
    BY <1>3 DEF PortStatus
  <2>2. TypeOK'
    BY <1>1, <1>2, <2>1, RefloodType DEF TypeOK
  <2>3. PhysConfigured'
    BY <1>1, <1>2, <1>3, <2>1 DEF PhysConfigured, TypeOK
  <2>4. UpIsPhys'
    <3> SUFFICES ASSUME running, NEW q \in (cfg.ports \cap upPortNos') \ deleted'
                 PROVE  phys[q]
      BY <1>2, <2>1 DEF UpIsPhys
    <3>1. CASE q = p
      <4>1. l /\ r # "DELETE"
        BY <3>1, <1>2
      <4>2. QED
        BY <3>1, <4>1, <1>1 DEF TypeOK
    <3>2. CASE q # p
      BY <3>2, <1>1, <1>2 DEF UpIsPhys, TypeOK
    <3>3. QED
      BY <3>1, <3>2
  <2>5. FloodInSync'
    <3> SUFFICES ASSUME running, NEW v \in Vlans
                 PROVE  floodSet'[v] = IF v \in cfg.vlans THEN FloodPortsIn(cfg, v, phys) ELSE {}
      BY <1>2, <2>1 DEF FloodInSync
    <3>1. CASE v \in PortVlans(cfg, p)
      BY <3>1, <2>1 DEF Reflood, PortVlans
    <3>2. CASE v \notin PortVlans(cfg, p)
      <4>1. floodSet'[v] = floodSet[v]
        BY <3>2, <2>1 DEF Reflood
      <4>2. v \in cfg.vlans => FloodPortsIn(cfg, v, phys) = FloodPortsIn(cfg, v, physUp)
        BY <3>2, <1>1 DEF FloodPortsIn, PortVlans, TypeOK
      <4>3. QED
        BY <4>1, <4>2, <1>1 DEF FloodInSync
    <3>3. QED
      BY <3>1, <3>2
  <2>6. QED
    BY <2>2, <2>3, <2>4, <2>5 DEF IInv
<1>4. CASE p \notin cfg.ports
  <2>1. UNCHANGED <<physUp, floodSet>>
    BY <1>4 DEF PortStatus
  <2>2. TypeOK' /\ PhysConfigured' /\ FloodInSync'
    BY <1>1, <1>2, <2>1 DEF TypeOK, PhysConfigured, FloodInSync
  <2>3. UpIsPhys'
    BY <1>1, <1>2, <1>4, <2>1 DEF UpIsPhys
  <2>4. QED
    BY <2>2, <2>3 DEF IInv
<1>5. QED
  BY <1>3, <1>4

\* reload_config, cold or warm.
LEMMA ReloadStep ==
    ASSUME IInv, NEW new \in Configs, ReloadConfig(new)
    PROVE  IInv'
<1>1. TypeOK /\ PhysConfigured /\ UpIsPhys /\ IsConfig(cfg) /\ IsConfig(new)
  BY DEF IInv, TypeOK
<1>2. cfg' = new /\ UNCHANGED <<upPortNos, lastPipeline, dpPipeline, deleted>>
  BY ReloadCases
<1>3. CASE Cold(new)
  <2>1. physUp' = CloneDynState(physUp, new) /\ running' = FALSE /\ floodSet' = floodSet
    BY <1>3, ReloadCases
  <2>2. physUp' \in [Ports -> BOOLEAN] /\ PhysConfigured'
    BY <1>2, <2>1 DEF CloneDynState, PhysConfigured
  <2>3. TypeOK'
    BY <1>1, <1>2, <2>1, <2>2 DEF TypeOK
  <2>4. UpIsPhys' /\ FloodInSync'
    BY <2>1 DEF UpIsPhys, FloodInSync
  <2>5. QED
    BY <2>2, <2>3, <2>4 DEF IInv
<1>4. CASE ~Cold(new)
  <2>1. /\ physUp' = WPhys4(new)
        /\ floodSet' = IF running THEN WFs5(new) ELSE floodSet
        /\ running' = running
    BY <1>4, ReloadCases
  <2>2. \A p \in Ports :
           /\ WPhys4(new)[p] <=> \/ p \in WAllUp(new)
                                 \/ physUp[p] /\ p \in new.ports /\ p \notin WChanged(new)
           /\ WAllUp(new) \subseteq WChanged(new)
           /\ WChanged(new) \subseteq new.ports
    BY <1>1, WarmPhys
  <2>3. WPhys4(new) \in [Ports -> BOOLEAN]
    BY DEF WPhys4, SetPhys, WPhys3, CloneDynState
  <2>4. PhysConfigured'
    BY <2>1, <2>2, <1>2 DEF PhysConfigured
  <2>5. running => \A v \in Vlans : WFs5(new)[v] = Target(new, v, WPhys4(new))
    BY WarmFlood
  <2>6. WFs5(new) = [v \in Vlans |-> WFs5(new)[v]]
    BY DEF WFs5, Reflood
  <2>7. running => WFs5(new) \in [Vlans -> SUBSET Ports]
    BY <2>5, <2>6, <1>1 DEF Target, FloodPortsIn, IsConfig
  <2>8. TypeOK'
    BY <1>1, <1>2, <2>1, <2>3, <2>7 DEF TypeOK
  <2>9. UpIsPhys'
    <3> SUFFICES ASSUME running, NEW p \in (new.ports \cap upPortNos) \ deleted
                 PROVE  WPhys4(new)[p]
      BY <1>2, <2>1 DEF UpIsPhys
    <3>1. CASE p \in WChanged(new)
      BY <3>1, <2>2, <1>1 DEF WAllUp, AllUpPortNos, IsConfig
    <3>2. CASE p \notin WChanged(new)
      <4>1. p \in cfg.ports
        BY <3>2 DEF WChanged, ChangedPorts
      <4>2. physUp[p]
        BY <4>1, <1>1 DEF UpIsPhys
      <4>3. QED
        BY <4>2, <3>2, <2>2, <1>1 DEF IsConfig
    <3>3. QED
      BY <3>1, <3>2
  <2>10. FloodInSync'
    BY <2>1, <2>5, <1>2 DEF FloodInSync, Target
  <2>11. QED
    BY <2>4, <2>8, <2>9, <2>10 DEF IInv
<1>5. QED
  BY <1>3, <1>4

LEMMA IInvStep == IInv /\ [Next]_vars => IInv'
<1> SUFFICES ASSUME IInv, [Next]_vars PROVE IInv'
  OBVIOUS
<1>1. CASE \E d \in SUBSET Ports : DatapathConnect(d)
  BY <1>1, ConnectStep
<1>2. CASE DatapathDisconnect
  BY <1>2, DisconnectStep
<1>3. CASE \E p \in Ports : \E r \in {"ADD", "DELETE", "MODIFY"}, l \in BOOLEAN : PortStatus(p, r, l)
  BY <1>3, PortStatusStep
<1>5. CASE \E c \in Configs : ReloadConfig(c)
  BY <1>5, ReloadStep
<1>6. CASE UNCHANGED vars
  BY <1>6 DEF vars, IInv, TypeOK, PhysConfigured, UpIsPhys, FloodInSync
<1>7. QED
  BY <1>1, <1>2, <1>3, <1>5, <1>6 DEF Next

\* The invariant implies that every member of a VLAN the switch reported
\* up, other than by deleting it, is flooded to.
LEMMA IInvUpPortsFlooded == IInv => UpPortsFlooded
<1> SUFFICES ASSUME IInv, running, NEW v \in cfg.vlans,
                    NEW p \in (cfg.member[v] \cap upPortNos) \ deleted
             PROVE  p \in floodSet[v]
  BY DEF UpPortsFlooded
<1>1. IsConfig(cfg) /\ v \in Vlans
  BY DEF IInv, TypeOK, IsConfig
<1>2. p \in cfg.ports /\ p \in Ports
  BY <1>1 DEF IsConfig
<1>3. physUp[p]
  BY <1>2 DEF IInv, UpIsPhys
<1>4. QED
  BY <1>1, <1>2, <1>3 DEF IInv, FloodInSync, FloodPortsIn

THEOREM IInvariant == Spec => []IInv
BY IInvInit, IInvStep, PTL DEF Spec

\* Every reachable state is well typed, for all ports, VLANs and
\* configurations, through any order of connects, port status and reloads.
THEOREM TypeCorrect == Spec => []TypeOK
BY IInvariant, PTL DEF IInv

\* While the datapath is connected, every VLAN floods to exactly its
\* members with dyn_phys_up, however many warm reloads (ports_delete,
\* _del_vlans, dp_init, _add_vlans, ports_add) have run between port status
\* events.
THEOREM FloodInSyncTheorem == Spec => []FloodInSync
BY IInvariant, PTL DEF IInv

\* While connected, every member of a VLAN the switch last reported up,
\* other than in an OFPPR_DELETE, is flooded to, including ports a reload
\* added after the switch reported them, whatever reasons and link states
\* the port status messages carry.
THEOREM UpPortsFloodedTheorem == Spec => []UpPortsFlooded
BY IInvariant, IInvUpPortsFlooded, PTL

=============================================================================
