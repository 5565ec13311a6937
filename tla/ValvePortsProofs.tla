-------------------------- MODULE ValvePortsProofs --------------------------
(***************************************************************************)
(* Proofs about ValvePorts for every value of its constants.               *)
(***************************************************************************)
EXTENDS ValvePorts, TLAPS

USE PortsAssumption, VlanAssumption, PduAssumption, ReasonAssumption,
    TimeAssumption, NoneAssumption, ForwardingAssumption

-----------------------------------------------------------------------------
(* Lemmas about the helpers.                                               *)

\* The flood set a VLAN gets does not change when no member port changes
\* whether it forwards.
LEMMA FloodSame ==
    ASSUME NEW v \in Vlans, NEW phys, NEW lup, NEW phys2, NEW lup2,
           \A q \in VlanPorts[v] :
               ForwardingIn(q, phys2, lup2) <=> ForwardingIn(q, phys, lup)
    PROVE  FloodPortsIn(v, phys2, lup2) = FloodPortsIn(v, phys, lup)
BY DEF FloodPortsIn

\* A flood set is a set of ports.
LEMMA FloodType ==
    ASSUME NEW v \in Vlans, NEW phys, NEW lup
    PROVE  FloodPortsIn(v, phys, lup) \subseteq Ports
BY DEF FloodPortsIn

\* Reflood leaves a function from VLANs to sets of ports.
LEMMA RefloodType ==
    ASSUME floodSet \in [Vlans -> SUBSET Ports], NEW vs, NEW phys, NEW lup,
           Reflood(vs, phys, lup)
    PROVE  floodSet' \in [Vlans -> SUBSET Ports]
BY FloodType DEF Reflood

\* After Reflood(vs, ...) every VLAN floods to its forwarding members, given
\* that the VLANs outside vs already did.
LEMMA RefloodSync ==
    ASSUME NEW vs, NEW phys, NEW lup, Reflood(vs, phys, lup),
           \A v \in Vlans \ vs : floodSet[v] = FloodPortsIn(v, phys, lup)
    PROVE  \A v \in Vlans : floodSet'[v] = FloodPortsIn(v, phys, lup)
BY DEF Reflood

-----------------------------------------------------------------------------
(* Type correctness.                                                       *)

LEMMA TypeInit == Init => TypeOK
<1> SUFFICES ASSUME Init PROVE TypeOK
    OBVIOUS
<1>1. now \in Times
  BY DEF Init, Times
<1>2. /\ lastLacpPkt \in [LacpPorts -> Pdus \cup {None}]
      /\ lacpUpdated \in [LacpPorts -> Times \cup {None}]
      /\ lacpLastResp \in [LacpPorts -> Times \cup {None}]
  BY DEF Init
<1>3. QED
  BY <1>1, <1>2 DEF Init, TypeOK

LEMMA LacpDownFieldsType ==
    ASSUME TypeOK, NEW S \in SUBSET LacpPorts, LacpDownFields(S)
    PROVE  /\ lacpUp' \in [LacpPorts -> {0, 1}]
           /\ lastLacpPkt' \in [LacpPorts -> Pdus \cup {None}]
           /\ lacpUpdated' \in [LacpPorts -> Times \cup {None}]
           /\ lacpLastResp' \in [LacpPorts -> Times \cup {None}]
BY DEF TypeOK, LacpDownFields, LacpUpAfterDown, PktAfterDown

LEMMA TypeStep == TypeOK /\ [Next]_vars => TypeOK'
<1> SUFFICES ASSUME TypeOK, [Next]_vars PROVE TypeOK'
    OBVIOUS
<1>1. ASSUME NEW d \in SUBSET Ports, DatapathConnect(d) PROVE TypeOK'
  <2>1. ConnectLacpDown(d) \in SUBSET LacpPorts
    BY DEF ConnectLacpDown
  <2>2. floodSet' \in [Vlans -> SUBSET Ports]
    BY <1>1, RefloodType DEF DatapathConnect, TypeOK
  <2>3. QED
    BY <1>1, <2>1, <2>2, LacpDownFieldsType DEF DatapathConnect, TypeOK
<1>2. CASE DatapathDisconnect
  BY <1>2 DEF DatapathDisconnect, TypeOK
<1>3. ASSUME NEW p \in Ports, NEW r \in PortReasons, NEW l \in BOOLEAN,
             PortStatus(p, r, l)
      PROVE  TypeOK'
  <2>1. CASE r \in {"ADD", "DELETE", "MODIFY"}
    <3>1. floodSet' \in [Vlans -> SUBSET Ports]
      BY <1>3, <2>1, RefloodType DEF PortStatus, TypeOK
    <3>2. inDrop' \in [Ports -> BOOLEAN]
      BY <1>3, <2>1 DEF PortStatus, InstallDrops, TypeOK
    <3>3. /\ lacpUp' \in [LacpPorts -> {0, 1}]
          /\ lastLacpPkt' \in [LacpPorts -> Pdus \cup {None}]
          /\ lacpUpdated' \in [LacpPorts -> Times \cup {None}]
          /\ lacpLastResp' \in [LacpPorts -> Times \cup {None}]
      <4>1. {p} \cap LacpPorts \in SUBSET LacpPorts
        OBVIOUS
      <4>2. LacpDownFields({p} \cap LacpPorts)
        BY <1>3, <2>1 DEF PortStatus
      <4>3. QED
        BY <4>1, <4>2, LacpDownFieldsType
    <3>4. physUp' \in [Ports -> BOOLEAN]
      BY <1>3, <2>1 DEF PortStatus, NewPortStatus, TypeOK
    <3>5. upPortNos' \subseteq Ports /\ running' = running /\ now' = now
      BY <1>3 DEF PortStatus, SetPortStatus, TypeOK
    <3>6. QED
      BY <3>1, <3>2, <3>3, <3>4, <3>5 DEF TypeOK
  <2>2. CASE r \notin {"ADD", "DELETE", "MODIFY"}
    BY <1>3, <2>2 DEF PortStatus, SetPortStatus, TypeOK
  <2>3. QED
    BY <2>1, <2>2
<1>4. ASSUME NEW p \in LacpPorts, NEW pdu \in Pdus, LacpRcv(p, pdu)
      PROVE  TypeOK'
  <2>1. floodSet' \in [Vlans -> SUBSET Ports]
    BY <1>4, RefloodType DEF LacpRcv, TypeOK
  <2>2. lacpUp' \in [LacpPorts -> {0, 1}]
    BY <1>4 DEF LacpRcv, LacpUpAfterDown, TypeOK
  <2>3. QED
    BY <1>4, <2>1, <2>2 DEF LacpRcv, TypeOK
<1>5. CASE StateExpire
  <2>1. LacpExpired \in SUBSET LacpPorts
    BY DEF LacpExpired, LagsUp
  <2>2. floodSet' \in [Vlans -> SUBSET Ports]
    BY <1>5, RefloodType DEF StateExpire, TypeOK
  <2>3. inDrop' \in [Ports -> BOOLEAN]
    BY <1>5 DEF StateExpire, InstallDrops, TypeOK
  <2>4. QED
    BY <1>5, <2>1, <2>2, <2>3, LacpDownFieldsType DEF StateExpire, TypeOK
<1>6. CASE Tick
  BY <1>6 DEF Tick, TypeOK, Times
<1>7. CASE UNCHANGED vars
  BY <1>7 DEF vars, TypeOK
<1>8. QED
  BY <1>1, <1>2, <1>3, <1>4, <1>5, <1>6, <1>7 DEF Next

\* Every reachable state is well typed.
THEOREM TypeCorrect == Spec => []TypeOK
BY TypeInit, TypeStep, PTL DEF Spec

-----------------------------------------------------------------------------
(* The inductive invariant.                                                *)

\* A recorded LACP PDU agrees with dyn_lacp_up, and lacp_handler has
\* answered the port since that PDU was recorded.
LacpPktConsistent ==
    \A p \in LacpPorts :
        lastLacpPkt[p] # None =>
            /\ lacpUp[p] = lastLacpPkt[p].actorUp
            /\ lacpLastResp[p] # None

IInv ==
    /\ TypeOK
    /\ FloodInSync
    /\ LacpDropInSync
    /\ LacpExpireSafe
    /\ LacpPktConsistent

LEMMA IInvInit == Init => IInv
<1> SUFFICES ASSUME Init PROVE IInv
    OBVIOUS
<1>1. TypeOK
  BY TypeInit
<1>2. LacpExpireSafe /\ LacpPktConsistent
  BY DEF Init, LacpExpireSafe, LacpPktConsistent
<1>3. QED
  BY <1>1, <1>2 DEF Init, IInv, FloodInSync, LacpDropInSync

\* datapath_connect reprograms every VLAN and takes every discovered LACP
\* port down with its drop installed.
LEMMA IInvConnect ==
    ASSUME IInv, NEW d \in SUBSET Ports, DatapathConnect(d)
    PROVE  IInv'
<1> DEFINE C == ConnectLacpDown(d)
           phys == [p \in Ports |-> p \in d \/ physUp[p]]
<1>1. C \in SUBSET LacpPorts /\ C = d \cap LacpPorts
  BY DEF ConnectLacpDown
<1>2. /\ running' /\ upPortNos' = d /\ physUp' = phys
      /\ LacpDownFields(C)
      /\ inDrop' = [p \in Ports |-> p \in C]
      /\ Reflood(Vlans, phys, LacpUpAfterDown(C))
  BY DEF DatapathConnect
<1>3. TypeOK'
  BY TypeStep DEF IInv, Next
<1>4. lacpUp' = LacpUpAfterDown(C)
  BY <1>2 DEF LacpDownFields
<1>5. FloodInSync'
  <2>1. \A v \in Vlans : floodSet'[v] = FloodPortsIn(v, phys, LacpUpAfterDown(C))
    BY <1>2, RefloodSync
  <2>2. QED
    BY <2>1, <1>2, <1>4 DEF FloodInSync, FloodPorts
<1>6. LacpDropInSync'
  <2> SUFFICES ASSUME NEW p \in LacpPorts \cap upPortNos'
               PROVE  inDrop'[p] <=> ~(lacpUp'[p] = 1 /\ LacpForwarding)
    BY DEF LacpDropInSync
  <2>1. p \in C /\ p \in Ports
    BY <1>1, <1>2, PortsAssumption
  <2>2. inDrop'[p] = TRUE
    BY <2>1, <1>2, Zenon
  <2>3. lacpUp'[p] = 0
    BY <2>1, <1>4 DEF LacpUpAfterDown
  <2>4. QED
    BY <2>2, <2>3
<1>7. LacpExpireSafe' /\ LacpPktConsistent'
  BY <1>1, <1>2 DEF IInv, LacpExpireSafe, LacpPktConsistent, LacpDownFields,
                    LacpUpAfterDown, PktAfterDown
<1>8. QED
  BY <1>3, <1>5, <1>6, <1>7 DEF IInv

\* datapath_disconnect only clears dyn_running.
LEMMA IInvDisconnect ==
    ASSUME IInv, DatapathDisconnect PROVE IInv'
<1>1. TypeOK'
  BY TypeStep DEF IInv, Next
<1>2. QED
  BY <1>1 DEF IInv, DatapathDisconnect, FloodInSync, LacpDropInSync,
              LacpExpireSafe, LacpPktConsistent

\* The clock changes no state the invariant reads but now.
LEMMA IInvTick ==
    ASSUME IInv, Tick PROVE IInv'
<1>1. TypeOK'
  BY TypeStep DEF IInv, Next
<1>2. QED
  BY <1>1 DEF IInv, Tick, FloodInSync, FloodPorts, LacpDropInSync,
              LacpExpireSafe, LacpPktConsistent

\* port_status_handler refloods every VLAN of the port and takes an LACP
\* port down with its drop installed; no other port changes.
LEMMA IInvPortStatus ==
    ASSUME IInv, NEW p \in Ports, NEW r \in PortReasons, NEW l \in BOOLEAN,
           PortStatus(p, r, l)
    PROVE  IInv'
<1> DEFINE up == NewPortStatus(r, l)
           phys == [physUp EXCEPT ![p] = up]
           L == {p} \cap LacpPorts
           lup == LacpUpAfterDown(L)
<1>1. r \in {"ADD", "DELETE", "MODIFY"}
  BY ReasonAssumption
<1>2. /\ running /\ running'
      /\ upPortNos' \subseteq upPortNos \cup {p}
      /\ physUp' = phys
      /\ LacpDownFields(L)
      /\ InstallDrops(L)
      /\ Reflood(VlansOf(p), phys, lup)
  BY <1>1 DEF PortStatus, SetPortStatus, AddedPortVlans, DeletedPortVlans
<1>3. TypeOK'
  BY TypeStep DEF IInv, Next
<1>4. lacpUp' = lup
  BY <1>2 DEF LacpDownFields
<1>5. FloodInSync'
  <2>1. ASSUME NEW v \in Vlans \ VlansOf(p)
        PROVE  floodSet[v] = FloodPortsIn(v, phys, lup)
    <3>1. VlanPorts[v] \cap {p} = {}
      BY DEF VlansOf
    <3>2. FloodPortsIn(v, phys, lup) = FloodPortsIn(v, physUp, lacpUp)
      <4>1. \A q \in Ports \ {p} : phys[q] = physUp[q]
        BY DEF IInv, TypeOK
      <4>2. \A q \in LacpPorts \ {p} : lup[q] = lacpUp[q]
        BY DEF LacpUpAfterDown
      <4>3. \A q \in VlanPorts[v] :
                ForwardingIn(q, phys, lup) <=> ForwardingIn(q, physUp, lacpUp)
        BY <3>1, <4>1, <4>2, VlanAssumption DEF ForwardingIn
      <4>4. QED
        BY <4>3 DEF FloodPortsIn
    <3>3. QED
      BY <3>2, <1>2 DEF IInv, FloodInSync, FloodPorts
  <2>2. \A v \in Vlans : floodSet'[v] = FloodPortsIn(v, phys, lup)
    BY <2>1, <1>2 DEF Reflood
  <2>3. QED
    BY <2>2, <1>2, <1>4 DEF FloodInSync, FloodPorts
<1>6. LacpDropInSync'
  <2> SUFFICES ASSUME NEW q \in LacpPorts \cap upPortNos'
               PROVE  inDrop'[q] <=> ~(lacpUp'[q] = 1 /\ LacpForwarding)
    BY DEF LacpDropInSync
  <2>1. CASE q = p
    <3>1. q \in L /\ q \in Ports
      BY <2>1, PortsAssumption
    <3>2. inDrop'[q] = TRUE
      BY <3>1, <1>2, Zenon DEF InstallDrops
    <3>3. lacpUp'[q] = 0
      BY <3>1, <1>4 DEF LacpUpAfterDown
    <3>4. QED
      BY <3>2, <3>3
  <2>2. CASE q # p
    <3>1. q \in upPortNos /\ q \in Ports
      BY <2>2, <1>2, PortsAssumption
    <3>2. inDrop'[q] = inDrop[q] /\ lacpUp'[q] = lacpUp[q]
      BY <2>2, <3>1, <1>2, <1>4 DEF InstallDrops, LacpUpAfterDown, IInv, TypeOK
    <3>3. QED
      BY <3>1, <3>2, <1>2 DEF IInv, LacpDropInSync
  <2>3. QED
    BY <2>1, <2>2
<1>7. LacpExpireSafe' /\ LacpPktConsistent'
  BY <1>2 DEF IInv, LacpExpireSafe, LacpPktConsistent, LacpDownFields,
              LacpUpAfterDown, PktAfterDown
<1>8. QED
  BY <1>3, <1>5, <1>6, <1>7 DEF IInv

\* state_expire takes every expired LACP port down with its drop installed
\* and refloods their VLANs; no other port changes.
LEMMA IInvStateExpire ==
    ASSUME IInv, StateExpire PROVE IInv'
<1> DEFINE E == LacpExpired
           lup == LacpUpAfterDown(E)
<1>1. E \subseteq LacpPorts
  BY DEF LacpExpired, LagsUp
<1>2. /\ running /\ running' /\ upPortNos' = upPortNos /\ physUp' = physUp
      /\ LacpDownFields(E)
      /\ InstallDrops(E)
      /\ Reflood(VlansOfSet(E), physUp, lup)
  BY DEF StateExpire
<1>3. TypeOK'
  BY TypeStep DEF IInv, Next
<1>4. lacpUp' = lup
  BY <1>2 DEF LacpDownFields
<1>5. FloodInSync'
  <2>1. ASSUME NEW v \in Vlans \ VlansOfSet(E)
        PROVE  floodSet[v] = FloodPortsIn(v, physUp, lup)
    <3>1. VlanPorts[v] \cap E = {}
      BY <1>1, PortsAssumption DEF VlansOfSet, VlansOf
    <3>2. \A q \in VlanPorts[v] :
              ForwardingIn(q, physUp, lup) <=> ForwardingIn(q, physUp, lacpUp)
      BY <3>1 DEF ForwardingIn, LacpUpAfterDown
    <3>3. FloodPortsIn(v, physUp, lup) = FloodPortsIn(v, physUp, lacpUp)
      BY <3>2 DEF FloodPortsIn
    <3>4. QED
      BY <3>3, <1>2 DEF IInv, FloodInSync, FloodPorts
  <2>2. \A v \in Vlans : floodSet'[v] = FloodPortsIn(v, physUp, lup)
    BY <2>1, <1>2 DEF Reflood
  <2>3. QED
    BY <2>2, <1>2, <1>4 DEF FloodInSync, FloodPorts
<1>6. LacpDropInSync'
  <2> SUFFICES ASSUME NEW q \in LacpPorts \cap upPortNos'
               PROVE  inDrop'[q] <=> ~(lacpUp'[q] = 1 /\ LacpForwarding)
    BY DEF LacpDropInSync
  <2>0. q \in Ports
    BY PortsAssumption
  <2>1. CASE q \in E
    <3>1. inDrop'[q] = TRUE
      BY <2>0, <2>1, <1>2, Zenon DEF InstallDrops
    <3>2. lacpUp'[q] = 0
      BY <2>1, <1>4 DEF LacpUpAfterDown
    <3>3. QED
      BY <3>1, <3>2
  <2>2. CASE q \notin E
    <3>1. inDrop'[q] = inDrop[q] /\ lacpUp'[q] = lacpUp[q]
      BY <2>0, <2>2, <1>2, <1>4 DEF InstallDrops, LacpUpAfterDown, IInv, TypeOK
    <3>2. QED
      BY <3>1, <1>2 DEF IInv, LacpDropInSync
  <2>3. QED
    BY <2>1, <2>2
<1>7. LacpExpireSafe' /\ LacpPktConsistent'
  BY <1>2 DEF IInv, LacpExpireSafe, LacpPktConsistent, LacpDownFields,
              LacpUpAfterDown, PktAfterDown
<1>8. QED
  BY <1>3, <1>5, <1>6, <1>7 DEF IInv

\* lacp_handler moves the port's LACP state to the PDU's, installs or
\* removes its drop with that change, refloods its VLANs when its
\* forwarding changes, and records the PDU after a reply or with the
\* earlier reply still standing.
LEMMA IInvLacpRcv ==
    ASSUME IInv, NEW p \in LacpPorts, NEW pdu \in Pdus, LacpRcv(p, pdu)
    PROVE  IInv'
<1> DEFINE age == IF Truthy(lacpLastResp[p]) THEN now - lacpLastResp[p] ELSE None
           stateChange == lacpUp[p] # pdu.actorUp
           goesUp == stateChange /\ pdu.actorUp = 1
           goesDown == stateChange /\ pdu.actorUp = 0
           pktChange == lastLacpPkt[p] = None \/ lastLacpPkt[p] # pdu
           reply == pktChange \/ (age # None /\ age > LacpRespInterval)
           lup == IF goesDown THEN LacpUpAfterDown({p})
                  ELSE IF goesUp THEN [lacpUp EXCEPT ![p] = 1]
                  ELSE lacpUp
           vs == IF goesDown \/ (goesUp /\ LacpForwarding) THEN VlansOf(p) ELSE {}
<1>1. /\ running /\ running' /\ upPortNos' = upPortNos /\ physUp' = physUp
      /\ lacpUp' = lup
      /\ lastLacpPkt' = [lastLacpPkt EXCEPT ![p] = pdu]
      /\ lacpUpdated' = [lacpUpdated EXCEPT ![p] = now]
      /\ lacpLastResp' = [lacpLastResp EXCEPT ![p] =
                            IF reply THEN now
                            ELSE IF goesDown THEN None ELSE lacpLastResp[p]]
      /\ inDrop' = IF goesDown THEN [inDrop EXCEPT ![p] = TRUE]
                   ELSE IF goesUp /\ LacpForwarding THEN [inDrop EXCEPT ![p] = FALSE]
                   ELSE inDrop
      /\ Reflood(vs, physUp, lup)
  BY DEF LacpRcv
<1>2. /\ TypeOK /\ p \in Ports /\ lacpUp[p] \in {0, 1} /\ pdu.actorUp \in {0, 1}
  BY PortsAssumption, PduAssumption DEF IInv, TypeOK
<1>3. \A q \in LacpPorts \ {p} : lup[q] = lacpUp[q]
  BY <1>2 DEF TypeOK, LacpUpAfterDown
<1>4. lup[p] = pdu.actorUp
  BY <1>2 DEF TypeOK, LacpUpAfterDown
<1>5. TypeOK'
  BY TypeStep DEF IInv, Next
<1>6. FloodInSync'
  <2>1. ~(goesDown \/ (goesUp /\ LacpForwarding)) =>
            (ForwardingIn(p, physUp, lup) <=> ForwardingIn(p, physUp, lacpUp))
    BY <1>2 DEF ForwardingIn
  <2>2. ASSUME NEW v \in Vlans \ vs
        PROVE  floodSet[v] = FloodPortsIn(v, physUp, lup)
    <3>1. \A q \in VlanPorts[v] :
              ForwardingIn(q, physUp, lup) <=> ForwardingIn(q, physUp, lacpUp)
      <4> TAKE q \in VlanPorts[v]
      <4>1. CASE q = p
        <5>1. ~(goesDown \/ (goesUp /\ LacpForwarding))
          BY <4>1 DEF VlansOf
        <5>2. QED
          BY <4>1, <5>1, <2>1
      <4>2. CASE q # p
        BY <4>2, <1>3 DEF ForwardingIn
      <4>3. QED
        BY <4>1, <4>2
    <3>2. FloodPortsIn(v, physUp, lup) = FloodPortsIn(v, physUp, lacpUp)
      BY <3>1 DEF FloodPortsIn
    <3>3. QED
      BY <3>2, <1>1 DEF IInv, FloodInSync, FloodPorts
  <2>3. \A v \in Vlans : floodSet'[v] = FloodPortsIn(v, physUp, lup)
    BY <2>2, <1>1 DEF Reflood
  <2>4. QED
    BY <2>3, <1>1 DEF FloodInSync, FloodPorts
<1>7. LacpDropInSync'
  <2> SUFFICES ASSUME NEW q \in LacpPorts \cap upPortNos'
               PROVE  inDrop'[q] <=> ~(lacpUp'[q] = 1 /\ LacpForwarding)
    BY DEF LacpDropInSync
  <2>1. q \in upPortNos /\ q \in Ports
    BY <1>1, PortsAssumption
  <2>2. inDrop[q] <=> ~(lacpUp[q] = 1 /\ LacpForwarding)
    BY <2>1, <1>1 DEF IInv, LacpDropInSync
  <2>3. CASE q # p
    <3>1. inDrop'[q] = inDrop[q] /\ lacpUp'[q] = lacpUp[q]
      BY <2>1, <2>3, <1>1, <1>2, <1>3 DEF TypeOK
    <3>2. QED
      BY <3>1, <2>2
  <2>4. CASE q = p /\ goesDown
    BY <2>4, <1>1, <1>2, <1>4 DEF TypeOK
  <2>5. CASE q = p /\ ~goesDown /\ goesUp /\ LacpForwarding
    BY <2>5, <1>1, <1>2, <1>4 DEF TypeOK
  <2>6. CASE q = p /\ ~goesDown /\ goesUp /\ ~LacpForwarding
    <3>1. inDrop'[q] = inDrop[q] /\ lacpUp[q] = 0
      BY <2>6, <1>1, <1>2
    <3>2. QED
      BY <3>1, <2>2, <2>6
  <2>7. CASE q = p /\ ~stateChange
    <3>1. inDrop'[q] = inDrop[q] /\ lacpUp'[q] = lacpUp[q]
      BY <2>7, <1>1, <1>4
    <3>2. QED
      BY <3>1, <2>2
  <2>8. QED
    BY <2>3, <2>4, <2>5, <2>6, <2>7, <1>2
<1>8. LacpExpireSafe'
  <2>1. lacpUpdated'[p] # None
    BY <1>1, <1>2, NoneAssumption DEF TypeOK, Times
  <2>2. QED
    BY <2>1, <1>1, <1>3, <1>2 DEF IInv, LacpExpireSafe, TypeOK
<1>9. LacpPktConsistent'
  <2>1. lacpLastResp'[p] # None
    <3>1. CASE reply
      BY <3>1, <1>1, <1>2, NoneAssumption DEF TypeOK, Times
    <3>2. CASE ~reply
      <4>1. lastLacpPkt[p] = pdu
        BY <3>2
      <4>2. ~goesDown /\ lacpLastResp[p] # None
        BY <4>1, NoneAssumption DEF IInv, LacpPktConsistent
      <4>3. QED
        BY <3>2, <4>2, <1>1, <1>2 DEF TypeOK
    <3>3. QED
      BY <3>1, <3>2
  <2>2. QED
    BY <2>1, <1>1, <1>2, <1>3, <1>4 DEF IInv, LacpPktConsistent, TypeOK
<1>10. QED
  BY <1>5, <1>6, <1>7, <1>8, <1>9 DEF IInv

LEMMA IInvStep == IInv /\ [Next]_vars => IInv'
<1> SUFFICES ASSUME IInv, [Next]_vars PROVE IInv'
    OBVIOUS
<1>1. CASE \E d \in SUBSET Ports : DatapathConnect(d)
  BY <1>1, IInvConnect
<1>2. CASE DatapathDisconnect
  BY <1>2, IInvDisconnect
<1>3. CASE \E p \in Ports, r \in PortReasons, l \in BOOLEAN : PortStatus(p, r, l)
  BY <1>3, IInvPortStatus
<1>4. CASE \E p \in LacpPorts, pdu \in Pdus : LacpRcv(p, pdu)
  BY <1>4, IInvLacpRcv
<1>5. CASE StateExpire
  BY <1>5, IInvStateExpire
<1>6. CASE Tick
  BY <1>6, IInvTick
<1>7. CASE UNCHANGED vars
  BY <1>7 DEF vars, IInv, TypeOK, FloodInSync, FloodPorts, LacpDropInSync,
              LacpExpireSafe, LacpPktConsistent
<1>8. QED
  BY <1>1, <1>2, <1>3, <1>4, <1>5, <1>6, <1>7 DEF Next

\* IInv holds in every reachable state.
THEOREM IInvariant == Spec => []IInv
BY IInvInit, IInvStep, PTL DEF Spec

\* While connected, every VLAN floods to exactly its forwarding ports after
\* any sequence of connects, port status events, LACP PDUs and expiries.
THEOREM FloodInSyncTheorem == Spec => []FloodInSync
BY IInvariant, PTL DEF IInv

\* While connected, an up LACP port's input drop matches its LACP state.
THEOREM LacpDropInSyncTheorem == Spec => []LacpDropInSync
BY IInvariant, PTL DEF IInv

\* state_expire never reads a None dyn_lacp_updated_time of a port with
\* LACP up.
THEOREM LacpExpireSafeTheorem == Spec => []LacpExpireSafe
BY IInvariant, PTL DEF IInv

\* Every PDU lacp_handler processes leaves a reply at most
\* lacp_resp_interval old.
LEMMA ReplyStep ==
    ASSUME IInv, NEW p \in LacpPorts, NEW pdu \in Pdus, LacpRcv(p, pdu)
    PROVE  /\ lacpLastResp'[p] # None
           /\ now - lacpLastResp'[p] <= LacpRespInterval
<1> DEFINE age == IF Truthy(lacpLastResp[p]) THEN now - lacpLastResp[p] ELSE None
           pktChange == lastLacpPkt[p] = None \/ lastLacpPkt[p] # pdu
           reply == pktChange \/ (age # None /\ age > LacpRespInterval)
<1>1. lacpLastResp'[p] = IF reply THEN now ELSE lacpLastResp[p]
  <2>1. ~reply => lacpUp[p] = pdu.actorUp
    BY NoneAssumption DEF IInv, LacpPktConsistent
  <2>2. QED
    BY <2>1 DEF LacpRcv, IInv, TypeOK
<1>2. now \in Nat /\ now >= 1
  BY TimeAssumption DEF IInv, TypeOK, Times
<1>3. CASE reply
  BY <1>1, <1>2, <1>3, TimeAssumption, NoneAssumption
<1>4. CASE ~reply
  <2>1. lacpLastResp[p] \in Times
    BY <1>4, NoneAssumption DEF IInv, LacpPktConsistent, TypeOK
  <2>2. Truthy(lacpLastResp[p])
    BY <2>1, NoneAssumption DEF Truthy, Times
  <2>3. QED
    BY <1>1, <1>2, <1>4, <2>1, <2>2, TimeAssumption, NoneAssumption DEF Times
<1>5. QED
  BY <1>3, <1>4

\* lacp_handler answers a partner at least once per lacp_resp_interval.
THEOREM LacpReplyTimelyTheorem == Spec => LacpReplyTimely
<1>1. IInv => [\A p \in LacpPorts, pdu \in Pdus :
                  LacpRcv(p, pdu) =>
                      /\ lacpLastResp'[p] # None
                      /\ now - lacpLastResp'[p] <= LacpRespInterval]_vars
  BY ReplyStep
<1>2. QED
  BY <1>1, IInvariant, PTL DEF LacpReplyTimely

-----------------------------------------------------------------------------
(* Refinement of LacpAbstract.                                             *)

\* lacp_down's reset of the ports S is the abstract reset of S.
LEMMA AbsReset ==
    ASSUME NEW S \in SUBSET LacpPorts, LacpDownFields(S)
    PROVE  Abs!Next
<1>1. Abs!Reset(S)
  BY DEF LacpDownFields, LacpUpAfterDown, PktAfterDown, Abs!Reset
<1>2. QED
  BY <1>1 DEF Abs!Next

\* lacp_handler sets dyn_lacp_up to the PDU's actor state and records it.
LEMMA AbsReceive ==
    ASSUME TypeOK, NEW p \in LacpPorts, NEW pdu \in Pdus, LacpRcv(p, pdu)
    PROVE  Abs!Next
<1>1. pdu.actorUp \in {0, 1} /\ lacpUp \in [LacpPorts -> {0, 1}]
  BY PduAssumption DEF TypeOK
<1>2. lacpUp' = [lacpUp EXCEPT ![p] = pdu.actorUp]
  <2>1. CASE lacpUp[p] # pdu.actorUp /\ pdu.actorUp = 0
    BY <1>1, <2>1 DEF LacpRcv, LacpUpAfterDown
  <2>2. CASE lacpUp[p] # pdu.actorUp /\ pdu.actorUp = 1
    BY <1>1, <2>2 DEF LacpRcv
  <2>3. CASE lacpUp[p] = pdu.actorUp
    BY <1>1, <2>3 DEF LacpRcv
  <2>4. QED
    BY <1>1, <2>1, <2>2, <2>3
<1>3. lastLacpPkt' = [lastLacpPkt EXCEPT ![p] = pdu]
  BY DEF LacpRcv
<1>4. QED
  BY <1>2, <1>3 DEF Abs!Next, Abs!Receive

\* Every step of ValvePorts is a step of LacpAbstract or leaves the LACP
\* state alone.
LEMMA AbsStep == TypeOK /\ [Next]_vars => [Abs!Next]_Abs!absVars
<1> SUFFICES ASSUME TypeOK, [Next]_vars PROVE [Abs!Next]_Abs!absVars
  OBVIOUS
<1>1. ASSUME NEW d \in SUBSET Ports, DatapathConnect(d) PROVE Abs!Next
  <2>1. ConnectLacpDown(d) \in SUBSET LacpPorts /\ LacpDownFields(ConnectLacpDown(d))
    BY <1>1 DEF DatapathConnect, ConnectLacpDown
  <2>2. QED
    BY <2>1, AbsReset
<1>2. CASE DatapathDisconnect
  BY <1>2 DEF DatapathDisconnect, Abs!absVars
<1>3. ASSUME NEW p \in Ports, NEW r \in PortReasons, NEW l \in BOOLEAN, PortStatus(p, r, l)
      PROVE  [Abs!Next]_Abs!absVars
  <2>1. CASE r \in {"ADD", "DELETE", "MODIFY"}
    <3>1. {p} \cap LacpPorts \in SUBSET LacpPorts /\ LacpDownFields({p} \cap LacpPorts)
      BY <1>3, <2>1 DEF PortStatus
    <3>2. QED
      BY <3>1, AbsReset
  <2>4. CASE r \notin {"ADD", "DELETE", "MODIFY"}
    BY <1>3, <2>4 DEF PortStatus, Abs!absVars
  <2>5. QED
    BY <2>1, <2>4
<1>4. ASSUME NEW p \in LacpPorts, NEW pdu \in Pdus, LacpRcv(p, pdu) PROVE Abs!Next
  BY <1>4, AbsReceive
<1>5. CASE StateExpire
  <2>1. LacpExpired \in SUBSET LacpPorts /\ LacpDownFields(LacpExpired)
    BY <1>5 DEF StateExpire, LacpExpired, LagsUp
  <2>2. QED
    BY <2>1, AbsReset
<1>6. CASE Tick
  BY <1>6 DEF Tick, Abs!absVars
<1>7. CASE UNCHANGED vars
  BY <1>7 DEF vars, Abs!absVars
<1>8. QED
  BY <1>1, <1>2, <1>3, <1>4, <1>5, <1>6, <1>7 DEF Next

\* The LACP engine implements LacpAbstract, for every set of ports, PDUs
\* and timers: a port's dyn_lacp_up is the actor state of the PDU kept in
\* dyn_last_lacp_pkt, or down with none kept, and the two change only
\* together, by lacp_handler receiving a PDU or by lacp_down resetting both.
THEOREM Refinement == Spec => AbsSpec
<1>1. Init => Abs!Init
  BY DEF Init, Abs!Init
<1>2. QED
  BY <1>1, AbsStep, TypeCorrect, PTL DEF Spec, AbsSpec, Abs!Spec

=============================================================================
