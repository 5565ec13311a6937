-------------------------- MODULE ValveStackProofs --------------------------
(***************************************************************************)
(* Proofs about ValveStack for every value of its constants.               *)
(***************************************************************************)
EXTENDS ValveStack, TLAPS

USE DpAssumption, PeerAssumption, CablingAssumption, TimingAssumption,
    NoneAssumption

\* A port has a stack_correct value exactly when it has a probe time.
ProbeConsistent ==
    \A p \in StackPorts : (seenAge[p] = None) <=> (stackCorrect[p] = None)

\* A port whose last probe was correct is cabled to its configured peer.
CorrectMeansCabled ==
    \A p \in StackPorts : stackCorrect[p] = TRUE => wire[p] = Peer[p]

IInv ==
    /\ TypeOK
    /\ ViewsAgree
    /\ FloodTopoFresh
    /\ ProbeConsistent
    /\ CorrectMeansCabled

\* None is neither a time, a Boolean nor a link state.
LEMMA NoneFacts ==
    /\ None # 0
    /\ None \notin BOOLEAN
    /\ None \notin States
BY NoneAssumption DEF States

-----------------------------------------------------------------------------
(* The state machine and the update.                                       *)

\* Probe info as _next_stack_link_state may find it.
ProbeInfo(ls, sc) ==
    /\ ls \in [StackPorts -> (0..SeenCap) \cup {None}]
    /\ sc \in [StackPorts -> BOOLEAN \cup {None}]
    /\ \A p \in StackPorts : (ls[p] = None) <=> (sc[p] = None)

\* _next_stack_link_state returns a state different from the current one,
\* or None, and what it returns is justified by the probe info.
LEMMA NextStackStateFacts ==
    ASSUME NEW p \in StackPorts, NEW ls, NEW sc, ProbeInfo(ls, sc),
           stackState[p] \in States
    PROVE  /\ NextStackState(p, ls, sc) \in States \cup {None}
           /\ NextStackState(p, ls, sc) # stackState[p]
           /\ NextStackState(p, ls, sc) = "INIT" =>
                 stackState[p] = "DOWN" /\ ls[p] = None
           /\ NextStackState(p, ls, sc) = "UP" => ls[p] # None /\ sc[p] = TRUE
           /\ NextStackState(p, ls, sc) = "DOWN" => ls[p] # None
<1>1. ls[p] \in (0..SeenCap) \cup {None} /\ sc[p] \in BOOLEAN \cup {None}
  BY DEF ProbeInfo
<1>2. ls[p] # None => sc[p] \in BOOLEAN
  BY <1>1 DEF ProbeInfo
<1>3. QED
  BY <1>1, <1>2, NoneAssumption DEF NextStackState, States

\* The effect of _update_stack_link_state on a state satisfying the
\* invariant: the ports that change are the ones whose next state is not
\* None, every Valve's view and every running datapath's flooding follow.
LEMMA UpdateFacts ==
    ASSUME TypeOK, ViewsAgree, FloodTopoFresh,
           NEW d \in Dps, NEW S \in SUBSET StackPorts, NEW ls, NEW sc,
           ProbeInfo(ls, sc),
           UpdateStackLinkState(d, S, ls, sc)
    PROVE  /\ stackState' \in [StackPorts -> States]
           /\ topo' \in [Dps -> SUBSET StackPorts]
           /\ floodTopo' \in [Dps -> SUBSET StackPorts]
           /\ \A p \in StackPorts :
                 \/ stackState'[p] = stackState[p]
                 \/ stackState'[p] = NextStackState(p, ls, sc)
           /\ \A w \in Dps : topo'[w] = {p \in StackPorts : stackState'[p] = "UP"}
           /\ \A w \in Dps :
                 running[w] => floodTopo'[w] = {p \in StackPorts : stackState'[p] = "UP"}
<1> DEFINE ns(p) == NextStackState(p, ls, sc)
           changed == {p \in S : ns(p) # None}
           st == [p \in StackPorts |->
                    IF p \in S THEN ApplyState(stackState[p], ns(p))
                    ELSE stackState[p]]
           up == {p \in changed : st[p] = "UP"}
           newTopo == [w \in Dps |->
                         IF w \in FanOut(d) THEN (topo[w] \ changed) \cup up ELSE topo[w]]
<1>1. /\ stackState' = st
      /\ topo' = newTopo
      /\ floodTopo' = [w \in Dps |->
                         IF changed # {} /\ w \in Reflooded(d) THEN newTopo[w]
                         ELSE floodTopo[w]]
  BY DEF UpdateStackLinkState
<1>2. \A p \in StackPorts : ns(p) \in States \cup {None}
  <2> SUFFICES ASSUME NEW p \in StackPorts PROVE ns(p) \in States \cup {None}
    OBVIOUS
  <2>1. stackState[p] \in States
    BY DEF TypeOK
  <2>2. QED
    BY <2>1, NextStackStateFacts
<1>3. \A p \in StackPorts : st[p] = IF p \in changed THEN ns(p) ELSE stackState[p]
  BY DEF ApplyState
<1>4. st \in [StackPorts -> States]
  BY <1>2, <1>3 DEF TypeOK
<1>5. {p \in StackPorts : st[p] = "UP"} = (UpPorts \ changed) \cup up
  BY <1>3 DEF UpPorts
<1>6. \A w \in Dps : newTopo[w] = {p \in StackPorts : st[p] = "UP"}
  BY <1>5 DEF ViewsAgree, FanOut
<1>7. changed = {} => st = stackState
  BY <1>3 DEF TypeOK
<1>8. \A w \in Dps :
         running[w] => [w2 \in Dps |->
                         IF changed # {} /\ w2 \in Reflooded(d) THEN newTopo[w2]
                         ELSE floodTopo[w2]][w] = {p \in StackPorts : st[p] = "UP"}
  <2> SUFFICES ASSUME NEW w \in Dps, running[w]
               PROVE  (IF changed # {} /\ w \in Reflooded(d) THEN newTopo[w]
                       ELSE floodTopo[w]) = {p \in StackPorts : st[p] = "UP"}
    OBVIOUS
  <2>1. CASE changed # {}
    BY <2>1, <1>6 DEF Reflooded, FanOut
  <2>2. CASE changed = {}
    BY <2>2, <1>7 DEF FloodTopoFresh, UpPorts
  <2>3. QED
    BY <2>1, <2>2
<1>9. \A p \in StackPorts : st[p] = stackState[p] \/ st[p] = ns(p)
  BY <1>3
<1>10. QED
  BY <1>1, <1>4, <1>6, <1>8, <1>9 DEF TypeOK

-----------------------------------------------------------------------------
(* The inductive invariant, one lemma per action.                          *)

LEMMA IInvInit == Init => IInv
<1> SUFFICES ASSUME Init PROVE IInv
  OBVIOUS
<1>1. TypeOK
  BY TimingAssumption DEF Init, TypeOK, States
<1>2. ViewsAgree /\ FloodTopoFresh
  BY DEF Init, ViewsAgree, FloodTopoFresh, UpPorts
<1>3. ProbeConsistent /\ CorrectMeansCabled
  BY NoneAssumption DEF Init, ProbeConsistent, CorrectMeansCabled
<1>4. QED
  BY <1>1, <1>2, <1>3 DEF IInv

LEMMA IInvConnect ==
    ASSUME IInv, NEW d \in Dps, DatapathConnect(d)
    PROVE  IInv'
BY DEF IInv, DatapathConnect, TypeOK, ViewsAgree, FloodTopoFresh, UpPorts,
   ProbeConsistent, CorrectMeansCabled

LEMMA IInvDisconnect ==
    ASSUME IInv, NEW d \in Dps, DatapathDisconnect(d)
    PROVE  IInv'
BY DEF IInv, DatapathDisconnect, TypeOK, ViewsAgree, FloodTopoFresh, UpPorts,
   ProbeConsistent, CorrectMeansCabled

LEMMA IInvAdvertise ==
    ASSUME IInv, NEW d \in Dps, FastAdvertise(d)
    PROVE  IInv'
BY DEF IInv, FastAdvertise, PortsOf, TypeOK, ViewsAgree, FloodTopoFresh,
   UpPorts, ProbeConsistent, CorrectMeansCabled

LEMMA IInvLose ==
    ASSUME IInv, NEW b \in StackPorts, LoseBeacon(b)
    PROVE  IInv'
BY DEF IInv, LoseBeacon, TypeOK, ViewsAgree, FloodTopoFresh, UpPorts,
   ProbeConsistent, CorrectMeansCabled

LEMMA IInvTick ==
    ASSUME IInv, Tick
    PROVE  IInv'
<1>1. seenAge' \in [StackPorts -> (0..SeenCap) \cup {None}]
  BY TimingAssumption DEF Tick, IInv, TypeOK, SeenCap
<1>2. advAge' \in [Dps -> 0..FastAdvInterval]
  BY DEF Tick, IInv, TypeOK
<1>3. \A p \in StackPorts : (seenAge'[p] = None) <=> (seenAge[p] = None)
  BY NoneAssumption DEF Tick, IInv, TypeOK, SeenCap
<1>4. QED
  BY <1>1, <1>2, <1>3 DEF Tick, IInv, TypeOK, ViewsAgree, FloodTopoFresh,
     UpPorts, ProbeConsistent, CorrectMeansCabled

LEMMA IInvExpire ==
    ASSUME IInv, NEW d \in Dps, FastStateExpire(d)
    PROVE  IInv'
<1>1. ProbeInfo(seenAge, stackCorrect)
  BY DEF IInv, TypeOK, ProbeConsistent, ProbeInfo
<1>2. PortsOf(d) \in SUBSET StackPorts
  BY DEF PortsOf
<1>3. /\ stackState' \in [StackPorts -> States]
      /\ topo' \in [Dps -> SUBSET StackPorts]
      /\ floodTopo' \in [Dps -> SUBSET StackPorts]
      /\ \A w \in Dps : topo'[w] = {p \in StackPorts : stackState'[p] = "UP"}
      /\ \A w \in Dps :
            running[w] => floodTopo'[w] = {p \in StackPorts : stackState'[p] = "UP"}
  BY <1>1, <1>2, UpdateFacts DEF IInv, FastStateExpire
<1>4. QED
  BY <1>3 DEF IInv, FastStateExpire, TypeOK, ViewsAgree, FloodTopoFresh, UpPorts,
     ProbeConsistent, CorrectMeansCabled

\* The facts of one lldp_handler step that the invariant and the
\* refinement need.
LEMMA LldpRcvFacts ==
    ASSUME IInv, NEW b \in StackPorts, LldpRcv(b)
    PROVE  LET q == wire[b]
               ls == [seenAge EXCEPT ![q] = 0]
               sc == [stackCorrect EXCEPT ![q] = StackCorrect(q, b)]
           IN  /\ q \in StackPorts
               /\ ProbeInfo(ls, sc)
               /\ seenAge' = ls
               /\ stackCorrect' = sc
               /\ UpdateStackLinkState(DpOf[q], {q}, ls, sc)
               /\ sc[q] = TRUE => wire[q] = Peer[q]
<1> DEFINE q == wire[b]
           ls == [seenAge EXCEPT ![q] = 0]
           sc == [stackCorrect EXCEPT ![q] = StackCorrect(q, b)]
<1>1. wire \in Involutions
  BY DEF IInv, TypeOK
<1>2. q \in StackPorts
  BY <1>1 DEF Involutions
<1>3. ProbeInfo(ls, sc)
  <2>1. SeenCap \in Nat
    BY TimingAssumption DEF SeenCap
  <2>2. ls \in [StackPorts -> (0..SeenCap) \cup {None}]
    BY <1>2, <2>1 DEF IInv, TypeOK
  <2>3. sc \in [StackPorts -> BOOLEAN \cup {None}]
    BY <1>2 DEF IInv, TypeOK, StackCorrect
  <2>4. \A p \in StackPorts : (ls[p] = None) <=> (sc[p] = None)
    <3> SUFFICES ASSUME NEW p \in StackPorts PROVE (ls[p] = None) <=> (sc[p] = None)
      OBVIOUS
    <3>1. CASE p = q
      <4>1. ls[p] = 0 /\ sc[p] = (b = Peer[q])
        BY <1>2, <3>1 DEF IInv, TypeOK, StackCorrect
      <4>2. None # 0 /\ None \notin BOOLEAN
        BY NoneFacts
      <4>3. QED
        BY <4>1, <4>2
    <3>2. CASE p # q
      BY <3>2 DEF IInv, TypeOK, ProbeConsistent
    <3>3. QED
      BY <3>1, <3>2
  <2>5. QED
    BY <2>2, <2>3, <2>4 DEF ProbeInfo
<1>4. sc[q] = TRUE => wire[q] = Peer[q]
  <2>1. sc[q] = (b = Peer[q])
    BY <1>2 DEF IInv, TypeOK, StackCorrect
  <2>2. wire[q] = b
    BY <1>1 DEF Involutions
  <2>3. QED
    BY <2>1, <2>2
<1>5. QED
  BY <1>2, <1>3, <1>4 DEF LldpRcv

LEMMA IInvLldpRcv ==
    ASSUME IInv, NEW b \in StackPorts, LldpRcv(b)
    PROVE  IInv'
<1> DEFINE q == wire[b]
           ls == [seenAge EXCEPT ![q] = 0]
           sc == [stackCorrect EXCEPT ![q] = StackCorrect(q, b)]
<1>1. /\ q \in StackPorts
      /\ ProbeInfo(ls, sc)
      /\ seenAge' = ls
      /\ stackCorrect' = sc
      /\ UpdateStackLinkState(DpOf[q], {q}, ls, sc)
      /\ sc[q] = TRUE => wire[q] = Peer[q]
  BY LldpRcvFacts
<1>2. /\ stackState' \in [StackPorts -> States]
      /\ topo' \in [Dps -> SUBSET StackPorts]
      /\ floodTopo' \in [Dps -> SUBSET StackPorts]
      /\ \A w \in Dps : topo'[w] = {p \in StackPorts : stackState'[p] = "UP"}
      /\ \A w \in Dps :
            running[w] => floodTopo'[w] = {p \in StackPorts : stackState'[p] = "UP"}
  BY <1>1, UpdateFacts, DpAssumption DEF IInv
<1>3. /\ running' = running /\ wire' = wire /\ advAge' = advAge
      /\ beacons' \subseteq StackPorts
  BY DEF LldpRcv, IInv, TypeOK
<1>4. CorrectMeansCabled'
  BY <1>1, <1>3 DEF CorrectMeansCabled, IInv
<1>5. QED
  BY <1>1, <1>2, <1>3, <1>4
  DEF IInv, TypeOK, ViewsAgree, FloodTopoFresh, UpPorts, ProbeConsistent,
      ProbeInfo

LEMMA IInvStep == IInv /\ [Next]_vars => IInv'
<1> SUFFICES ASSUME IInv, [Next]_vars PROVE IInv'
  OBVIOUS
<1>1. CASE \E d \in Dps : DatapathConnect(d) \/ DatapathDisconnect(d)
  BY <1>1, IInvConnect, IInvDisconnect
<1>2. CASE \E d \in Dps : FastAdvertise(d) \/ FastStateExpire(d)
  BY <1>2, IInvAdvertise, IInvExpire
<1>3. CASE \E b \in StackPorts : LldpRcv(b) \/ LoseBeacon(b)
  BY <1>3, IInvLldpRcv, IInvLose
<1>4. CASE Tick
  BY <1>4, IInvTick
<1>5. CASE UNCHANGED vars
  BY <1>5 DEF vars, IInv, TypeOK, ViewsAgree, FloodTopoFresh, UpPorts,
     ProbeConsistent, CorrectMeansCabled
<1>6. QED
  BY <1>1, <1>2, <1>3, <1>4, <1>5 DEF Next

\* The invariant holds in every reachable state of the stack.
THEOREM IInvariant == Spec => []IInv
BY IInvInit, IInvStep, PTL DEF Spec

\* Every Valve's variables keep their types through every interleaving of
\* connects, beacons, lldp_handler, fast_state_expire and time.
THEOREM TypeCorrect == Spec => []TypeOK
BY IInvariant, PTL DEF IInv

\* The fan-out of _update_stack_link_state keeps every Valve's flood
\* manager agreeing on the UP stack ports, whichever Valve evaluates them.
THEOREM ViewsAgreeTheorem == Spec => []ViewsAgree
BY IInvariant, PTL DEF IInv

\* Every running datapath's flood rules follow the current stack topology.
THEOREM FloodTopoFreshTheorem == Spec => []FloodTopoFresh
BY IInvariant, PTL DEF IInv

-----------------------------------------------------------------------------
(* Refinement of the abstract stack link state machine.                    *)

\* One _update_stack_link_state, with probe info that only adds probes and
\* whose correct probes come from the configured peer, is a step of the
\* abstract machine.
LEMMA UpdateRefines ==
    ASSUME TypeOK, ViewsAgree, FloodTopoFresh,
           NEW d \in Dps, NEW S \in SUBSET StackPorts, NEW ls, NEW sc,
           ProbeInfo(ls, sc),
           UpdateStackLinkState(d, S, ls, sc),
           seenAge' = ls, wire' = wire,
           \A p \in StackPorts : sc[p] = TRUE => wire[p] = Peer[p],
           \A p \in StackPorts : seenAge[p] # None => ls[p] # None
    PROVE  Abs!Next
<1>1. /\ stackState' \in [StackPorts -> States]
      /\ \A p \in StackPorts :
            \/ stackState'[p] = stackState[p]
            \/ stackState'[p] = NextStackState(p, ls, sc)
  <2>1. TypeOK /\ ViewsAgree /\ FloodTopoFresh /\ d \in Dps /\ S \in SUBSET StackPorts
        /\ ProbeInfo(ls, sc) /\ UpdateStackLinkState(d, S, ls, sc)
    OBVIOUS
  <2>2. QED
    BY ONLY <2>1, UpdateFacts
<1>2. \A p \in StackPorts :
         stackState'[p] = stackState[p] \/ Abs!Allowed(p)
  <2> SUFFICES ASSUME NEW p \in StackPorts, stackState'[p] # stackState[p]
               PROVE  Abs!Allowed(p)
    OBVIOUS
  <2>1. stackState'[p] = NextStackState(p, ls, sc) /\ stackState'[p] \in States
    BY <1>1
  <2>2. stackState[p] \in States
    BY DEF TypeOK
  <2>3. /\ NextStackState(p, ls, sc) = "INIT" =>
              stackState[p] = "DOWN" /\ ls[p] = None
        /\ NextStackState(p, ls, sc) = "UP" => ls[p] # None /\ sc[p] = TRUE
        /\ NextStackState(p, ls, sc) = "DOWN" => ls[p] # None
    <3>1. ProbeInfo(ls, sc) /\ p \in StackPorts /\ stackState[p] \in States
      BY <2>2
    <3>2. NextStackState(p, ls, sc) = "INIT" =>
             stackState[p] = "DOWN" /\ ls[p] = None
      BY ONLY <3>1, NextStackStateFacts
    <3>3. NextStackState(p, ls, sc) = "UP" => ls[p] # None /\ sc[p] = TRUE
      <4>1. ls[p] # None => sc[p] \in BOOLEAN
        BY <3>1 DEF ProbeInfo
      <4>2. QED
        BY <4>1 DEF NextStackState
    <3>4. NextStackState(p, ls, sc) = "DOWN" => ls[p] # None
      BY ONLY <3>1, NextStackStateFacts
    <3>5. QED
      BY <3>2, <3>3, <3>4
  <2>4. {r \in StackPorts : seenAge'[r] # None} = {r \in StackPorts : ls[r] # None}
    OBVIOUS
  <2>5. QED
    BY <2>1, <2>3, <2>4 DEF Abs!Allowed, States
<1>3. /\ {r \in StackPorts : seenAge[r] # None}
         \subseteq {r \in StackPorts : seenAge'[r] # None}
      /\ {r \in StackPorts : seenAge'[r] # None} \subseteq StackPorts
  OBVIOUS
<1>4. stackState' \in [StackPorts -> Abs!States]
  BY <1>1 DEF States, Abs!States
<1>5. QED
  BY <1>2, <1>3, <1>4 DEF Abs!Next

\* A step of the stack that changes no link state and no probe time is a
\* stutter of the abstract machine.
LEMMA AbsStutter ==
    ASSUME stackState' = stackState, wire' = wire,
           \A p \in StackPorts : (seenAge'[p] = None) <=> (seenAge[p] = None)
    PROVE  UNCHANGED Abs!absVars
BY DEF Abs!absVars

LEMMA RefineStep ==
    IInv /\ IInv' /\ [Next]_vars => [Abs!Next]_Abs!absVars
<1> SUFFICES ASSUME IInv, IInv', [Next]_vars PROVE [Abs!Next]_Abs!absVars
  OBVIOUS
<1>1. ASSUME NEW d \in Dps, DatapathConnect(d) \/ DatapathDisconnect(d)
      PROVE  UNCHANGED Abs!absVars
  BY <1>1, AbsStutter DEF DatapathConnect, DatapathDisconnect
<1>2. ASSUME NEW d \in Dps, FastAdvertise(d)
      PROVE  UNCHANGED Abs!absVars
  BY <1>2, AbsStutter DEF FastAdvertise
<1>3. ASSUME NEW b \in StackPorts, LoseBeacon(b)
      PROVE  UNCHANGED Abs!absVars
  BY <1>3, AbsStutter DEF LoseBeacon
<1>4. ASSUME Tick
      PROVE  UNCHANGED Abs!absVars
  <2>1. \A p \in StackPorts : (seenAge'[p] = None) <=> (seenAge[p] = None)
    BY <1>4, NoneFacts, TimingAssumption DEF Tick, IInv, TypeOK, SeenCap
  <2>2. QED
    BY <1>4, <2>1, AbsStutter DEF Tick
<1>5. ASSUME NEW d \in Dps, FastStateExpire(d)
      PROVE  Abs!Next
  <2>1. ProbeInfo(seenAge, stackCorrect)
    BY DEF IInv, TypeOK, ProbeConsistent, ProbeInfo
  <2>2. \A p \in StackPorts : stackCorrect[p] = TRUE => wire[p] = Peer[p]
    BY DEF IInv, CorrectMeansCabled
  <2>3. PortsOf(d) \in SUBSET StackPorts
    BY DEF PortsOf
  <2>4. QED
    BY <1>5, <2>1, <2>2, <2>3, UpdateRefines DEF FastStateExpire, IInv
<1>6. ASSUME NEW b \in StackPorts, LldpRcv(b)
      PROVE  Abs!Next
  <2> DEFINE q == wire[b]
             ls == [seenAge EXCEPT ![q] = 0]
             sc == [stackCorrect EXCEPT ![q] = StackCorrect(q, b)]
  <2>1. /\ q \in StackPorts
        /\ ProbeInfo(ls, sc)
        /\ seenAge' = ls
        /\ stackCorrect' = sc
        /\ UpdateStackLinkState(DpOf[q], {q}, ls, sc)
    BY <1>6, LldpRcvFacts
  <2>2. \A p \in StackPorts : sc[p] = TRUE => wire[p] = Peer[p]
    BY <1>6, <2>1 DEF IInv, CorrectMeansCabled, LldpRcv
  <2>3. \A p \in StackPorts : seenAge[p] # None => ls[p] # None
    BY <2>1, NoneFacts DEF IInv, TypeOK
  <2>4. wire' = wire
    BY <1>6 DEF LldpRcv
  <2>5. QED
    BY <2>1, <2>2, <2>3, <2>4, UpdateRefines, DpAssumption DEF IInv
<1>7. ASSUME UNCHANGED vars
      PROVE  UNCHANGED Abs!absVars
  BY <1>7 DEF vars, Abs!absVars
<1>8. QED
  BY <1>1, <1>2, <1>3, <1>4, <1>5, <1>6, <1>7 DEF Next

\* The stack link engine implements the stack link state machine: a port
\* leaves DOWN for INIT only before any probe, and comes UP only after a
\* probe while cabled to its configured peer, under any loss, duplication
\* and reordering of beacons and any timing of fast_state_expire.
THEOREM Refinement == Spec => AbsSpec
<1>1. Init => Abs!Init
  BY CablingAssumption, NoneFacts DEF Init, Abs!Init, Involutions
<1>2. IInv /\ IInv' /\ [Next]_vars => [Abs!Next]_Abs!absVars
  BY RefineStep
<1>3. QED
  BY <1>1, <1>2, IInvariant, PTL DEF Spec, AbsSpec, Abs!Spec

=============================================================================
