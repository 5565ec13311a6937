------------------------- MODULE ValvePacketInProofs -------------------------
(***************************************************************************)
(* Proofs about ValvePacketIn: type correctness and the bound of           *)
(* rate_limit_packet_ins (RateLimitNoOverDrop), for every value of the     *)
(* constants.                                                              *)
(***************************************************************************)
EXTENDS ValvePacketIn, FiniteSetTheorems, TLAPS

USE ConfigAssumption, BoundsAssumption

\* TypeOK in two parts: the Boolean flags, and the rest (the SMT backend
\* proves each, and fails on goals that mix them).
TypeBool == running \in BOOLEAN /\ secSameN \in BOOLEAN
TypeData ==
    /\ cfg \in Configs /\ dpCfg \in Configs
    /\ inflight \subseteq Packets
    /\ now \in 1 .. MaxTime /\ lastSec \in 0 .. MaxTime
    /\ countSec \in Nat /\ secIn \in 0 .. MaxPerSec /\ secIgnored \in 0 .. secIn

\* The count rate_limit_packet_ins continues from: _packet_in_count_sec if
\* it belongs to this second, else none.
EffCount == IF lastSec = now THEN countSec ELSE 0

\* The switch sends no more packet-ins in a second than MaxPerSec, counting
\* the ones still queued; the queue is finite.
InflightBudget ==
    /\ IsFiniteSet(inflight)
    /\ secIn + Cardinality(inflight) <= MaxPerSec

\* The count is never ahead of the clock.
CountNotAhead == lastSec <= now

\* Within a second of unchanged N, the count is q blocks of N and r more;
\* each complete block since the last restart ended in one ignored
\* packet-in, so the packet-ins ignored, N each, and the r since the last
\* ignored one together never exceed the packet-ins handled.
RateInv ==
    (cfg.ignore # 0 /\ secSameN) =>
        \E q \in 0 .. EffCount, r \in 0 .. cfg.ignore - 1 :
            /\ EffCount = q * cfg.ignore + r
            /\ secIgnored * cfg.ignore + r <= secIn

IInv == TypeBool /\ TypeData /\ InflightBudget /\ CountNotAhead /\ RateInv

-----------------------------------------------------------------------------
(* Lemmas.                                                                 *)

LEMMA TypeSplit == TypeOK <=> TypeBool /\ TypeData
  BY DEF TypeOK, TypeBool, TypeData

\* The remainder of q * n + r by n, for r below n.
LEMMA ModOf ==
    ASSUME NEW n \in Nat \ {0}, NEW q \in Nat, NEW r \in 0 .. n - 1
    PROVE  (q * n + r) % n = r
  BY SMT

\* When the count restarts, the invariant of the rate limit holds again
\* for the packet-ins handled so far, if the ignored ones are within N each.
LEMMA RateRestart ==
    ASSUME EffCount' = 0, cfg'.ignore \in Nat, secIgnored' \in Nat, secIn' \in Nat,
           cfg'.ignore # 0 /\ secSameN' => secIgnored' * cfg'.ignore <= secIn'
    PROVE  RateInv'
  <1> SUFFICES ASSUME cfg'.ignore # 0, secSameN'
               PROVE  \E q \in 0 .. EffCount', r \in 0 .. cfg'.ignore - 1 :
                          /\ EffCount' = q * cfg'.ignore + r
                          /\ secIgnored' * cfg'.ignore + r <= secIn'
    BY DEF RateInv
  <1>1. secIgnored' * cfg'.ignore <= secIn'
    OBVIOUS
  <1>2. secIgnored' * cfg'.ignore + 0 <= secIn' /\ EffCount' = 0 * cfg'.ignore + 0
    BY <1>1
  <1>3. QED
    BY <1>2

LEMMA IInvInit == Init => IInv
  <1> SUFFICES ASSUME Init PROVE IInv
    OBVIOUS
  <1>1. TypeBool
    BY DEF Init, TypeBool
  <1>2. TypeData
    BY DEF Init, TypeData
  <1>3. InflightBudget
    BY FS_EmptySet DEF Init, InflightBudget
  <1>4. CountNotAhead
    BY DEF Init, CountNotAhead
  <1>5. RateInv
    <2>1. EffCount = 0 /\ secIgnored = 0 /\ secIn = 0 /\ cfg.ignore \in Nat
      BY DEF Init, EffCount, IsConfig
    <2>2. QED
      BY <2>1 DEF RateInv
  <1>6. QED
    BY <1>1, <1>2, <1>3, <1>4, <1>5 DEF IInv

LEMMA ConnectStep == IInv /\ DatapathConnect => IInv'
  <1> SUFFICES ASSUME IInv, DatapathConnect PROVE IInv'
    OBVIOUS
  <1>1. TypeBool'
    BY DEF IInv, TypeBool, DatapathConnect
  <1>2. TypeData' /\ InflightBudget' /\ CountNotAhead' /\ RateInv'
    BY DEF IInv, TypeData, InflightBudget, CountNotAhead, RateInv, EffCount, DatapathConnect
  <1>3. QED
    BY <1>1, <1>2 DEF IInv

LEMMA DisconnectStep == IInv /\ DatapathDisconnect => IInv'
  <1> SUFFICES ASSUME IInv, DatapathDisconnect PROVE IInv'
    OBVIOUS
  <1>1. TypeBool'
    BY DEF IInv, TypeBool, DatapathDisconnect
  <1>2. TypeData' /\ CountNotAhead' /\ RateInv'
    BY DEF IInv, TypeData, CountNotAhead, RateInv, EffCount, DatapathDisconnect
  <1>3. InflightBudget'
    BY FS_EmptySet DEF IInv, TypeData, InflightBudget, DatapathDisconnect
  <1>4. QED
    BY <1>1, <1>2, <1>3 DEF IInv

LEMMA SwitchStep ==
    ASSUME NEW pk \in Packets, IInv, SwitchPacketIn(pk) PROVE IInv'
  <1>1. IsFiniteSet(inflight) /\ inflight' = inflight \cup {pk}
    BY DEF IInv, InflightBudget, SwitchPacketIn
  <1>2. Cardinality(inflight) \in Nat
    BY <1>1, FS_CardinalityType
  <1>a. IsFiniteSet(inflight') /\ Cardinality(inflight') <= Cardinality(inflight) + 1
    BY <1>1, <1>2, FS_AddElement
  <1>b. Cardinality(inflight') \in Nat
    BY <1>a, FS_CardinalityType
  <1>3. InflightBudget'
    BY <1>a, <1>b, <1>2 DEF IInv, TypeData, InflightBudget, SwitchPacketIn
  <1>4. TypeBool'
    BY DEF IInv, TypeBool, SwitchPacketIn
  <1>5. TypeData' /\ CountNotAhead' /\ RateInv'
    BY DEF IInv, TypeData, CountNotAhead, RateInv, EffCount, SwitchPacketIn
  <1>6. QED
    BY <1>3, <1>4, <1>5 DEF IInv

LEMMA PacketInStep ==
    ASSUME NEW pk \in inflight, IInv, PacketIn(pk) PROVE IInv'
  <1>1. IsFiniteSet(inflight') /\ Cardinality(inflight') = Cardinality(inflight) - 1
    BY FS_RemoveElement DEF IInv, InflightBudget, PacketIn
  <1>2. Cardinality(inflight) \in Nat /\ Cardinality(inflight) >= 1
    BY FS_CardinalityType, FS_EmptySet DEF IInv, InflightBudget
  <1>3. InflightBudget' /\ secIn' <= MaxPerSec
    BY <1>1, <1>2 DEF IInv, TypeData, InflightBudget, PacketIn
  <1>4. EffCount \in Nat /\ NextCount = EffCount + 1
    BY DEF IInv, TypeData, EffCount, NextCount
  <1>5. EffCount' = NextCount
    BY DEF PacketIn, EffCount
  <1>6. TypeBool'
    BY DEF IInv, TypeBool, PacketIn
  <1>7. TypeData'
    BY <1>3, <1>4 DEF IInv, TypeData, PacketIn
  <1>8. CountNotAhead'
    BY DEF IInv, TypeData, PacketIn, CountNotAhead
  <1>9. RateInv'
    <2> SUFFICES ASSUME cfg.ignore # 0, secSameN
                 PROVE  \E q \in 0 .. EffCount', r \in 0 .. cfg.ignore - 1 :
                            /\ EffCount' = q * cfg.ignore + r
                            /\ secIgnored' * cfg.ignore + r <= secIn'
      BY DEF RateInv, PacketIn
    <2> DEFINE n == cfg.ignore
    <2>1. n \in Nat \ {0} /\ secIgnored \in Nat /\ secIn \in Nat
      BY DEF IInv, TypeData, IsConfig
    <2>2. PICK q \in 0 .. EffCount, r \in 0 .. n - 1 :
                /\ EffCount = q * n + r
                /\ secIgnored * n + r <= secIn
      BY DEF IInv, RateInv
    <2>3. EffCount' = EffCount + 1 /\ secIn' = secIn + 1
      BY <1>4, <1>5 DEF PacketIn
    <2>4. CASE r + 1 = n
      <3>1. EffCount' = (q + 1) * n + 0
        BY <2>1, <2>2, <2>3, <2>4, <1>4
      <3>2. EffCount' % n = 0
        BY <3>1, <2>1, <1>4, ModOf
      <3>3. secIgnored' = secIgnored + 1
        BY <3>2, <1>5 DEF PacketIn, RateLimited
      <3>4. (secIgnored + 1) * n + 0 <= secIn + 1 /\ q + 1 \in 0 .. EffCount'
        BY <2>1, <2>2, <2>4, <2>3, <1>4
      <3>5. QED
        BY <3>1, <3>3, <3>4, <2>3, <2>1
    <2>5. CASE r + 1 # n
      <3>0. r + 1 \in 0 .. n - 1
        BY <2>1, <2>5
      <3>1. EffCount' = q * n + (r + 1) /\ r + 1 \in 0 .. n - 1
        BY <3>0, <2>1, <2>2, <2>3, <1>4
      <3>a. q \in Nat
        BY <2>2, <1>4
      <3>b. (q * n + (r + 1)) % n = r + 1
        BY <3>0, <3>a, <2>1, ModOf
      <3>2. EffCount' % n = r + 1
        BY <3>1, <3>b
      <3>3. secIgnored' = secIgnored
        BY <3>2, <1>5 DEF PacketIn, RateLimited
      <3>4. secIgnored * n + (r + 1) <= secIn + 1 /\ q \in 0 .. EffCount'
        BY <2>1, <2>2, <2>3, <1>4
      <3>5. QED
        BY <3>1, <3>3, <3>4, <2>3
    <2>6. QED
      BY <2>4, <2>5
  <1>10. QED
    BY <1>3, <1>6, <1>7, <1>8, <1>9 DEF IInv

LEMMA TickStep == IInv /\ Tick => IInv'
  <1> SUFFICES ASSUME IInv, Tick PROVE IInv'
    OBVIOUS
  <1>1. EffCount' = 0
    BY DEF IInv, TypeData, CountNotAhead, Tick, EffCount
  <1>2. RateInv'
    <2>1. cfg' = cfg /\ cfg.ignore \in Nat /\ secIgnored' = 0 /\ secIn' = 0
      BY DEF IInv, TypeData, IsConfig, Tick
    <2>2. cfg'.ignore \in Nat /\ secIgnored' \in Nat /\ secIn' \in Nat
          /\ secIgnored' * cfg'.ignore <= secIn'
      BY <2>1
    <2>3. QED
      BY <1>1, <2>2, RateRestart
  <1>3. TypeBool'
    BY DEF IInv, TypeBool, Tick
  <1>4. TypeData'
    BY DEF IInv, TypeData, Tick
  <1>5. InflightBudget'
    <2>1. IsFiniteSet(inflight) /\ inflight' = inflight /\ secIn' = 0 /\ secIn \in Nat
      BY DEF IInv, InflightBudget, TypeData, Tick
    <2>2. Cardinality(inflight) \in Nat
      BY <2>1, FS_CardinalityType
    <2>3. QED
      BY <2>1, <2>2 DEF IInv, InflightBudget
  <1>6. CountNotAhead'
    BY DEF IInv, TypeData, CountNotAhead, Tick
  <1>7. QED
    BY <1>2, <1>3, <1>4, <1>5, <1>6 DEF IInv

LEMMA ReloadStep ==
    ASSUME NEW new \in Configs, IInv, ReloadConfig(new) PROVE IInv'
  <1>1. EffCount' = 0
    BY DEF IInv, TypeData, ReloadConfig, EffCount
  <1>2. TypeBool'
    BY DEF IInv, TypeBool, ReloadConfig
  <1>3. TypeData'
    BY DEF IInv, TypeData, ReloadConfig
  <1>a. (inflight' = {} \/ inflight' = inflight) /\ secIn' = secIn
    BY DEF ReloadConfig
  <1>4. InflightBudget'
    <2>1. CASE inflight' = {}
      BY <2>1, <1>a, FS_EmptySet DEF IInv, TypeData, InflightBudget
    <2>2. CASE inflight' = inflight
      BY <2>2, <1>a DEF IInv, InflightBudget
    <2>3. QED
      BY <1>a, <2>1, <2>2
  <1>5. CountNotAhead'
    BY DEF IInv, TypeData, CountNotAhead, ReloadConfig
  <1>6. new.ignore # 0 /\ secSameN' => secIgnored' * new.ignore <= secIn'
    <2> SUFFICES ASSUME new.ignore # 0, secSameN'
                 PROVE  secIgnored' * new.ignore <= secIn'
      OBVIOUS
    <2>1. secSameN /\ new.ignore = cfg.ignore
      BY DEF ReloadConfig
    <2>2. PICK q \in 0 .. EffCount, r \in 0 .. cfg.ignore - 1 :
                secIgnored * cfg.ignore + r <= secIn
      BY <2>1 DEF IInv, RateInv
    <2>3. QED
      BY <2>1, <2>2 DEF IInv, TypeData, IsConfig, ReloadConfig
  <1>7. RateInv'
    <2>1. cfg' = new /\ new.ignore \in Nat /\ secIgnored' \in Nat /\ secIn' \in Nat
      BY <1>3 DEF TypeData, IsConfig, ReloadConfig
    <2>2. QED
      BY <1>1, <1>6, <2>1, RateRestart
  <1>8. QED
    BY <1>2, <1>3, <1>4, <1>5, <1>7 DEF IInv

LEMMA IInvStep == IInv /\ [Next]_vars => IInv'
  <1> SUFFICES ASSUME IInv, [Next]_vars PROVE IInv'
    OBVIOUS
  <1>1. CASE DatapathConnect
    BY <1>1, ConnectStep
  <1>2. CASE DatapathDisconnect
    BY <1>2, DisconnectStep
  <1>3. CASE \E pk \in Packets : SwitchPacketIn(pk)
    BY <1>3, SwitchStep
  <1>4. CASE \E pk \in inflight : PacketIn(pk)
    BY <1>4, PacketInStep
  <1>5. CASE Tick
    BY <1>5, TickStep
  <1>6. CASE \E c \in Configs : ReloadConfig(c)
    BY <1>6, ReloadStep
  <1>7. CASE UNCHANGED vars
    BY <1>7 DEF vars, IInv, TypeBool, TypeData, InflightBudget, CountNotAhead,
                RateInv, EffCount
  <1>8. QED
    BY <1>1, <1>2, <1>3, <1>4, <1>5, <1>6, <1>7 DEF Next

-----------------------------------------------------------------------------
(* Theorems.                                                               *)

\* IInv holds in every state of every behaviour.
THEOREM IInvariant == Spec => []IInv
  BY IInvInit, IInvStep, PTL DEF Spec

\* The packet-in state keeps its types: in particular the packet-ins
\* handled in a second never exceed what the switch sends in one.
THEOREM TypeCorrect == Spec => []TypeOK
  BY IInvariant, TypeSplit, PTL DEF IInv

\* rate_limit_packet_ins ignores at most one packet-in in N within a second
\* in which N did not change, whatever N, the clock and the reloads.
THEOREM RateLimitNoOverDropTheorem == Spec => []RateLimitNoOverDrop
  <1>1. IInv => RateLimitNoOverDrop
    <2> SUFFICES ASSUME IInv, cfg.ignore # 0, secSameN
                 PROVE  secIgnored * cfg.ignore <= secIn
      BY DEF RateLimitNoOverDrop
    <2>1. PICK q \in 0 .. EffCount, r \in 0 .. cfg.ignore - 1 :
                secIgnored * cfg.ignore + r <= secIn
      BY DEF IInv, RateInv
    <2>2. QED
      BY <2>1 DEF IInv, TypeData, IsConfig
  <1>2. QED
    BY <1>1, IInvariant, PTL

=============================================================================
