-------------------------- MODULE OfErrorRingProofs --------------------------
(***************************************************************************)
(* Proofs about OfErrorRing: type correctness, and that oferror names the  *)
(* message that caused an error whenever the recent messages all belong to *)
(* the current connection and the xid counter has not come round since the *)
(* oldest of them (ErrorCorrelatedInSession), for every ring size, xid    *)
(* width and batch size.                                                   *)
(***************************************************************************)
EXTENDS OfErrorRing, SequenceTheorems, TLAPS

USE RingAssumption, BoundsAssumption

\* The recent messages are the last RingSize sent, entry by entry.
RingIsRecent ==
    /\ Len(ring) = IF Len(sentLog) > RingSize THEN RingSize ELSE Len(sentLog)
    /\ \A i \in 1 .. Len(ring) : ring[i] = sentLog[Len(sentLog) - Len(ring) + i]

\* A message's id is its place in the order of sending.
IdIsPlace == \A i \in 1 .. Len(sentLog) : sentLog[i].id = i

\* Messages took their xids in the order they were sent, none after the
\* last xid issued.
SeqOrdered ==
    \A i \in 1 .. Len(sentLog) :
        /\ sentLog[i].seq <= issued
        /\ \A j \in 1 .. Len(sentLog) : i < j => sentLog[i].seq < sentLog[j].seq

\* firstOfConn is at most one past the last message sent.
FirstInLog == firstOfConn \in 1 .. Len(sentLog) + 1

\* A message of this connection that took its xid fewer than XidMod xids
\* ago has the counter's value wound back by that many: the counter
\* advanced once for it and each xid issued since.
XidInv ==
    \A i \in firstOfConn .. Len(sentLog) :
        issued - sentLog[i].seq < XidMod =>
            (sentLog[i].xid + (issued - sentLog[i].seq)) % XidMod = xid

\* Every error the switch will send is about a message of this connection
\* and carries that message's xid; with no connection there is none.
PendingInv ==
    /\ \A e \in pending :
           /\ e.cause \in firstOfConn .. Len(sentLog)
           /\ e.xid = sentLog[e.cause].xid
    /\ ~connected => pending = {}

IInv == TypeOK /\ RingIsRecent /\ IdIsPlace /\ SeqOrdered /\ FirstInLog
        /\ XidInv /\ PendingInv

-----------------------------------------------------------------------------
(* Arithmetic modulo the xid space.                                        *)

\* The remainder of q * n + r by n, for r below n.
LEMMA ModOf ==
    ASSUME NEW n \in Nat \ {0}, NEW q \in Nat, NEW r \in 0 .. n - 1
    PROVE  (q * n + r) % n = r
  BY SMT

\* Division with remainder.
LEMMA DivMod ==
    ASSUME NEW n \in Nat \ {0}, NEW c \in Nat
    PROVE  /\ c \div n \in Nat
           /\ c % n \in 0 .. n - 1
           /\ c = (c \div n) * n + (c % n)
  <1>1. c \div n \in Nat /\ (c \div n) * n <= c /\ c < (c \div n) * n + n
    BY SMT
  <1>2. c - (c \div n) * n \in 0 .. n - 1
    BY <1>1
  <1>3. c % n = c - (c \div n) * n
    <2>1. c = (c \div n) * n + (c - (c \div n) * n)
      BY <1>1
    <2>2. QED
      BY <1>1, <1>2, <2>1, ModOf
  <1>4. c % n \in 0 .. n - 1
    BY <1>2, <1>3
  <1>5. c = (c \div n) * n + (c % n)
    BY <1>1, <1>3
  <1>6. QED
    BY <1>1, <1>4, <1>5

\* Adding to a number and to its remainder leaves the same remainder.
LEMMA ModAdd ==
    ASSUME NEW n \in Nat \ {0}, NEW a \in Nat, NEW k \in Nat
    PROVE  (a + k) % n = ((a % n) + k) % n
  <1>1. a = (a \div n) * n + (a % n) /\ a \div n \in Nat /\ a % n \in 0 .. n - 1
    BY DivMod
  <1> DEFINE b == (a % n) + k
  <1>2. b \in Nat
    BY <1>1
  <1>3. b = (b \div n) * n + (b % n) /\ b \div n \in Nat /\ b % n \in 0 .. n - 1
    BY <1>2, DivMod
  <1>4. a + k = ((a \div n) + (b \div n)) * n + (b % n)
    BY <1>1, <1>3
  <1>5. (a \div n) + (b \div n) \in Nat
    BY <1>1, <1>3
  <1>6. (((a \div n) + (b \div n)) * n + (b % n)) % n = b % n
    BY <1>3, <1>5, ModOf
  <1>7. QED
    BY <1>4, <1>6

\* Two numbers below n, added to the same number below n, have the same
\* remainder only if they are equal.
LEMMA ModCancel ==
    ASSUME NEW n \in Nat \ {0}, NEW x \in 0 .. n - 1,
           NEW d1 \in 0 .. n - 1, NEW d2 \in 0 .. n - 1,
           (x + d1) % n = (x + d2) % n
    PROVE  d1 = d2
  <1>1. \A a \in 0 .. 2 * n - 1 : a % n = IF a < n THEN a ELSE a - n
    <2> TAKE a \in 0 .. 2 * n - 1
    <2>1. CASE a < n
      <3>1. a = 0 * n + a /\ a \in 0 .. n - 1
        BY <2>1
      <3>2. QED
        BY <2>1, <3>1, ModOf
    <2>2. CASE ~(a < n)
      <3>1. a = 1 * n + (a - n) /\ a - n \in 0 .. n - 1
        BY <2>2
      <3>2. QED
        BY <2>2, <3>1, ModOf
    <2>3. QED
      BY <2>1, <2>2
  <1>2. x + d1 \in 0 .. 2 * n - 1 /\ x + d2 \in 0 .. 2 * n - 1
    OBVIOUS
  <1>3. QED
    BY <1>1, <1>2

\* The xid space is not empty.
LEMMA XidModType == XidMod \in Nat \ {0}
  BY DEF XidMod

\* The counter advanced i times is an xid.
LEMMA NextXidType ==
    ASSUME NEW x \in Nat, NEW i \in Nat
    PROVE  NextXid(x, i) \in 0 .. XidMod - 1
  BY XidModType, DivMod DEF NextXid

-----------------------------------------------------------------------------
(* The messages of one send_flows call, and the deque's extend.            *)

\* The batch SendFlows(k, _) sends.
Batch(k) == [i \in 1 .. k |->
               [id |-> Len(sentLog) + i, xid |-> NextXid(xid, i),
                seq |-> issued + i]]

\* The batch is a sequence of k messages.
LEMMA BatchType ==
    ASSUME TypeOK, NEW k \in Nat
    PROVE  /\ Batch(k) \in Seq(Msg)
           /\ Len(Batch(k)) = k
  <1>1. Len(sentLog) \in Nat
    BY LenProperties DEF TypeOK
  <1>2. \A i \in 1 .. k : Batch(k)[i] \in Msg
    <2> TAKE i \in 1 .. k
    <2>1. xid \in Nat /\ issued \in Nat
      BY XidModType DEF TypeOK
    <2>2. NextXid(xid, i) \in 0 .. XidMod - 1
      BY <2>1, NextXidType
    <2>3. QED
      BY <1>1, <2>1, <2>2 DEF Batch, Msg
  <1>3. Batch(k) \in [1 .. k -> Msg]
    BY <1>2 DEF Batch
  <1>4. Batch(k) \in Seq(Msg)
    BY <1>3, SeqDef
  <1>5. QED
    BY <1>3, <1>4, LenProperties

\* What a SendFlows step does, with its batch named.
LEMMA SendFlowsUnfold ==
    ASSUME NEW k, NEW rejected, SendFlows(k, rejected)
    PROVE  /\ connected
           /\ Len(sentLog) + k <= MaxMsgs
           /\ issued + k <= MaxXids
           /\ ring' = ExtendRing(ring, Batch(k))
           /\ sentLog' = sentLog \o Batch(k)
           /\ xid' = NextXid(xid, k)
           /\ issued' = issued + k
           /\ pending' = pending \cup {[xid |-> Batch(k)[i].xid, cause |-> Batch(k)[i].id] : i \in rejected}
           /\ UNCHANGED <<firstOfConn, connected>>
  BY DEF SendFlows, Batch

\* The last n entries of a sequence.
LEMMA SuffixProps ==
    ASSUME NEW t \in Seq(Msg), NEW n \in 0 .. Len(t)
    PROVE  /\ SubSeq(t, Len(t) - n + 1, Len(t)) \in Seq(Msg)
           /\ Len(SubSeq(t, Len(t) - n + 1, Len(t))) = n
           /\ \A i \in 1 .. n : SubSeq(t, Len(t) - n + 1, Len(t))[i] = t[Len(t) - n + i]
  <1>1. Len(t) \in Nat
    BY LenProperties
  <1>2. Len(t) - n + 1 \in Int /\ \A i \in Len(t) - n + 1 .. Len(t) : t[i] \in Msg
    BY <1>1, ElementOfSeq
  <1>3. /\ SubSeq(t, Len(t) - n + 1, Len(t)) \in Seq(Msg)
        /\ Len(SubSeq(t, Len(t) - n + 1, Len(t)))
             = IF Len(t) - n + 1 <= Len(t) THEN Len(t) - (Len(t) - n + 1) + 1 ELSE 0
        /\ \A i \in 1 .. Len(t) - (Len(t) - n + 1) + 1 :
             SubSeq(t, Len(t) - n + 1, Len(t))[i] = t[(Len(t) - n + 1) + i - 1]
    BY <1>1, <1>2, SubSeqProperties
  <1>4. QED
    BY <1>1, <1>3

\* deque.extend keeps the newest RingSize entries of q \o s, in order.
LEMMA ExtendRingProps ==
    ASSUME NEW q \in Seq(Msg), NEW s \in Seq(Msg)
    PROVE  /\ ExtendRing(q, s) \in Seq(Msg)
           /\ Len(ExtendRing(q, s)) = IF Len(q \o s) > RingSize THEN RingSize ELSE Len(q \o s)
           /\ \A i \in 1 .. Len(ExtendRing(q, s)) :
                 ExtendRing(q, s)[i] = (q \o s)[Len(q \o s) - Len(ExtendRing(q, s)) + i]
  <1>1. q \o s \in Seq(Msg) /\ Len(q \o s) \in Nat
    BY ConcatProperties, LenProperties
  <1>2. CASE Len(q \o s) > RingSize
    <2>1. ExtendRing(q, s) = SubSeq(q \o s, Len(q \o s) - RingSize + 1, Len(q \o s))
      BY <1>2 DEF ExtendRing
    <2>2. RingSize \in 0 .. Len(q \o s)
      BY <1>1, <1>2
    <2>3. /\ SubSeq(q \o s, Len(q \o s) - RingSize + 1, Len(q \o s)) \in Seq(Msg)
          /\ Len(SubSeq(q \o s, Len(q \o s) - RingSize + 1, Len(q \o s))) = RingSize
          /\ \A i \in 1 .. RingSize :
               SubSeq(q \o s, Len(q \o s) - RingSize + 1, Len(q \o s))[i]
                 = (q \o s)[Len(q \o s) - RingSize + i]
      BY <1>1, <2>2, SuffixProps
    <2>4. QED
      BY <1>2, <2>1, <2>3
  <1>3. CASE ~(Len(q \o s) > RingSize)
    <2>1. ExtendRing(q, s) = q \o s
      BY <1>3 DEF ExtendRing
    <2>2. QED
      BY <1>1, <1>3, <2>1
  <1>4. QED
    BY <1>2, <1>3

-----------------------------------------------------------------------------
(* The inductive invariant holds initially and is kept by every action.    *)

LEMMA IInvInit == Init => IInv
  <1> SUFFICES ASSUME Init PROVE IInv
    OBVIOUS
  <1>1. << >> \in Seq(Msg) /\ Len(<< >>) = 0
    BY EmptySeq
  <1>2. TypeOK
    <2>1. ring \in Seq(Msg) /\ sentLog \in Seq(Msg) /\ xid \in 0 .. XidMod - 1
      BY <1>1, XidModType DEF Init
    <2>2. issued \in Nat /\ firstOfConn \in Nat \ {0} /\ pending = {}
      BY DEF Init
    <2>3. connected \in BOOLEAN
      BY DEF Init
    <2>4. QED
      BY <2>1, <2>2, <2>3 DEF TypeOK
  <1>3. RingIsRecent /\ IdIsPlace /\ SeqOrdered /\ XidInv
    BY <1>1 DEF Init, RingIsRecent, IdIsPlace, SeqOrdered, XidInv
  <1>4. FirstInLog /\ PendingInv
    BY <1>1 DEF Init, FirstInLog, PendingInv
  <1>5. QED
    BY <1>2, <1>3, <1>4 DEF IInv

LEMMA ConnectStep ==
    ASSUME IInv, Connect
    PROVE  IInv'
  <1>1. Len(sentLog) \in Nat
    BY LenProperties DEF IInv, TypeOK
  <1>2. TypeOK'
    <2>1. (ring \in Seq(Msg) /\ sentLog \in Seq(Msg) /\ issued \in Nat)'
      BY DEF IInv, TypeOK, Connect
    <2>2. xid' \in 0 .. XidMod - 1 /\ firstOfConn' \in Nat \ {0}
      BY <1>1 DEF Connect
    <2>3. connected' \in BOOLEAN
      BY DEF Connect
    <2>4. pending' \subseteq [xid : 0 .. XidMod - 1, cause : Nat]
      BY DEF IInv, TypeOK, Connect
    <2>5. QED
      BY <2>1, <2>2, <2>3, <2>4 DEF TypeOK
  <1>3. (RingIsRecent /\ IdIsPlace /\ SeqOrdered)'
    BY DEF IInv, Connect, RingIsRecent, IdIsPlace, SeqOrdered
  <1>4. FirstInLog' /\ XidInv'
    BY <1>1 DEF Connect, FirstInLog, XidInv
  <1>5. pending = {}
    BY DEF IInv, PendingInv, Connect
  <1>6. PendingInv'
    BY <1>5 DEF Connect, PendingInv
  <1>7. QED
    BY <1>2, <1>3, <1>4, <1>6 DEF IInv

LEMMA DisconnectStep ==
    ASSUME IInv, Disconnect
    PROVE  IInv'
  <1>1. TypeOK'
    <2>1. (ring \in Seq(Msg) /\ sentLog \in Seq(Msg) /\ issued \in Nat)'
      BY DEF IInv, TypeOK, Disconnect
    <2>2. (xid \in 0 .. XidMod - 1 /\ firstOfConn \in Nat \ {0})'
      BY DEF IInv, TypeOK, Disconnect
    <2>3. connected' \in BOOLEAN
      BY DEF Disconnect
    <2>4. pending' \subseteq [xid : 0 .. XidMod - 1, cause : Nat]
      BY DEF Disconnect
    <2>5. QED
      BY <2>1, <2>2, <2>3, <2>4 DEF TypeOK
  <1>2. (RingIsRecent /\ IdIsPlace /\ SeqOrdered /\ FirstInLog /\ XidInv)'
    BY DEF IInv, Disconnect, RingIsRecent, IdIsPlace, SeqOrdered, FirstInLog, XidInv
  <1>3. PendingInv'
    BY DEF Disconnect, PendingInv
  <1>4. QED
    BY <1>1, <1>2, <1>3 DEF IInv

LEMMA OfErrorStep ==
    ASSUME IInv, NEW e, OfError(e)
    PROVE  IInv'
  <1>1. TypeOK'
    <2>1. (ring \in Seq(Msg) /\ sentLog \in Seq(Msg) /\ issued \in Nat)'
      BY DEF IInv, TypeOK, OfError
    <2>2. (xid \in 0 .. XidMod - 1 /\ firstOfConn \in Nat \ {0})'
      BY DEF IInv, TypeOK, OfError
    <2>3. connected' \in BOOLEAN
      BY DEF IInv, TypeOK, OfError
    <2>4. pending' \subseteq [xid : 0 .. XidMod - 1, cause : Nat]
      BY DEF IInv, TypeOK, OfError
    <2>5. QED
      BY <2>1, <2>2, <2>3, <2>4 DEF TypeOK
  <1>2. (RingIsRecent /\ IdIsPlace /\ SeqOrdered /\ FirstInLog /\ XidInv)'
    BY DEF IInv, OfError, RingIsRecent, IdIsPlace, SeqOrdered, FirstInLog, XidInv
  <1>3. PendingInv'
    BY DEF IInv, OfError, PendingInv
  <1>4. QED
    BY <1>1, <1>2, <1>3 DEF IInv

\* The fields of a message sent.
LEMMA SentMsg ==
    ASSUME TypeOK, NEW i \in 1 .. Len(sentLog)
    PROVE  /\ sentLog[i].id \in Nat
           /\ sentLog[i].xid \in 0 .. XidMod - 1
           /\ sentLog[i].seq \in Nat
  <1>1. sentLog[i] \in Msg
    BY ElementOfSeq DEF TypeOK
  <1>2. QED
    BY <1>1 DEF Msg

LEMMA RyuRequestStep ==
    ASSUME IInv, RyuRequest
    PROVE  IInv'
  <1>1. TypeOK'
    <2>1. (ring \in Seq(Msg) /\ sentLog \in Seq(Msg) /\ issued \in Nat)'
      BY DEF IInv, TypeOK, RyuRequest
    <2>2. xid' \in 0 .. XidMod - 1
      BY NextXidType, XidModType DEF IInv, TypeOK, RyuRequest
    <2>3. (firstOfConn \in Nat \ {0})'
      BY DEF IInv, TypeOK, RyuRequest
    <2>4. connected' \in BOOLEAN
      BY DEF IInv, TypeOK, RyuRequest
    <2>5. pending' \subseteq [xid : 0 .. XidMod - 1, cause : Nat]
      BY DEF IInv, TypeOK, RyuRequest
    <2>6. QED
      BY <2>1, <2>2, <2>3, <2>4, <2>5 DEF TypeOK
  <1>2. (RingIsRecent /\ IdIsPlace /\ FirstInLog /\ PendingInv)'
    BY DEF IInv, RyuRequest, RingIsRecent, IdIsPlace, FirstInLog, PendingInv
  <1>3. SeqOrdered'
    <2> SUFFICES ASSUME NEW i \in 1 .. Len(sentLog)
                 PROVE  /\ sentLog[i].seq <= issued + 1
                        /\ \A j \in 1 .. Len(sentLog) : i < j => sentLog[i].seq < sentLog[j].seq
      BY DEF RyuRequest, SeqOrdered
    <2>1. sentLog[i].seq \in Nat /\ issued \in Nat
      BY SentMsg DEF IInv, TypeOK
    <2>2. QED
      BY <2>1 DEF IInv, SeqOrdered
  <1>4. XidInv'
    <2>0. /\ firstOfConn' = firstOfConn /\ sentLog' = sentLog
          /\ issued' = issued + 1 /\ xid' = NextXid(xid, 1)
      BY DEF RyuRequest
    <2> SUFFICES ASSUME NEW i \in firstOfConn' .. Len(sentLog'),
                        issued' - sentLog'[i].seq < XidMod
                 PROVE  (sentLog'[i].xid + (issued' - sentLog'[i].seq)) % XidMod = xid'
      BY DEF XidInv
    <2>1. i \in 1 .. Len(sentLog)
      BY <2>0 DEF IInv, FirstInLog
    <2>2. sentLog[i].xid \in Nat /\ sentLog[i].seq \in Nat /\ issued \in Nat
      BY <2>1, SentMsg DEF IInv, TypeOK
    <2>3. sentLog[i].seq <= issued
      BY <2>1 DEF IInv, SeqOrdered
    <2>8. issued + 1 - sentLog[i].seq < XidMod
      BY <2>0, <2>2, XidModType
    <2>9. i \in firstOfConn .. Len(sentLog)
      BY <2>0
    <2>4. (sentLog[i].xid + (issued - sentLog[i].seq)) % XidMod = xid
      BY <2>2, <2>3, <2>8, <2>9, XidModType DEF IInv, XidInv
    <2>5. sentLog[i].xid + (issued - sentLog[i].seq) \in Nat
      BY <2>2, <2>3
    <2>6. (sentLog[i].xid + (issued - sentLog[i].seq) + 1) % XidMod
            = (((sentLog[i].xid + (issued - sentLog[i].seq)) % XidMod) + 1) % XidMod
      BY <2>5, XidModType, ModAdd
    <2>7. QED
      BY <2>0, <2>2, <2>4, <2>6 DEF NextXid
  <1>5. QED
    BY <1>1, <1>2, <1>3, <1>4 DEF IInv

\* The fields of the j-th message of a batch.
LEMMA BatchFields ==
    ASSUME NEW k, NEW j \in 1 .. k
    PROVE  /\ Batch(k)[j].id = Len(sentLog) + j
           /\ Batch(k)[j].xid = NextXid(xid, j)
           /\ Batch(k)[j].seq = issued + j
  BY DEF Batch

\* After SendFlows the log is the old log with the batch after it.
LEMMA SendFlowsLog ==
    ASSUME IInv, NEW k \in 1 .. MaxBatch, NEW rejected, SendFlows(k, rejected)
    PROVE  /\ sentLog' \in Seq(Msg)
           /\ Len(sentLog') = Len(sentLog) + k
           /\ \A i \in 1 .. Len(sentLog) : sentLog'[i] = sentLog[i]
           /\ \A j \in 1 .. k : sentLog'[Len(sentLog) + j] = Batch(k)[j]
  <1>1. sentLog \in Seq(Msg) /\ Len(sentLog) \in Nat /\ k \in Nat
    BY LenProperties DEF IInv, TypeOK
  <1>2. Batch(k) \in Seq(Msg) /\ Len(Batch(k)) = k
    BY <1>1, BatchType DEF IInv
  <1>3. /\ sentLog \o Batch(k) \in Seq(Msg)
        /\ Len(sentLog \o Batch(k)) = Len(sentLog) + k
        /\ \A i \in 1 .. Len(sentLog) + k : (sentLog \o Batch(k))[i] =
              IF i <= Len(sentLog) THEN sentLog[i] ELSE Batch(k)[i - Len(sentLog)]
    BY <1>1, <1>2, ConcatProperties
  <1>4. sentLog' = sentLog \o Batch(k)
    BY SendFlowsUnfold
  <1>5. \A j \in 1 .. k : sentLog'[Len(sentLog) + j] = Batch(k)[j]
    <2> TAKE j \in 1 .. k
    <2>1. Len(sentLog) + j \in 1 .. Len(sentLog) + k /\ ~(Len(sentLog) + j <= Len(sentLog))
      BY <1>1
    <2>2. (Len(sentLog) + j) - Len(sentLog) = j
      BY <1>1
    <2>3. QED
      BY <1>3, <1>4, <2>1, <2>2
  <1>6. QED
    BY <1>1, <1>3, <1>4, <1>5

LEMMA SendFlowsStep ==
    ASSUME IInv, NEW k \in 1 .. MaxBatch, NEW rejected \in SUBSET (1 .. k),
           SendFlows(k, rejected)
    PROVE  IInv'
  <1>0. /\ connected /\ connected' = connected /\ firstOfConn' = firstOfConn
        /\ xid' = NextXid(xid, k) /\ issued' = issued + k
        /\ ring' = ExtendRing(ring, Batch(k))
        /\ pending' = pending \cup {[xid |-> Batch(k)[i].xid, cause |-> Batch(k)[i].id] : i \in rejected}
    BY SendFlowsUnfold
  <1>1. /\ Len(sentLog) \in Nat /\ Len(ring) \in Nat /\ k \in Nat
        /\ issued \in Nat /\ xid \in Nat /\ firstOfConn \in 1 .. Len(sentLog) + 1
    BY LenProperties DEF IInv, TypeOK, FirstInLog
  <1>2. Batch(k) \in Seq(Msg) /\ Len(Batch(k)) = k
    BY <1>1, BatchType DEF IInv
  <1>3. /\ sentLog' \in Seq(Msg)
        /\ Len(sentLog') = Len(sentLog) + k
        /\ \A i \in 1 .. Len(sentLog) : sentLog'[i] = sentLog[i]
        /\ \A j \in 1 .. k : sentLog'[Len(sentLog) + j] = Batch(k)[j]
    BY SendFlowsLog
  <1>4. \A j \in 1 .. k : Batch(k)[j] \in Msg
    BY <1>2, ElementOfSeq
  <1> HIDE DEF Batch
  <1>5. TypeOK'
    <2>1. ring' \in Seq(Msg)
      BY <1>0, <1>2, ExtendRingProps DEF IInv, TypeOK
    <2>2. xid' \in 0 .. XidMod - 1 /\ issued' \in Nat /\ firstOfConn' \in Nat \ {0}
      <3>1. NextXid(xid, k) \in 0 .. XidMod - 1
        BY <1>1, NextXidType
      <3>2. QED
        BY <1>0, <1>1, <3>1
    <2>3. connected' \in BOOLEAN
      BY <1>0 DEF IInv, TypeOK
    <2>4. pending' \subseteq [xid : 0 .. XidMod - 1, cause : Nat]
      BY <1>0, <1>4 DEF IInv, TypeOK, Msg
    <2>5. QED
      BY <1>3, <2>1, <2>2, <2>3, <2>4 DEF TypeOK
  <1>6. RingIsRecent'
    <2>1. /\ ring \in Seq(Msg)
          /\ Len(ring) <= Len(sentLog)
          /\ Len(ring) = (IF Len(sentLog) > RingSize THEN RingSize ELSE Len(sentLog))
          /\ \A i \in 1 .. Len(ring) : ring[i] = sentLog[Len(sentLog) - Len(ring) + i]
      <3>1. ring \in Seq(Msg)
        BY DEF IInv, TypeOK
      <3>2. RingIsRecent
        BY DEF IInv
      <3>3. Len(ring) = (IF Len(sentLog) > RingSize THEN RingSize ELSE Len(sentLog))
        BY <3>2 DEF RingIsRecent
      <3>4. Len(ring) <= Len(sentLog)
        BY <1>1, <3>3
      <3>5. \A i \in 1 .. Len(ring) : ring[i] = sentLog[Len(sentLog) - Len(ring) + i]
        BY <3>2 DEF RingIsRecent
      <3>6. QED
        BY <3>1, <3>3, <3>4, <3>5
    <2>2. /\ ring \o Batch(k) \in Seq(Msg)
          /\ Len(ring \o Batch(k)) = Len(ring) + k
          /\ \A i \in 1 .. Len(ring) + k : (ring \o Batch(k))[i] =
                IF i <= Len(ring) THEN ring[i] ELSE Batch(k)[i - Len(ring)]
      <3>1. ring \in Seq(Msg)
        BY <2>1
      <3>2. QED
        BY <3>1, <1>2, ConcatProperties
    <2>3. /\ Len(ring') = (IF Len(ring) + k > RingSize THEN RingSize ELSE Len(ring) + k)
          /\ \A i \in 1 .. Len(ring') :
                ring'[i] = (ring \o Batch(k))[Len(ring) + k - Len(ring') + i]
      <3>1. /\ Len(ExtendRing(ring, Batch(k)))
                 = (IF Len(ring \o Batch(k)) > RingSize THEN RingSize ELSE Len(ring \o Batch(k)))
            /\ \A i \in 1 .. Len(ExtendRing(ring, Batch(k))) :
                 ExtendRing(ring, Batch(k))[i]
                   = (ring \o Batch(k))[Len(ring \o Batch(k)) - Len(ExtendRing(ring, Batch(k))) + i]
        BY <1>2, <2>1, ExtendRingProps
      <3>2. Len(ring \o Batch(k)) = Len(ring) + k /\ ring' = ExtendRing(ring, Batch(k))
        BY <1>0, <2>2
      <3>3. Len(ring') = (IF Len(ring) + k > RingSize THEN RingSize ELSE Len(ring) + k)
        BY <3>1, <3>2
      <3>4. \A i \in 1 .. Len(ring') :
                ring'[i] = (ring \o Batch(k))[Len(ring) + k - Len(ring') + i]
        <4> SUFFICES ASSUME NEW i \in 1 .. Len(ring')
                     PROVE  ring'[i] = (ring \o Batch(k))[Len(ring) + k - Len(ring') + i]
          OBVIOUS
        <4>1. i \in 1 .. Len(ExtendRing(ring, Batch(k)))
          BY <3>2
        <4>2. ExtendRing(ring, Batch(k))[i]
                = (ring \o Batch(k))[Len(ring \o Batch(k)) - Len(ExtendRing(ring, Batch(k))) + i]
          BY <3>1, <4>1
        <4>3. Len(ring') \in Nat /\ Len(ring') = Len(ExtendRing(ring, Batch(k)))
          BY <1>1, <3>2, <3>3
        <4>4. Len(ring \o Batch(k)) - Len(ExtendRing(ring, Batch(k))) + i
                = Len(ring) + k - Len(ring') + i
          BY <1>1, <3>2, <4>3
        <4>5. QED
          BY <3>2, <4>2, <4>4
      <3>5. QED
        BY <3>3, <3>4
    <2>4. Len(ring') = IF Len(sentLog') > RingSize THEN RingSize ELSE Len(sentLog')
      BY <1>1, <1>3, <2>1, <2>3
    <2>5. \A i \in 1 .. Len(ring') : ring'[i] = sentLog'[Len(sentLog') - Len(ring') + i]
      <3> TAKE i \in 1 .. Len(ring')
      <3>1. Len(ring') \in Nat /\ Len(ring') <= Len(ring) + k
        BY <1>1, <2>3
      <3>2. Len(ring) + k - Len(ring') + i \in 1 .. Len(ring) + k
        BY <1>1, <3>1
      <3>3. Len(sentLog') - Len(ring') + i
              = (Len(sentLog) - Len(ring)) + (Len(ring) + k - Len(ring') + i)
        BY <1>1, <1>3, <3>1
      <3>4. CASE Len(ring) + k - Len(ring') + i <= Len(ring)
        <4>1. ring'[i] = ring[Len(ring) + k - Len(ring') + i]
          BY <2>2, <2>3, <3>2, <3>4
        <4>2. Len(ring) + k - Len(ring') + i \in 1 .. Len(ring)
          BY <1>1, <3>1, <3>2, <3>4
        <4>3. ring[Len(ring) + k - Len(ring') + i]
                = sentLog[(Len(sentLog) - Len(ring)) + (Len(ring) + k - Len(ring') + i)]
          BY <1>1, <2>1, <4>2
        <4>4. (Len(sentLog) - Len(ring)) + (Len(ring) + k - Len(ring') + i) \in 1 .. Len(sentLog)
          BY <1>1, <2>1, <4>2
        <4>5. QED
          BY <1>3, <3>3, <4>1, <4>3, <4>4
      <3>5. CASE ~(Len(ring) + k - Len(ring') + i <= Len(ring))
        <4> DEFINE j == k - Len(ring') + i
        <4>1. j \in 1 .. k /\ Len(ring) + k - Len(ring') + i = Len(ring) + j
          BY <1>1, <3>1, <3>2, <3>5 DEF j
        <4>2. ring'[i] = Batch(k)[j]
          <5>1. (Len(ring) + j) - Len(ring) = j
            BY <1>1, <4>1
          <5>2. QED
            BY <2>2, <2>3, <3>2, <3>5, <4>1, <5>1
        <4>3. Len(sentLog') - Len(ring') + i = Len(sentLog) + j
          BY <1>1, <1>3, <3>1 DEF j
        <4>4. QED
          BY <1>3, <4>1, <4>2, <4>3
      <3>6. QED
        BY <3>4, <3>5
    <2>6. QED
      BY <2>4, <2>5 DEF RingIsRecent
  <1>7. \A i \in 1 .. Len(sentLog) + k :
           /\ i <= Len(sentLog) => sentLog'[i] = sentLog[i]
           /\ ~(i <= Len(sentLog)) =>
                 /\ i - Len(sentLog) \in 1 .. k
                 /\ sentLog'[i] = Batch(k)[i - Len(sentLog)]
                 /\ sentLog'[i].id = i
                 /\ sentLog'[i].xid = NextXid(xid, i - Len(sentLog))
                 /\ sentLog'[i].seq = issued + (i - Len(sentLog))
    <2> TAKE i \in 1 .. Len(sentLog) + k
    <2>1. CASE i <= Len(sentLog)
      <3>1. i \in 1 .. Len(sentLog)
        BY <1>1, <2>1
      <3>2. sentLog'[i] = sentLog[i]
        BY <1>3, <3>1
      <3>3. QED
        BY <2>1, <3>2
    <2>2. CASE ~(i <= Len(sentLog))
      <3>1. i - Len(sentLog) \in 1 .. k /\ Len(sentLog) + (i - Len(sentLog)) = i
        BY <1>1, <2>2
      <3>2. sentLog'[i] = Batch(k)[i - Len(sentLog)]
        BY <1>3, <3>1
      <3>3. /\ Batch(k)[i - Len(sentLog)].id = Len(sentLog) + (i - Len(sentLog))
            /\ Batch(k)[i - Len(sentLog)].xid = NextXid(xid, i - Len(sentLog))
            /\ Batch(k)[i - Len(sentLog)].seq = issued + (i - Len(sentLog))
        BY <3>1, BatchFields
      <3>4. QED
        BY <2>2, <3>1, <3>2, <3>3
    <2>3. QED
      BY <2>1, <2>2
  <1>8. IdIsPlace'
    <2> SUFFICES ASSUME NEW i \in 1 .. Len(sentLog) + k PROVE sentLog'[i].id = i
      BY <1>3 DEF IdIsPlace
    <2>1. CASE i <= Len(sentLog)
      BY <1>7, <2>1 DEF IInv, IdIsPlace
    <2>2. CASE ~(i <= Len(sentLog))
      BY <1>7, <2>2
    <2>3. QED
      BY <2>1, <2>2
  <1>9. SeqOrdered'
    <2>1. \A i \in 1 .. Len(sentLog) + k :
             sentLog'[i].seq = IF i <= Len(sentLog) THEN sentLog[i].seq
                               ELSE issued + (i - Len(sentLog))
      BY <1>7
    <2>2. \A i \in 1 .. Len(sentLog) : sentLog[i].seq \in Nat /\ sentLog[i].seq <= issued
      BY SentMsg DEF IInv, TypeOK, SeqOrdered
    <2>3. \A i, j \in 1 .. Len(sentLog) : i < j => sentLog[i].seq < sentLog[j].seq
      BY DEF IInv, SeqOrdered
    <2> SUFFICES ASSUME NEW i \in 1 .. Len(sentLog) + k
                 PROVE  /\ sentLog'[i].seq <= issued + k
                        /\ \A j \in 1 .. Len(sentLog) + k :
                              i < j => sentLog'[i].seq < sentLog'[j].seq
      <3>1. issued' = issued + k /\ Len(sentLog') = Len(sentLog) + k
        BY <1>0, <1>3
      <3>2. QED
        BY <3>1 DEF SeqOrdered
    <2>4. sentLog'[i].seq <= issued + k
      <3>1. CASE i <= Len(sentLog)
        <4>1. i \in 1 .. Len(sentLog)
          BY <1>1, <3>1
        <4>2. sentLog'[i].seq = sentLog[i].seq
          BY <2>1, <3>1
        <4>3. sentLog[i].seq \in Nat /\ sentLog[i].seq <= issued
          BY <2>2, <4>1
        <4>4. QED
          BY <1>1, <4>2, <4>3
      <3>2. CASE ~(i <= Len(sentLog))
        <4>1. sentLog'[i].seq = issued + (i - Len(sentLog))
          BY <2>1, <3>2
        <4>2. QED
          BY <1>1, <4>1
      <3>3. QED
        BY <3>1, <3>2
    <2>5. ASSUME NEW j \in 1 .. Len(sentLog) + k, i < j
          PROVE  sentLog'[i].seq < sentLog'[j].seq
      <3>1. CASE j <= Len(sentLog)
        <4>1. i \in 1 .. Len(sentLog) /\ i <= Len(sentLog)
          BY <1>1, <2>5, <3>1
        <4>2. sentLog'[i].seq = sentLog[i].seq /\ sentLog'[j].seq = sentLog[j].seq
          BY <2>1, <3>1, <4>1
        <4>3. QED
          BY <2>3, <2>5, <3>1, <4>1, <4>2
      <3>2. CASE ~(j <= Len(sentLog)) /\ i <= Len(sentLog)
        <4>1. sentLog'[i].seq = sentLog[i].seq /\ sentLog'[j].seq = issued + (j - Len(sentLog))
          BY <2>1, <3>2
        <4>2. QED
          BY <1>1, <2>2, <3>2, <4>1
      <3>3. CASE ~(j <= Len(sentLog)) /\ ~(i <= Len(sentLog))
        <4>1. sentLog'[i].seq = issued + (i - Len(sentLog))
              /\ sentLog'[j].seq = issued + (j - Len(sentLog))
          BY <2>1, <3>3
        <4>2. QED
          BY <1>1, <2>5, <4>1
      <3>4. QED
        BY <3>1, <3>2, <3>3
    <2>6. QED
      BY <2>4, <2>5
  <1>10. FirstInLog'
    BY <1>0, <1>1, <1>3 DEF FirstInLog
  <1>11. XidInv'
    <2> SUFFICES ASSUME NEW i \in firstOfConn' .. Len(sentLog'),
                        issued' - sentLog'[i].seq < XidMod
                 PROVE  (sentLog'[i].xid + (issued' - sentLog'[i].seq)) % XidMod = xid'
      BY DEF XidInv
    <2>1. i \in firstOfConn .. Len(sentLog) + k /\ i \in 1 .. Len(sentLog) + k
      BY <1>0, <1>1, <1>3
    <2>2. xid' = (xid + k) % XidMod /\ issued' = issued + k
      BY <1>0 DEF NextXid
    <2>3. CASE i <= Len(sentLog)
      <3>1. i \in 1 .. Len(sentLog) /\ sentLog'[i] = sentLog[i]
        BY <1>7, <2>1, <2>3
      <3>2. sentLog[i].xid \in Nat /\ sentLog[i].seq \in Nat /\ sentLog[i].seq <= issued
        BY <3>1, SentMsg DEF IInv, TypeOK, SeqOrdered
      <3>3. issued + k - sentLog[i].seq < XidMod
        BY <1>1, <2>2, <3>1, <3>2
      <3>4. (sentLog[i].xid + (issued - sentLog[i].seq)) % XidMod = xid
        <4>1. i \in firstOfConn .. Len(sentLog)
          BY <1>1, <2>1, <2>3
        <4>2. issued - sentLog[i].seq < XidMod
          BY <1>1, <3>2, <3>3, XidModType
        <4>3. QED
          BY <4>1, <4>2 DEF IInv, XidInv
      <3>5. sentLog[i].xid + (issued - sentLog[i].seq) \in Nat
        <4>1. issued \in Nat
          BY <1>1
        <4>2. QED
          BY <3>2, <4>1
      <3>6. (sentLog[i].xid + (issued - sentLog[i].seq) + k) % XidMod
              = (((sentLog[i].xid + (issued - sentLog[i].seq)) % XidMod) + k) % XidMod
        <4>1. k \in Nat
          BY <1>1
        <4>2. QED
          BY <3>5, <4>1, XidModType, ModAdd
      <3>7. sentLog[i].xid + (issued + k - sentLog[i].seq)
              = sentLog[i].xid + (issued - sentLog[i].seq) + k
        BY <1>1, <3>2
      <3>8. (sentLog'[i].xid + (issued' - sentLog'[i].seq)) % XidMod
              = (sentLog[i].xid + (issued - sentLog[i].seq) + k) % XidMod
        <4>1. sentLog'[i].xid = sentLog[i].xid /\ sentLog'[i].seq = sentLog[i].seq
          BY <3>1
        <4>2. issued' - sentLog'[i].seq = issued + k - sentLog[i].seq
          BY <1>1, <2>2, <3>2, <4>1
        <4>3. sentLog'[i].xid + (issued' - sentLog'[i].seq)
                = sentLog[i].xid + (issued - sentLog[i].seq) + k
          BY <1>1, <3>2, <3>7, <4>1, <4>2
        <4>4. QED
          BY <4>3
      <3>9. QED
        BY <2>2, <3>4, <3>6, <3>8
    <2>4. CASE ~(i <= Len(sentLog))
      <3>1. /\ i - Len(sentLog) \in 1 .. k
            /\ sentLog'[i].xid = (xid + (i - Len(sentLog))) % XidMod
            /\ sentLog'[i].seq = issued + (i - Len(sentLog))
        <4>1. /\ i - Len(sentLog) \in 1 .. k
              /\ sentLog'[i].xid = NextXid(xid, i - Len(sentLog))
              /\ sentLog'[i].seq = issued + (i - Len(sentLog))
          BY <1>7, <2>1, <2>4
        <4>2. QED
          BY <4>1 DEF NextXid
      <3>2. xid + (i - Len(sentLog)) \in Nat /\ k - (i - Len(sentLog)) \in Nat
        <4>1. i - Len(sentLog) \in 1 .. k /\ xid \in Nat /\ k \in Nat
          BY <1>1, <3>1
        <4>2. QED
          BY <4>1
      <3>3. (xid + (i - Len(sentLog)) + (k - (i - Len(sentLog)))) % XidMod
              = (((xid + (i - Len(sentLog))) % XidMod) + (k - (i - Len(sentLog)))) % XidMod
        BY <3>2, XidModType, ModAdd
      <3>4. xid + (i - Len(sentLog)) + (k - (i - Len(sentLog))) = xid + k
        BY <1>1, <3>1
      <3>5. issued' - sentLog'[i].seq = k - (i - Len(sentLog))
        BY <1>1, <2>2, <3>1
      <3>6. QED
        BY <2>2, <3>1, <3>3, <3>4, <3>5
    <2>5. QED
      BY <2>3, <2>4
  <1>12. PendingInv'
    <2>1. ASSUME NEW e \in pending
          PROVE  e.cause \in firstOfConn .. Len(sentLog) + k /\ e.xid = sentLog'[e.cause].xid
      <3>1. e.cause \in firstOfConn .. Len(sentLog) /\ e.xid = sentLog[e.cause].xid
        BY <2>1 DEF IInv, PendingInv
      <3>2. e.cause \in 1 .. Len(sentLog)
        BY <1>1, <3>1
      <3>3. QED
        BY <1>1, <1>3, <3>1, <3>2
    <2>2. ASSUME NEW j \in rejected
          PROVE  /\ Batch(k)[j].id \in firstOfConn .. Len(sentLog) + k
                 /\ Batch(k)[j].xid = sentLog'[Batch(k)[j].id].xid
      <3>1. j \in 1 .. k
        OBVIOUS
      <3>2. Batch(k)[j].id = Len(sentLog) + j
        BY <3>1, BatchFields
      <3>3. QED
        BY <1>1, <1>3, <3>1, <3>2
    <2>3. QED
      BY <1>0, <1>3, <2>1, <2>2 DEF PendingInv
  <1>13. QED
    BY <1>5, <1>6, <1>8, <1>9, <1>10, <1>11, <1>12 DEF IInv

LEMMA IInvStep == IInv /\ [Next]_vars => IInv'
  <1> SUFFICES ASSUME IInv, [Next]_vars PROVE IInv'
    OBVIOUS
  <1>1. CASE Connect
    BY <1>1, ConnectStep
  <1>2. CASE Disconnect
    BY <1>2, DisconnectStep
  <1>3. CASE \E k \in 1 .. MaxBatch : \E rejected \in SUBSET (1 .. k) : SendFlows(k, rejected)
    BY <1>3, SendFlowsStep
  <1>4. CASE RyuRequest
    BY <1>4, RyuRequestStep
  <1>5. CASE \E e \in pending : OfError(e)
    BY <1>5, OfErrorStep
  <1>6. CASE UNCHANGED vars
    BY <1>6 DEF vars, IInv, TypeOK, RingIsRecent, IdIsPlace, SeqOrdered,
                FirstInLog, XidInv, PendingInv
  <1>7. QED
    BY <1>1, <1>2, <1>3, <1>4, <1>5, <1>6 DEF Next

-----------------------------------------------------------------------------
(* oferror's correlation.                                                  *)

\* A window of the last entries of a log, as RingIsRecent describes it, is
\* the log's newest RingSize entries.
LEMMA WindowIsNewest ==
    ASSUME NEW r \in Seq(Msg), NEW l \in Seq(Msg),
           Len(r) = (IF Len(l) > RingSize THEN RingSize ELSE Len(l)),
           \A i \in 1 .. Len(r) : r[i] = l[Len(l) - Len(r) + i]
    PROVE  r = IF Len(l) > RingSize THEN SubSeq(l, Len(l) - RingSize + 1, Len(l)) ELSE l
  <1>1. Len(r) \in Nat /\ Len(l) \in Nat
    BY LenProperties
  <1>2. CASE Len(l) > RingSize
    <2>1. RingSize \in 0 .. Len(l)
      BY <1>1, <1>2
    <2>2. /\ SubSeq(l, Len(l) - RingSize + 1, Len(l)) \in Seq(Msg)
          /\ Len(SubSeq(l, Len(l) - RingSize + 1, Len(l))) = RingSize
          /\ \A i \in 1 .. RingSize :
                SubSeq(l, Len(l) - RingSize + 1, Len(l))[i] = l[Len(l) - RingSize + i]
      BY <2>1, SuffixProps
    <2>3. Len(r) = RingSize
      BY <1>2
    <2>4. r = SubSeq(l, Len(l) - RingSize + 1, Len(l))
      BY <1>1, <2>2, <2>3, SeqEqual
    <2>5. QED
      BY <1>2, <2>4
  <1>3. CASE ~(Len(l) > RingSize)
    <2>1. Len(r) = Len(l)
      BY <1>3
    <2>2. \A i \in 1 .. Len(r) : r[i] = l[i]
      <3> TAKE i \in 1 .. Len(r)
      <3>1. Len(l) - Len(r) + i = i
        BY <1>1, <2>1
      <3>2. QED
        BY <3>1
    <2>3. r = l
      BY <1>1, <2>1, <2>2, SeqEqual
    <2>4. QED
      BY <1>3, <2>3
  <1>4. QED
    BY <1>2, <1>3

\* The deque holds exactly the last RingSize messages sent.
LEMMA RingIsRecentSent ==
    ASSUME IInv
    PROVE  ring = RecentSent
  <1>1. ring \in Seq(Msg) /\ sentLog \in Seq(Msg)
    BY DEF IInv, TypeOK
  <1>2. /\ Len(ring) = (IF Len(sentLog) > RingSize THEN RingSize ELSE Len(sentLog))
        /\ \A i \in 1 .. Len(ring) : ring[i] = sentLog[Len(sentLog) - Len(ring) + i]
    BY DEF IInv, RingIsRecent
  <1>3. QED
    BY <1>1, <1>2, WindowIsNewest DEF RecentSent

\* Within a fresh window, the only recent message with the xid of an error
\* about a recent message is that message.
LEMMA OnlyCauseMatches ==
    ASSUME IInv, NEW e \in pending, RecentWindowFresh,
           NEW i0 \in 1 .. Len(ring), ring[i0].id = e.cause
    PROVE  CausedBy(e.xid) = e.cause
  <1>1. /\ Len(ring) \in Nat /\ Len(sentLog) \in Nat /\ issued \in Nat
        /\ Len(ring) <= Len(sentLog) /\ XidMod \in Nat \ {0}
    <2>1. Len(ring) \in Nat /\ Len(sentLog) \in Nat /\ issued \in Nat
      BY LenProperties DEF IInv, TypeOK
    <2>2. Len(ring) = (IF Len(sentLog) > RingSize THEN RingSize ELSE Len(sentLog))
      BY DEF IInv, RingIsRecent
    <2>3. QED
      BY <2>1, <2>2, XidModType
  <1>2. \A j \in 1 .. Len(ring) :
           ring[j].id >= firstOfConn /\ issued - ring[j].seq < XidMod
    BY RingIsRecentSent DEF RecentWindowFresh
  <1>3. \A j \in 1 .. Len(ring) :
           /\ Len(sentLog) - Len(ring) + j \in 1 .. Len(sentLog)
           /\ ring[j] = sentLog[Len(sentLog) - Len(ring) + j]
           /\ ring[j].id = Len(sentLog) - Len(ring) + j
    <2> TAKE j \in 1 .. Len(ring)
    <2>1. Len(sentLog) - Len(ring) + j \in 1 .. Len(sentLog)
      BY <1>1
    <2>2. ring[j] = sentLog[Len(sentLog) - Len(ring) + j]
      BY DEF IInv, RingIsRecent
    <2>3. QED
      BY <2>1, <2>2 DEF IInv, IdIsPlace
  <1>4. \A j \in 1 .. Len(ring) :
           /\ ring[j].xid \in 0 .. XidMod - 1
           /\ ring[j].seq \in Nat
           /\ issued - ring[j].seq \in 0 .. XidMod - 1
           /\ (ring[j].xid + (issued - ring[j].seq)) % XidMod = xid
    <2> TAKE j \in 1 .. Len(ring)
    <2> DEFINE c == Len(sentLog) - Len(ring) + j
    <2>1. c \in 1 .. Len(sentLog) /\ ring[j] = sentLog[c] /\ c >= firstOfConn
      BY <1>2, <1>3 DEF c
    <2>2. sentLog[c].xid \in 0 .. XidMod - 1 /\ sentLog[c].seq \in Nat
      BY <2>1, SentMsg DEF IInv
    <2>3. sentLog[c].seq <= issued
      BY <2>1 DEF IInv, SeqOrdered
    <2>4. issued - sentLog[c].seq \in 0 .. XidMod - 1
      <3>1. issued - ring[j].seq < XidMod
        BY <1>2
      <3>2. issued - sentLog[c].seq < XidMod
        BY <2>1, <3>1
      <3>3. issued \in Nat
        BY <1>1
      <3>4. QED
        BY <2>2, <2>3, <3>2, <3>3, XidModType
    <2>5. c \in firstOfConn .. Len(sentLog)
      BY <1>1, <2>1 DEF IInv, TypeOK
    <2>6. (sentLog[c].xid + (issued - sentLog[c].seq)) % XidMod = xid
      BY <1>1, <2>4, <2>5 DEF IInv, XidInv
    <2>7. QED
      BY <2>1, <2>2, <2>4, <2>6
  <1>5. e.xid = ring[i0].xid
    <2>1. e.xid = sentLog[e.cause].xid
      BY DEF IInv, PendingInv
    <2>2. QED
      BY <1>3, <2>1
  <1>6. \A j \in 1 .. Len(ring) : ring[j].xid = e.xid => j = i0
    <2> TAKE j \in 1 .. Len(ring)
    <2> HAVE ring[j].xid = e.xid
    <2>1. issued - ring[j].seq = issued - ring[i0].seq
      <3>1. (ring[i0].xid + (issued - ring[j].seq)) % XidMod
              = (ring[i0].xid + (issued - ring[i0].seq)) % XidMod
        BY <1>4, <1>5
      <3>2. QED
        BY <1>1, <1>4, <3>1, ModCancel
    <2>2. ring[j].seq = ring[i0].seq
      <3>1. ring[j].seq \in Nat /\ ring[i0].seq \in Nat
        BY <1>4
      <3>2. QED
        BY <1>1, <2>1, <3>1
    <2>3. Len(sentLog) - Len(ring) + j = Len(sentLog) - Len(ring) + i0
      <3> DEFINE cj == Len(sentLog) - Len(ring) + j
                 c0 == Len(sentLog) - Len(ring) + i0
      <3>1. /\ cj \in 1 .. Len(sentLog) /\ c0 \in 1 .. Len(sentLog)
            /\ sentLog[cj].seq = sentLog[c0].seq
        BY <1>3, <2>2 DEF cj, c0
      <3>2. sentLog[cj].seq \in Nat /\ sentLog[c0].seq \in Nat
        BY <3>1, SentMsg DEF IInv
      <3>3. cj < c0 => sentLog[cj].seq < sentLog[c0].seq
        BY <3>1 DEF IInv, SeqOrdered
      <3>4. c0 < cj => sentLog[c0].seq < sentLog[cj].seq
        BY <3>1 DEF IInv, SeqOrdered
      <3>5. cj = c0
        BY <1>1, <3>1, <3>2, <3>3, <3>4
      <3>6. QED
        BY <3>5 DEF cj, c0
    <2>4. QED
      BY <1>1, <2>3
  <1>7. {i \in 1 .. Len(ring) : ring[i].xid = e.xid} = {i0}
    BY <1>5, <1>6
  <1>8. (CHOOSE i \in {i0} : \A j \in {i0} : i <= j) = i0
    BY <1>1
  <1>9. QED
    BY <1>7, <1>8 DEF CausedBy

-----------------------------------------------------------------------------
(* Theorems.                                                               *)

\* The inductive invariant holds in every reachable state.
THEOREM IInvariant == Spec => []IInv
  BY IInvInit, IInvStep, PTL DEF Spec

\* Type correctness: the deque and the log hold messages, the xid counter
\* stays below MAX_XID + 1, and every pending error carries an xid.
THEOREM TypeCorrect == Spec => []TypeOK
  <1>1. IInv => TypeOK
    BY DEF IInv
  <1>2. QED
    BY <1>1, IInvariant, PTL

\* The step ErrorCorrelatedInSession constrains.
CorrelationStep ==
    \A e \in pending :
        (OfError(e) /\ RecentWindowFresh
         /\ \E i \in 1 .. Len(RecentSent) : RecentSent[i].id = e.cause)
        => CausedBy(e.xid) = e.cause

\* From any state of the inductive invariant, every step correlates.
LEMMA CorrelationFromIInv == IInv => [CorrelationStep]_vars
  <1> SUFFICES ASSUME IInv, NEW e \in pending, RecentWindowFresh,
                      NEW i \in 1 .. Len(RecentSent), RecentSent[i].id = e.cause
               PROVE  CausedBy(e.xid) = e.cause
    BY DEF CorrelationStep
  <1>1. ring = RecentSent
    BY RingIsRecentSent
  <1>2. QED
    BY <1>1, OnlyCauseMatches

\* oferror names the message that caused an error (ErrorCorrelatedInSession)
\* for every ring size, xid width and batch size: when the error is about
\* one of the last RingSize messages sent, those were all sent on the
\* current connection and fewer than MAX_XID + 1 xids were issued since the
\* oldest of them, the first message of recent_ofmsgs with the error's xid
\* is the one it is about.
THEOREM ErrorCorrelatedInSessionTheorem == Spec => ErrorCorrelatedInSession
  <1>1. Spec => [][CorrelationStep]_vars
    BY IInvariant, CorrelationFromIInv, PTL
  <1>2. QED
    BY <1>1 DEF ErrorCorrelatedInSession, CorrelationStep

=============================================================================
