----------------------------- MODULE OfErrorRing -----------------------------
(***************************************************************************)
(* OpenFlow error correlation of one Valve (src/faucet/valve.py):          *)
(* prepare_send_flows keeps the messages it sends in recent_ofmsgs, a      *)
(* deque of at most 32; send_flows hands each to the Ryu datapath, whose   *)
(* send_msg gives it the next transaction id (xid) of that connection;     *)
(* oferror names the first message of the deque with the error's xid as    *)
(* its cause.  The deque belongs to the Valve and outlives a connection;   *)
(* the xid counter belongs to the Ryu datapath, created at each connection *)
(* with a random start, and also numbers Ryu's own requests (echo,         *)
(* features, stats).                                                       *)
(*                                                                         *)
(* A message is abstracted to its identity (the order it was sent in) and  *)
(* its xid; its content, the reordering by valve_flowreorder, and the      *)
(* error's type and code, which only shape the log line, are left out.     *)
(* seq (the number of xids issued before it) and firstOfConn are history   *)
(* kept only to state the properties.                                      *)
(***************************************************************************)
EXTENDS Naturals, Sequences

CONSTANTS
    RingSize,     \* maxlen of recent_ofmsgs (32)
    MaxXid,       \* ofproto.MAX_XID (0xffffffff)
    MaxBatch,     \* most messages one send_flows call sends in the model
    MaxMsgs,      \* bound on the messages the Valve sends
    MaxXids,      \* bound on the xids issued over all connections
    None          \* Python None

\* MAX_XID is all ones: 2^w - 1 for the width w of the xid field.
ASSUME RingAssumption ==
    /\ RingSize \in Nat \ {0}
    /\ MaxXid \in Nat /\ \E w \in 0 .. MaxXid : MaxXid + 1 = 2 ^ w
ASSUME BoundsAssumption ==
    MaxBatch \in Nat \ {0} /\ MaxMsgs \in Nat /\ MaxXids \in Nat
ASSUME NoneAssumption == None \notin Nat

\* MAX_XID + 1: xids wrap at the width of the field.
XidMod == MaxXid + 1

Msg == [id : Nat, xid : 0 .. XidMod - 1, seq : Nat]

VARIABLES
    ring,       \* recent_ofmsgs
    sentLog,    \* every message sent, oldest first (history)
    xid,        \* the Ryu datapath's xid counter
    issued,     \* xids issued over all connections (history)
    firstOfConn, \* id of the first message sent on this connection (history)
    connected,  \* the OpenFlow connection is up
    pending     \* errors the switch will send: the xid and the message it rejected

vars == <<ring, sentLog, xid, issued, firstOfConn, connected, pending>>

-----------------------------------------------------------------------------
\* deque(maxlen=RingSize).extend(s): the newest RingSize entries of q \o s.
MutExtendRing(q, s) ==
    LET all == q \o s
    IN  IF Len(all) > RingSize THEN SubSeq(all, 1, RingSize) ELSE all
ExtendRing(q, s) ==
    LET all == q \o s
    IN  IF Len(all) > RingSize THEN SubSeq(all, Len(all) - RingSize + 1, Len(all)) ELSE all

\* Ryu Datapath.set_xid: the counter advances, is masked with MAX_XID (the
\* remainder by MAX_XID + 1, as MAX_XID is all ones), and is the message's
\* xid; the i-th message of a batch gets the counter advanced i times.
MutNextXid(x, i) == x + i
NextXid(x, i) == (x + i) % XidMod

\* oferror: orig_msgs[0], the oldest message of recent_ofmsgs with the
\* error's xid, or None.
CausedBy(x) ==
    LET matches == {i \in 1 .. Len(ring) : ring[i].xid = x}
    IN  IF matches = {} THEN None
        ELSE ring[CHOOSE i \in matches : \A j \in matches : i <= j].id

-----------------------------------------------------------------------------
Init ==
    /\ ring = << >>
    /\ sentLog = << >>
    /\ xid = 0
    /\ issued = 0
    /\ firstOfConn = 1
    /\ connected = FALSE
    /\ pending = {}

\* A connection: Ryu creates a Datapath with a random xid start.
Connect ==
    /\ ~connected
    /\ connected' = TRUE
    /\ firstOfConn' = Len(sentLog) + 1
    /\ xid' \in 0 .. XidMod - 1
    /\ UNCHANGED <<ring, sentLog, issued, pending>>

\* The connection closes: datapath_disconnect, also what send_flows does
\* with None (a cold reload while running).  Errors not yet sent are lost.
Disconnect ==
    /\ connected
    /\ connected' = FALSE
    /\ pending' = {}
    /\ UNCHANGED <<ring, sentLog, xid, issued, firstOfConn>>

\* send_flows(ryu_dp, flow_msgs) with k messages: prepare_send_flows
\* extends recent_ofmsgs with them, then each is sent and numbered in turn.
\* The switch may reject any of them.
SendFlows(k, rejected) ==
    LET batch == [i \in 1 .. k |->
                    [id |-> Len(sentLog) + i, xid |-> NextXid(xid, i),
                     seq |-> issued + i]]
    IN
    /\ connected
    /\ Len(sentLog) + k <= MaxMsgs
    /\ issued + k <= MaxXids
    /\ ring' = ExtendRing(ring, batch)
    /\ sentLog' = sentLog \o batch
    /\ xid' = NextXid(xid, k)
    /\ issued' = issued + k
    /\ pending' = pending \cup {[xid |-> batch[i].xid, cause |-> batch[i].id] : i \in rejected}
    /\ UNCHANGED <<firstOfConn, connected>>

\* Ryu sends a request of its own on the connection (echo, features,
\* stats): it takes an xid and never enters recent_ofmsgs.
RyuRequest ==
    /\ connected
    /\ issued < MaxXids
    /\ xid' = NextXid(xid, 1)
    /\ issued' = issued + 1
    /\ UNCHANGED <<ring, sentLog, firstOfConn, connected, pending>>

\* oferror(msg): the switch's error for a message arrives; the handler
\* counts it and logs CausedBy(msg.xid) as its cause.
OfError(e) ==
    /\ connected
    /\ e \in pending
    /\ pending' = pending \ {e}
    /\ UNCHANGED <<ring, sentLog, xid, issued, firstOfConn, connected>>

Next ==
    \/ Connect
    \/ Disconnect
    \/ \E k \in 1 .. MaxBatch : \E rejected \in SUBSET (1 .. k) : SendFlows(k, rejected)
    \/ RyuRequest
    \/ \E e \in pending : OfError(e)

Spec == Init /\ [][Next]_vars

-----------------------------------------------------------------------------
(* Properties.                                                             *)

TypeOK ==
    /\ ring \in Seq(Msg)
    /\ sentLog \in Seq(Msg)
    /\ xid \in 0 .. XidMod - 1
    /\ issued \in Nat
    /\ firstOfConn \in Nat \ {0}
    /\ connected \in BOOLEAN
    /\ pending \subseteq [xid : 0 .. XidMod - 1, cause : Nat]

\* The last RingSize messages sent.
RecentSent == IF Len(sentLog) > RingSize
              THEN SubSeq(sentLog, Len(sentLog) - RingSize + 1, Len(sentLog))
              ELSE sentLog

\* The recent messages were all sent on this connection, and fewer xids
\* than the xid space holds were issued since the oldest of them.
RecentWindowFresh ==
    \A i \in 1 .. Len(RecentSent) :
        /\ RecentSent[i].id >= firstOfConn
        /\ issued - RecentSent[i].seq < XidMod

\* oferror names the message that caused an error, for an error about one
\* of the last RingSize messages sent, as long as those messages were all
\* sent on the current connection and the xid counter has not come round
\* since the oldest of them: the deque keeps the newest messages, and xids
\* of one connection do not repeat within one turn of the counter.
ErrorCorrelatedInSession ==
    [][\A e \in pending :
          (OfError(e) /\ RecentWindowFresh
           /\ \E i \in 1 .. Len(RecentSent) : RecentSent[i].id = e.cause)
          => CausedBy(e.xid) = e.cause]_vars

\* The spec (oferror: correlate to recent messages by xid): an error for a
\* message still in recent_ofmsgs is attributed to that message.
ErrorAttributedToCause ==
    [][\A e \in pending :
          (OfError(e) /\ \E i \in 1 .. Len(ring) : ring[i].id = e.cause)
          => CausedBy(e.xid) = e.cause]_vars

=============================================================================
