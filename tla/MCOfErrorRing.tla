--------------------------- MODULE MCOfErrorRing ---------------------------
(***************************************************************************)
(* OfErrorRing for TLC: a ring as large as the xid space (2 and 1 bit),    *)
(* the edge at which the code's 32 and 32 bits sit far inside, so that the *)
(* counter coming round, eviction from the ring and a reconnection each    *)
(* happen within a few messages.                                           *)
(***************************************************************************)
EXTENDS OfErrorRing, TLC

=============================================================================
