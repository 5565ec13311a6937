---------------------------- MODULE MCValveStack ----------------------------
(***************************************************************************)
(* Two DPs joined by two stack links: ports 1 and 3 on d1, 2 and 4 on d2,  *)
(* configured as 1-2 and 3-4.  The cabling is either as configured or with *)
(* the two cables swapped at one end (1-4 and 3-2).                        *)
(***************************************************************************)
EXTENDS ValveStack, TLC

MCDps == {"d1", "d2"}

MCStackPorts == {1, 2, 3, 4}

MCDpOf == (1 :> "d1" @@ 3 :> "d1" @@ 2 :> "d2" @@ 4 :> "d2")

MCPeer == (1 :> 2 @@ 2 :> 1 @@ 3 :> 4 @@ 4 :> 3)

MCCrossed == (1 :> 4 @@ 4 :> 1 @@ 3 :> 2 @@ 2 :> 3)

MCCablings == {MCPeer, MCCrossed}

\* For the liveness runs: one link, d1's port 1 to d2's port 2, cabled as
\* configured.
MCLinkPorts == {1, 2}

MCLinkDpOf == (1 :> "d1" @@ 2 :> "d2")

MCLinkPeer == (1 :> 2 @@ 2 :> 1)

MCLinkCablings == {MCLinkPeer}

=============================================================================
