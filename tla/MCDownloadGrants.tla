-------------------------- MODULE MCDownloadGrants --------------------------
(* Small instances of DownloadGrants for TLC.                              *)
EXTENDS DownloadGrants, TLC

CONSTANTS alice, bob, ca, cb, t1, t2, g1, g2

\* Each member owns one contribution the other can download.
MCOwner == (ca :> alice) @@ (cb :> bob)
MCCost == (ca :> 1) @@ (cb :> 2)
\* bob can only spend what alice's downloads have earned him.
MCOpening == (alice :> 4) @@ (bob :> 0)
=============================================================================
