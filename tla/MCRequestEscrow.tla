--------------------------- MODULE MCRequestEscrow ---------------------------
(* Small instances of RequestEscrow for TLC.                               *)
EXTENDS RequestEscrow, TLC

CONSTANTS alice, bob, r1, r2, c1, c2, t1, t2

\* alice owns every contribution; both members can back and delete requests.
MCMembers == {alice, bob}
MCRequests == {r1, r2}
MCOwner == (c1 :> alice) @@ (c2 :> bob)
MCFits == {<<r1, c1>>, <<r1, c2>>, <<r2, c1>>}
MCOpening == (alice :> 2) @@ (bob :> 1)

TransactionSymmetry == Permutations({t1, t2})
=============================================================================
