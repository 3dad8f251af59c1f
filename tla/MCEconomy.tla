----------------------------- MODULE MCEconomy -----------------------------
(* A small instance of Economy for TLC.                                    *)
EXTENDS Economy, TLC

CONSTANTS alice, bob, r1, ca, cb, t1, t2, t3, g1

MCOwner == (ca :> alice) @@ (cb :> bob)
MCFits == {<<r1, ca>>}
MCCost == (ca :> 1) @@ (cb :> 1)
MCOpening == (alice :> 1) @@ (bob :> 1)

\* The request transactions are alike.
RequestSlots == Permutations({t1, t3})
=============================================================================
