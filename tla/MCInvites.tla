----------------------------- MODULE MCInvites -----------------------------
(* Instances of Invites: two members, one with an invite to begin with.    *)
EXTENDS Invites, TLC

CONSTANTS alice, bob

MCOpening == alice :> 1 @@ bob :> 0
BothHold == alice :> 1 @@ bob :> 1

\* Staff may double or halve what the rank is granted and holds.
Rank(perPeriod, cap) == [perPeriod |-> perPeriod, cap |-> cap]
OneRank == {Rank(1, 1)}
TwoRanks == {Rank(1, 1), Rank(2, 2)}

Slots == Permutations(Requests)
=============================================================================
