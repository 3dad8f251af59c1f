------------------------------- MODULE MCSite -------------------------------
(***************************************************************************)
(* The site for TLC, for safety in one run: a behaviour plays the scene of *)
(* one component and leaves the others at rest in one of their initial     *)
(* states. Every behaviour of MCSpec is one of Spec.                       *)
(***************************************************************************)
EXTENDS Site, TLC

CONSTANTS alice, bob, ca, cb, u1, s1, s2

VARIABLE scene

\* Two members who download from each other; bob has never downloaded and can
\* spend only what he earns.
OwnerOf == ca :> alice @@ cb :> bob
CostOf == ca :> 1 @@ cb :> 2
OpeningOf == alice :> 4 @@ bob :> 0
BytesOf == u1 :> "h"

\* The slots of a component are alike.
Slots == Permutations({s1, s2})

Scenes == {"downloads", "seats", "recovery", "leadership", "links", "inactivity", "images", "forum", "votes"}

-----------------------------------------------------------------------------
(* A component at rest starts in one state.                                *)

SeatsAtRest == account = [p \in People |-> "none"] /\ maxUsers = 1
LeadershipAtRest == leader = alice
ImagesAtRest == asset = [h \in {"h"} |-> "none"]

MCInit ==
    /\ scene \in Scenes
    /\ scene # "seats" => SeatsAtRest
    /\ scene # "leadership" => LeadershipAtRest
    /\ scene # "images" => ImagesAtRest
    \* An open community: only that one may be left without a leader.
    /\ open = TRUE
    /\ Init

MCNext ==
    /\ UNCHANGED scene
    /\ \/ scene = "downloads" /\ DownloadsMove
       \/ scene = "seats" /\ SeatsMove
       \/ scene = "recovery" /\ RecoveryMoves
       \/ scene = "leadership" /\ LeadershipMoves
       \/ scene = "links" /\ LinksMove
       \/ scene = "inactivity" /\ InactivityMoves
       \/ scene = "images" /\ ImagesMove
       \/ scene = "forum" /\ ForumMoves
       \/ scene = "votes" /\ VotesMove

MCSpec == MCInit /\ [][MCNext]_<<scene, vars>>
=============================================================================
