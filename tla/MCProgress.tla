----------------------------- MODULE MCProgress -----------------------------
(***************************************************************************)
(* What must eventually happen, in one run: a behaviour plays the scene of *)
(* one component under the fairness that component is owed, and leaves the *)
(* others at rest.                                                         *)
(***************************************************************************)
EXTENDS Integers, Sequences, FiniteSets, TLC

CONSTANTS alice, a1, s1, s2, l1, u1, None

VARIABLES scene,
          inviteClock, inviteCount, canInvite, banned, invite, registered, tree, inviteReq,
          inviteSweep, grants, handedOut,
          clock, link, writer, warnSweep,
          user, signingIn, inactivityCycle, ran, failures,
          level, enabled, rank, frozen, stock, ready, rankSweep, edits,
          row, asset, refs, writing, imageCycle, assetSweep, writes, crashes

inviteVars == <<inviteClock, inviteCount, canInvite, banned, invite, registered, tree,
                inviteReq, inviteSweep, grants, handedOut>>
linkVars == <<clock, link, writer, warnSweep>>
inactivityVars == <<user, signingIn, inactivityCycle, ran, failures>>
rankVars == <<level, enabled, rank, frozen, stock, ready, rankSweep, edits>>
imageVars == <<row, asset, refs, writing, imageCycle, assetSweep, writes, crashes>>
vars == <<scene, inviteVars, linkVars, inactivityVars, rankVars, imageVars>>

\* One member, one request in flight beside the hourly sweep.
Inv == INSTANCE Invites WITH
    Members <- {alice}, Addresses <- {a1}, Requests <- {s1}, Moderated <- {alice},
    Opening <- (alice :> 1), RankSettings <- {[perPeriod |-> 1, cap |-> 1]},
    StaffMax <- 1, Lifetime <- 1, MaxClock <- 1, MaxSends <- 2,
    clock <- inviteClock, disabled <- banned, req <- inviteReq, sweep <- inviteSweep

\* One link, one check or report beside the daily sweep.
Links == INSTANCE LinkHealth WITH
    Links <- {l1}, Writers <- {s1}, Window <- 1, Attempts <- 2, MaxTime <- 3,
    sweep <- warnSweep

\* Two members in batches of one, of whom a cycle may disable one.  Staff act on
\* the second: were the first exempted between the two batches, and back, every
\* day, the second would be passed over every day.
Idle == INSTANCE Inactivity WITH
    Members <- {1, 2}, Cycles <- {s1}, WarnAfter <- 1, DisableAfter <- 2, Grace <- 1,
    NeverAfter <- 1, BatchSize <- 1, Cap <- 1, AdminCreated <- {}, Moderated <- {2},
    MaxFailures <- 0, cycle <- inactivityCycle

\* Three ranks on four levels with a rule that steps over the middle one.
Ranks == INSTANCE RankProgression WITH
    Ranks <- 1 .. 3, Entry <- 1, Levels <- 1 .. 4, StaffLevel <- 4,
    Rules <- {<<1, 2>>, <<2, 3>>, <<1, 3>>}, Sweeps <- {s1}, MaxEdits <- 1, sweep <- rankSweep

\* One URL, two overlapping cycles, one of which may die.
Images == INSTANCE RemoteImages WITH
    Urls <- {u1}, Bytes <- [u \in {u1} |-> "h"], Cycles <- {s1, s2}, Retries <- 1,
    MaxWrites <- 1, MaxCrashes <- 1, cycle <- imageCycle, sweep <- assetSweep

ASSUME Ranks!Assumptions

Scenes == {"invites", "links", "inactivity", "ranks", "images"}

-----------------------------------------------------------------------------
\* A component at rest is in one of its initial states.
RanksInit ==
    /\ scene # "ranks" => level = [p \in 1 .. 3 |-> p] /\ rank = 1 /\ stock = {}
    /\ Ranks!Init
ImagesInit == (scene # "images" => asset = [h \in {"h"} |-> "none"]) /\ Images!Init

Init ==
    /\ scene \in Scenes
    /\ Inv!Init /\ Links!Init /\ Idle!Init /\ RanksInit /\ ImagesInit

Next ==
    /\ UNCHANGED scene
    /\ \/ scene = "invites" /\ Inv!Next
       \/ scene # "invites" /\ UNCHANGED inviteVars
    /\ \/ scene = "links" /\ Links!Next
       \/ scene # "links" /\ UNCHANGED linkVars
    /\ \/ scene = "inactivity" /\ Idle!Next
       \/ scene # "inactivity" /\ UNCHANGED inactivityVars
    /\ \/ scene = "ranks" /\ Ranks!Next
       \/ scene # "ranks" /\ UNCHANGED rankVars
    /\ \/ scene = "images" /\ Images!Next
       \/ scene # "images" /\ UNCHANGED imageVars

\* Each component's own fairness, in its scene.
Fairness ==
    /\ WF_inviteVars(scene = "invites" /\ Inv!SweepRead)
    /\ SF_inviteVars(scene = "invites" /\ Inv!SweepExpire(<<a1, alice>>))
    /\ WF_linkVars(scene = "links" /\ Links!Tick)
    /\ WF_linkVars(scene = "links" /\ Links!SweepRead)
    /\ WF_linkVars(scene = "links" /\ Links!SweepWrite)
    /\ WF_inactivityVars(scene = "inactivity" /\ Idle!Progress)
    /\ WF_rankVars(scene = "ranks" /\ Ranks!SweepNext(s1))
    /\ WF_imageVars(scene = "images" /\ Images!ComesDue(u1))
    /\ \A s \in {s1, s2} : WF_imageVars(scene = "images" /\ Images!CycleNext(s))

FairSpec == Init /\ [][Next]_vars /\ Fairness

-----------------------------------------------------------------------------
(* No invite stays lapsed for ever (inviteExpiry.ts).                      *)
LapsedInvitesEnd == Inv!LapsedInvitesEnd

(* No suspect link stays at WARN past its window (linkHealth.ts:222).      *)
SuspectLinksSettle == Links!SuspectLinksSettle

(* No idle member stays for ever (inactivityJob.ts:310).                   *)
DormantMembersGo == Idle!DormantMembersGo

(* Promotion comes to rest (rankProgression.ts:199).                       *)
RanksSettle == Ranks!RanksSettle

(* No row is pending for ever (remoteImage.ts:41).                         *)
PendingRowsSettle == Images!PendingRowsSettle
=============================================================================
