-------------------------------- MODULE Site --------------------------------
(***************************************************************************)
(* The components that share no state, side by side: a step of the site is *)
(* a step of one of them. Variables and constants keep the component's     *)
(* name for them where only one component has it.                          *)
(***************************************************************************)
EXTENDS Integers, Sequences, FiniteSets

CONSTANTS None,
          Members, Transactions, Contributions, Owner, Cost, Opening, Grants, Levered,
          NewMembers,                                          \* of DownloadGrants
          People, Registrations, Limits, MaxUncapped,          \* of Seats
          Tokens, RecoveryRequests, Lifetime, LastInstant,     \* of Recovery
          Leaders, Answers, Forms, Lists, Unsteady, MaxEvents, \* of Leadership
          CheckedLinks, Writers, Window, Attempts, MaxTime,    \* of LinkHealth
          MemberIds, InactivityCycles, WarnAfter, DisableAfter, Grace, NeverAfter,
          BatchSize, Cap, AdminCreated, Moderated, MaxFailures,        \* of Inactivity
          Urls, Bytes, ImportCycles, Retries, MaxWrites, MaxCrashes,   \* of RemoteImages
          Boards, Trash, Topics, Posts, Authors, ForumRequests,        \* of Forum
          Voters, Toggles                                      \* of RequestVotes

VARIABLES contributed, consumed, ledger, floored, memberLock,
          exempt, consumerRow, grant, grantLock, tx,
          account, maxUsers, reg, highest, uncapped,
          instant, token, recovery, revoking, sets, retired,
          leader, curators, offer, open, disabled, log, answer, form,
          clock, link, writer, warnSweep,
          user, signingIn, inactivityCycle, ran, failures,
          row, asset, refs, writing, imageCycle, assetSweep, writes, crashes,
          forum, topic, post, forumReq,
          vote, voteCount, toggle

downloadsVars == <<contributed, consumed, ledger, floored, memberLock,
                   exempt, consumerRow, grant, grantLock, tx>>
seatsVars == <<account, maxUsers, reg, highest, uncapped>>
recoveryVars == <<instant, token, recovery, revoking, sets, retired>>
leadershipVars == <<leader, curators, offer, open, disabled, log, answer, form>>
linksVars == <<clock, link, writer, warnSweep>>
inactivityVars == <<user, signingIn, inactivityCycle, ran, failures>>
imagesVars == <<row, asset, refs, writing, imageCycle, assetSweep, writes, crashes>>
forumVars == <<forum, topic, post, forumReq>>
votesVars == <<vote, voteCount, toggle>>

vars == <<downloadsVars, seatsVars, recoveryVars, leadershipVars, linksVars, inactivityVars,
          imagesVars, forumVars, votesVars>>

Down == INSTANCE DownloadGrants
Seat == INSTANCE Seats
Rec == INSTANCE Recovery WITH Transactions <- RecoveryRequests
Lead == INSTANCE Leadership WITH Members <- Leaders, Requests <- Answers, req <- answer
Links == INSTANCE LinkHealth WITH Links <- CheckedLinks, sweep <- warnSweep
Idle == INSTANCE Inactivity WITH
    Members <- MemberIds, Cycles <- InactivityCycles, cycle <- inactivityCycle
Images == INSTANCE RemoteImages WITH
    Cycles <- ImportCycles, cycle <- imageCycle, sweep <- assetSweep
Forums == INSTANCE Forum WITH Requests <- ForumRequests, req <- forumReq
Votes == INSTANCE RequestVotes WITH Members <- Voters

ASSUME DownloadsAssumptions ==
    /\ Down!Assumptions
    /\ None \notin Members \cup Transactions /\ IsFiniteSet(Members)
    /\ Opening \in [Members -> Nat]
ASSUME SeatsAssumptions == Seat!Assumptions
ASSUME RecoveryAssumptions == Rec!Assumptions
ASSUME LeadershipAssumptions == Lead!Assumptions
ASSUME LinksAssumptions == Links!Assumptions
ASSUME InactivityAssumptions == Idle!Assumptions
ASSUME ImagesAssumptions == Images!Assumptions
ASSUME ForumAssumptions == Forums!Assumptions
ASSUME VotesAssumptions == Votes!Assumptions

Init ==
    /\ Down!Init /\ Seat!Init /\ Rec!Init /\ Lead!Init /\ Links!Init /\ Idle!Init /\ Images!Init
    /\ Forums!Init /\ Votes!Init

-----------------------------------------------------------------------------
(* One component moves, the others rest.                                   *)

DownloadsMove ==
    Down!Next /\ UNCHANGED <<seatsVars, recoveryVars, leadershipVars, linksVars, inactivityVars,
                             imagesVars, forumVars, votesVars>>
SeatsMove ==
    Seat!Next /\ UNCHANGED <<downloadsVars, recoveryVars, leadershipVars, linksVars,
                             inactivityVars, imagesVars, forumVars, votesVars>>
RecoveryMoves ==
    Rec!Next /\ UNCHANGED <<downloadsVars, seatsVars, leadershipVars, linksVars, inactivityVars,
                            imagesVars, forumVars, votesVars>>
LeadershipMoves ==
    Lead!Next /\ UNCHANGED <<downloadsVars, seatsVars, recoveryVars, linksVars, inactivityVars,
                             imagesVars, forumVars, votesVars>>
LinksMove ==
    Links!Next /\ UNCHANGED <<downloadsVars, seatsVars, recoveryVars, leadershipVars,
                              inactivityVars, imagesVars, forumVars, votesVars>>
InactivityMoves ==
    Idle!Next /\ UNCHANGED <<downloadsVars, seatsVars, recoveryVars, leadershipVars, linksVars,
                             imagesVars, forumVars, votesVars>>
ImagesMove ==
    Images!Next /\ UNCHANGED <<downloadsVars, seatsVars, recoveryVars, leadershipVars, linksVars,
                               inactivityVars, forumVars, votesVars>>
ForumMoves ==
    Forums!Next /\ UNCHANGED <<downloadsVars, seatsVars, recoveryVars, leadershipVars, linksVars,
                               inactivityVars, imagesVars, votesVars>>
VotesMove ==
    Votes!Next /\ UNCHANGED <<downloadsVars, seatsVars, recoveryVars, leadershipVars, linksVars,
                              inactivityVars, imagesVars, forumVars>>

Next ==
    \/ DownloadsMove \/ SeatsMove \/ RecoveryMoves \/ LeadershipMoves \/ LinksMove
    \/ InactivityMoves \/ ImagesMove \/ ForumMoves \/ VotesMove

Spec == Init /\ [][Next]_vars

-----------------------------------------------------------------------------
(* Every component's state is what its code can store, and every pointer   *)
(* and slot refers to something there is.                                  *)
TypeOK ==
    /\ Down!TypeOK /\ Seat!TypeOK /\ Rec!TypeOK /\ Lead!TypeOK /\ Links!TypeOK /\ Idle!TypeOK
    /\ Images!TypeOK /\ Forums!TypeOK /\ Votes!TypeOK

(* Balances are what the completed grants moved (downloads.ts:132).        *)
BalancesMatchGrants == Down!BalancesMatchGrants

(* The ledger adds up to the balances, exempt grants included (ratio.ts).  *)
LedgerExplainsBalances == Down!LedgerExplainsBalances

(* Deadlocks are over a second User row (downloads.ts:142, :246).          *)
DeadlocksOverSecondRow == Down!DeadlocksOverSecondRow

(* Registrations never oversell the site (auth.ts:414).                    *)
SeatsNeverOversold == Seat!SeatsNeverOversold

(* A token used up, or put an end to before a reset looked at the clock,   *)
(* sets no password (auth.ts:614).                                         *)
RetiredTokensSetNothing == Rec!RetiredTokensSetNothing

(* A handoff in the log is one that happened (communityLeadership.ts:260). *)
HandoffsHappened == Lead!HandoffsHappened

(* Uptime is counted exactly while the link is PASS (linkHealth.ts:154).   *)
SegmentOpenWhilePass == Links!SegmentOpenWhilePass

(* Signing in answers a warning (inactivityJob.ts:118).                    *)
NobodyIsDisabledUnwarned == Idle!NobodyIsDisabledUnwarned

(* No two cycles import one row at a time (remoteImage.ts:50).             *)
OneImportAtATime == Images!OneImportAtATime

(* No empty topic is listed (forum.ts:364).                                *)
LiveTopicsHavePosts == Forums!LiveTopicsHavePosts

(* The vote counter is the number of votes (requestLifecycle.ts:200).      *)
VoteCountMatches == Votes!VoteCountMatches
=============================================================================
