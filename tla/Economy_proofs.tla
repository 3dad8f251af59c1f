--------------------------- MODULE Economy_proofs ---------------------------
(***************************************************************************)
(* Economy for any finite members, requests and grants, any contributions  *)
(* and costs and any number of transactions of both kinds in flight: both  *)
(* columns of every member are exactly what requests and grants moved, no  *)
(* bytes are made but by exemptions, no floor binds, no debit overdraws.   *)
(*                                                                         *)
(* Each component's invariant is the one its own proofs module is about,   *)
(* which holds in any company that leaves its rows alone.  Each sees the   *)
(* locks of its own transactions; a lock of the other's is to it a free    *)
(* row that stands still.                                                  *)
(***************************************************************************)
EXTENDS Economy, Sums_proofs, TLAPS

Slots == RequestTransactions \cup DownloadTransactions

\* The User row locks that the transactions of one component hold.
RequestMemberLock ==
    [u \in Members |-> IF memberLock[u] \in RequestTransactions THEN memberLock[u] ELSE None]
DownloadMemberLock ==
    [u \in Members |-> IF memberLock[u] \in DownloadTransactions THEN memberLock[u] ELSE None]

RP == INSTANCE RequestEscrow_proofs WITH
    Transactions <- RequestTransactions, tx <- requestTx, memberLock <- RequestMemberLock
DP == INSTANCE DownloadGrants_proofs WITH
    Transactions <- DownloadTransactions, tx <- downloadTx, memberLock <- DownloadMemberLock

\* What requests and grants have moved for a member and not given back.
Awarded(u) == RP!TotalOn(RP!Pots, RP!PaidTo(u))
Pledged(u) == RP!TotalOn(RP!PledgesOf(u), RP!Kept)
Credited(u) == DP!TotalOn(DP!CreditOf, DP!ContributedBy(u))
Debited(u) == DP!TotalOn(DP!DebitOf, DP!ConsumedBy(u))

LocksTyped == memberLock \in [Members -> Slots \cup {None}]

\* Each component's columns elsewhere are the doing of the other.
BothExplain ==
    \A u \in Members :
        /\ contributed[u] = Opening[u] + Awarded(u) + Credited(u)
        /\ consumed[u] = Pledged(u) + Debited(u)

EInv == LocksTyped /\ RP!IInv /\ DP!IInv /\ BothExplain

-----------------------------------------------------------------------------
(* The constants are as both components assume.                            *)

LEMMA RequestsApply ==
  /\ None \notin Members /\ None \notin RequestTransactions
  /\ RP!IsFiniteSet(Members) /\ Opening \in [Members -> Nat]
  /\ None \notin Requests /\ RP!IsFiniteSet(Requests)
  /\ None \notin Contributions /\ None \notin Nat
  /\ Owner \in [Contributions -> Members]
  /\ Fits \subseteq Requests \X Contributions
  /\ Moderators \subseteq Members /\ PledgeLimit \in Nat /\ Amounts \subseteq Nat \ {0}
  BY NoneIsNoRow, NoneIsNoSlot, RowsAreFinite, OpeningIsBalance, RequestAssumptions,
     DownloadAssumptions DEF D!Assumptions, RP!IsFiniteSet, IsFiniteSet

LEMMA DownloadsApply ==
  /\ None \notin Members /\ None \notin DownloadTransactions
  /\ DP!IsFiniteSet(Members) /\ Opening \in [Members -> Nat]
  /\ DP!Assumptions
  BY NoneIsNoRow, NoneIsNoSlot, RowsAreFinite, OpeningIsBalance, DownloadAssumptions
     DEF D!Assumptions, DP!Assumptions, D!IsFiniteSet, DP!IsFiniteSet, IsFiniteSet

-----------------------------------------------------------------------------
(* Locks.                                                                  *)

\* What a statement of t may do to the User row locks.
LocksMove(t) ==
    \/ memberLock' = memberLock
    \/ memberLock' = [u \in DOMAIN memberLock |-> IF memberLock[u] = t THEN None ELSE memberLock[u]]
    \/ \E u \in Members : memberLock[u] \in {None, t} /\ memberLock' = [memberLock EXCEPT ![u] = t]

LEMMA LocksStayTyped ==
  ASSUME LocksTyped, NEW t \in Slots, LocksMove(t)
  PROVE  LocksTyped'
  BY DEF LocksTyped, LocksMove

\* A component's transactions leave the other's locks as they are.
LEMMA LocksOfOthers ==
  ASSUME LocksTyped, NEW t \in Slots, LocksMove(t)
  PROVE  /\ t \in RequestTransactions => DownloadMemberLock' = DownloadMemberLock
         /\ t \in DownloadTransactions => RequestMemberLock' = RequestMemberLock
  BY SlotsAreDisjoint, NoneIsNoSlot
     DEF LocksTyped, LocksMove, DownloadMemberLock, RequestMemberLock, Slots

\* A component's own locks move as the locks of all do.
LEMMA RequestLocksMove ==
  ASSUME LocksTyped, NEW t \in RequestTransactions
  PROVE  /\ \A u \in Members : memberLock[u] = t <=> RequestMemberLock[u] = t
         /\ \A u \in Members : R!MayLock(u, t) => RP!MayLock(u, t)
         /\ \A u \in Members : memberLock[u] = None => RequestMemberLock[u] = None
         /\ memberLock' = memberLock => RequestMemberLock' = RequestMemberLock
         /\ memberLock' = R!ReleaseAll(memberLock, t) =>
               RequestMemberLock' = RP!ReleaseAll(RequestMemberLock, t)
         /\ \A u \in Members : memberLock' = R!TakeLock(memberLock, u, t) =>
               RequestMemberLock' = RP!TakeLock(RequestMemberLock, u, t)
  BY NoneIsNoSlot DEF LocksTyped, RequestMemberLock, R!MayLock, RP!MayLock, R!ReleaseAll,
                      RP!ReleaseAll, R!TakeLock, RP!TakeLock

LEMMA DownloadLocksMove ==
  ASSUME LocksTyped, NEW t \in DownloadTransactions
  PROVE  /\ \A u \in Members : memberLock[u] = t <=> DownloadMemberLock[u] = t
         /\ \A u \in Members : D!MayLock(u, t) => DP!MayLock(u, t)
         /\ memberLock' = memberLock => DownloadMemberLock' = DownloadMemberLock
         /\ memberLock' = D!ReleaseAll(memberLock, t) =>
               DownloadMemberLock' = DP!ReleaseAll(DownloadMemberLock, t)
         /\ \A u \in Members : memberLock' = D!TakeLock(memberLock, u, t) =>
               DownloadMemberLock' = DP!TakeLock(DownloadMemberLock, u, t)
  BY NoneIsNoSlot DEF LocksTyped, DownloadMemberLock, D!MayLock, DP!MayLock, D!ReleaseAll,
                      DP!ReleaseAll, D!TakeLock, DP!TakeLock

-----------------------------------------------------------------------------
(***************************************************************************)
(* A request's step is one as RequestEscrow_proofs knows it.               *)
(***************************************************************************)
LEMMA RequestRollsBack ==
  ASSUME LocksTyped, NEW t \in RequestTransactions, R!Rollback(t)
  PROVE  RP!Rollback(t) /\ LocksMove(t)
  <1>1. RequestMemberLock' = RP!ReleaseAll(RequestMemberLock, t)
    BY RequestLocksMove DEF R!Rollback, R!End
  <1>2. requestLock' = RP!ReleaseAll(requestLock, t)
    BY DEF R!Rollback, R!End, R!ReleaseAll, RP!ReleaseAll
  <1>3. RP!Rollback(t)
    BY <1>1, <1>2 DEF R!Rollback, RP!Rollback, R!End, RP!End, R!Idle, RP!Idle, R!NoRequest,
                      RP!NoRequest
  <1>4. LocksMove(t)
    BY DEF LocksMove, R!Rollback, R!End, R!ReleaseAll
  <1> QED BY <1>3, <1>4

LEMMA RequestEnds ==
  ASSUME LocksTyped, NEW t \in RequestTransactions, R!End(t)
  PROVE  RP!End(t) /\ LocksMove(t)
  <1>1. RequestMemberLock' = RP!ReleaseAll(RequestMemberLock, t)
    BY RequestLocksMove DEF R!End
  <1>2. requestLock' = RP!ReleaseAll(requestLock, t)
    BY DEF R!End, R!ReleaseAll, RP!ReleaseAll
  <1>3. RP!End(t)
    BY <1>1, <1>2 DEF R!End, RP!End, R!Idle, RP!Idle, R!NoRequest, RP!NoRequest
  <1>4. LocksMove(t)
    BY DEF LocksMove, R!End, R!ReleaseAll
  <1> QED BY <1>3, <1>4

LEMMA RequestBegins ==
  ASSUME LocksTyped, NEW t \in RequestTransactions, R!Begin(t)
  PROVE  RP!Begin(t) /\ LocksMove(t)
  <1> USE DEF R!Idle, RP!Idle, R!NoRequest, RP!NoRequest, R!accountVars, RP!accountVars,
              R!requestVars, RP!requestVars
  <1>1. ASSUME NEW u \in Members, NEW r \in Requests, NEW a \in Amounts, R!CreateRead(t, u, r, a)
        PROVE  RP!CreateRead(t, u, r, a) /\ memberLock' = memberLock
    BY <1>1, RequestLocksMove DEF R!CreateRead, RP!CreateRead, R!Affords, RP!Affords,
                                  R!Snapshot, RP!Snapshot
  <1>2. ASSUME NEW u \in Members, NEW r \in Requests, NEW a \in Amounts, R!BountyRead(t, u, r, a)
        PROVE  RP!BountyRead(t, u, r, a) /\ memberLock' = memberLock
    BY <1>2, RequestLocksMove DEF R!BountyRead, RP!BountyRead, R!IsOpen, RP!IsOpen
  <1>3. ASSUME NEW u \in Members, NEW r \in Requests, NEW c \in Contributions,
               R!FillRead(t, u, r, c)
        PROVE  RP!FillRead(t, u, r, c) /\ memberLock' = memberLock
    BY <1>3, RequestLocksMove DEF R!FillRead, RP!FillRead, R!IsOpen, RP!IsOpen
  <1>4. ASSUME NEW u \in Members, NEW r \in Requests, R!UnfillRead(t, u, r)
        PROVE  RP!UnfillRead(t, u, r) /\ memberLock' = memberLock
    BY <1>4, RequestLocksMove DEF R!UnfillRead, RP!UnfillRead, R!IsFilled, RP!IsFilled
  <1>5. ASSUME NEW u \in Members, NEW r \in Requests, R!DeleteRead(t, u, r)
        PROVE  RP!DeleteRead(t, u, r) /\ memberLock' = memberLock
    BY <1>5, RequestLocksMove DEF R!DeleteRead, RP!DeleteRead, R!IsOpen, RP!IsOpen, R!IsFilled,
                                  RP!IsFilled
  <1>6. RP!Begin(t) /\ memberLock' = memberLock
    BY <1>1, <1>2, <1>3, <1>4, <1>5 DEF R!Begin, RP!Begin
  <1> QED BY <1>6 DEF LocksMove

\* The rows of members that a request's transaction writes.
LEMMA RequestNamesMembers ==
  ASSUME RP!IInv, NEW t \in RequestTransactions
  PROVE  /\ requestTx[t].op # "idle" => requestTx[t].by \in Members
         /\ requestTx[t].op = "unfill" => requestTx[t].read.filler \in Members
  BY DEF RP!IInv, RP!TransactionsFormed, RP!Formed

\* Only the statements that write a User row wait for it.
LEMMA RequestAdvances ==
  ASSUME LocksTyped, RP!IInv, NEW t \in RequestTransactions, R!Advance(t)
  PROVE  RP!Advance(t) /\ LocksMove(t)
  <1> USE DEF R!At, RP!At, R!Proceed, RP!Proceed, R!accountVars, RP!accountVars, R!requestVars,
              RP!requestVars
  <1>1. ASSUME R!CreateCommit(t)
        PROVE  RP!CreateCommit(t) /\ LocksMove(t)
    BY <1>1, RequestNamesMembers, RequestLocksMove, RequestRollsBack, RequestEnds
       DEF R!CreateCommit, RP!CreateCommit, R!SnapshotHolds, RP!SnapshotHolds, R!Snapshot,
           RP!Snapshot, R!Spend, RP!Spend, R!Post, RP!Post, R!NoRequest, RP!NoRequest
  <1>2. ASSUME NEW m \in BOOLEAN, NEW step, R!Claim(t, m, step)
        PROVE  RP!Claim(t, m, step) /\ LocksMove(t)
    BY <1>2, RequestLocksMove, RequestRollsBack
       DEF R!Claim, RP!Claim, R!TakeLock, RP!TakeLock, LocksMove
  <1>3. ASSUME R!BountyClaim(t)
        PROVE  RP!BountyClaim(t) /\ LocksMove(t)
    BY <1>2, <1>3 DEF R!BountyClaim, RP!BountyClaim, R!IsOpen, RP!IsOpen
  <1>4. ASSUME R!BountyReadMember(t)
        PROVE  RP!BountyReadMember(t) /\ LocksMove(t)
    BY <1>4, RequestLocksMove, RequestRollsBack
       DEF R!BountyReadMember, RP!BountyReadMember, R!Affords, RP!Affords, R!Snapshot,
           RP!Snapshot, LocksMove
  <1>5. ASSUME R!BountyCommit(t)
        PROVE  RP!BountyCommit(t) /\ LocksMove(t)
    BY <1>5, RequestNamesMembers, RequestLocksMove, RequestRollsBack, RequestEnds
       DEF R!BountyCommit, RP!BountyCommit, R!SnapshotHolds, RP!SnapshotHolds, R!Snapshot,
           RP!Snapshot, R!Spend, RP!Spend, R!Post, RP!Post
  <1>6. ASSUME R!FillCheck(t)
        PROVE  RP!FillCheck(t) /\ LocksMove(t)
    BY <1>6, RequestLocksMove, RequestRollsBack
       DEF R!FillCheck, RP!FillCheck, R!ActiveFill, RP!ActiveFill, R!IsFilled, RP!IsFilled,
           LocksMove
  <1>7. ASSUME R!FillClaim(t)
        PROVE  RP!FillClaim(t) /\ LocksMove(t)
    BY <1>2, <1>7 DEF R!FillClaim, RP!FillClaim, R!IsOpen, RP!IsOpen
  <1>8. ASSUME R!FillCommit(t)
        PROVE  RP!FillCommit(t) /\ LocksMove(t)
    BY <1>8, RequestNamesMembers, RequestLocksMove, RequestEnds
       DEF R!FillCommit, RP!FillCommit, R!Pot, RP!Pot, R!Total, RP!Total, R!Units, RP!Units,
           R!Cardinality, RP!Cardinality, R!Post, RP!Post
  <1>9. ASSUME R!UnfillClaim(t)
        PROVE  RP!UnfillClaim(t) /\ LocksMove(t)
    BY <1>2, <1>9 DEF R!UnfillClaim, RP!UnfillClaim, R!UnfillMatches, RP!UnfillMatches,
                      R!IsFilled, RP!IsFilled
  <1>10. ASSUME R!UnfillCommit(t)
         PROVE  RP!UnfillCommit(t) /\ LocksMove(t)
    BY <1>10, RequestNamesMembers, RequestLocksMove, RequestRollsBack, RequestEnds
       DEF R!UnfillCommit, RP!UnfillCommit, R!ClawedBack, RP!ClawedBack, R!FloorSub,
           RP!FloorSub, R!Post, RP!Post
  <1>11. ASSUME R!DeleteClaim(t)
         PROVE  RP!DeleteClaim(t) /\ LocksMove(t)
    BY <1>2, <1>11 DEF R!DeleteClaim, RP!DeleteClaim, R!DeleteMatches, RP!DeleteMatches
  <1>12. ASSUME NEW u \in Members, R!RefundLock(t, u)
         PROVE  RP!RefundLock(t, u) /\ LocksMove(t)
    BY <1>12, RequestLocksMove
       DEF R!RefundLock, RP!RefundLock, R!Owed, RP!Owed, R!Backers, RP!Backers, R!TakeLock,
           LocksMove
  <1>13. ASSUME R!DeleteCommit(t)
         PROVE  RP!DeleteCommit(t) /\ LocksMove(t)
    BY <1>13, RequestLocksMove, RequestEnds
       DEF R!DeleteCommit, RP!DeleteCommit, R!Owed, RP!Owed, R!Backers, RP!Backers, R!FloorSub,
           RP!FloorSub
  <1> QED BY <1>1, <1>3, <1>4, <1>5, <1>6, <1>7, <1>8, <1>9, <1>10, <1>11, <1>12, <1>13
          DEF R!Advance, RP!Advance

-----------------------------------------------------------------------------
(***************************************************************************)
(* A download's step is one as DownloadGrants_proofs knows it.             *)
(***************************************************************************)
LEMMA DownloadEnds ==
  ASSUME LocksTyped, NEW t \in DownloadTransactions, D!End(t)
  PROVE  DP!End(t) /\ LocksMove(t)
  <1>1. DownloadMemberLock' = DP!ReleaseAll(DownloadMemberLock, t)
    BY DownloadLocksMove DEF D!End
  <1>2. grantLock' = DP!ReleaseAll(grantLock, t)
    BY DEF D!End, D!ReleaseAll, DP!ReleaseAll
  <1>3. DP!End(t)
    BY <1>1, <1>2 DEF D!End, DP!End, D!Idle, DP!Idle
  <1>4. LocksMove(t)
    BY DEF LocksMove, D!End, D!ReleaseAll
  <1> QED BY <1>3, <1>4

LEMMA DownloadRollsBack ==
  ASSUME LocksTyped, NEW t \in DownloadTransactions, D!Rollback(t)
  PROVE  DP!Rollback(t) /\ LocksMove(t)
  BY DownloadEnds DEF D!Rollback, DP!Rollback

LEMMA DownloadLocksMember ==
  ASSUME LocksTyped, NEW t \in DownloadTransactions, NEW u \in Members, NEW step,
         D!LockMember(t, u, step)
  PROVE  DP!LockMember(t, u, step) /\ LocksMove(t)
  <1>1. DP!LockMember(t, u, step)
    BY DownloadLocksMove DEF D!LockMember, DP!LockMember, D!Proceed, DP!Proceed, D!grantVars,
                             DP!grantVars
  <1>2. LocksMove(t)
    BY DEF LocksMove, D!LockMember, D!MayLock, D!TakeLock
  <1> QED BY <1>1, <1>2

LEMMA DownloadBegins ==
  ASSUME LocksTyped, NEW t \in DownloadTransactions, D!Begin(t)
  PROVE  DP!Begin(t) /\ LocksMove(t)
  <1> USE DEF D!Idle, DP!Idle, D!accountVars, DP!accountVars, D!grantVars, DP!grantVars
  <1>1. ASSUME NEW g \in Grants, D!ReverseRead(t, g)
        PROVE  DP!ReverseRead(t, g) /\ memberLock' = memberLock
    BY <1>1, DownloadLocksMove DEF D!ReverseRead, DP!ReverseRead, D!ReversedAs, DP!ReversedAs
  <1>2. ASSUME NEW g \in Grants, NEW u \in Members, NEW c \in Contributions,
               D!GrantRead(t, u, c, g)
        PROVE  DP!GrantRead(t, u, c, g) /\ memberLock' = memberLock
    BY <1>2, DownloadLocksMove DEF D!GrantRead, DP!GrantRead, D!UnusedId, DP!UnusedId
  <1>3. DP!Begin(t) /\ memberLock' = memberLock
    BY <1>1, <1>2 DEF D!Begin, DP!Begin
  <1> QED BY <1>3 DEF LocksMove

\* The rows of members that a download's transaction writes.
LEMMA DownloadNamesMembers ==
  ASSUME DP!IInv, NEW t \in DownloadTransactions, downloadTx[t].step # "idle"
  PROVE  /\ downloadTx[t].by \in Members /\ downloadTx[t].contribution \in Contributions
         /\ Owner[downloadTx[t].contribution] \in Members
  <1>1. downloadTx[t].step \in DP!GrantSteps \cup DP!ReverseSteps
    BY DEF DP!IInv, DP!TypeOK, DP!TransactionStates, DP!GrantSteps, DP!ReverseSteps
  <1>2. DP!Formed(downloadTx[t])
    BY DEF DP!IInv, DP!Sound
  <1>3. downloadTx[t].by \in Members /\ downloadTx[t].contribution \in Contributions
    BY <1>1, <1>2 DEF DP!Formed
  <1> QED BY <1>3, DownloadsApply DEF DP!Assumptions

LEMMA DownloadAdvances ==
  ASSUME LocksTyped, DP!IInv, NEW t \in DownloadTransactions, D!Advance(t)
  PROVE  DP!Advance(t) /\ LocksMove(t)
  <1> USE DEF D!Proceed, DP!Proceed, D!accountVars, DP!accountVars, D!grantVars, DP!grantVars
  <1>1. ASSUME D!GrantReadConsumer(t)
        PROVE  DP!GrantReadConsumer(t) /\ LocksMove(t)
    BY <1>1, DownloadLocksMove, DownloadRollsBack
       DEF D!GrantReadConsumer, DP!GrantReadConsumer, D!Snapshot, DP!Snapshot, LocksMove
  <1>2. ASSUME D!GrantFindRecent(t)
        PROVE  DP!GrantFindRecent(t) /\ LocksMove(t)
    BY <1>2, DownloadLocksMove, DownloadRollsBack
       DEF D!GrantFindRecent, DP!GrantFindRecent, D!RecentGrant, DP!RecentGrant,
           D!SuppressConsumer, DP!SuppressConsumer, LocksMove
  <1>3. ASSUME D!GrantDebit(t)
        PROVE  DP!GrantDebit(t) /\ LocksMove(t)
    BY <1>3, DownloadNamesMembers, DownloadLocksMove, DownloadRollsBack, DownloadLocksMember
       DEF D!GrantDebit, DP!GrantDebit, D!Affords, DP!Affords, D!SnapshotHolds,
           DP!SnapshotHolds, D!Snapshot, DP!Snapshot
  <1>4. ASSUME D!GrantCredit(t)
        PROVE  DP!GrantCredit(t) /\ LocksMove(t)
    BY <1>4, DownloadNamesMembers, DownloadLocksMove, DownloadLocksMember
       DEF D!GrantCredit, DP!GrantCredit, D!SuppressContributor, DP!SuppressContributor,
           LocksMove
  <1>5. ASSUME D!GrantLink(t)
        PROVE  DP!GrantLink(t) /\ LocksMove(t)
    BY <1>5, DownloadLocksMove DEF D!GrantLink, DP!GrantLink, LocksMove
  <1>6. ASSUME D!GrantCommit(t)
        PROVE  DP!GrantCommit(t) /\ LocksMove(t)
    BY <1>6, DownloadRollsBack, DownloadEnds
       DEF D!GrantCommit, DP!GrantCommit, D!LinkRaced, DP!LinkRaced, D!Debit, DP!Debit,
           D!Credit, DP!Credit, D!SuppressConsumer, DP!SuppressConsumer, D!SuppressContributor,
           DP!SuppressContributor, D!PostGrant, DP!PostGrant, D!Post, DP!Post
  <1>7. ASSUME D!ReverseClaim(t)
        PROVE  DP!ReverseClaim(t) /\ LocksMove(t)
    BY <1>7, DownloadLocksMove, DownloadRollsBack
       DEF D!ReverseClaim, DP!ReverseClaim, D!Reversible, DP!Reversible, D!TakeLock,
           DP!TakeLock, LocksMove
  <1>8. ASSUME D!ReverseRefund(t)
        PROVE  DP!ReverseRefund(t) /\ LocksMove(t)
    BY <1>8, DownloadNamesMembers, DownloadLocksMove, DownloadLocksMember
       DEF D!ReverseRefund, DP!ReverseRefund, D!SuppressConsumer, DP!SuppressConsumer,
           LocksMove
  <1>9. ASSUME D!ReverseCommit(t)
        PROVE  DP!ReverseCommit(t) /\ LocksMove(t)
    BY <1>9, DownloadNamesMembers, DownloadLocksMove, DownloadEnds
       DEF D!ReverseCommit, DP!ReverseCommit, D!SuppressConsumer, DP!SuppressConsumer,
           D!SuppressContributor, DP!SuppressContributor, D!Debit, DP!Debit, D!Credit,
           DP!Credit, D!FloorSub, DP!FloorSub, D!Post, DP!Post
  <1> QED BY <1>1, <1>2, <1>3, <1>4, <1>5, <1>6, <1>7, <1>8, <1>9 DEF D!Advance, DP!Advance

LEMMA DownloadEnvironment ==
  ASSUME LocksTyped, D!Environment
  PROVE  DP!Environment /\ memberLock' = memberLock
  <1>1. memberLock' = memberLock /\ DownloadMemberLock' = DownloadMemberLock
    BY DEF D!Environment, D!SetContributionRatioExempt, D!WindowPasses, D!accountVars,
           DownloadMemberLock
  <1>2. DP!Environment
    BY <1>1 DEF D!Environment, DP!Environment, D!SetContributionRatioExempt,
                DP!SetContributionRatioExempt, D!WindowPasses, DP!WindowPasses, D!Exemptions,
                DP!Exemptions, D!accountVars, DP!accountVars
  <1> QED BY <1>1, <1>2

-----------------------------------------------------------------------------
(***************************************************************************)
(* A request's step keeps the invariant of both.                           *)
(***************************************************************************)
LEMMA RequestKeepsRequests ==
  ASSUME LocksTyped, RP!IInv, NEW t \in RequestTransactions,
         R!Begin(t) \/ R!Advance(t) \/ R!Rollback(t)
  PROVE  RP!StepIsSound /\ LocksMove(t)
  <1>1. RP!Begin(t) => RP!StepIsSound
    BY RequestsApply, RP!BeginKeeps
  <1>2. RP!Advance(t) => RP!StepIsSound
    BY RequestsApply, RP!AdvanceKeeps
  <1>3. RP!Rollback(t) => RP!StepIsSound
    BY RequestsApply, RP!RollbackKeeps
  <1> QED BY <1>1, <1>2, <1>3, RequestBegins, RequestAdvances, RequestRollsBack

\* It moves no balance of a row that a download's transaction holds.
LEMMA RequestSparesHeldRows ==
  ASSUME LocksTyped, RP!IInv, NEW t \in RequestTransactions,
         R!Begin(t) \/ R!Advance(t) \/ R!Rollback(t),
         NEW u \in Members, memberLock[u] \in DownloadTransactions
  PROVE  contributed'[u] = contributed[u] /\ consumed'[u] = consumed[u]
  <1>1. memberLock[u] # t /\ ~R!MayLock(u, t)
    BY SlotsAreDisjoint, NoneIsNoSlot DEF R!MayLock
  <1>2. contributed \in [Members -> Nat] /\ consumed \in [Members -> Nat]
    BY DEF RP!IInv, RP!TypeOK, RP!AccountsTypeOK
  <1> USE DEF R!accountVars, R!requestVars
  <1>3. CASE R!Begin(t)
    BY <1>3 DEF R!Begin, R!CreateRead, R!BountyRead, R!FillRead, R!UnfillRead, R!DeleteRead
  <1>4. CASE R!Rollback(t)
    BY <1>4 DEF R!Rollback
  <1>5. CASE R!CreateCommit(t) \/ R!BountyCommit(t)
    BY <1>1, <1>2, <1>5 DEF R!CreateCommit, R!BountyCommit, R!Spend, R!Rollback
  <1>6. CASE R!FillCommit(t)
    BY <1>1, <1>2, <1>6 DEF R!FillCommit
  <1>7. CASE R!UnfillCommit(t)
    BY <1>1, <1>2, <1>7 DEF R!UnfillCommit, R!Rollback
  <1>8. CASE R!DeleteCommit(t)
    BY <1>1, <1>2, <1>8 DEF R!DeleteCommit
  <1>9. CASE \/ R!BountyClaim(t) \/ R!BountyReadMember(t) \/ R!FillCheck(t) \/ R!FillClaim(t)
             \/ R!UnfillClaim(t) \/ R!DeleteClaim(t) \/ \E v \in Members : R!RefundLock(t, v)
    BY <1>9 DEF R!BountyClaim, R!BountyReadMember, R!FillCheck, R!FillClaim, R!UnfillClaim,
                R!DeleteClaim, R!RefundLock, R!Claim, R!Rollback
  <1> QED BY <1>3, <1>4, <1>5, <1>6, <1>7, <1>8, <1>9 DEF R!Advance

\* What both count is natural, before a step and after it.
LEMMA CountsAreNatural ==
  ASSUME RP!IInv, DP!IInv, NEW u \in Members
  PROVE  /\ Awarded(u) \in Nat /\ Pledged(u) \in Nat
         /\ Credited(u) \in Nat /\ Debited(u) \in Nat
         /\ Opening[u] \in Nat /\ contributed[u] \in Nat /\ consumed[u] \in Nat
  <1>1. RP!TypeOK
    BY DEF RP!IInv
  <1>2. Awarded(u) \in Nat /\ Pledged(u) \in Nat
    BY <1>1, RequestsApply, RP!TotalsAreNatural DEF Awarded, Pledged
  <1>3. Credited(u) \in Nat /\ Debited(u) \in Nat
    BY DownloadsApply, DP!TotalsAreNatural DEF Credited, Debited
  <1>4. contributed[u] \in Nat /\ consumed[u] \in Nat
    BY <1>1 DEF RP!TypeOK, RP!AccountsTypeOK
  <1> QED BY <1>2, <1>3, <1>4, OpeningIsBalance

LEMMA RequestCountsStayNatural ==
  ASSUME RP!IInv', NEW u \in Members
  PROVE  /\ Awarded(u)' \in Nat /\ Pledged(u)' \in Nat
         /\ contributed'[u] \in Nat /\ consumed'[u] \in Nat
  <1>1. RP!TypeOK'
    BY DEF RP!IInv
  <1>2. /\ RP!TotalOn(RP!Pots', RP!PaidTo(u)') \in Nat
        /\ RP!TotalOn(RP!PledgesOf(u)', RP!Kept') \in Nat
    BY <1>1, RequestsApply, RP!TotalsStayNatural
  <1>3. Awarded(u)' \in Nat /\ Pledged(u)' \in Nat
    BY <1>2 DEF Awarded, Pledged
  <1> QED BY <1>1, <1>3 DEF RP!TypeOK, RP!AccountsTypeOK

LEMMA RequestStepKeeps ==
  ASSUME EInv, NEW t \in RequestTransactions,
         R!Begin(t) \/ R!Advance(t) \/ R!Rollback(t), UNCHANGED downloadVars
  PROVE  EInv' /\ RP!DebitsCovered
  <1>1. LocksTyped /\ RP!IInv /\ DP!IInv /\ BothExplain
    BY DEF EInv
  <1>2. RP!IInv' /\ RP!DebitsCovered /\ RP!ElsewhereStays /\ LocksMove(t)
    BY <1>1, RequestKeepsRequests DEF RP!StepIsSound
  <1>3. LocksTyped' /\ DownloadMemberLock' = DownloadMemberLock
    BY <1>1, <1>2, LocksStayTyped, LocksOfOthers DEF Slots
  <1>4. ASSUME NEW u \in Members
        PROVE  /\ contributed'[u] = Opening[u] + Awarded(u)' + Credited(u)'
               /\ consumed'[u] = Pledged(u)' + Debited(u)'
               /\ DP!EarnedElsewhere(u)' >= 0 /\ DP!SpentElsewhere(u)' >= 0
    <2>1. Credited(u)' = Credited(u) /\ Debited(u)' = Debited(u)
      BY DEF downloadVars, Credited, Debited, DP!CreditOf, DP!DebitOf, DP!ContributedBy,
             DP!ConsumedBy, DP!Completed
    <2>2. /\ contributed'[u] - Awarded(u)' = contributed[u] - Awarded(u)
          /\ consumed'[u] - Pledged(u)' = consumed[u] - Pledged(u)
      BY <1>2 DEF RP!ElsewhereStays, RP!EarnedElsewhere, RP!SpentElsewhere, Awarded, Pledged
    <2>3. /\ contributed[u] = Opening[u] + Awarded(u) + Credited(u)
          /\ consumed[u] = Pledged(u) + Debited(u)
      BY <1>1 DEF BothExplain
    <2>4. /\ DP!EarnedElsewhere(u)' = contributed'[u] - Credited(u)'
          /\ DP!SpentElsewhere(u)' = consumed'[u] - Debited(u)'
      BY DEF DP!EarnedElsewhere, DP!SpentElsewhere, Credited, Debited
    <2>5. /\ Awarded(u) \in Nat /\ Pledged(u) \in Nat /\ Credited(u) \in Nat
          /\ Debited(u) \in Nat /\ Opening[u] \in Nat
          /\ contributed[u] \in Nat /\ consumed[u] \in Nat
      BY <1>1, CountsAreNatural
    <2>6. /\ Awarded(u)' \in Nat /\ Pledged(u)' \in Nat
          /\ contributed'[u] \in Nat /\ consumed'[u] \in Nat
      BY <1>2, RequestCountsStayNatural
    <2>7. /\ contributed'[u] = Opening[u] + Awarded(u)' + Credited(u)'
          /\ consumed'[u] = Pledged(u)' + Debited(u)'
      BY <2>1, <2>2, <2>3, <2>5, <2>6
    <2> QED BY <2>1, <2>4, <2>5, <2>6, <2>7
  <1>5. BothExplain' /\ DP!GrantsAreCovered'
    BY <1>4 DEF BothExplain, DP!GrantsAreCovered
  <1>6. DP!Books'
    BY <1>2 DEF RP!IInv, RP!Money, RP!LedgerExplainsBalances, RP!FloorNeverBinds, RP!Balance,
                DP!Books, DP!LedgerExplainsBalances, DP!FloorNeverBinds, DP!Balance
  <1>7. DP!AccountsTypeOK'
    BY <1>1, <1>2, <1>3 DEF RP!IInv, RP!TypeOK, RP!AccountsTypeOK, DP!IInv, DP!TypeOK,
                            DP!AccountsTypeOK
  <1>8. \A u \in Members : DownloadMemberLock[u] \in DownloadTransactions =>
           contributed'[u] = contributed[u] /\ consumed'[u] = consumed[u]
    BY <1>1, RequestSparesHeldRows, NoneIsNoSlot DEF DownloadMemberLock
  <1>9. UNCHANGED <<DP!grantVars, downloadTx>>
    BY DEF downloadVars, DP!grantVars
  <1>10. DP!IInv'
    BY <1>1, <1>3, <1>5, <1>6, <1>7, <1>8, <1>9, DownloadsApply, DP!OthersStepKeeps
  <1> QED BY <1>2, <1>3, <1>5, <1>10 DEF EInv

-----------------------------------------------------------------------------
(***************************************************************************)
(* A download's step keeps the invariant of both.                          *)
(***************************************************************************)
DownloadSteps(t) == D!Begin(t) \/ D!Advance(t) \/ D!Rollback(t)

LEMMA DownloadKeepsDownloads ==
  ASSUME LocksTyped, DP!IInv,
         (\E t \in DownloadTransactions : DownloadSteps(t)) \/ D!Environment
  PROVE  /\ DP!StepIsSound /\ LocksTyped' /\ RequestMemberLock' = RequestMemberLock
  <1>1. ASSUME NEW t \in DownloadTransactions, DownloadSteps(t)
        PROVE  DP!StepIsSound /\ LocksMove(t)
    <2>1. DP!Begin(t) => DP!StepIsSound
      BY DownloadsApply, DP!NextKeeps DEF DP!Next
    <2>2. DP!Advance(t) => DP!StepIsSound
      BY DownloadsApply, DP!NextKeeps DEF DP!Next
    <2>3. DP!Rollback(t) => DP!StepIsSound
      BY DownloadsApply, DP!RollbackKeeps
    <2> QED BY <1>1, <2>1, <2>2, <2>3, DownloadBegins, DownloadAdvances, DownloadRollsBack
            DEF DownloadSteps
  <1>2. ASSUME NEW t \in DownloadTransactions, DownloadSteps(t)
        PROVE  LocksTyped' /\ RequestMemberLock' = RequestMemberLock
    BY <1>1, <1>2, LocksStayTyped, LocksOfOthers DEF Slots
  <1>3. ASSUME D!Environment
        PROVE  /\ DP!StepIsSound /\ LocksTyped' /\ RequestMemberLock' = RequestMemberLock
    BY <1>3, DownloadEnvironment, DownloadsApply, DP!EnvironmentKeeps
       DEF LocksTyped, RequestMemberLock
  <1> QED BY <1>1, <1>2, <1>3

LEMMA DownloadCountsStayNatural ==
  ASSUME DP!IInv', NEW u \in Members
  PROVE  /\ Credited(u)' \in Nat /\ Debited(u)' \in Nat
         /\ contributed'[u] \in Nat /\ consumed'[u] \in Nat
  <1>1. DP!TypeOK' /\ DP!RowsFormed'
    BY DEF DP!IInv
  <1>2. /\ DP!TotalOn(DP!DebitOf', DP!ConsumedBy(u)') \in Nat
        /\ DP!TotalOn(DP!CreditOf', DP!ContributedBy(u)') \in Nat
    BY <1>1, DownloadsApply, DP!TotalsStayNatural
  <1>3. Credited(u)' \in Nat /\ Debited(u)' \in Nat
    BY <1>2 DEF Credited, Debited
  <1> QED BY <1>1, <1>3 DEF DP!TypeOK, DP!AccountsTypeOK

LEMMA DownloadStepKeeps ==
  ASSUME EInv, (\E t \in DownloadTransactions : DownloadSteps(t)) \/ D!Environment,
         UNCHANGED requestVars
  PROVE  EInv' /\ DP!DebitsCovered
  <1>1. LocksTyped /\ RP!IInv /\ DP!IInv /\ BothExplain
    BY DEF EInv
  <1>2. /\ DP!IInv' /\ DP!DebitsCovered /\ DP!ElsewhereStays
        /\ LocksTyped' /\ RequestMemberLock' = RequestMemberLock
    BY <1>1, DownloadKeepsDownloads DEF DP!StepIsSound
  <1>3. ASSUME NEW u \in Members
        PROVE  /\ contributed'[u] = Opening[u] + Awarded(u)' + Credited(u)'
               /\ consumed'[u] = Pledged(u)' + Debited(u)'
               /\ RP!EarnedElsewhere(u)' >= 0 /\ RP!SpentElsewhere(u)' >= 0
    <2>1. Awarded(u)' = Awarded(u) /\ Pledged(u)' = Pledged(u)
      BY DEF requestVars, Awarded, Pledged, RP!Pots, RP!Pot, RP!PaidTo, RP!PledgesOf, RP!Kept,
             RP!Refunded
    <2>2. /\ contributed'[u] - Credited(u)' = contributed[u] - Credited(u)
          /\ consumed'[u] - Debited(u)' = consumed[u] - Debited(u)
      BY <1>2 DEF DP!ElsewhereStays, DP!EarnedElsewhere, DP!SpentElsewhere, Credited, Debited
    <2>3. /\ contributed[u] = Opening[u] + Awarded(u) + Credited(u)
          /\ consumed[u] = Pledged(u) + Debited(u)
      BY <1>1 DEF BothExplain
    <2>4. /\ RP!EarnedElsewhere(u)' = contributed'[u] - Awarded(u)'
          /\ RP!SpentElsewhere(u)' = consumed'[u] - Pledged(u)'
      BY DEF RP!EarnedElsewhere, RP!SpentElsewhere, Awarded, Pledged
    <2>5. /\ Awarded(u) \in Nat /\ Pledged(u) \in Nat /\ Credited(u) \in Nat
          /\ Debited(u) \in Nat /\ Opening[u] \in Nat
          /\ contributed[u] \in Nat /\ consumed[u] \in Nat
      BY <1>1, CountsAreNatural
    <2>6. /\ Credited(u)' \in Nat /\ Debited(u)' \in Nat
          /\ contributed'[u] \in Nat /\ consumed'[u] \in Nat
      BY <1>2, DownloadCountsStayNatural
    <2>7. /\ contributed'[u] = Opening[u] + Awarded(u)' + Credited(u)'
          /\ consumed'[u] = Pledged(u)' + Debited(u)'
      BY <2>1, <2>2, <2>3, <2>5, <2>6
    <2> QED BY <2>1, <2>4, <2>5, <2>6, <2>7
  <1>4. BothExplain' /\ RP!RequestsAreCovered'
    BY <1>3 DEF BothExplain, RP!RequestsAreCovered
  <1>5. RP!Money'
    BY <1>2, <1>4 DEF RP!Money, RP!LedgerExplainsBalances, RP!FloorNeverBinds, RP!Balance,
                      DP!IInv, DP!Books, DP!LedgerExplainsBalances, DP!FloorNeverBinds,
                      DP!Balance
  <1>6. RP!AccountsTypeOK'
    BY <1>1, <1>2 DEF RP!IInv, RP!TypeOK, RP!AccountsTypeOK, DP!IInv, DP!TypeOK,
                      DP!AccountsTypeOK
  <1>7. UNCHANGED <<RP!requestVars, requestTx>>
    BY DEF requestVars, RP!requestVars
  <1>8. RP!IInv'
    BY <1>1, <1>5, <1>6, <1>7, RequestsApply, RP!OthersStepKeeps
  <1> QED BY <1>2, <1>4, <1>8 DEF EInv

-----------------------------------------------------------------------------
(* The invariant of both.                                                  *)

LEMMA EconomyInit ==
  ASSUME Init
  PROVE  EInv
  <1>1. memberLock = [u \in Members |-> None]
    BY DEF Init, R!Init, R!AccountsInit
  <1>2. LocksTyped
    BY <1>1 DEF LocksTyped
  <1>3. /\ RequestMemberLock = [u \in Members |-> None]
        /\ DownloadMemberLock = [u \in Members |-> None]
    BY <1>1, NoneIsNoSlot DEF RequestMemberLock, DownloadMemberLock
  <1>4. RP!Init
    BY <1>3 DEF Init, R!Init, R!AccountsInit, RP!Init, RP!AccountsInit, R!NoRequest,
                RP!NoRequest, R!Idle, RP!Idle
  <1>5. DP!Init
    BY <1>3 DEF Init, D!Init, D!AccountsInit, DP!Init, DP!AccountsInit, D!NoGrant, DP!NoGrant,
                D!Idle, DP!Idle
  <1>6. /\ RP!IInv
        /\ \A u \in Members : RP!EarnedElsewhere(u) = Opening[u] /\ RP!SpentElsewhere(u) = 0
    BY <1>4, RequestsApply, RP!InitHolds
  <1>7. /\ DP!IInv
        /\ \A u \in Members : DP!EarnedElsewhere(u) = Opening[u] /\ DP!SpentElsewhere(u) = 0
    BY <1>5, DownloadsApply, DP!InitHolds
  <1>8. ASSUME NEW u \in Members
        PROVE  /\ contributed[u] = Opening[u] + Awarded(u) + Credited(u)
               /\ consumed[u] = Pledged(u) + Debited(u)
    <2>1. contributed[u] = Opening[u] /\ consumed[u] = 0
      BY DEF Init, R!Init, R!AccountsInit
    <2>2. /\ contributed[u] - Awarded(u) = Opening[u] /\ consumed[u] - Pledged(u) = 0
      BY <1>6 DEF RP!EarnedElsewhere, RP!SpentElsewhere, Awarded, Pledged
    <2>3. /\ contributed[u] - Credited(u) = Opening[u] /\ consumed[u] - Debited(u) = 0
      BY <1>7 DEF DP!EarnedElsewhere, DP!SpentElsewhere, Credited, Debited
    <2>4. /\ Awarded(u) \in Nat /\ Pledged(u) \in Nat /\ Credited(u) \in Nat
          /\ Debited(u) \in Nat /\ Opening[u] \in Nat
      BY <1>6, <1>7, CountsAreNatural
    <2> QED BY <2>1, <2>2, <2>3, <2>4
  <1> QED BY <1>2, <1>6, <1>7, <1>8 DEF EInv, BothExplain

LEMMA EconomyStutters ==
  ASSUME EInv, UNCHANGED vars
  PROVE  EInv'
  <1>1. UNCHANGED <<contributed, consumed, ledger, floored, memberLock>>
    BY DEF vars, accountVars
  <1>2. UNCHANGED requestVars /\ UNCHANGED downloadVars
    BY DEF vars
  <1>3. UNCHANGED <<RequestMemberLock, DownloadMemberLock>>
    BY <1>1 DEF RequestMemberLock, DownloadMemberLock
  <1>4. UNCHANGED RP!vars
    BY <1>1, <1>2, <1>3 DEF requestVars, RP!vars, RP!accountVars, RP!requestVars
  <1>5. UNCHANGED DP!vars
    BY <1>1, <1>2, <1>3 DEF downloadVars, DP!vars, DP!accountVars, DP!grantVars
  <1>6. RP!IInv' /\ RP!ElsewhereStays
    BY <1>4, RequestsApply, RP!NextKeeps DEF EInv
  <1>7. DP!IInv'
    BY <1>5, DownloadsApply, DP!NextKeeps DEF EInv, DP!StepIsSound
  <1>8. LocksTyped'
    BY <1>1 DEF EInv, LocksTyped
  <1>9. BothExplain'
    <2>1. \A u \in Members : /\ Awarded(u)' = Awarded(u) /\ Pledged(u)' = Pledged(u)
      BY <1>2 DEF requestVars, Awarded, Pledged, RP!Pots, RP!Pot, RP!PaidTo, RP!PledgesOf,
                  RP!Kept, RP!Refunded
    <2>2. \A u \in Members : Credited(u)' = Credited(u) /\ Debited(u)' = Debited(u)
      BY <1>2 DEF downloadVars, Credited, Debited, DP!CreditOf, DP!DebitOf, DP!ContributedBy,
                  DP!ConsumedBy, DP!Completed
    <2> QED BY <1>1, <2>1, <2>2 DEF EInv, BothExplain
  <1> QED BY <1>6, <1>7, <1>8, <1>9 DEF EInv

LEMMA EconomyNext ==
  ASSUME EInv, Next
  PROVE  EInv' /\ (RP!DebitsCovered \/ DP!DebitsCovered)
  <1>1. CASE R!Next /\ UNCHANGED downloadVars
    <2>1. PICK t \in RequestTransactions : R!Begin(t) \/ R!Advance(t) \/ R!Rollback(t)
      BY <1>1 DEF R!Next, R!DeadlockVictim, R!Crash
    <2> QED BY <1>1, <2>1, RequestStepKeeps
  <1>2. CASE D!Next /\ UNCHANGED requestVars
    <2>1. (\E t \in DownloadTransactions : DownloadSteps(t)) \/ D!Environment
      BY <1>2 DEF D!Next, D!DeadlockVictim, D!Crash, DownloadSteps
    <2> QED BY <1>2, <2>1, DownloadStepKeeps
  <1>3. CASE \E t \in AllTransactions : DeadlockVictim(t)
    BY <1>3, RequestStepKeeps, DownloadStepKeeps
       DEF DeadlockVictim, Rollback, DownloadSteps
  <1> QED BY <1>1, <1>2, <1>3 DEF Next

LEMMA EconomyInvariant == Spec => []EInv
  <1>1. EInv /\ [Next]_vars => EInv'
    BY EconomyNext, EconomyStutters
  <1>2. Init => EInv
    BY EconomyInit
  <1> QED BY <1>1, <1>2, PTL DEF Spec

-----------------------------------------------------------------------------
\* Every instance's totals are the same totals.
LEMMA TotalsAgree ==
  /\ \A f : R!Total(f) = Total(f) /\ RP!Total(f) = Total(f) /\ DP!Total(f) = Total(f)
  /\ \A f, S : RP!TotalOn(f, S) = TotalOn(f, S) /\ DP!TotalOn(f, S) = TotalOn(f, S)
  <1>1. \A f : R!Total(f) = Total(f) /\ RP!Total(f) = Total(f) /\ DP!Total(f) = Total(f)
    BY DEF R!Total, RP!Total, DP!Total, Total, R!Units, RP!Units, DP!Units, Units,
           R!Cardinality, RP!Cardinality, DP!Cardinality, Cardinality
  <1> QED BY <1>1 DEF RP!TotalOn, DP!TotalOn, TotalOn

(***************************************************************************)
(* What requests and grants moved, as the properties write it.             *)
(***************************************************************************)
LEMMA CountsAreSums ==
  ASSUME NEW u \in Members
  PROVE  /\ Awards(u) = Awarded(u) /\ Pledges(u) = Pledged(u)
         /\ GrantCredits(u) = Credited(u) /\ GrantDebits(u) = Debited(u)
  <1>1. Awards(u) = Awarded(u)
    BY DEF Awards, Awarded, TotalOn, RP!TotalOn, Total, RP!Total, Units, RP!Units, R!Pot, RP!Pot,
           RP!Pots, R!PaidTo, RP!PaidTo, R!Total, R!Units, Cardinality, R!Cardinality,
           RP!Cardinality
  <1>2. Pledges(u) = Pledged(u)
    BY DEF Pledges, Pledged, TotalOn, RP!TotalOn, Total, RP!Total, Units, RP!Units,
           RP!PledgesOf, RP!Kept, R!Refunded, RP!Refunded, Cardinality, RP!Cardinality
  <1>3. GrantCredits(u) = Credited(u)
    BY DP!SumsAreTotals, DownloadsApply
       DEF GrantCredits, Credited, Total, DP!Total, Units, DP!Units, Cardinality, DP!Cardinality,
           D!ContributedBy, DP!ContributedBy, D!Completed, DP!Completed, D!Credit, DP!Credit,
           D!SuppressContributor, DP!SuppressContributor
  <1>4. GrantDebits(u) = Debited(u)
    BY DP!SumsAreTotals, DownloadsApply
       DEF GrantDebits, Debited, Total, DP!Total, Units, DP!Units, Cardinality, DP!Cardinality,
           D!ConsumedBy, DP!ConsumedBy, D!Completed, DP!Completed, D!Debit, DP!Debit,
           D!SuppressConsumer, DP!SuppressConsumer
  <1> QED BY <1>1, <1>2, <1>3, <1>4

(***************************************************************************)
(* Both columns of every member are exactly what requests and grants moved *)
(* and have not given back: no interleaving of requestLifecycle.ts with    *)
(* downloads.ts loses, repeats or overwrites a movement of either.         *)
(***************************************************************************)
THEOREM EveryByteTheorem == Spec => []EveryByteAccountedFor
  <1>1. EInv => EveryByteAccountedFor
    BY CountsAreSums DEF EInv, BothExplain, EveryByteAccountedFor
  <1> QED BY <1>1, EconomyInvariant, PTL

(***************************************************************************)
(* decrementFloored (ratio.ts) never floors, a claw-back of one component  *)
(* in the company of the other's debits included.                          *)
(***************************************************************************)
THEOREM EconomyFloorTheorem == Spec => []FloorNeverBinds
  <1>1. EInv => FloorNeverBinds
    BY DEF EInv, RP!IInv, RP!Money, RP!FloorNeverBinds, FloorNeverBinds
  <1> QED BY <1>1, EconomyInvariant, PTL

(***************************************************************************)
(* What the ledger's rows of a member add up to is the member's balance,   *)
(* whichever of requestLifecycle.ts and downloads.ts wrote each row.       *)
(***************************************************************************)
THEOREM EconomyLedgerTheorem == Spec => []R!LedgerExplainsBalances
  <1>1. EInv => R!LedgerExplainsBalances
    BY DEF EInv, RP!IInv, RP!Money, RP!LedgerExplainsBalances, R!LedgerExplainsBalances,
           RP!Balance, R!Balance
  <1> QED BY <1>1, EconomyInvariant, PTL

(***************************************************************************)
(* A fill that is on record was paid the whole pot although its member,    *)
(* or a backer of the request, was downloading or downloaded from          *)
(* meanwhile (requestLifecycle.ts, fillRequest).                           *)
(***************************************************************************)
THEOREM EconomyFillsPaidTheorem == Spec => []R!FillPaidInFull
  <1>1. EInv => R!FillPaidInFull
    BY TotalsAgree DEF EInv, RP!IInv, RP!FillPaidInFull, R!FillPaidInFull, RP!Pot, R!Pot
  <1> QED BY <1>1, EconomyInvariant, PTL

(***************************************************************************)
(* No debit of a request or a download overdraws (debitBalance, ratio.ts), *)
(* whatever the other did between its read and its write.                  *)
(***************************************************************************)
THEOREM EconomyNoOverdraftTheorem == Spec => NoOverdraft
  <1> DEFINE Covered ==
         \A u \in Members : consumed'[u] > consumed[u] => contributed'[u] >= consumed'[u]
  <1>1. EInv /\ [Next]_vars => [Covered]_R!accountVars
    BY EconomyNext DEF RP!DebitsCovered, DP!DebitsCovered, vars, accountVars, R!accountVars
  <1>2. [][Covered]_R!accountVars => NoOverdraft
    BY PTL DEF NoOverdraft, R!NoOverdraft
  <1> QED BY <1>1, <1>2, EconomyInvariant, PTL DEF Spec

-----------------------------------------------------------------------------
(***************************************************************************)
(* Deadlocks.  Each component's transactions lock in the order its own     *)
(* proofs give, in any company.                                            *)
(***************************************************************************)
LocksOrdered == RP!LocksHeld /\ DP!LocksHeld

LEMMA OrderInitially ==
  ASSUME Init
  PROVE  LocksOrdered
  <1>1. /\ \A u \in Members : RequestMemberLock[u] = None /\ DownloadMemberLock[u] = None
        /\ \A r \in Requests : requestLock[r] = None
        /\ \A g \in Grants : grantLock[g] = None
    BY NoneIsNoSlot DEF Init, R!Init, D!Init, R!AccountsInit, RequestMemberLock, DownloadMemberLock
  <1> QED BY <1>1, NoneIsNoSlot DEF LocksOrdered, RP!LocksHeld, DP!LocksHeld

LEMMA OrderUntouched ==
  /\ RP!LocksHeld /\ UNCHANGED <<RequestMemberLock, requestLock, requestTx>> => RP!LocksHeld'
  /\ DP!LocksHeld /\ UNCHANGED <<DownloadMemberLock, grantLock, downloadTx>> => DP!LocksHeld'
  BY DEF RP!LocksHeld, DP!LocksHeld, RP!At, DP!HoldsFirst

LEMMA RequestKeepsOrder ==
  ASSUME EInv, LocksOrdered, NEW t \in RequestTransactions,
         R!Begin(t) \/ R!Advance(t) \/ R!Rollback(t), UNCHANGED downloadVars
  PROVE  LocksOrdered'
  <1>1. LocksTyped /\ RP!IInv /\ RP!TypeOK
    BY DEF EInv, RP!IInv
  <1>2. RP!Begin(t) \/ RP!Advance(t) \/ RP!Rollback(t)
    BY <1>1, RequestBegins, RequestAdvances, RequestRollsBack
  <1>3. RP!LocksHeld'
    BY <1>1, <1>2, RequestsApply, RP!LocksKept DEF LocksOrdered
  <1>4. DownloadMemberLock' = DownloadMemberLock
    BY <1>1, RequestKeepsRequests, LocksOfOthers DEF Slots
  <1> QED BY <1>3, <1>4, OrderUntouched DEF LocksOrdered, downloadVars

LEMMA DownloadKeepsOrder ==
  ASSUME EInv, LocksOrdered, (\E t \in DownloadTransactions : DownloadSteps(t)) \/ D!Environment,
         UNCHANGED requestVars
  PROVE  LocksOrdered'
  <1>1. LocksTyped /\ DP!IInv /\ DP!TypeOK
    BY DEF EInv, DP!IInv
  <1>2. ASSUME NEW t \in DownloadTransactions, DownloadSteps(t)
        PROVE  DP!LocksHeld'
    <2>1. DP!Begin(t) \/ DP!Advance(t) \/ DP!Rollback(t)
      BY <1>1, <1>2, DownloadBegins, DownloadAdvances, DownloadRollsBack DEF DownloadSteps
    <2> QED BY <1>1, <2>1, DownloadsApply, DP!LocksKept DEF LocksOrdered
  <1>3. ASSUME D!Environment
        PROVE  DP!LocksHeld'
    <2>1. DownloadMemberLock' = DownloadMemberLock
      BY <1>1, <1>3, DownloadEnvironment DEF DownloadMemberLock
    <2>2. UNCHANGED <<grantLock, downloadTx>>
      BY <1>3 DEF D!Environment, D!SetContributionRatioExempt, D!WindowPasses
    <2> QED BY <2>1, <2>2, OrderUntouched DEF LocksOrdered
  <1>4. RequestMemberLock' = RequestMemberLock
    BY <1>1, DownloadKeepsDownloads
  <1>5. RP!LocksHeld'
    BY <1>4, OrderUntouched DEF LocksOrdered, requestVars
  <1> QED BY <1>2, <1>3, <1>5 DEF LocksOrdered

LEMMA OrderKept ==
  ASSUME EInv, LocksOrdered, [Next]_vars
  PROVE  LocksOrdered'
  <1>1. CASE R!Next /\ UNCHANGED downloadVars
    <2>1. PICK t \in RequestTransactions : R!Begin(t) \/ R!Advance(t) \/ R!Rollback(t)
      BY <1>1 DEF R!Next, R!DeadlockVictim, R!Crash
    <2> QED BY <1>1, <2>1, RequestKeepsOrder
  <1>2. CASE D!Next /\ UNCHANGED requestVars
    <2>1. (\E t \in DownloadTransactions : DownloadSteps(t)) \/ D!Environment
      BY <1>2 DEF D!Next, D!DeadlockVictim, D!Crash, DownloadSteps
    <2> QED BY <1>2, <2>1, DownloadKeepsOrder
  <1>3. CASE \E t \in AllTransactions : DeadlockVictim(t)
    BY <1>3, RequestKeepsOrder, DownloadKeepsOrder DEF DeadlockVictim, Rollback, DownloadSteps
  <1>4. CASE UNCHANGED vars
    <2>1. UNCHANGED <<RequestMemberLock, DownloadMemberLock>>
      BY <1>4 DEF vars, accountVars, RequestMemberLock, DownloadMemberLock
    <2> QED BY <1>4, <2>1, OrderUntouched DEF LocksOrdered, vars, requestVars, downloadVars
  <1> QED BY <1>1, <1>2, <1>3, <1>4 DEF Next

\* What a holder of the lock on a User row may be at.
Holding(t) ==
    IF t \in RequestTransactions THEN R!At(t, "delete", "refund")
    ELSE \/ downloadTx[t].step \in {"link", "commit"}
         \/ downloadTx[t].step \in {"credit", "clawback"} /\ memberLock[downloadTx[t].by] = t

AtClaim(t) ==
    IF t \in RequestTransactions THEN requestTx[t].step = "claim" ELSE downloadTx[t].step = "claim"

LEMMA HoldersAreHolding ==
  ASSUME EInv, LocksOrdered, NEW t \in AllTransactions, NEW u \in Members, memberLock[u] = t
  PROVE  Holding(t) /\ ~AtClaim(t)
  <1>1. CASE t \in RequestTransactions
    <2>1. RequestMemberLock[u] = t
      BY <1>1 DEF RequestMemberLock
    <2>2. R!At(t, "delete", "refund")
      BY <1>1, <2>1 DEF LocksOrdered, RP!LocksHeld, RP!At, R!At
    <2> QED BY <1>1, <2>2 DEF Holding, AtClaim, R!At
  <1>2. CASE t \in DownloadTransactions
    <2>1. DownloadMemberLock[u] = t /\ t \notin RequestTransactions
      BY <1>2, SlotsAreDisjoint DEF DownloadMemberLock
    <2>2. DP!HoldsFirst(downloadTx[t], u)
      BY <1>2, <2>1 DEF LocksOrdered, DP!LocksHeld
    <2> QED BY <2>1, <2>2 DEF Holding, AtClaim, DP!HoldsFirst
  <1> QED BY <1>1, <1>2 DEF AllTransactions

\* Whoever is waited for is past its claim; over a User row, or by a claim.
LEMMA WaitingOrders ==
  ASSUME EInv, LocksOrdered, NEW a \in AllTransactions, NEW b \in AllTransactions, WaitsFor(a, b)
  PROVE  ~AtClaim(b) /\ (AtClaim(a) \/ Holding(b))
  <1>1. CASE a \in RequestTransactions
    <2>1. requestTx[a] # R!Idle /\ requestTx[a] \in RP!TransactionStates /\ RP!Formed(requestTx[a])
      BY <1>1 DEF WaitsFor, R!WaitsFor, EInv, RP!IInv, RP!TypeOK, RP!TransactionsFormed
    <2>2. requestTx[a].step # "idle" => requestTx[a].by \in Members /\ requestTx[a].request \in Requests
      BY <2>1 DEF RP!Formed, RP!TransactionStates
    <2>3. CASE requestTx[a].step = "claim" /\ requestLock[requestTx[a].request] = b
      <3>1. b \in RequestTransactions
        BY <2>2, <2>3, NoneIsNoSlot DEF EInv, RP!IInv, RP!TypeOK, AllTransactions
      <3>2. RP!Claimed(requestTx[b])
        BY <2>2, <2>3, <3>1 DEF LocksOrdered, RP!LocksHeld
      <3> QED BY <1>1, <2>3, <3>1, <3>2 DEF RP!Claimed, AtClaim
    <2>4. CASE requestTx[a].step # "claim"
      <3>1. \E u \in Members : memberLock[u] = b
        BY <1>1, <2>1, <2>2, <2>4 DEF WaitsFor, R!WaitsFor, R!Owed, R!Backers, RP!Formed,
                                      RP!TransactionStates
      <3> QED BY <3>1, HoldersAreHolding
    <2> QED BY <1>1, <2>3, <2>4 DEF WaitsFor, R!WaitsFor
  <1>2. CASE a \in DownloadTransactions
    <2>1. a \notin RequestTransactions /\ D!WaitsFor(a, b)
      BY <1>2, SlotsAreDisjoint DEF WaitsFor
    <2>2. /\ downloadTx[a].step # "idle"
      BY <2>1 DEF D!WaitsFor
    <2>3. CASE downloadTx[a].step = "claim" /\ grantLock[downloadTx[a].grant] = b
      <3>1. downloadTx[a].grant \in Grants
        BY <1>2, <2>3 DEF EInv, DP!IInv, DP!Sound, DP!Formed, DP!ReverseSteps
      <3>2. b \in DownloadTransactions
        BY <2>3, <3>1, NoneIsNoSlot DEF EInv, DP!IInv, DP!TypeOK, AllTransactions
      <3>3. downloadTx[b].step \in {"refund", "clawback"} /\ b \notin RequestTransactions
        BY <2>3, <3>1, <3>2, SlotsAreDisjoint DEF LocksOrdered, DP!LocksHeld
      <3> QED BY <2>1, <2>3, <3>3 DEF AtClaim
    <2>4. CASE downloadTx[a].step # "claim"
      <3>1. /\ downloadTx[a].by \in Members
            /\ Owner[downloadTx[a].contribution] \in Members
        BY <1>2, <2>2, DownloadNamesMembers DEF EInv
      <3>2. \E u \in Members : memberLock[u] = b
        BY <2>1, <2>4, <3>1 DEF D!WaitsFor
      <3> QED BY <3>2, HoldersAreHolding
    <2> QED BY <2>1, <2>3, <2>4 DEF D!WaitsFor
  <1> QED BY <1>1, <1>2 DEF AllTransactions

LEMMA MixedCircles ==
  ASSUME EInv, LocksOrdered
  PROVE  OnlyRefundsAndGrantsDeadlock
  <1> SUFFICES ASSUME NEW S \in SUBSET AllTransactions, Circle(S), NEW s \in S
               PROVE  IF s \in RequestTransactions THEN R!At(s, "delete", "refund")
                      ELSE /\ downloadTx[s].step \in {"credit", "clawback"}
                           /\ memberLock[downloadTx[s].by] = s
    BY DEF OnlyRefundsAndGrantsDeadlock
  <1>1. PICK w \in S : WaitsFor(w, s)
    BY DEF Circle
  <1>2. PICK v \in S : WaitsFor(v, w)
    BY DEF Circle
  <1>3. PICK h \in S : WaitsFor(s, h)
    BY DEF Circle
  <1>4. Holding(s)
    BY <1>1, <1>2, WaitingOrders
  <1>5. s \notin RequestTransactions => downloadTx[s].step \notin {"link", "commit"}
    BY <1>3 DEF WaitsFor, D!WaitsFor
  <1> QED BY <1>4, <1>5 DEF Holding

(***************************************************************************)
(* What may deadlock in each other's company (requestLifecycle.ts:649,     *)
(* downloads.ts): refunds, and grants and reversals that wait for their    *)
(* second User row; never a create, a pledge, a fill or an unfill.         *)
(***************************************************************************)
THEOREM MixedDeadlocksTheorem == Spec => []OnlyRefundsAndGrantsDeadlock
  <1>1. Init => LocksOrdered
    BY OrderInitially
  <1>2. EInv /\ LocksOrdered /\ [Next]_vars => LocksOrdered'
    BY OrderKept
  <1>3. EInv /\ LocksOrdered => OnlyRefundsAndGrantsDeadlock
    BY MixedCircles
  <1> QED BY <1>1, <1>2, <1>3, EconomyInvariant, PTL DEF Spec

-----------------------------------------------------------------------------
(***************************************************************************)
(* What requests and grants moved for all members together.                *)
(***************************************************************************)
Filled == {r \in Requests : request[r].status = "filled"}

LEMMA AllAreNatural ==
  ASSUME EInv
  PROVE  /\ IsFiniteSet(Grants)
         /\ RP!Pots \in [Requests -> Nat] /\ \A r \in Requests : RP!Pots[r] = Total(bounty[r])
         /\ bounty \in [Requests -> [Members -> Nat]]
         /\ DP!DebitOf \in [Grants -> Nat] /\ DP!CreditOf \in [Grants -> Nat]
  <1>1. RP!IInv /\ DP!IInv
    BY DEF EInv
  <1>2. RP!TypeOK
    BY <1>1 DEF RP!IInv
  <1>3. bounty \in [Requests -> [Members -> Nat]]
    BY <1>2 DEF RP!TypeOK
  <1>4. \A r \in Requests : RP!Pots[r] = Total(bounty[r])
    BY TotalsAgree DEF RP!Pots, RP!Pot
  <1>5. \A r \in Requests : Total(bounty[r]) \in Nat
    BY <1>3, RowsAreFinite, TotalType
  <1>6. RP!Pots \in [Requests -> Nat]
    BY <1>4, <1>5 DEF RP!Pots
  <1>7. DP!DebitOf \in [Grants -> Nat] /\ DP!CreditOf \in [Grants -> Nat]
    BY <1>1, DownloadsApply, DP!AmountsNatural
       DEF DP!DebitOf, DP!CreditOf, DP!Completed, DP!IInv, DP!RowsFormed
  <1>8. IsFiniteSet(Grants)
    BY DownloadAssumptions DEF D!Assumptions, D!IsFiniteSet, IsFiniteSet
  <1> QED BY <1>3, <1>4, <1>6, <1>7, <1>8

\* Every filled request pays one member its pot.
LEMMA AwardedToAll ==
  ASSUME EInv
  PROVE  Total([u \in Members |-> Awarded(u)]) = TotalOn(RP!Pots, Filled)
  <1> DEFINE sums == [u \in Members |-> Awarded(u)]
             part == [u \in Members |-> RP!PaidTo(u)]
  <1>1. \A r \in Requests, u, v \in Members : r \in part[u] /\ r \in part[v] => u = v
    BY DEF RP!PaidTo
  <1>2. \A r \in Requests : r \in Filled <=> \E u \in Members : r \in part[u]
    BY DEF RP!PaidTo, Filled, EInv, RP!IInv, RP!RowsFormed
  <1>3. part \in [Members -> SUBSET Requests]
    BY DEF RP!PaidTo
  <1>4. /\ sums \in [Members -> Nat]
        /\ \A u \in Members : sums[u] = TotalOn(RP!Pots, part[u])
    BY CountsAreNatural, TotalsAgree DEF EInv, Awarded
  <1>0. RP!Pots \in [Requests -> Nat] /\ IsFiniteSet(Requests) /\ IsFiniteSet(Members)
    BY AllAreNatural, RowsAreFinite
  <1> HIDE DEF part, sums
  <1>5. Total(sums) = TotalOn(RP!Pots, Filled)
    BY <1>0, <1>1, <1>2, <1>3, <1>4, TotalOfParts
  <1> QED BY <1>5 DEF sums

\* What members have pledged is what the pots hold that were not refunded.
LEMMA PledgedByAll ==
  ASSUME EInv
  PROVE  Total([u \in Members |-> Pledged(u)]) = TotalOn(RP!Pots, RP!Kept)
  <1> DEFINE kept == RP!Kept
             sums == [u \in Members |-> Pledged(u)]
             pots == [r \in kept |-> RP!Pots[r]]
             m == [r \in kept |-> bounty[r]]
  <1>1. kept \subseteq Requests /\ IsFiniteSet(kept) /\ IsFiniteSet(Members)
    BY RowsAreFinite, FS_Subset DEF RP!Kept
  <1>2. m \in [kept -> [Members -> Nat]]
    BY <1>1, AllAreNatural
  <1>3. pots \in [kept -> Nat] /\ \A r \in kept : pots[r] = Total(m[r])
    BY <1>1, AllAreNatural
  <1>4. \A u \in Members : sums[u] = Total([r \in kept |-> m[r][u]])
    <2>1. \A u \in Members :
             [r \in DOMAIN RP!PledgesOf(u) \cap kept |-> RP!PledgesOf(u)[r]]
                = [r \in kept |-> m[r][u]]
      BY <1>1 DEF RP!PledgesOf
    <2> QED BY <2>1, TotalsAgree DEF Pledged, TotalOn
  <1>5. sums \in [Members -> Nat]
    BY CountsAreNatural DEF EInv
  <1>6. TotalOn(RP!Pots, kept) = Total(pots)
    <2>1. [r \in DOMAIN RP!Pots \cap kept |-> RP!Pots[r]] = pots
      BY <1>1, AllAreNatural
    <2> QED BY <2>1 DEF TotalOn
  <1> HIDE DEF kept, sums, pots, m
  <1>7. Total(pots) = Total(sums)
    BY <1>1, <1>2, <1>3, <1>4, <1>5, TotalSwap
  <1> QED BY <1>6, <1>7 DEF kept, sums

LEMMA CreditedToAll ==
  ASSUME EInv
  PROVE  Total([u \in Members |-> Credited(u)]) = Total(DP!CreditOf)
  <1> DEFINE sums == [u \in Members |-> Credited(u)]
             part == [u \in Members |-> DP!ContributedBy(u)]
  <1>1. \A g \in Grants, u, v \in Members : g \in part[u] /\ g \in part[v] => u = v
    BY DEF DP!ContributedBy
  <1>2. \A g \in Grants : g \in DP!Completed <=> \E u \in Members : g \in part[u]
    BY DownloadsApply DEF DP!ContributedBy, DP!Completed, EInv, DP!IInv, DP!RowsFormed,
                          DP!Assumptions
  <1>3. part \in [Members -> SUBSET Grants]
    BY DEF DP!ContributedBy, DP!Completed
  <1>4. /\ sums \in [Members -> Nat]
        /\ \A u \in Members : sums[u] = TotalOn(DP!CreditOf, part[u])
    BY CountsAreNatural, TotalsAgree DEF EInv, Credited
  <1>0. DP!CreditOf \in [Grants -> Nat] /\ IsFiniteSet(Grants) /\ IsFiniteSet(Members)
    BY AllAreNatural, RowsAreFinite
  <1> HIDE DEF part, sums
  <1>5. Total(sums) = TotalOn(DP!CreditOf, DP!Completed)
    BY <1>0, <1>1, <1>2, <1>3, <1>4, TotalOfParts
  <1>6. [g \in Grants |-> IF g \in DP!Completed THEN DP!CreditOf[g] ELSE 0] = DP!CreditOf
    BY DEF DP!CreditOf
  <1>7. TotalOn(DP!CreditOf, DP!Completed) = Total(DP!CreditOf)
    BY <1>6, AllAreNatural, TotalOnMasked
  <1> QED BY <1>5, <1>7 DEF sums

LEMMA DebitedFromAll ==
  ASSUME EInv
  PROVE  Total([u \in Members |-> Debited(u)]) = Total(DP!DebitOf)
  <1> DEFINE sums == [u \in Members |-> Debited(u)]
             part == [u \in Members |-> DP!ConsumedBy(u)]
  <1>1. \A g \in Grants, u, v \in Members : g \in part[u] /\ g \in part[v] => u = v
    BY DEF DP!ConsumedBy
  <1>2. \A g \in Grants : g \in DP!Completed <=> \E u \in Members : g \in part[u]
    BY DEF DP!ConsumedBy, DP!Completed, EInv, DP!IInv, DP!RowsFormed
  <1>3. part \in [Members -> SUBSET Grants]
    BY DEF DP!ConsumedBy, DP!Completed
  <1>4. /\ sums \in [Members -> Nat]
        /\ \A u \in Members : sums[u] = TotalOn(DP!DebitOf, part[u])
    BY CountsAreNatural, TotalsAgree DEF EInv, Debited
  <1>0. DP!DebitOf \in [Grants -> Nat] /\ IsFiniteSet(Grants) /\ IsFiniteSet(Members)
    BY AllAreNatural, RowsAreFinite
  <1> HIDE DEF part, sums
  <1>5. Total(sums) = TotalOn(DP!DebitOf, DP!Completed)
    BY <1>0, <1>1, <1>2, <1>3, <1>4, TotalOfParts
  <1>6. [g \in Grants |-> IF g \in DP!Completed THEN DP!DebitOf[g] ELSE 0] = DP!DebitOf
    BY DEF DP!DebitOf
  <1>7. TotalOn(DP!DebitOf, DP!Completed) = Total(DP!DebitOf)
    BY <1>6, AllAreNatural, TotalOnMasked
  <1> QED BY <1>5, <1>7 DEF sums

\* A pot that was not refunded was paid out or is still held.
LEMMA PotsPaidOrHeld ==
  ASSUME EInv
  PROVE  /\ TotalOn(RP!Pots, RP!Kept) = TotalOn(RP!Pots, Filled) + Held
         /\ TotalOn(RP!Pots, Filled) \in Nat /\ Held \in Nat
  <1> DEFINE pots == RP!Pots
             open == {r \in Requests : R!IsOpen(r)}
             kept == [r \in Requests |-> IF r \in RP!Kept THEN pots[r] ELSE 0]
             paid == [r \in Requests |-> IF r \in Filled THEN pots[r] ELSE 0]
             held == [r \in Requests |-> IF r \in open THEN pots[r] ELSE 0]
  <1>1. pots \in [Requests -> Nat]
    BY AllAreNatural
  <1>2. \A r \in Requests : request[r].status = "absent" => pots[r] = 0
    <2>1. ASSUME NEW r \in Requests, request[r].status = "absent"
          PROVE  pots[r] = 0
      <3>1. bounty[r] = [u \in Members |-> 0]
        BY <2>1 DEF EInv, RP!IInv, RP!RowsFormed
      <3>2. Total(bounty[r]) = 0
        BY <3>1, TotalOfZeros
      <3> QED BY <3>2, AllAreNatural
    <2> QED BY <2>1
  <1>3. \A r \in Requests : request[r].status \in {"absent", "open", "filled"}
    BY DEF EInv, RP!IInv, RP!TypeOK, RP!RequestRows
  <1>4. Held = TotalOn(pots, open)
    <2>1. [r \in Requests |-> R!Pot(r)] = pots
      BY TotalsAgree DEF R!Pot, RP!Pots, RP!Pot
    <2> QED BY <2>1 DEF Held
  <1> HIDE DEF pots
  <1>5. /\ TotalOn(pots, RP!Kept) = Total(kept) /\ TotalOn(pots, Filled) = Total(paid)
        /\ TotalOn(pots, open) = Total(held)
    BY <1>1, TotalOnMasked
  <1>6. \A r \in Requests : kept[r] = paid[r] + held[r]
    BY <1>1, <1>2, <1>3 DEF RP!Kept, RP!Refunded, Filled, R!IsOpen
  <1>7. paid \in [Requests -> Nat] /\ held \in [Requests -> Nat]
    BY <1>1
  <1>8. kept = [r \in Requests |-> paid[r] + held[r]]
    BY <1>6
  <1> HIDE DEF kept, paid, held
  <1>9. Total(kept) = Total(paid) + Total(held) /\ Total(paid) \in Nat /\ Total(held) \in Nat
    BY <1>7, <1>8, RowsAreFinite, TotalPlus, TotalType
  <1> QED BY <1>4, <1>5, <1>9 DEF pots

\* Credits and debits differ by what Freepass grants credit.
LEMMA CreditsAreDebitsAndMinted ==
  ASSUME EInv
  PROVE  /\ Total(DP!CreditOf) = Total(DP!DebitOf) + Minted
         /\ Total(DP!DebitOf) \in Nat /\ Minted \in Nat
  <1> DEFINE free == {h \in D!Completed : grant[h].exempt = "FREEPASS"}
             cost == [g \in Grants |->
                         IF g \in D!Completed THEN Cost[grant[g].contribution] ELSE 0]
             minted == [g \in Grants |-> IF g \in free THEN cost[g] ELSE 0]
  <1>1. \A g \in D!Completed : /\ g \in DP!Completed /\ grant[g].contribution \in Contributions
                              /\ Cost[grant[g].contribution] \in Nat
    BY DownloadsApply DEF D!Completed, DP!Completed, EInv, DP!IInv, DP!RowsFormed, DP!Assumptions
  <1>2. cost \in [Grants -> Nat] /\ minted \in [Grants -> Nat]
    BY <1>1
  <1>3. \A g \in Grants : grant[g].exempt \in {"NONE", "FREEPASS", "NEUTRALPASS"}
    BY DEF EInv, DP!IInv, DP!TypeOK, DP!GrantRows, DP!Exemptions
  <1>4. ASSUME NEW g \in Grants
        PROVE  DP!CreditOf[g] = DP!DebitOf[g] + minted[g]
    BY <1>1, <1>3
       DEF DP!CreditOf, DP!DebitOf, DP!Credit, DP!Debit, DP!SuppressConsumer,
           DP!SuppressContributor, D!Completed, DP!Completed
  <1>5. Minted = TotalOn(cost, free)
    <2>1. [g \in DOMAIN cost \cap free |-> cost[g]]
             = [g \in free |-> Cost[grant[g].contribution]]
      BY DEF D!Completed
    <2> QED BY <2>1 DEF Minted, TotalOn
  <1> HIDE DEF cost, free
  <1>6. TotalOn(cost, free) = Total(minted)
    BY <1>2, TotalOnMasked
  <1> HIDE DEF minted
  <1>7. DP!CreditOf = [g \in Grants |-> DP!DebitOf[g] + minted[g]]
    BY <1>4, AllAreNatural
  <1>8. /\ Total([g \in Grants |-> DP!DebitOf[g] + minted[g]])
              = Total(DP!DebitOf) + Total(minted)
        /\ Total(DP!DebitOf) \in Nat /\ Total(minted) \in Nat
    BY <1>2, AllAreNatural, TotalPlus, TotalType
  <1> QED BY <1>5, <1>6, <1>7, <1>8

LEMMA BytesAreConserved ==
  ASSUME EInv
  PROVE  BytesConserved
  <1> DEFINE awarded == [u \in Members |-> Awarded(u)]
             pledged == [u \in Members |-> Pledged(u)]
             credited == [u \in Members |-> Credited(u)]
             debited == [u \in Members |-> Debited(u)]
             earned == [u \in Members |-> awarded[u] + credited[u]]
  <1>1. /\ awarded \in [Members -> Nat] /\ pledged \in [Members -> Nat]
        /\ credited \in [Members -> Nat] /\ debited \in [Members -> Nat]
    BY CountsAreNatural DEF EInv
  <1>2. /\ Total(awarded) = TotalOn(RP!Pots, Filled) /\ Total(pledged) = TotalOn(RP!Pots, RP!Kept)
        /\ Total(credited) = Total(DP!CreditOf) /\ Total(debited) = Total(DP!DebitOf)
    BY AwardedToAll, PledgedByAll, CreditedToAll, DebitedFromAll
  <1>3. \A u \in Members : /\ contributed[u] = Opening[u] + earned[u]
                           /\ consumed[u] = pledged[u] + debited[u]
    BY CountsAreNatural DEF EInv, BothExplain
  <1>4. contributed \in [Members -> Nat] /\ consumed \in [Members -> Nat]
    BY DEF EInv, RP!IInv, RP!TypeOK, RP!AccountsTypeOK
  <1> HIDE DEF awarded, pledged, credited, debited
  <1>5. earned \in [Members -> Nat] /\ Total(earned) = Total(awarded) + Total(credited)
    BY <1>1, RowsAreFinite, TotalPlus
  <1> HIDE DEF earned
  <1>6. /\ contributed = [u \in Members |-> Opening[u] + earned[u]]
        /\ consumed = [u \in Members |-> pledged[u] + debited[u]]
    BY <1>3, <1>4
  <1>7. /\ Total(contributed) = Total(Opening) + Total(earned)
        /\ Total(consumed) = Total(pledged) + Total(debited)
    BY <1>1, <1>5, <1>6, OpeningIsBalance, RowsAreFinite, TotalPlus
  <1>8. Total(Opening) \in Nat
    BY OpeningIsBalance, RowsAreFinite, TotalType
  <1> QED BY <1>2, <1>5, <1>7, <1>8, PotsPaidOrHeld, CreditsAreDebitsAndMinted DEF BytesConserved

(***************************************************************************)
(* No interleaving of requestLifecycle.ts and downloads.ts makes or loses  *)
(* bytes: what members can spend and open requests hold is what members    *)
(* opened with and what Freepass grants credited, for any number of each.  *)
(***************************************************************************)
THEOREM BytesConservedTheorem == Spec => []BytesConserved
  <1>1. EInv => BytesConserved
    BY BytesAreConserved
  <1> QED BY <1>1, EconomyInvariant, PTL
=============================================================================
