---------------------------- MODULE RequestEscrow ----------------------------
(***************************************************************************)
(* Requests and their bounties (modules/requestLifecycle.ts): members      *)
(* pledge bytes on a request, whoever fills it is paid the total, an       *)
(* unfill claws the award back and a delete refunds the backers.           *)
(*                                                                         *)
(* Each operation is one interactive transaction of several statements.    *)
(* tx[t] is what transaction t has read and how far it has come; its       *)
(* actions are the statements that wait for, read or claim a row.  Writes  *)
(* are applied by the last action of a transaction, its commit.            *)
(***************************************************************************)
EXTENDS Accounts

CONSTANTS Requests,       \* ids the request table will hand out
          Contributions,  \* contribution ids
          Owner,          \* the member who owns each contribution
          Fits,           \* <<request, contribution>>: same community and type
          Moderators,     \* members with requests_moderate
          Amounts,        \* the bounty sizes members pledge, all allowed
          PledgeLimit     \* bound: no member adds to a larger bounty than this

VARIABLES request,        \* the Request rows
          bounty,         \* RequestBounty.amount per request and backer, 0: no row
          award,          \* awardedAmount of the latest RequestFill, None: no row
          requestLock,    \* the transaction holding each Request row, or None
          tx              \* the transactions in flight

requestVars == <<request, bounty, award, requestLock>>
vars == <<accountVars, requestVars, tx>>

ASSUME NoneIsNoRequest == None \notin Requests
ASSUME FiniteRequests == IsFiniteSet(Requests)
ASSUME NoneIsNoContribution == None \notin Contributions
ASSUME NoneIsNoAmount == None \notin Nat
ASSUME OwnersAreMembers == Owner \in [Contributions -> Members]
ASSUME FitsIsRelation == Fits \subseteq Requests \X Contributions
ASSUME ModeratorsAreMembers == Moderators \subseteq Members
ASSUME PledgeLimitIsBound == PledgeLimit \in Nat
ASSUME AmountsArePositive == Amounts \subseteq Nat \ {0}

NoRequest == [status |-> "absent", deleted |-> FALSE, owner |-> None,
              filler |-> None, fill |-> None]

Idle == [op |-> "idle", step |-> "idle", by |-> None, request |-> None,
         amount |-> 0, contribution |-> None, read |-> NoRequest,
         balance |-> [contributed |-> 0, consumed |-> 0]]

RequestRows ==
    [status : {"absent", "open", "filled"}, deleted : BOOLEAN,
     owner : Members \cup {None}, filler : Members \cup {None},
     fill : Contributions \cup {None}]

TransactionStates ==
    [op : {"idle", "create", "addBounty", "fill", "unfill", "delete"},
     step : {"idle", "check", "claim", "read", "debit", "pay", "clawback", "refund"},
     by : Members \cup {None}, request : Requests \cup {None}, amount : Nat,
     contribution : Contributions \cup {None}, read : RequestRows,
     balance : [contributed : Nat, consumed : Nat]]

TypeOK ==
    /\ AccountsTypeOK
    /\ request \in [Requests -> RequestRows]
    /\ bounty \in [Requests -> [Members -> Nat]]
    /\ award \in [Requests -> [Members -> Nat \cup {None}]]
    /\ requestLock \in [Requests -> Transactions \cup {None}]
    /\ tx \in [Transactions -> TransactionStates]

Init ==
    /\ AccountsInit
    /\ request = [r \in Requests |-> NoRequest]
    /\ bounty = [r \in Requests |-> [u \in Members |-> 0]]
    /\ award = [r \in Requests |-> [u \in Members |-> None]]
    /\ requestLock = [r \in Requests |-> None]
    /\ tx = [t \in Transactions |-> Idle]

-----------------------------------------------------------------------------
(* Rows and their locks.                                                   *)

IsOpen(r) == request[r].status = "open" /\ ~request[r].deleted
IsFilled(r) == request[r].status = "filled" /\ ~request[r].deleted

Pot(r) == Total(bounty[r])

Backers(r) == {u \in Members : bounty[r][u] > 0}

At(t, op, step) == tx[t].op = op /\ tx[t].step = step

\* Transaction t moves to a later statement.
Proceed(t, step) == tx' = [tx EXCEPT ![t].step = step]

\* Transaction t is over; its row locks are released.
End(t) ==
    /\ tx' = [tx EXCEPT ![t] = Idle]
    /\ memberLock' = ReleaseAll(memberLock, t)
    /\ requestLock' = ReleaseAll(requestLock, t)

\* It is over and none of its writes is applied.
Rollback(t) ==
    /\ End(t)
    /\ UNCHANGED <<contributed, consumed, ledger, floored, request, bounty, award>>

\* updateMany on a request row: waits for the lock, then the WHERE clause
\* decides between taking the row and giving the operation up.
Claim(t, matches, step) ==
    LET r == tx[t].request IN
    /\ requestLock[r] = None
    /\ \/ /\ matches
          /\ requestLock' = TakeLock(requestLock, r, t)
          /\ Proceed(t, step)
          /\ UNCHANGED <<accountVars, request, bounty, award>>
       \/ /\ ~matches
          /\ Rollback(t)

\* Mutant: the ledger row of a debit is written with the sign of a credit.
SpendUnsigned(u, amount) ==
    /\ consumed' = [consumed EXCEPT ![u] = @ + amount]
    /\ ledger' = Post(ledger, u, amount)
    /\ UNCHANGED <<contributed, floored>>

\* Mutant: a debit takes from what has been consumed.
SpendReversed(u, amount) ==
    /\ consumed' = [consumed EXCEPT ![u] = @ - amount]
    /\ ledger' = Post(ledger, u, -amount)
    /\ UNCHANGED <<contributed, floored>>

\* debitBalance and the ledger row of a debit.
Spend(u, amount) ==
    /\ consumed' = [consumed EXCEPT ![u] = @ + amount]
    /\ ledger' = Post(ledger, u, -amount)
    /\ UNCHANGED <<contributed, floored>>

-----------------------------------------------------------------------------
(* createRequest                                                           *)

\* The member and the community are read; too small a balance ends it here.
CreateRead(t, u, r, a) ==
    /\ tx[t] = Idle
    /\ request[r].status = "absent"
    /\ \A s \in Transactions : tx[s].op = "create" => tx[s].request # r
    /\ Affords(Snapshot(u), a)
    /\ tx' = [tx EXCEPT ![t] = [Idle EXCEPT !.op = "create", !.step = "debit", !.by = u,
                                            !.request = r, !.amount = a,
                                            !.balance = Snapshot(u)]]
    /\ UNCHANGED <<accountVars, requestVars>>

\* The debit takes the member's row if their balance has not moved; the
\* request, its first bounty and the ledger row are inserted and it commits.
CreateCommit(t) ==
    LET u == tx[t].by
        r == tx[t].request
        a == tx[t].amount IN
    /\ At(t, "create", "debit")
    /\ MayLock(u, t)
    /\ \/ /\ SnapshotHolds(u, tx[t].balance)
          /\ Spend(u, a)
          /\ request' = [request EXCEPT ![r] = [NoRequest EXCEPT !.status = "open", !.owner = u]]
          /\ bounty' = [bounty EXCEPT ![r][u] = a]
          /\ End(t)
          /\ UNCHANGED award
       \/ /\ ~SnapshotHolds(u, tx[t].balance)
          /\ Rollback(t)

-----------------------------------------------------------------------------
(* addBounty                                                               *)

\* Mutant: the pledge is debited before the request is claimed.
BountyReadDebits(t, u, r, a) ==
    /\ tx[t] = Idle
    /\ IsOpen(r)
    /\ bounty[r][u] < PledgeLimit
    /\ memberLock[u] = None
    /\ memberLock' = TakeLock(memberLock, u, t)
    /\ tx' = [tx EXCEPT ![t] = [Idle EXCEPT !.op = "addBounty", !.step = "claim", !.by = u,
                                            !.request = r, !.amount = a]]
    /\ UNCHANGED <<contributed, consumed, ledger, floored, requestVars>>

\* findOpenRequest
BountyRead(t, u, r, a) ==
    /\ tx[t] = Idle
    /\ IsOpen(r)
    /\ bounty[r][u] < PledgeLimit
    /\ tx' = [tx EXCEPT ![t] = [Idle EXCEPT !.op = "addBounty", !.step = "claim", !.by = u,
                                            !.request = r, !.amount = a]]
    /\ UNCHANGED <<accountVars, requestVars>>

\* Mutant: the request is not claimed; findOpenRequest alone is trusted.
BountyClaimSkipped(t) ==
    /\ At(t, "addBounty", "claim")
    /\ Proceed(t, "read")
    /\ UNCHANGED <<accountVars, requestVars>>

\* The claim every fill, unfill and delete of the request also makes.
BountyClaim(t) ==
    /\ At(t, "addBounty", "claim")
    /\ Claim(t, IsOpen(tx[t].request), "read")

\* The member is read after the claim; too small a balance ends it.
BountyReadMember(t) ==
    LET u == tx[t].by IN
    /\ At(t, "addBounty", "read")
    /\ \/ /\ Affords(Snapshot(u), tx[t].amount)
          /\ tx' = [tx EXCEPT ![t].step = "debit", ![t].balance = Snapshot(u)]
          /\ UNCHANGED <<accountVars, requestVars>>
       \/ /\ ~Affords(Snapshot(u), tx[t].amount)
          /\ Rollback(t)

\* The debit, the ledger row and pledgeBounty, committed.
BountyCommit(t) ==
    LET u == tx[t].by
        r == tx[t].request IN
    /\ At(t, "addBounty", "debit")
    /\ MayLock(u, t)
    /\ \/ /\ SnapshotHolds(u, tx[t].balance)
          /\ Spend(u, tx[t].amount)
          /\ bounty' = [bounty EXCEPT ![r][u] = @ + tx[t].amount]
          /\ End(t)
          /\ UNCHANGED <<request, award>>
       \/ /\ ~SnapshotHolds(u, tx[t].balance)
          /\ Rollback(t)

-----------------------------------------------------------------------------
(* fillRequest                                                             *)

\* The contribution and the request are read: the caller owns the former,
\* the latter is open, and they are of one community and one type.
FillRead(t, u, r, c) ==
    /\ tx[t] = Idle
    /\ Owner[c] = u
    /\ <<r, c>> \in Fits
    /\ IsOpen(r)
    /\ tx' = [tx EXCEPT ![t] = [Idle EXCEPT !.op = "fill", !.step = "check", !.by = u,
                                            !.request = r, !.contribution = c]]
    /\ UNCHANGED <<accountVars, requestVars>>

ActiveFill(c) == \E r \in Requests : IsFilled(r) /\ request[r].fill = c

\* existingFill: is the contribution the fill of some request already?
FillCheck(t) ==
    /\ At(t, "fill", "check")
    /\ \/ /\ ~ActiveFill(tx[t].contribution)
          /\ Proceed(t, "claim")
          /\ UNCHANGED <<accountVars, requestVars>>
       \/ /\ ActiveFill(tx[t].contribution)
          /\ Rollback(t)

FillClaim(t) ==
    /\ At(t, "fill", "claim")
    /\ Claim(t, IsOpen(tx[t].request), "pay")

\* The bounties are totalled after the claim and the total credited; the
\* fill is recorded with the amount awarded.
FillCommit(t) ==
    LET u == tx[t].by
        r == tx[t].request IN
    /\ At(t, "fill", "pay")
    /\ MayLock(u, t)
    /\ contributed' = [contributed EXCEPT ![u] = @ + Pot(r)]
    /\ ledger' = Post(ledger, u, Pot(r))
    /\ request' = [request EXCEPT ![r].status = "filled", ![r].filler = u,
                                  ![r].fill = tx[t].contribution]
    /\ award' = [award EXCEPT ![r][u] = Pot(r)]
    /\ End(t)
    /\ UNCHANGED <<consumed, floored, bounty>>

-----------------------------------------------------------------------------
(* unfillRequest                                                           *)

\* The filled request is read; its owner, its filler or a moderator may go on.
UnfillRead(t, u, r) ==
    /\ tx[t] = Idle
    /\ IsFilled(r)
    /\ u \in Moderators \cup {request[r].owner, request[r].filler}
    /\ tx' = [tx EXCEPT ![t] = [Idle EXCEPT !.op = "unfill", !.step = "claim", !.by = u,
                                            !.request = r, !.read = request[r]]]
    /\ UNCHANGED <<accountVars, requestVars>>

\* Mutant: the claim does not pin the filler.
UnfillMatchesAnyFill(t) == IsFilled(tx[t].request)

\* The claim matches the filler the read saw.
UnfillMatches(t) ==
    /\ IsFilled(tx[t].request)
    /\ request[tx[t].request].filler = tx[t].read.filler

UnfillClaim(t) ==
    /\ At(t, "unfill", "claim")
    /\ Claim(t, UnfillMatches(t), "clawback")

\* What clawBackFill takes back: the awardedAmount of the filler's latest fill.
ClawedBack(r, filler) == award[r][filler]

\* clawBackFill on the latest fill of the filler that was read, then commit.
UnfillCommit(t) ==
    LET r == tx[t].request
        f == tx[t].read.filler IN
    /\ At(t, "unfill", "clawback")
    /\ \/ /\ ClawedBack(r, f) # None
          /\ MayLock(f, t)
          /\ contributed' = [contributed EXCEPT ![f] = FloorSub(@, ClawedBack(r, f))]
          /\ floored' = (floored \/ contributed[f] < ClawedBack(r, f))
          /\ ledger' = Post(ledger, f, -ClawedBack(r, f))
          /\ request' = [request EXCEPT ![r].status = "open", ![r].filler = None,
                                        ![r].fill = None]
          /\ End(t)
          /\ UNCHANGED <<consumed, bounty, award>>
       \/ /\ ClawedBack(r, f) = None
          /\ Rollback(t)

-----------------------------------------------------------------------------
(* deleteRequest                                                           *)

\* The owner may delete an open request, a moderator any.
DeleteRead(t, u, r) ==
    /\ tx[t] = Idle
    /\ IsOpen(r) \/ IsFilled(r)
    /\ u \in Moderators \cup {request[r].owner}
    /\ IsFilled(r) => u \in Moderators
    /\ tx' = [tx EXCEPT ![t] = [Idle EXCEPT !.op = "delete", !.step = "claim", !.by = u,
                                            !.request = r, !.read = request[r]]]
    /\ UNCHANGED <<accountVars, requestVars>>

\* Mutants: the claim does not pin the status; there is no claim.
DeleteMatchesAnyStatus(t) == ~request[tx[t].request].deleted
DeleteMatchesAlways(t) == TRUE

\* The claim matches the status the read saw.
DeleteMatches(t) ==
    LET row == request[tx[t].request] IN ~row.deleted /\ row.status = tx[t].read.status

DeleteClaim(t) ==
    /\ At(t, "delete", "claim")
    /\ Claim(t, DeleteMatches(t), "refund")

\* Whom the delete refunds: every backer if the request was read open.
Owed(t) == IF tx[t].read.status = "open" THEN Backers(tx[t].request) ELSE {}

\* refundBounties takes the backers' rows one after the other.
RefundLock(t, u) ==
    /\ At(t, "delete", "refund")
    /\ u \in Owed(t)
    /\ memberLock[u] = None
    /\ memberLock' = TakeLock(memberLock, u, t)
    /\ UNCHANGED <<contributed, consumed, ledger, floored, requestVars, tx>>

DeleteCommit(t) ==
    LET r == tx[t].request
        owed == Owed(t) IN
    /\ At(t, "delete", "refund")
    /\ \A u \in owed : memberLock[u] = t
    /\ consumed' = [u \in Members |-> IF u \in owed THEN FloorSub(consumed[u], bounty[r][u])
                                                    ELSE consumed[u]]
    /\ floored' = (floored \/ \E u \in owed : consumed[u] < bounty[r][u])
    /\ ledger' = [u \in Members |-> IF u \in owed THEN ledger[u] + bounty[r][u] ELSE ledger[u]]
    /\ request' = [request EXCEPT ![r].deleted = TRUE]
    /\ End(t)
    /\ UNCHANGED <<contributed, bounty, award>>

-----------------------------------------------------------------------------
(* Transactions that do not commit.                                        *)

\* The next row transaction t needs is held by s.
WaitsFor(t, s) ==
    /\ tx[t] # Idle
    /\ s # t
    /\ \/ tx[t].step = "claim" /\ requestLock[tx[t].request] = s
       \/ tx[t].step \in {"debit", "pay"} /\ memberLock[tx[t].by] = s
       \/ tx[t].step = "clawback" /\ memberLock[tx[t].read.filler] = s
       \/ tx[t].step = "refund" /\ \E u \in Owed(t) : memberLock[u] = s

\* Transactions each of which waits for another of them and is waited for.
Circle(S) ==
    \A s \in S : (\E holder \in S : WaitsFor(s, holder)) /\ (\E waiter \in S : WaitsFor(waiter, s))

\* PostgreSQL aborts a transaction of a circle.
DeadlockVictim(t) ==
    /\ \E S \in SUBSET Transactions : t \in S /\ Circle(S)
    /\ Rollback(t)

\* The server process or its connection is lost, or the transaction times out.
Crash(t) ==
    /\ tx[t] # Idle
    /\ Rollback(t)

-----------------------------------------------------------------------------
Begin(t) ==
    \E u \in Members, r \in Requests :
        \/ \E a \in Amounts : CreateRead(t, u, r, a) \/ BountyRead(t, u, r, a)
        \/ \E c \in Contributions : FillRead(t, u, r, c)
        \/ UnfillRead(t, u, r)
        \/ DeleteRead(t, u, r)

Advance(t) ==
    \/ CreateCommit(t)
    \/ BountyClaim(t) \/ BountyReadMember(t) \/ BountyCommit(t)
    \/ FillCheck(t) \/ FillClaim(t) \/ FillCommit(t)
    \/ UnfillClaim(t) \/ UnfillCommit(t)
    \/ DeleteClaim(t) \/ (\E u \in Members : RefundLock(t, u)) \/ DeleteCommit(t)

Next == \E t \in Transactions : Begin(t) \/ Advance(t) \/ DeadlockVictim(t) \/ Crash(t)

Spec == Init /\ [][Next]_vars

-----------------------------------------------------------------------------
(* Properties                                                              *)

\* Filled and not unfilled since, whether or not deleted while filled.
PaidTo(u) == {r \in Requests : request[r].status = "filled" /\ request[r].filler = u}

\* Deleted while open: its bounties went back.
Refunded(r) == request[r].status = "open" /\ request[r].deleted

(***************************************************************************)
(* What a member has contributed is what they opened with plus the pots of *)
(* exactly the requests they are the paid filler of: no interleaving of    *)
(* fills, unfills and deletes pays a pot twice, claws it back from someone *)
(* else or claws it back twice.                                            *)
(***************************************************************************)
ContributedIsEarned ==
    \A u \in Members :
        contributed[u] = Opening[u] + TotalOn([r \in Requests |-> Pot(r)], PaidTo(u))

(***************************************************************************)
(* What a member has consumed is what they pledged on requests that have   *)
(* not refunded them: a bounty racing a fill or a delete is either part of *)
(* the pot they settle or never taken, and a refund is paid once and never *)
(* on a pot that was paid out.                                             *)
(***************************************************************************)
ConsumedIsPledged ==
    \A u \in Members :
        consumed[u] = TotalOn([r \in Requests |-> bounty[r][u]], {r \in Requests : ~Refunded(r)})

(***************************************************************************)
(* The award on record for the filler of a filled request is its whole     *)
(* pot, however bounties interleaved with the fill, so that an unfill      *)
(* takes back exactly what the backers' pot holds again.                   *)
(***************************************************************************)
FillPaidInFull ==
    \A r \in Requests :
        request[r].status = "filled" => award[r][request[r].filler] = Pot(r)

(***************************************************************************)
(* A contribution is the active fill of at most one request: what the      *)
(* existingFill guard of fillRequest says it guards.                       *)
(***************************************************************************)
ContributionFillsOneRequest ==
    \A r, s \in Requests :
        IsFilled(r) /\ IsFilled(s) /\ request[r].fill = request[s].fill => r = s

(***************************************************************************)
(* Only refunds deadlock.  Every operation claims its request first and    *)
(* takes User rows last, and all but a delete take one: a pledge, a fill   *)
(* and an unfill, which members wait on, are never aborted for the order   *)
(* in which they lock, whatever else is in flight.  A delete of several    *)
(* bounties may be, with another delete of the same backers'.              *)
(***************************************************************************)
OnlyRefundsDeadlock ==
    \A S \in SUBSET Transactions : Circle(S) => \A t \in S : At(t, "delete", "refund")

(***************************************************************************)
(* RequestEscrow implements BountyEscrow: seen from outside, each          *)
(* operation of several statements takes effect at once or not at all.     *)
(***************************************************************************)
OutcomeOf(row) ==
    CASE row.status = "absent" -> "unknown"
      [] row.status = "open" -> IF row.deleted THEN "refunded" ELSE "open"
      [] row.status = "filled" -> IF row.deleted THEN "closed" ELSE "paid"

Promise == INSTANCE BountyEscrow WITH
    balance <- [u \in Members |-> Balance(u)],
    stake <- bounty,
    outcome <- [r \in Requests |-> OutcomeOf(request[r])],
    payee <- [r \in Requests |-> request[r].filler]

ImplementsBountyEscrow == Promise!Spec
=============================================================================
