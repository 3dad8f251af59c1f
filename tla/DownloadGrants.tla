--------------------------- MODULE DownloadGrants ---------------------------
(***************************************************************************)
(* Download grants and their reversal (modules/downloads.ts): granting     *)
(* access to a contribution debits the consumer and credits the            *)
(* contributor, unless the contribution's exemption suppresses a side; a   *)
(* staff reversal undoes exactly what the grant moved.  A repeated request *)
(* within the idempotency window is answered with the recent grant.        *)
(***************************************************************************)
EXTENDS Accounts

CONSTANTS Contributions,  \* contribution ids
          Owner,          \* the member who owns each contribution
          Cost,           \* the bytes a download of it accounts for
          Grants,         \* ids the grant table will hand out
          Levered,        \* bound: the contributions whose exemption staff change
          NewMembers      \* members who have not downloaded anything at the start

VARIABLES exempt,         \* Contribution.ratioExempt
          consumerRow,    \* the members with a Consumer row
          grant,          \* the DownloadAccessGrant rows
          grantLock,      \* the transaction holding each grant row, or None
          tx              \* the transactions in flight

grantVars == <<exempt, consumerRow, grant, grantLock>>
vars == <<accountVars, grantVars, tx>>

\* What the constants are assumed to be.
Assumptions ==
    /\ IsFiniteSet(Grants) /\ None \notin Grants \cup Contributions
    /\ Owner \in [Contributions -> Members]
    /\ Cost \in [Contributions -> Nat \ {0}]
    /\ Levered \subseteq Contributions
    /\ NewMembers \subseteq Members

Exemptions == {"NONE", "FREEPASS", "NEUTRALPASS"}

NoGrant == [status |-> "absent", consumer |-> None, contribution |-> None,
            exempt |-> "NONE", recent |-> FALSE]

GrantRows ==
    [status : {"absent", "COMPLETED", "REVERSED"}, consumer : Members \cup {None},
     contribution : Contributions \cup {None}, exempt : Exemptions, recent : BOOLEAN]

Idle == [step |-> "idle", by |-> None, contribution |-> None, exempt |-> "NONE",
         balance |-> [contributed |-> 0, consumed |-> 0], grant |-> None, first |-> FALSE]

TransactionStates ==
    [step : {"idle", "read", "recent", "debit", "credit", "link", "commit",
             "claim", "refund", "clawback"},
     by : Members \cup {None}, contribution : Contributions \cup {None},
     exempt : Exemptions, balance : [contributed : Nat, consumed : Nat],
     grant : Grants \cup {None}, first : BOOLEAN]

TypeOK ==
    /\ AccountsTypeOK
    /\ exempt \in [Contributions -> Exemptions]
    /\ consumerRow \subseteq Members
    /\ grant \in [Grants -> GrantRows]
    /\ grantLock \in [Grants -> Transactions \cup {None}]
    /\ tx \in [Transactions -> TransactionStates]

Init ==
    /\ AccountsInit
    /\ exempt = [c \in Contributions |-> "NONE"]
    /\ consumerRow = Members \ NewMembers
    /\ grant = [g \in Grants |-> NoGrant]
    /\ grantLock = [g \in Grants |-> None]
    /\ tx = [t \in Transactions |-> Idle]

-----------------------------------------------------------------------------
SuppressConsumer(e) == e # "NONE"

\* Mutant: a Freepass suppresses the contributor too.
SuppressContributorAny(e) == e # "NONE"

SuppressContributor(e) == e = "NEUTRALPASS"

\* What the two sides of a grant with exemption e move.
Debit(c, e) == IF SuppressConsumer(e) THEN 0 ELSE Cost[c]
Credit(c, e) == IF SuppressContributor(e) THEN 0 ELSE Cost[c]

\* Mutant: the ledger rows of an exempt grant carry the suppressed amounts.
PostGrantUnmarked(u, c, e) == Post(Post(ledger, u, -Cost[c]), Owner[c], Cost[c])

\* The two ledger rows of a grant; a suppressed side's row is a zero marker.
PostGrant(u, c, e) == Post(Post(ledger, u, -Debit(c, e)), Owner[c], Credit(c, e))

Proceed(t, step) == tx' = [tx EXCEPT ![t].step = step]

End(t) ==
    /\ tx' = [tx EXCEPT ![t] = Idle]
    /\ memberLock' = ReleaseAll(memberLock, t)
    /\ grantLock' = ReleaseAll(grantLock, t)

Rollback(t) ==
    /\ End(t)
    /\ UNCHANGED <<contributed, consumed, ledger, floored, exempt, consumerRow, grant>>

\* An UPDATE of u's row that transaction t will commit later.
LockMember(t, u, step) ==
    /\ MayLock(u, t)
    /\ memberLock' = TakeLock(memberLock, u, t)
    /\ Proceed(t, step)
    /\ UNCHANGED <<contributed, consumed, ledger, floored, grantVars>>

-----------------------------------------------------------------------------
(* grantDownloadAccess                                                     *)

\* No row has id g and no transaction in flight will insert it.
UnusedId(g) == grant[g].status = "absent" /\ \A t \in Transactions : tx[t].grant # g

\* The contribution is read, its exemption with it; not one's own.  Bound: g
\* is the id the grant would get.
GrantRead(t, u, c, g) ==
    /\ tx[t] = Idle
    /\ UnusedId(g)
    /\ Owner[c] # u
    /\ tx' = [tx EXCEPT ![t] = [Idle EXCEPT !.step = "read", !.by = u, !.contribution = c,
                                            !.exempt = exempt[c], !.grant = g]]
    /\ UNCHANGED <<accountVars, grantVars>>

\* The consumer's balance is read.  The ratio policy may have disabled their
\* downloads (User.canDownload, which RatioPolicy models): either answer.
GrantReadConsumer(t) ==
    /\ tx[t].step = "read"
    /\ \/ /\ tx' = [tx EXCEPT ![t].step = "recent", ![t].balance = Snapshot(tx[t].by)]
          /\ UNCHANGED <<accountVars, grantVars>>
       \/ Rollback(t)

\* A completed grant of c to u made within the idempotency window.
RecentGrant(u, c) ==
    \E g \in Grants : /\ grant[g].status = "COMPLETED" /\ grant[g].recent
                      /\ grant[g].consumer = u /\ grant[g].contribution = c

\* The recent grant is returned as it is; otherwise the accrual begins.
GrantFindRecent(t) ==
    /\ tx[t].step = "recent"
    /\ \/ /\ ~RecentGrant(tx[t].by, tx[t].contribution)
          /\ Proceed(t, IF SuppressConsumer(tx[t].exempt) THEN "credit" ELSE "debit")
          /\ UNCHANGED <<accountVars, grantVars>>
       \/ /\ RecentGrant(tx[t].by, tx[t].contribution)
          /\ Rollback(t)

\* debitBalance: too small a balance or one that moved since the read ends it.
GrantDebit(t) ==
    LET u == tx[t].by
        pays == /\ Affords(tx[t].balance, Cost[tx[t].contribution])
                /\ SnapshotHolds(u, tx[t].balance) IN
    /\ tx[t].step = "debit"
    /\ MayLock(u, t)
    /\ \/ pays /\ LockMember(t, u, "credit")
       \/ ~pays /\ Rollback(t)

\* The contributor's row is incremented unless their side is suppressed.
GrantCredit(t) ==
    /\ tx[t].step = "credit"
    /\ \/ /\ ~SuppressContributor(tx[t].exempt)
          /\ LockMember(t, Owner[tx[t].contribution], "link")
       \/ /\ SuppressContributor(tx[t].exempt)
          /\ Proceed(t, "link")
          /\ UNCHANGED <<accountVars, grantVars>>

\* linkConsumer looks the Consumer row up.
GrantLink(t) ==
    /\ tx[t].step = "link"
    /\ tx' = [tx EXCEPT ![t].step = "commit", ![t].first = (tx[t].by \notin consumerRow)]
    /\ UNCHANGED <<accountVars, grantVars>>

\* Inserting the Consumer row fails if another first download has by now.
LinkRaced(t) == tx[t].first /\ tx[t].by \in consumerRow

GrantCommit(t) ==
    LET u == tx[t].by
        c == tx[t].contribution
        e == tx[t].exempt IN
    /\ tx[t].step = "commit"
    /\ \/ /\ ~LinkRaced(t)
          /\ consumed' = [consumed EXCEPT ![u] = @ + Debit(c, e)]
          /\ contributed' = [contributed EXCEPT ![Owner[c]] = @ + Credit(c, e)]
          /\ ledger' = PostGrant(u, c, e)
          /\ grant' = [grant EXCEPT ![tx[t].grant] =
                 [status |-> "COMPLETED", consumer |-> u, contribution |-> c,
                  exempt |-> e, recent |-> TRUE]]
          /\ consumerRow' = consumerRow \cup {u}
          /\ End(t)
          /\ UNCHANGED <<floored, exempt>>
       \/ /\ LinkRaced(t)
          /\ Rollback(t)

-----------------------------------------------------------------------------
(* reverseDownloadAccess                                                   *)

\* Mutant: a reversal goes by the contribution's exemption of today.
ReversedAsNow(g) == exempt[grant[g].contribution]

\* Mutant: the exemption is not snapshotted.
ReversedAsUnset(g) == None

\* The exemption a grant was made under, snapshotted on its row.
ReversedAs(g) == grant[g].exempt

\* Mutant: the contributor is clawed back before anything else.
ReverseReadClawsBack(t, g) ==
    /\ tx[t] = Idle
    /\ grant[g].status = "COMPLETED"
    /\ memberLock[Owner[grant[g].contribution]] = None
    /\ memberLock' = TakeLock(memberLock, Owner[grant[g].contribution], t)
    /\ tx' = [tx EXCEPT ![t] = [Idle EXCEPT !.step = "claim", !.grant = g,
                                            !.by = grant[g].consumer,
                                            !.contribution = grant[g].contribution,
                                            !.exempt = ReversedAs(g)]]
    /\ UNCHANGED <<contributed, consumed, ledger, floored, grantVars>>

ReverseRead(t, g) ==
    /\ tx[t] = Idle
    /\ grant[g].status = "COMPLETED"
    /\ tx' = [tx EXCEPT ![t] = [Idle EXCEPT !.step = "claim", !.grant = g,
                                            !.by = grant[g].consumer,
                                            !.contribution = grant[g].contribution,
                                            !.exempt = ReversedAs(g)]]
    /\ UNCHANGED <<accountVars, grantVars>>

\* Mutant: the reversal is not claimed.
ReversibleAlways(g) == TRUE

Reversible(g) == grant[g].status = "COMPLETED"

ReverseClaim(t) ==
    LET g == tx[t].grant IN
    /\ tx[t].step = "claim"
    /\ grantLock[g] = None
    /\ \/ /\ Reversible(g)
          /\ grantLock' = TakeLock(grantLock, g, t)
          /\ Proceed(t, "refund")
          /\ UNCHANGED <<accountVars, exempt, consumerRow, grant>>
       \/ /\ ~Reversible(g)
          /\ Rollback(t)

ReverseRefund(t) ==
    /\ tx[t].step = "refund"
    /\ \/ /\ ~SuppressConsumer(tx[t].exempt)
          /\ LockMember(t, tx[t].by, "clawback")
       \/ /\ SuppressConsumer(tx[t].exempt)
          /\ Proceed(t, "clawback")
          /\ UNCHANGED <<accountVars, grantVars>>

\* The clawback takes the contributor's row; then both decrements, the two
\* ledger rows and the reversed grant commit.
ReverseCommit(t) ==
    LET u == tx[t].by
        c == tx[t].contribution
        e == tx[t].exempt IN
    /\ tx[t].step = "clawback"
    /\ SuppressContributor(e) \/ MayLock(Owner[c], t)
    /\ consumed' = [consumed EXCEPT ![u] = FloorSub(@, Debit(c, e))]
    /\ contributed' = [contributed EXCEPT ![Owner[c]] = FloorSub(@, Credit(c, e))]
    /\ floored' = (floored \/ consumed[u] < Debit(c, e) \/ contributed[Owner[c]] < Credit(c, e))
    /\ ledger' = Post(Post(ledger, u, Debit(c, e)), Owner[c], -Credit(c, e))
    /\ grant' = [grant EXCEPT ![tx[t].grant].status = "REVERSED"]
    /\ End(t)
    /\ UNCHANGED <<exempt, consumerRow>>

-----------------------------------------------------------------------------
(* Around them.                                                            *)

\* setContributionRatioExempt: one transaction that locks the row.
SetContributionRatioExempt(c, e) ==
    /\ exempt[c] # e
    /\ exempt' = [exempt EXCEPT ![c] = e]
    /\ UNCHANGED <<accountVars, consumerRow, grant, grantLock, tx>>

\* IDEMPOTENCY_WINDOW_MS pass.
WindowPasses(g) ==
    /\ grant[g].recent
    /\ grant' = [grant EXCEPT ![g].recent = FALSE]
    /\ UNCHANGED <<accountVars, exempt, consumerRow, grantLock, tx>>

\* The next row transaction t needs is held by s.
WaitsFor(t, s) ==
    /\ s # t
    /\ \/ tx[t].step = "claim" /\ grantLock[tx[t].grant] = s
       \/ tx[t].step = "debit" /\ memberLock[tx[t].by] = s
       \/ /\ tx[t].step = "refund" /\ ~SuppressConsumer(tx[t].exempt)
          /\ memberLock[tx[t].by] = s
       \/ /\ tx[t].step \in {"credit", "clawback"} /\ ~SuppressContributor(tx[t].exempt)
          /\ memberLock[Owner[tx[t].contribution]] = s

\* Transactions each of which waits for another of them and is waited for.
Circle(S) ==
    \A s \in S : (\E holder \in S : WaitsFor(s, holder)) /\ (\E waiter \in S : WaitsFor(waiter, s))

\* PostgreSQL aborts a transaction of a circle.
DeadlockVictim(t) ==
    /\ \E S \in SUBSET Transactions : t \in S /\ Circle(S)
    /\ Rollback(t)

\* The server process or its connection is lost, or the transaction times out.
Crash(t) ==
    /\ tx[t] # Idle
    /\ Rollback(t)

-----------------------------------------------------------------------------
Begin(t) ==
    \E g \in Grants :
        \/ ReverseRead(t, g)
        \/ \E u \in Members, c \in Contributions : GrantRead(t, u, c, g)

Advance(t) ==
    \/ GrantReadConsumer(t) \/ GrantFindRecent(t) \/ GrantDebit(t) \/ GrantCredit(t)
    \/ GrantLink(t) \/ GrantCommit(t)
    \/ ReverseClaim(t) \/ ReverseRefund(t) \/ ReverseCommit(t)

Environment ==
    \/ \E c \in Levered, e \in Exemptions : SetContributionRatioExempt(c, e)
    \/ \E g \in Grants : WindowPasses(g)

Next ==
    \/ \E t \in Transactions : Begin(t) \/ Advance(t) \/ DeadlockVictim(t) \/ Crash(t)
    \/ Environment

Spec == Init /\ [][Next]_vars

-----------------------------------------------------------------------------
(* Properties                                                              *)

Completed == {g \in Grants : grant[g].status = "COMPLETED"}
ConsumedBy(u) == {g \in Completed : grant[g].consumer = u}
ContributedBy(u) == {g \in Completed : Owner[grant[g].contribution] = u}

(***************************************************************************)
(* Balances are exactly what the completed grants moved, each under the    *)
(* exemption it was granted under: no interleaving of grants, reversals    *)
(* and exemption changes moves a side twice, reverses a side that never    *)
(* accrued or leaves half a grant behind.                                  *)
(***************************************************************************)
BalancesMatchGrants ==
    \A u \in Members :
        /\ consumed[u] =
             Total([g \in ConsumedBy(u) |-> Debit(grant[g].contribution, grant[g].exempt)])
        /\ contributed[u] = Opening[u] +
             Total([g \in ContributedBy(u) |-> Credit(grant[g].contribution, grant[g].exempt)])

(***************************************************************************)
(* Within the idempotency window a member holds one completed grant of a   *)
(* contribution: the repeated request is answered with the recent one.     *)
(***************************************************************************)
RecentGrantReused ==
    \A g, h \in Completed :
        /\ grant[g].recent /\ grant[h].recent
        /\ grant[g].consumer = grant[h].consumer
        /\ grant[g].contribution = grant[h].contribution
        => g = h

(***************************************************************************)
(* A deadlock is over the second User row: each transaction of a circle    *)
(* has taken its consumer's row and waits for the contributor's.  None     *)
(* forms over a grant row, which a reversal claims before any balance, nor *)
(* over the first User row a transaction takes: two reversals of one       *)
(* grant, two downloads of one member, and a reversal beside the same      *)
(* member's next download of the same contributor queue; none is aborted.  *)
(***************************************************************************)
DeadlocksOverSecondRow ==
    \A S \in SUBSET Transactions :
        Circle(S) => \A t \in S : /\ tx[t].step \in {"credit", "clawback"}
                                 /\ memberLock[tx[t].by] = t
=============================================================================
