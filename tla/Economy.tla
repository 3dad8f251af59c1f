------------------------------- MODULE Economy -------------------------------
(***************************************************************************)
(* Requests and downloads together: one pair of balance columns, one       *)
(* ledger and one set of User row locks under the transactions of both.    *)
(* A member pledges what a download has earned them, staff reverse that    *)
(* download, a fill pays them, and so on.                                  *)
(***************************************************************************)
EXTENDS Integers, Sums

CONSTANTS Members, Opening, None,
          Requests, Contributions, Owner, Fits, Moderators, Amounts, PledgeLimit,
          Cost, Grants, Levered, NewMembers,
          RequestTransactions,   \* slots for the transactions of RequestEscrow
          DownloadTransactions   \* slots for the transactions of DownloadGrants

VARIABLES contributed, consumed, ledger, floored, memberLock,
          request, bounty, award, requestLock, requestTx,
          exempt, consumerRow, grant, grantLock, downloadTx


R == INSTANCE RequestEscrow WITH Transactions <- RequestTransactions, tx <- requestTx
D == INSTANCE DownloadGrants WITH Transactions <- DownloadTransactions, tx <- downloadTx

ASSUME SlotsAreDisjoint == RequestTransactions \cap DownloadTransactions = {}
ASSUME NoneIsNoSlot == None \notin RequestTransactions \cup DownloadTransactions
ASSUME NoneIsNoRow == None \notin Members \cup Requests \cup Contributions \cup Nat
ASSUME RowsAreFinite == IsFiniteSet(Members) /\ IsFiniteSet(Requests)
ASSUME OpeningIsBalance == Opening \in [Members -> Nat]
ASSUME RequestAssumptions ==
    /\ Fits \subseteq Requests \X Contributions
    /\ Moderators \subseteq Members
    /\ PledgeLimit \in Nat
    /\ Amounts \subseteq Nat \ {0}
ASSUME DownloadAssumptions == D!Assumptions

accountVars == <<contributed, consumed, ledger, floored, memberLock>>
requestVars == <<request, bounty, award, requestLock, requestTx>>
downloadVars == <<exempt, consumerRow, grant, grantLock, downloadTx>>
vars == <<accountVars, requestVars, downloadVars>>

Init == R!Init /\ D!Init

WaitsFor(t, s) == IF t \in RequestTransactions THEN R!WaitsFor(t, s) ELSE D!WaitsFor(t, s)

Rollback(t) ==
    \/ t \in RequestTransactions /\ R!Rollback(t) /\ UNCHANGED downloadVars
    \/ t \in DownloadTransactions /\ D!Rollback(t) /\ UNCHANGED requestVars

AllTransactions == RequestTransactions \cup DownloadTransactions

\* Transactions of either kind each of which waits for another and is waited for.
Circle(S) ==
    \A s \in S : (\E holder \in S : WaitsFor(s, holder)) /\ (\E waiter \in S : WaitsFor(waiter, s))

\* A deadlock of transactions of both: a delete that refunds its backers one
\* after the other and a download that debits one of them and credits the other.
DeadlockVictim(t) ==
    /\ \E S \in SUBSET AllTransactions : t \in S /\ Circle(S)
    /\ Rollback(t)

Next ==
    \/ R!Next /\ UNCHANGED downloadVars
    \/ D!Next /\ UNCHANGED requestVars
    \/ \E t \in AllTransactions : DeadlockVictim(t)

Spec == Init /\ [][Next]_vars

-----------------------------------------------------------------------------
(* Properties                                                              *)

GrantDebits(u) ==
    Total([g \in D!ConsumedBy(u) |-> D!Debit(grant[g].contribution, grant[g].exempt)])
GrantCredits(u) ==
    Total([g \in D!ContributedBy(u) |-> D!Credit(grant[g].contribution, grant[g].exempt)])
Pledges(u) ==
    TotalOn([r \in Requests |-> bounty[r][u]], {r \in Requests : ~R!Refunded(r)})
Awards(u) == TotalOn([r \in Requests |-> R!Pot(r)], R!PaidTo(u))

(***************************************************************************)
(* Both columns of every member are exactly the sum of what requests and   *)
(* grants moved and have not given back: no interleaving of a request's    *)
(* transaction with a download's loses, repeats or overwrites a movement   *)
(* of the other.                                                           *)
(***************************************************************************)
EveryByteAccountedFor ==
    \A u \in Members :
        /\ contributed[u] = Opening[u] + Awards(u) + GrantCredits(u)
        /\ consumed[u] = Pledges(u) + GrantDebits(u)

(***************************************************************************)
(* Bytes are only made by the exemption that makes them: what all members  *)
(* can spend, with what open requests hold for them, is what they opened   *)
(* with plus the credits of Freepass grants.                               *)
(***************************************************************************)
Held == TotalOn([r \in Requests |-> R!Pot(r)], {r \in Requests : R!IsOpen(r)})
Minted ==
    Total([g \in {h \in D!Completed : grant[h].exempt = "FREEPASS"} |->
              Cost[grant[g].contribution]])
BytesConserved ==
    Total(contributed) - Total(consumed) + Held = Total(Opening) + Minted

(***************************************************************************)
(* A debit of either component never overdraws, although the other may     *)
(* debit or claw back between its read and its write.                      *)
(***************************************************************************)
NoOverdraft == R!NoOverdraft

(***************************************************************************)
(* Neither component's decrements ever hit the floor in the company of the *)
(* other's.                                                                *)
(***************************************************************************)
FloorNeverBinds == ~floored

(***************************************************************************)
(* What may deadlock in each other's company: a delete that refunds its    *)
(* backers, and a grant or a reversal that has one User row and waits for  *)
(* its second.  A create, a pledge, a fill and an unfill hold no User row  *)
(* another transaction could want while they wait for theirs, so no        *)
(* download ever costs one of them its transaction.                        *)
(***************************************************************************)
OnlyRefundsAndGrantsDeadlock ==
    \A S \in SUBSET AllTransactions : Circle(S) =>
        \A t \in S : IF t \in RequestTransactions THEN R!At(t, "delete", "refund")
                     ELSE /\ downloadTx[t].step \in {"credit", "clawback"}
                          /\ memberLock[downloadTx[t].by] = t
=============================================================================
