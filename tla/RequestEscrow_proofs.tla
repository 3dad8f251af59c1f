------------------------ MODULE RequestEscrow_proofs ------------------------
(***************************************************************************)
(* RequestEscrow for any finite members and requests, any contributions    *)
(* and any number of transactions in flight: types, full payment of every  *)
(* fill, balances that are exactly what the requests say, debits that      *)
(* never overdraw, and the implementation of BountyEscrow.                 *)
(*                                                                         *)
(* The inductive invariant lets balances hold more than requests account   *)
(* for, so that it also holds next to transactions that are not about      *)
(* requests: Economy_proofs uses the same lemmas.                          *)
(***************************************************************************)
EXTENDS RequestEscrow, Sums_proofs, TLAPS

(***************************************************************************)
(* The strengthening.  A transaction past its claim holds its request's    *)
(* row, and the row is still what the claim matched.                       *)
(***************************************************************************)
Claimed(x) == x.op # "create" /\ x.step \in {"read", "debit", "pay", "clawback", "refund"}

ClaimHolds(t) ==
    LET r == tx[t].request IN
    Claimed(tx[t]) =>
        /\ requestLock[r] = t
        /\ tx[t].op \in {"addBounty", "fill"} => IsOpen(r)
        /\ tx[t].op = "unfill" => UnfillMatches(t)
        /\ tx[t].op = "delete" => DeleteMatches(t)

\* The id a create will insert is nobody else's and is not in the table.
CreatesAlone(t) ==
    tx[t].op = "create" =>
        /\ request[tx[t].request].status = "absent"
        /\ \A s \in Transactions :
              tx[s].op = "create" /\ tx[s].request = tx[t].request => s = t

\* What the statements executed so far have established.
Formed(x) ==
    /\ x.op = "idle" => x.step = "idle"
    /\ x.op # "idle" => x.by \in Members /\ x.request \in Requests
    /\ x.op \in {"create", "addBounty"} => x.amount \in Amounts
    /\ x.op = "create" => x.step = "debit"
    /\ x.op = "addBounty" => x.step \in {"claim", "read", "debit"}
    /\ x.op = "fill" => x.step \in {"check", "claim", "pay"} /\ x.contribution \in Contributions
    /\ x.op = "unfill" => x.step \in {"claim", "clawback"} /\ x.read.filler \in Members
    /\ x.op = "delete" => x.step \in {"claim", "refund"} /\ x.read.status # "absent"
    /\ x.step = "debit" => Affords(x.balance, x.amount)

\* A filled row names its filler; a row that does not exist has no bounties
\* and no filler.
RowsFormed ==
    \A r \in Requests :
        /\ request[r].status = "filled" => request[r].filler \in Members
        /\ request[r].status = "absent" =>
              bounty[r] = [u \in Members |-> 0] /\ request[r].filler = None

TransactionsFormed ==
    /\ tx \in [Transactions -> TransactionStates]
    /\ \A t \in Transactions : Formed(tx[t]) /\ ClaimHolds(t) /\ CreatesAlone(t)

Pots == [r \in Requests |-> Pot(r)]
PledgesOf(u) == [r \in Requests |-> bounty[r][u]]
Kept == {r \in Requests : ~Refunded(r)}

\* What a member's columns hold that is not the doing of requests.
EarnedElsewhere(u) == contributed[u] - TotalOn(Pots, PaidTo(u))
SpentElsewhere(u) == consumed[u] - TotalOn(PledgesOf(u), Kept)

\* All that requests have moved is still in the columns.
RequestsAreCovered == \A u \in Members : EarnedElsewhere(u) >= 0 /\ SpentElsewhere(u) >= 0

Money == RequestsAreCovered /\ LedgerExplainsBalances /\ FloorNeverBinds

IInv == TypeOK /\ RowsFormed /\ TransactionsFormed /\ FillPaidInFull /\ Money

\* No debit overdraws in this step.
DebitsCovered == \A u \in Members : consumed'[u] > consumed[u] => contributed'[u] >= consumed'[u]

\* The step moves balances by what requests moved and nothing else.
ElsewhereStays ==
    \A u \in Members :
        EarnedElsewhere(u)' = EarnedElsewhere(u) /\ SpentElsewhere(u)' = SpentElsewhere(u)

StepIsSound == IInv' /\ DebitsCovered /\ ElsewhereStays

-----------------------------------------------------------------------------
(* Small facts.                                                            *)

LEMMA IdleIsFormed ==
  /\ Idle \in TransactionStates
  /\ Formed(Idle)
  /\ ~Claimed(Idle)
  /\ Idle.op = "idle"
  <1>1. NoRequest \in RequestRows
    BY DEF NoRequest, RequestRows
  <1>2. Idle \in TransactionStates
    BY <1>1 DEF Idle, TransactionStates
  <1> QED BY <1>2 DEF Idle, Formed, Claimed

LEMMA PotIsNatural ==
  ASSUME TypeOK, NEW r \in Requests
  PROVE  Pot(r) \in Nat
  BY TotalType, FiniteMembers DEF TypeOK, Pot

(***************************************************************************)
(* A step of transaction t that leaves the locks of the others alone, and  *)
(* writes no row but the one t has claimed or is creating, keeps what the  *)
(* others' claims have matched.                                            *)
(***************************************************************************)
LEMMA OneTransaction ==
  ASSUME TypeOK, TransactionsFormed,
         NEW t \in Transactions, NEW x \in TransactionStates, Formed(x),
         tx' = [tx EXCEPT ![t] = x],
         \A s \in Transactions \ {t}, r \in Requests :
            requestLock[r] = s => requestLock'[r] = s,
         \A r \in Requests :
            \/ request'[r] = request[r]
            \/ r = tx[t].request /\ (Claimed(tx[t]) \/ tx[t].op = "create"),
         ClaimHolds(t)', CreatesAlone(t)'
  PROVE  TransactionsFormed'
  <1>1. tx' \in [Transactions -> TransactionStates]
    BY DEF TypeOK
  <1>2. ASSUME NEW s \in Transactions, s # t
        PROVE  Formed(tx[s])' /\ ClaimHolds(s)' /\ CreatesAlone(s)'
    <2>1. tx'[s] = tx[s] /\ tx'[t] = x
      BY <1>2 DEF TypeOK
    <2>2. Formed(tx[s]) /\ ClaimHolds(s) /\ CreatesAlone(s) /\ tx[s] \in TransactionStates
      BY DEF TransactionsFormed
    <2>3. Formed(tx[t]) /\ ClaimHolds(t) /\ CreatesAlone(t) /\ tx[t] \in TransactionStates
      BY DEF TransactionsFormed
    <2>4. Formed(tx'[s])
      BY <2>1, <2>2
    <2>5. ASSUME NEW q \in Transactions, Claimed(tx[q])
          PROVE  /\ tx[q].request \in Requests
                 /\ request[tx[q].request].status # "absent"
                 /\ requestLock[tx[q].request] = q
      <3>1. Formed(tx[q]) /\ ClaimHolds(q) /\ tx[q] \in TransactionStates
        BY DEF TransactionsFormed
      <3>2. tx[q].op \in {"addBounty", "fill", "unfill", "delete"}
        BY <2>5, <3>1 DEF Claimed, Formed, TransactionStates
      <3> QED BY <2>5, <3>1, <3>2 DEF ClaimHolds, Formed, IsOpen, UnfillMatches, IsFilled,
                                      DeleteMatches
    <2>6. ClaimHolds(s)'
      <3>1. SUFFICES ASSUME Claimed(tx[s])
                     PROVE  ClaimHolds(s)'
        BY <2>1 DEF ClaimHolds
      <3>2. request'[tx[s].request] = request[tx[s].request]
        BY <1>2, <2>3, <2>5, <3>1 DEF CreatesAlone
      <3>3. requestLock'[tx[s].request] = s
        BY <1>2, <2>5, <3>1
      <3> QED BY <2>1, <2>2, <3>1, <3>2, <3>3
                 DEF ClaimHolds, IsOpen, UnfillMatches, IsFilled, DeleteMatches
    <2>7. CreatesAlone(s)'
      <3>1. SUFFICES ASSUME tx[s].op = "create"
                     PROVE  CreatesAlone(s)'
        BY <2>1 DEF CreatesAlone
      <3>2. tx[s].request \in Requests /\ request[tx[s].request].status = "absent"
        BY <2>2, <3>1 DEF Formed, CreatesAlone
      <3>3. request'[tx[s].request] = request[tx[s].request]
        BY <1>2, <2>3, <2>5, <3>1, <3>2 DEF CreatesAlone
      <3>4. ASSUME NEW q \in Transactions,
                   tx'[q].op = "create", tx'[q].request = tx[s].request
            PROVE  q = s
        <4>1. CASE q = t
          BY <1>2, <2>1, <3>1, <3>4, <4>1 DEF CreatesAlone
        <4>2. CASE q # t
          BY <2>2, <3>1, <3>4, <4>2 DEF CreatesAlone, TypeOK
        <4> QED BY <4>1, <4>2
      <3> QED BY <2>1, <3>2, <3>3, <3>4 DEF CreatesAlone
    <2> QED BY <2>4, <2>6, <2>7
  <1>3. Formed(tx[t])'
    BY DEF TypeOK
  <1>4. \A s \in Transactions : Formed(tx'[s]) /\ ClaimHolds(s)' /\ CreatesAlone(s)'
    BY <1>2, <1>3
  <1> QED BY <1>1, <1>4 DEF TransactionsFormed

-----------------------------------------------------------------------------
(* Transactions that write no row.                                         *)

LEMMA TotalsAreNatural ==
  ASSUME TypeOK, NEW u \in Members
  PROVE  /\ Pots \in [Requests -> Nat]
         /\ PledgesOf(u) \in [Requests -> Nat]
         /\ TotalOn(Pots, PaidTo(u)) \in Nat
         /\ TotalOn(PledgesOf(u), Kept) \in Nat
  <1>1. Pots \in [Requests -> Nat]
    BY PotIsNatural DEF Pots
  <1>2. PledgesOf(u) \in [Requests -> Nat]
    BY DEF TypeOK, PledgesOf
  <1> QED BY <1>1, <1>2, FiniteRequests, TotalOnType

\* So are they after a step that keeps the types.
LEMMA TotalsStayNatural ==
  ASSUME TypeOK', NEW u \in Members
  PROVE  /\ Pots' \in [Requests -> Nat]
         /\ PledgesOf(u)' \in [Requests -> Nat]
         /\ TotalOn(Pots', PaidTo(u)') \in Nat
         /\ TotalOn(PledgesOf(u)', Kept') \in Nat
  <1>1. \A r \in Requests : bounty'[r] \in [Members -> Nat]
    BY DEF TypeOK
  <1>2. \A r \in Requests : Total(bounty'[r]) \in Nat
    BY <1>1, FiniteMembers, TotalType
  <1>3. Pots' \in [Requests -> Nat]
    BY <1>2 DEF Pots, Pot
  <1>4. PledgesOf(u)' \in [Requests -> Nat]
    BY <1>1 DEF PledgesOf
  <1> QED BY <1>3, <1>4, FiniteRequests, TotalOnType

(***************************************************************************)
(* Nothing the totals depend on moves.                                     *)
(***************************************************************************)
LEMMA QuietStep ==
  ASSUME IInv,
         NEW t \in Transactions, NEW x \in TransactionStates, Formed(x),
         tx' = [tx EXCEPT ![t] = x],
         UNCHANGED <<contributed, consumed, ledger, floored, request, bounty, award>>,
         memberLock' \in [Members -> Transactions \cup {None}],
         requestLock' \in [Requests -> Transactions \cup {None}],
         \A s \in Transactions \ {t}, r \in Requests :
            requestLock[r] = s => requestLock'[r] = s,
         ClaimHolds(t)', CreatesAlone(t)'
  PROVE  StepIsSound
  <1>1. TransactionsFormed'
    BY OneTransaction DEF IInv
  <1>2. TypeOK'
    BY <1>1 DEF IInv, TypeOK, AccountsTypeOK, TransactionsFormed
  <1>3. RowsFormed'
    BY DEF IInv, RowsFormed
  <1>4. FillPaidInFull'
    BY DEF IInv, FillPaidInFull, Pot
  <1>5. Pots' = Pots /\ (\A u \in Members : PaidTo(u)' = PaidTo(u))
    BY DEF Pots, Pot, PaidTo
  <1>6. Kept' = Kept /\ (\A u \in Members : PledgesOf(u)' = PledgesOf(u))
    BY DEF Kept, Refunded, PledgesOf
  <1>7. ElsewhereStays
    BY <1>5, <1>6 DEF ElsewhereStays, EarnedElsewhere, SpentElsewhere
  <1>8. RequestsAreCovered'
    BY <1>7 DEF IInv, Money, RequestsAreCovered, ElsewhereStays
  <1>9. LedgerExplainsBalances' /\ FloorNeverBinds'
    BY DEF IInv, Money, LedgerExplainsBalances, FloorNeverBinds, Balance
  <1>10. DebitsCovered
    BY DEF IInv, TypeOK, AccountsTypeOK, DebitsCovered
  <1> QED BY <1>1, <1>2, <1>3, <1>4, <1>7, <1>8, <1>9, <1>10 DEF StepIsSound, IInv, Money

\* The end of a transaction frees its rows and no others.
LEMMA EndKeeps ==
  ASSUME TypeOK, NEW t \in Transactions, End(t)
  PROVE  /\ tx' = [tx EXCEPT ![t] = Idle]
         /\ memberLock' \in [Members -> Transactions \cup {None}]
         /\ requestLock' \in [Requests -> Transactions \cup {None}]
         /\ \A s \in Transactions \ {t}, r \in Requests :
               requestLock[r] = s => requestLock'[r] = s
         /\ ClaimHolds(t)' /\ CreatesAlone(t)'
  <1>1. tx' = [tx EXCEPT ![t] = Idle] /\ tx'[t] = Idle
    BY DEF End, TypeOK
  <1>2. /\ memberLock' \in [Members -> Transactions \cup {None}]
        /\ requestLock' \in [Requests -> Transactions \cup {None}]
    BY DEF End, ReleaseAll, TypeOK, AccountsTypeOK
  <1>3. \A s \in Transactions \ {t}, r \in Requests : requestLock[r] = s => requestLock'[r] = s
    BY DEF End, ReleaseAll, TypeOK
  <1>4. ClaimHolds(t)' /\ CreatesAlone(t)'
    BY <1>1, IdleIsFormed DEF ClaimHolds, CreatesAlone
  <1> QED BY <1>1, <1>2, <1>3, <1>4

LEMMA RollbackKeeps ==
  ASSUME IInv, NEW t \in Transactions, Rollback(t)
  PROVE  StepIsSound
  BY EndKeeps, IdleIsFormed, QuietStep DEF Rollback, IInv

(***************************************************************************)
(* Reads and waits: the locks of requests stay as they are.                *)
(***************************************************************************)
LEMMA ReadKeeps ==
  ASSUME IInv,
         NEW t \in Transactions, NEW x \in TransactionStates, Formed(x),
         tx' = [tx EXCEPT ![t] = x],
         UNCHANGED <<accountVars, requestVars>>,
         ClaimHolds(t)', CreatesAlone(t)'
  PROVE  StepIsSound
  BY QuietStep DEF accountVars, requestVars, IInv, TypeOK, AccountsTypeOK

-----------------------------------------------------------------------------
(* The statements before a commit.                                         *)

LEMMA CreateReadKeeps ==
  ASSUME IInv, NEW t \in Transactions, NEW u \in Members, NEW r \in Requests,
         NEW a \in Amounts, CreateRead(t, u, r, a)
  PROVE  StepIsSound
  <1> DEFINE x == [Idle EXCEPT !.op = "create", !.step = "debit", !.by = u, !.request = r,
                               !.amount = a, !.balance = Snapshot(u)]
  <1>1. Snapshot(u) \in [contributed : Nat, consumed : Nat] /\ a \in Nat
    BY AmountsArePositive DEF Snapshot, IInv, TypeOK, AccountsTypeOK
  <1>2. x \in TransactionStates
    BY <1>1, IdleIsFormed DEF TransactionStates
  <1>3. Formed(x) /\ ~Claimed(x)
    BY <1>1 DEF CreateRead, Formed, Claimed, Idle
  <1>4. tx' = [tx EXCEPT ![t] = x] /\ tx'[t] = x
    BY DEF CreateRead, IInv, TypeOK
  <1>5. CreatesAlone(t)'
    <2>1. x.op = "create" /\ x.request = r
      BY DEF Idle
    <2>2. request'[r].status = "absent"
      BY DEF CreateRead, requestVars
    <2>3. ASSUME NEW s \in Transactions, tx'[s].op = "create", tx'[s].request = r
          PROVE  s = t
      BY <1>4, <2>3 DEF CreateRead, IInv, TypeOK
    <2> QED BY <1>4, <2>1, <2>2, <2>3 DEF CreatesAlone
  <1>6. ClaimHolds(t)'
    BY <1>3, <1>4 DEF ClaimHolds
  <1>7. UNCHANGED <<accountVars, requestVars>>
    BY DEF CreateRead
  <1> HIDE DEF x
  <1> QED BY <1>2, <1>3, <1>4, <1>5, <1>6, <1>7, ReadKeeps

(***************************************************************************)
(* The first read of an operation that claims the request later.           *)
(***************************************************************************)
LEMMA FirstReadKeeps ==
  ASSUME IInv,
         NEW t \in Transactions, NEW x \in TransactionStates, Formed(x),
         x.step \in {"claim", "check"},
         tx' = [tx EXCEPT ![t] = x],
         UNCHANGED <<accountVars, requestVars>>
  PROVE  StepIsSound
  <1>1. tx'[t] = x
    BY DEF IInv, TypeOK
  <1>2. ClaimHolds(t)' /\ CreatesAlone(t)'
    BY <1>1 DEF ClaimHolds, CreatesAlone, Claimed, Formed
  <1> QED BY <1>2, ReadKeeps

LEMMA BountyReadKeeps ==
  ASSUME IInv, NEW t \in Transactions, NEW u \in Members, NEW r \in Requests,
         NEW a \in Amounts, BountyRead(t, u, r, a)
  PROVE  StepIsSound
  <1> DEFINE x == [Idle EXCEPT !.op = "addBounty", !.step = "claim", !.by = u, !.request = r,
                               !.amount = a]
  <1>1. x \in TransactionStates
    BY IdleIsFormed, AmountsArePositive DEF TransactionStates
  <1>2. Formed(x) /\ x.step = "claim"
    BY DEF Formed, Idle
  <1> HIDE DEF x
  <1>3. tx' = [tx EXCEPT ![t] = x] /\ UNCHANGED <<accountVars, requestVars>>
    BY DEF BountyRead, x
  <1> QED BY <1>1, <1>2, <1>3, FirstReadKeeps

LEMMA FillReadKeeps ==
  ASSUME IInv, NEW t \in Transactions, NEW u \in Members, NEW r \in Requests,
         NEW c \in Contributions, FillRead(t, u, r, c)
  PROVE  StepIsSound
  <1> DEFINE x == [Idle EXCEPT !.op = "fill", !.step = "check", !.by = u, !.request = r,
                               !.contribution = c]
  <1>1. x \in TransactionStates
    BY IdleIsFormed DEF TransactionStates
  <1>2. Formed(x) /\ x.step = "check"
    BY DEF Formed, Idle
  <1> HIDE DEF x
  <1>3. tx' = [tx EXCEPT ![t] = x] /\ UNCHANGED <<accountVars, requestVars>>
    BY DEF FillRead, x
  <1> QED BY <1>1, <1>2, <1>3, FirstReadKeeps

LEMMA UnfillReadKeeps ==
  ASSUME IInv, NEW t \in Transactions, NEW u \in Members, NEW r \in Requests,
         UnfillRead(t, u, r)
  PROVE  StepIsSound
  <1> DEFINE x == [Idle EXCEPT !.op = "unfill", !.step = "claim", !.by = u, !.request = r,
                               !.read = request[r]]
  <1>1. request[r] \in RequestRows /\ request[r].filler \in Members
    BY DEF IInv, TypeOK, RowsFormed, UnfillRead, IsFilled
  <1>2. x \in TransactionStates
    BY <1>1, IdleIsFormed DEF TransactionStates
  <1>3. Formed(x) /\ x.step = "claim"
    BY <1>1 DEF Formed, Idle
  <1> HIDE DEF x
  <1>4. tx' = [tx EXCEPT ![t] = x] /\ UNCHANGED <<accountVars, requestVars>>
    BY DEF UnfillRead, x
  <1> QED BY <1>2, <1>3, <1>4, FirstReadKeeps

LEMMA DeleteReadKeeps ==
  ASSUME IInv, NEW t \in Transactions, NEW u \in Members, NEW r \in Requests,
         DeleteRead(t, u, r)
  PROVE  StepIsSound
  <1> DEFINE x == [Idle EXCEPT !.op = "delete", !.step = "claim", !.by = u, !.request = r,
                               !.read = request[r]]
  <1>1. request[r] \in RequestRows /\ request[r].status # "absent"
    BY DEF IInv, TypeOK, DeleteRead, IsOpen, IsFilled
  <1>2. x \in TransactionStates
    BY <1>1, IdleIsFormed DEF TransactionStates
  <1>3. Formed(x) /\ x.step = "claim"
    BY <1>1 DEF Formed, Idle
  <1> HIDE DEF x
  <1>4. tx' = [tx EXCEPT ![t] = x] /\ UNCHANGED <<accountVars, requestVars>>
    BY DEF DeleteRead, x
  <1> QED BY <1>2, <1>3, <1>4, FirstReadKeeps

LEMMA BountyReadMemberKeeps ==
  ASSUME IInv, NEW t \in Transactions, BountyReadMember(t)
  PROVE  StepIsSound
  <1> DEFINE u == tx[t].by
             x == [tx[t] EXCEPT !.step = "debit", !.balance = Snapshot(u)]
  <1>1. /\ tx[t] \in TransactionStates /\ Formed(tx[t]) /\ ClaimHolds(t)
        /\ tx[t].op = "addBounty" /\ tx[t].step = "read"
    BY DEF IInv, TransactionsFormed, BountyReadMember, At
  <1>2. CASE Rollback(t)
    BY <1>2, RollbackKeeps
  <1>3. CASE ~Rollback(t)
    <2>1. /\ Affords(Snapshot(u), tx[t].amount)
          /\ tx' = [tx EXCEPT ![t].step = "debit", ![t].balance = Snapshot(u)]
          /\ UNCHANGED <<accountVars, requestVars>>
      BY <1>3 DEF BountyReadMember
    <2>2. u \in Members
      BY <1>1 DEF Formed
    <2>3. Snapshot(u) \in [contributed : Nat, consumed : Nat]
      BY <2>2 DEF Snapshot, IInv, TypeOK, AccountsTypeOK
    <2>4. x \in TransactionStates
      BY <1>1, <2>3 DEF TransactionStates
    <2>5. /\ x.op = "addBounty" /\ x.step = "debit" /\ x.request = tx[t].request
          /\ x.by = u /\ x.amount = tx[t].amount /\ x.balance = Snapshot(u)
      BY <1>1 DEF TransactionStates
    <2>6. Formed(x)
      BY <1>1, <2>1, <2>5 DEF Formed
    <2>7. tx' = [tx EXCEPT ![t] = x] /\ tx'[t] = x
      BY <2>1 DEF IInv, TypeOK
    <2>8. ClaimHolds(t)'
      BY <1>1, <2>1, <2>5, <2>7 DEF ClaimHolds, Claimed, requestVars, IsOpen
    <2>9. CreatesAlone(t)'
      BY <2>5, <2>7 DEF CreatesAlone
    <2> HIDE DEF x
    <2> QED BY <2>1, <2>4, <2>6, <2>7, <2>8, <2>9, ReadKeeps
  <1> QED BY <1>2, <1>3

LEMMA FillCheckKeeps ==
  ASSUME IInv, NEW t \in Transactions, FillCheck(t)
  PROVE  StepIsSound
  <1> DEFINE x == [tx[t] EXCEPT !.step = "claim"]
  <1>1. tx[t] \in TransactionStates /\ Formed(tx[t]) /\ tx[t].op = "fill"
    BY DEF IInv, TransactionsFormed, FillCheck, At
  <1>2. CASE Rollback(t)
    BY <1>2, RollbackKeeps
  <1>3. CASE ~Rollback(t)
    <2>1. Proceed(t, "claim") /\ UNCHANGED <<accountVars, requestVars>>
      BY <1>3 DEF FillCheck
    <2>2. x \in TransactionStates
      BY <1>1 DEF TransactionStates
    <2>3. Formed(x) /\ x.step = "claim"
      BY <1>1 DEF Formed, TransactionStates
    <2>4. tx' = [tx EXCEPT ![t] = x]
      BY <2>1 DEF Proceed
    <2> HIDE DEF x
    <2> QED BY <2>1, <2>2, <2>3, <2>4, FirstReadKeeps
  <1> QED BY <1>2, <1>3

(***************************************************************************)
(* A claim takes the request's row when it matches, and ends the operation *)
(* otherwise.                                                              *)
(***************************************************************************)
LEMMA ClaimKeeps ==
  ASSUME IInv, NEW t \in Transactions, NEW step, NEW matches, matches \in BOOLEAN,
         Claim(t, matches, step), tx[t].op \notin {"idle", "create"},
         [tx[t] EXCEPT !.step = step] \in TransactionStates,
         Formed([tx[t] EXCEPT !.step = step]),
         matches => /\ tx[t].op \in {"addBounty", "fill"} => IsOpen(tx[t].request)
                    /\ tx[t].op = "unfill" => UnfillMatches(t)
                    /\ tx[t].op = "delete" => DeleteMatches(t)
  PROVE  StepIsSound
  <1> DEFINE r == tx[t].request
             x == [tx[t] EXCEPT !.step = step]
  <1>1. CASE Rollback(t)
    BY <1>1, RollbackKeeps
  <1>2. CASE ~Rollback(t)
    <2>1. /\ matches
          /\ requestLock[r] = None
          /\ requestLock' = TakeLock(requestLock, r, t)
          /\ Proceed(t, step)
          /\ UNCHANGED <<accountVars, request, bounty, award>>
      BY <1>2 DEF Claim
    <2>2. tx[t] \in TransactionStates /\ Formed(tx[t])
      BY DEF IInv, TransactionsFormed
    <2>3. r \in Requests
      BY <2>2 DEF Formed
    <2>4. tx' = [tx EXCEPT ![t] = x] /\ tx'[t] = x
      BY <2>1 DEF Proceed, IInv, TypeOK
    <2>5. x.op = tx[t].op /\ x.request = r /\ x.read = tx[t].read
      BY <2>2 DEF TransactionStates
    <2>6. /\ requestLock' \in [Requests -> Transactions \cup {None}]
          /\ requestLock'[r] = t
          /\ \A s \in Transactions \ {t}, q \in Requests :
                requestLock[q] = s => requestLock'[q] = s
      BY <2>1, <2>3, NoneIsNoTransaction DEF TakeLock, IInv, TypeOK
    <2>7. ClaimHolds(t)'
      BY <2>1, <2>4, <2>5, <2>6
         DEF ClaimHolds, IsOpen, UnfillMatches, IsFilled, DeleteMatches
    <2>8. CreatesAlone(t)'
      BY <2>4, <2>5 DEF CreatesAlone
    <2>9. memberLock' \in [Members -> Transactions \cup {None}]
      BY <2>1 DEF accountVars, IInv, TypeOK, AccountsTypeOK
    <2>10. UNCHANGED <<contributed, consumed, ledger, floored, request, bounty, award>>
      BY <2>1 DEF accountVars
    <2> HIDE DEF x
    <2> QED BY <2>4, <2>6, <2>7, <2>8, <2>9, <2>10, QuietStep DEF x
  <1> QED BY <1>1, <1>2

LEMMA BountyClaimKeeps ==
  ASSUME IInv, NEW t \in Transactions, BountyClaim(t)
  PROVE  StepIsSound
  <1>1. tx[t] \in TransactionStates /\ Formed(tx[t]) /\ tx[t].op = "addBounty"
    BY DEF IInv, TransactionsFormed, BountyClaim, At
  <1>2. [tx[t] EXCEPT !.step = "read"] \in TransactionStates
    BY <1>1 DEF TransactionStates
  <1>3. Formed([tx[t] EXCEPT !.step = "read"])
    BY <1>1 DEF Formed, TransactionStates
  <1>4. Claim(t, IsOpen(tx[t].request), "read") /\ IsOpen(tx[t].request) \in BOOLEAN
    BY DEF BountyClaim, IsOpen
  <1> QED BY <1>1, <1>2, <1>3, <1>4, ClaimKeeps

LEMMA FillClaimKeeps ==
  ASSUME IInv, NEW t \in Transactions, FillClaim(t)
  PROVE  StepIsSound
  <1>1. tx[t] \in TransactionStates /\ Formed(tx[t]) /\ tx[t].op = "fill"
    BY DEF IInv, TransactionsFormed, FillClaim, At
  <1>2. [tx[t] EXCEPT !.step = "pay"] \in TransactionStates
    BY <1>1 DEF TransactionStates
  <1>3. Formed([tx[t] EXCEPT !.step = "pay"])
    BY <1>1 DEF Formed, TransactionStates
  <1>4. Claim(t, IsOpen(tx[t].request), "pay") /\ IsOpen(tx[t].request) \in BOOLEAN
    BY DEF FillClaim, IsOpen
  <1> QED BY <1>1, <1>2, <1>3, <1>4, ClaimKeeps

LEMMA UnfillClaimKeeps ==
  ASSUME IInv, NEW t \in Transactions, UnfillClaim(t)
  PROVE  StepIsSound
  <1>1. tx[t] \in TransactionStates /\ Formed(tx[t]) /\ tx[t].op = "unfill"
    BY DEF IInv, TransactionsFormed, UnfillClaim, At
  <1>2. [tx[t] EXCEPT !.step = "clawback"] \in TransactionStates
    BY <1>1 DEF TransactionStates
  <1>3. Formed([tx[t] EXCEPT !.step = "clawback"])
    BY <1>1 DEF Formed, TransactionStates
  <1>4. Claim(t, UnfillMatches(t), "clawback") /\ UnfillMatches(t) \in BOOLEAN
    BY DEF UnfillClaim, UnfillMatches
  <1> QED BY <1>1, <1>2, <1>3, <1>4, ClaimKeeps

LEMMA DeleteClaimKeeps ==
  ASSUME IInv, NEW t \in Transactions, DeleteClaim(t)
  PROVE  StepIsSound
  <1>1. tx[t] \in TransactionStates /\ Formed(tx[t]) /\ tx[t].op = "delete"
    BY DEF IInv, TransactionsFormed, DeleteClaim, At
  <1>2. [tx[t] EXCEPT !.step = "refund"] \in TransactionStates
    BY <1>1 DEF TransactionStates
  <1>3. Formed([tx[t] EXCEPT !.step = "refund"])
    BY <1>1 DEF Formed, TransactionStates
  <1>4. Claim(t, DeleteMatches(t), "refund") /\ DeleteMatches(t) \in BOOLEAN
    BY DEF DeleteClaim, DeleteMatches
  <1> QED BY <1>1, <1>2, <1>3, <1>4, ClaimKeeps

LEMMA RefundLockKeeps ==
  ASSUME IInv, NEW t \in Transactions, NEW u \in Members, RefundLock(t, u)
  PROVE  StepIsSound
  <1>1. tx[t] \in TransactionStates /\ Formed(tx[t]) /\ ClaimHolds(t) /\ CreatesAlone(t)
    BY DEF IInv, TransactionsFormed
  <1>2. UNCHANGED <<contributed, consumed, ledger, floored, request, bounty, award,
                    requestLock, tx>>
    BY DEF RefundLock, requestVars
  <1>3. tx' = [tx EXCEPT ![t] = tx[t]]
    BY <1>2 DEF IInv, TypeOK
  <1>4. memberLock' \in [Members -> Transactions \cup {None}]
    BY DEF RefundLock, TakeLock, IInv, TypeOK, AccountsTypeOK
  <1>5. ClaimHolds(t)' /\ CreatesAlone(t)'
    BY <1>1, <1>2 DEF ClaimHolds, CreatesAlone, IsOpen, UnfillMatches, IsFilled, DeleteMatches
  <1>6. requestLock' \in [Requests -> Transactions \cup {None}]
    BY <1>2 DEF IInv, TypeOK
  <1> QED BY <1>1, <1>2, <1>3, <1>4, <1>5, <1>6, QuietStep

-----------------------------------------------------------------------------
(* A decrement never reaches the floor.                                    *)

\* A pot that was paid out is part of what its filler has contributed.
LEMMA PaidPotIsEarned ==
  ASSUME IInv, NEW f \in Members, NEW q \in Requests,
         request[q].status = "filled", request[q].filler = f
  PROVE  contributed[f] >= Pot(q)
  <1>1. q \in PaidTo(f) /\ Pots[q] = Pot(q) /\ Pots \in [Requests -> Nat]
    BY TotalsAreNatural DEF PaidTo, Pots, IInv
  <1>2. TotalOn(Pots, PaidTo(f)) >= Pots[q]
    BY <1>1, FiniteRequests, TotalOnCovers
  <1>3. TotalOn(Pots, PaidTo(f)) \in Nat /\ Pots[q] \in Nat /\ contributed[f] \in Nat
    BY TotalsAreNatural DEF IInv, TypeOK, AccountsTypeOK
  <1>4. contributed[f] - TotalOn(Pots, PaidTo(f)) >= 0
    BY DEF IInv, Money, RequestsAreCovered, EarnedElsewhere
  <1> QED BY <1>1, <1>2, <1>3, <1>4

\* A bounty that was not refunded is part of what its backer has consumed.
LEMMA OpenPledgeIsConsumed ==
  ASSUME IInv, NEW v \in Members, NEW q \in Requests, ~request[q].deleted
  PROVE  consumed[v] >= bounty[q][v]
  <1>1. q \in Kept /\ PledgesOf(v)[q] = bounty[q][v] /\ PledgesOf(v) \in [Requests -> Nat]
    BY TotalsAreNatural DEF Kept, Refunded, PledgesOf, IInv
  <1>2. TotalOn(PledgesOf(v), Kept) >= PledgesOf(v)[q]
    BY <1>1, FiniteRequests, TotalOnCovers
  <1>3. consumed[v] - TotalOn(PledgesOf(v), Kept) >= 0
    BY DEF IInv, Money, RequestsAreCovered, SpentElsewhere
  <1>4. TotalOn(PledgesOf(v), Kept) \in Nat /\ bounty[q][v] \in Nat /\ consumed[v] \in Nat
    BY TotalsAreNatural DEF IInv, TypeOK, AccountsTypeOK
  <1> QED BY <1>1, <1>2, <1>3, <1>4

-----------------------------------------------------------------------------
(* Commits: each writes one request's row, its bounties and its award.     *)

LEMMA CommitKeepsOthers ==
  ASSUME IInv, NEW t \in Transactions, End(t),
         Claimed(tx[t]) \/ tx[t].op = "create",
         \A r \in Requests \ {tx[t].request} : request'[r] = request[r]
  PROVE  TransactionsFormed'
  BY EndKeeps, IdleIsFormed, OneTransaction DEF IInv

\* What the request q counts for in the two totals of a member.
Earns(u, q) == IF q \in PaidTo(u) THEN Pot(q) ELSE 0
Costs(u, q) == IF q \in Kept THEN bounty[q][u] ELSE 0

(***************************************************************************)
(* If a step writes one request, and moves every balance by what that      *)
(* request counts for and the ledger by what it moves the balances, the    *)
(* books still agree.                                                      *)
(***************************************************************************)
LEMMA MoneyMoves ==
  ASSUME IInv, TypeOK', NEW q \in Requests,
         \A r \in Requests \ {q} : request'[r] = request[r] /\ bounty'[r] = bounty[r],
         \A u \in Members :
            /\ contributed'[u] = contributed[u] - Earns(u, q) + Earns(u, q)'
            /\ consumed'[u] = consumed[u] - Costs(u, q) + Costs(u, q)'
            /\ ledger'[u] - ledger[u]
                  = (contributed'[u] - contributed[u]) - (consumed'[u] - consumed[u]),
         ~floored'
  PROVE  Money' /\ ElsewhereStays
  <1>1. Pots \in [Requests -> Nat]
    BY PotIsNatural DEF IInv, Pots
  <1>2. \A u \in Members : Pots' \in [Requests -> Nat]
    BY TotalsStayNatural
  <1>3. ASSUME NEW u \in Members
        PROVE  /\ EarnedElsewhere(u)' = EarnedElsewhere(u)
               /\ SpentElsewhere(u)' = SpentElsewhere(u)
               /\ Balance(u)' = Opening[u] + ledger'[u]
    <2>1. PledgesOf(u) \in [Requests -> Nat] /\ PledgesOf(u)' \in [Requests -> Nat]
      BY DEF PledgesOf, TypeOK, IInv
    <2>2. \A r \in Requests \ {q} :
             Pots'[r] = Pots[r] /\ (r \in PaidTo(u)' <=> r \in PaidTo(u))
      BY DEF Pots, Pot, PaidTo
    <2>3. \A r \in Requests \ {q} :
             PledgesOf(u)'[r] = PledgesOf(u)[r] /\ (r \in Kept' <=> r \in Kept)
      BY DEF PledgesOf, Kept, Refunded
    <2>4. TotalOn(Pots', PaidTo(u)') = TotalOn(Pots, PaidTo(u))
             - (IF q \in PaidTo(u) THEN Pots[q] ELSE 0)
             + (IF q \in PaidTo(u)' THEN Pots'[q] ELSE 0)
      BY <1>1, <1>2, <2>2, FiniteRequests, TotalOnMove
    <2>5. TotalOn(PledgesOf(u)', Kept') = TotalOn(PledgesOf(u), Kept)
             - (IF q \in Kept THEN PledgesOf(u)[q] ELSE 0)
             + (IF q \in Kept' THEN PledgesOf(u)'[q] ELSE 0)
      BY <2>1, <2>3, FiniteRequests, TotalOnMove
    <2>6. /\ Earns(u, q) = IF q \in PaidTo(u) THEN Pots[q] ELSE 0
          /\ Earns(u, q)' = IF q \in PaidTo(u)' THEN Pots'[q] ELSE 0
      BY DEF Earns, Pots
    <2>7. /\ Costs(u, q) = IF q \in Kept THEN PledgesOf(u)[q] ELSE 0
          /\ Costs(u, q)' = IF q \in Kept' THEN PledgesOf(u)'[q] ELSE 0
      BY DEF Costs, PledgesOf
    <2>8. Balance(u) = Opening[u] + ledger[u]
      BY DEF IInv, Money, LedgerExplainsBalances, FloorNeverBinds
    <2>9. /\ Pots[q] \in Nat /\ Pots'[q] \in Nat
          /\ PledgesOf(u)[q] \in Nat /\ PledgesOf(u)'[q] \in Nat
          /\ TotalOn(Pots, PaidTo(u)) \in Nat /\ TotalOn(PledgesOf(u), Kept) \in Nat
          /\ Opening[u] \in Nat
      BY <1>1, <1>2, <2>1, TotalsAreNatural, OpeningIsBalance DEF IInv
    <2>10. /\ contributed[u] \in Int /\ contributed'[u] \in Int /\ consumed[u] \in Int
           /\ consumed'[u] \in Int /\ ledger[u] \in Int /\ ledger'[u] \in Int
      BY DEF IInv, TypeOK, AccountsTypeOK
    <2>11. /\ EarnedElsewhere(u)' = contributed'[u] - TotalOn(Pots', PaidTo(u)')
           /\ SpentElsewhere(u)' = consumed'[u] - TotalOn(PledgesOf(u)', Kept')
      BY DEF EarnedElsewhere, SpentElsewhere
    <2>12. EarnedElsewhere(u)' = EarnedElsewhere(u)
      BY <2>4, <2>6, <2>9, <2>10, <2>11 DEF EarnedElsewhere
    <2>13. SpentElsewhere(u)' = SpentElsewhere(u)
      BY <2>5, <2>7, <2>9, <2>10, <2>11 DEF SpentElsewhere
    <2>14. Balance(u)' = Opening[u] + ledger'[u]
      BY <2>8, <2>9, <2>10 DEF Balance
    <2> QED BY <2>12, <2>13, <2>14
  <1>4. ElsewhereStays
    BY <1>3 DEF ElsewhereStays
  <1>5. RequestsAreCovered'
    BY <1>4 DEF IInv, Money, RequestsAreCovered, ElsewhereStays
  <1>6. LedgerExplainsBalances' /\ FloorNeverBinds'
    BY <1>3 DEF LedgerExplainsBalances, FloorNeverBinds
  <1> QED BY <1>4, <1>5, <1>6 DEF Money

LEMMA CreateCommitKeeps ==
  ASSUME IInv, NEW t \in Transactions, CreateCommit(t)
  PROVE  StepIsSound
  <1>1. /\ tx[t] \in TransactionStates /\ Formed(tx[t]) /\ CreatesAlone(t)
        /\ tx[t].op = "create" /\ tx[t].step = "debit"
    BY DEF IInv, TransactionsFormed, CreateCommit, At
  <1>2. PICK u \in Members, q \in Requests, a \in Nat :
           u = tx[t].by /\ q = tx[t].request /\ a = tx[t].amount
    BY <1>1 DEF Formed, TransactionStates
  <1>3. CASE Rollback(t)
    BY <1>3, RollbackKeeps
  <1>4. CASE ~Rollback(t)
    <2> DEFINE row == [NoRequest EXCEPT !.status = "open", !.owner = u]
    <2>1. /\ SnapshotHolds(u, tx[t].balance) /\ Spend(u, a)
          /\ request' = [request EXCEPT ![q] = row]
          /\ bounty' = [bounty EXCEPT ![q][u] = a]
          /\ award' = award /\ End(t)
      BY <1>2, <1>4 DEF CreateCommit
    <2>2. u \in Members /\ q \in Requests /\ a \in Nat
      OBVIOUS
    <2>3. request[q].status = "absent" /\ bounty[q] = [v \in Members |-> 0]
      BY <1>1, <1>2, <2>2 DEF CreatesAlone, IInv, RowsFormed
    <2>4. /\ row \in RequestRows /\ row.status = "open" /\ ~row.deleted
      BY <2>2 DEF NoRequest, RequestRows
    <2>5. request'[q] = row /\ \A r \in Requests \ {q} : request'[r] = request[r]
      BY <2>1, <2>2 DEF IInv, TypeOK
    <2> HIDE DEF row
    <2>6. /\ bounty' \in [Requests -> [Members -> Nat]]
          /\ \A r \in Requests \ {q} : bounty'[r] = bounty[r]
          /\ \A v \in Members : bounty'[q][v] = IF v = u THEN a ELSE 0
      BY <2>1, <2>2, <2>3 DEF IInv, TypeOK
    <2>7. TransactionsFormed'
      BY <1>1, <1>2, <2>1, <2>5, CommitKeepsOthers
    <2>8. /\ contributed' = contributed /\ floored' = floored
          /\ consumed' = [consumed EXCEPT ![u] = @ + a]
          /\ ledger' = [ledger EXCEPT ![u] = @ - a]
      BY <2>1, <2>2 DEF Spend, Post, IInv, TypeOK, AccountsTypeOK
    <2>9. TypeOK'
      <3>1. consumed' \in [Members -> Nat] /\ ledger' \in [Members -> Int]
        BY <2>2, <2>8 DEF IInv, TypeOK, AccountsTypeOK
      <3>2. request' \in [Requests -> RequestRows]
        BY <2>1, <2>4 DEF IInv, TypeOK
      <3>3. /\ memberLock' \in [Members -> Transactions \cup {None}]
            /\ requestLock' \in [Requests -> Transactions \cup {None}]
        BY <2>1, EndKeeps DEF IInv
      <3> QED BY <2>1, <2>6, <2>7, <2>8, <3>1, <3>2, <3>3
                 DEF IInv, TypeOK, AccountsTypeOK, TransactionsFormed
    <2>10. RowsFormed'
      BY <2>4, <2>5, <2>6 DEF IInv, RowsFormed
    <2>11. FillPaidInFull'
      BY <2>1, <2>4, <2>5, <2>6 DEF IInv, FillPaidInFull, Pot
    <2>12. ASSUME NEW v \in Members
           PROVE  /\ Earns(v, q) = 0 /\ Earns(v, q)' = 0
                  /\ Costs(v, q) = 0 /\ Costs(v, q)' = IF v = u THEN a ELSE 0
      <3>1. q \notin PaidTo(v) /\ q \notin PaidTo(v)'
        BY <2>3, <2>4, <2>5 DEF PaidTo
      <3>2. q \in Kept /\ q \in Kept'
        BY <2>2, <2>3, <2>4, <2>5 DEF Kept, Refunded
      <3>3. bounty[q][v] = 0
        BY <2>3
      <3> QED BY <2>6, <3>1, <3>2, <3>3 DEF Earns, Costs
    <2>13. Money' /\ ElsewhereStays
      <3>1. ASSUME NEW v \in Members
            PROVE  /\ contributed'[v] = contributed[v] - Earns(v, q) + Earns(v, q)'
                   /\ consumed'[v] = consumed[v] - Costs(v, q) + Costs(v, q)'
                   /\ ledger'[v] - ledger[v]
                         = (contributed'[v] - contributed[v]) - (consumed'[v] - consumed[v])
        BY <2>2, <2>8, <2>12 DEF IInv, TypeOK, AccountsTypeOK
      <3>2. ~floored'
        BY <2>8 DEF IInv, Money, FloorNeverBinds
      <3> QED BY <2>2, <2>5, <2>6, <2>9, <3>1, <3>2, MoneyMoves
    <2>14. DebitsCovered
      <3>1. contributed[u] - consumed[u] >= a
        BY <1>1, <1>2, <2>1 DEF Formed, Affords, SnapshotHolds, Snapshot
      <3> QED BY <2>2, <2>8, <3>1 DEF DebitsCovered, IInv, TypeOK, AccountsTypeOK
    <2> QED BY <2>7, <2>9, <2>10, <2>11, <2>13, <2>14 DEF StepIsSound, IInv
  <1> QED BY <1>3, <1>4

LEMMA BountyCommitKeeps ==
  ASSUME IInv, NEW t \in Transactions, BountyCommit(t)
  PROVE  StepIsSound
  <1>1. /\ tx[t] \in TransactionStates /\ Formed(tx[t]) /\ ClaimHolds(t)
        /\ tx[t].op = "addBounty" /\ tx[t].step = "debit"
    BY DEF IInv, TransactionsFormed, BountyCommit, At
  <1>2. PICK u \in Members, q \in Requests, a \in Nat :
           u = tx[t].by /\ q = tx[t].request /\ a = tx[t].amount
    BY <1>1 DEF Formed, TransactionStates
  <1>3. CASE Rollback(t)
    BY <1>3, RollbackKeeps
  <1>4. CASE ~Rollback(t)
    <2>1. /\ SnapshotHolds(u, tx[t].balance) /\ Spend(u, a)
          /\ request' = request
          /\ bounty' = [bounty EXCEPT ![q][u] = @ + a]
          /\ award' = award /\ End(t)
      BY <1>2, <1>4 DEF BountyCommit
    <2>2. u \in Members /\ q \in Requests /\ a \in Nat
      OBVIOUS
    <2>3. Claimed(tx[t]) /\ request[q].status = "open" /\ ~request[q].deleted
      BY <1>1, <1>2 DEF Claimed, ClaimHolds, IsOpen
    <2>4. /\ bounty' \in [Requests -> [Members -> Nat]]
          /\ \A r \in Requests \ {q} : bounty'[r] = bounty[r]
          /\ \A v \in Members : bounty'[q][v] = bounty[q][v] + (IF v = u THEN a ELSE 0)
      BY <2>1, <2>2 DEF IInv, TypeOK
    <2>5. TransactionsFormed'
      BY <1>2, <2>1, <2>3, CommitKeepsOthers
    <2>6. /\ contributed' = contributed /\ floored' = floored
          /\ consumed' = [consumed EXCEPT ![u] = @ + a]
          /\ ledger' = [ledger EXCEPT ![u] = @ - a]
      BY <2>1, <2>2 DEF Spend, Post, IInv, TypeOK, AccountsTypeOK
    <2>7. TypeOK'
      <3>1. consumed' \in [Members -> Nat] /\ ledger' \in [Members -> Int]
        BY <2>2, <2>6 DEF IInv, TypeOK, AccountsTypeOK
      <3>2. /\ memberLock' \in [Members -> Transactions \cup {None}]
            /\ requestLock' \in [Requests -> Transactions \cup {None}]
        BY <2>1, EndKeeps DEF IInv
      <3> QED BY <2>1, <2>4, <2>5, <2>6, <3>1, <3>2
                 DEF IInv, TypeOK, AccountsTypeOK, TransactionsFormed
    <2>8. RowsFormed'
      BY <2>1, <2>3, <2>4 DEF IInv, RowsFormed
    <2>9. FillPaidInFull'
      BY <2>1, <2>3, <2>4 DEF IInv, FillPaidInFull, Pot
    <2>10. ASSUME NEW v \in Members
           PROVE  /\ Earns(v, q) = 0 /\ Earns(v, q)' = 0
                  /\ Costs(v, q) = bounty[q][v]
                  /\ Costs(v, q)' = bounty[q][v] + (IF v = u THEN a ELSE 0)
      <3>1. q \notin PaidTo(v) /\ q \notin PaidTo(v)'
        BY <2>1, <2>3 DEF PaidTo
      <3>2. q \in Kept /\ q \in Kept'
        BY <2>1, <2>2, <2>3 DEF Kept, Refunded
      <3> QED BY <2>4, <3>1, <3>2 DEF Earns, Costs
    <2>11. Money' /\ ElsewhereStays
      <3>1. ASSUME NEW v \in Members
            PROVE  /\ contributed'[v] = contributed[v] - Earns(v, q) + Earns(v, q)'
                   /\ consumed'[v] = consumed[v] - Costs(v, q) + Costs(v, q)'
                   /\ ledger'[v] - ledger[v]
                         = (contributed'[v] - contributed[v]) - (consumed'[v] - consumed[v])
        <4>1. bounty[q][v] \in Nat
          BY <2>2 DEF IInv, TypeOK
        <4> QED BY <2>2, <2>6, <2>10, <4>1 DEF IInv, TypeOK, AccountsTypeOK
      <3>2. \A r \in Requests \ {q} : request'[r] = request[r] /\ bounty'[r] = bounty[r]
        BY <2>1, <2>4
      <3>3. ~floored'
        BY <2>6 DEF IInv, Money, FloorNeverBinds
      <3> QED BY <2>2, <2>7, <3>1, <3>2, <3>3, MoneyMoves
    <2>12. DebitsCovered
      <3>1. contributed[u] - consumed[u] >= a
        BY <1>1, <1>2, <2>1 DEF Formed, Affords, SnapshotHolds, Snapshot
      <3> QED BY <2>2, <2>6, <3>1 DEF DebitsCovered, IInv, TypeOK, AccountsTypeOK
    <2> QED BY <2>5, <2>7, <2>8, <2>9, <2>11, <2>12 DEF StepIsSound, IInv
  <1> QED BY <1>3, <1>4

LEMMA FillCommitKeeps ==
  ASSUME IInv, NEW t \in Transactions, FillCommit(t)
  PROVE  StepIsSound
  <1>1. /\ tx[t] \in TransactionStates /\ Formed(tx[t]) /\ ClaimHolds(t)
        /\ tx[t].op = "fill" /\ tx[t].step = "pay"
    BY DEF IInv, TransactionsFormed, FillCommit, At
  <1>2. PICK u \in Members, q \in Requests, c \in Contributions :
           u = tx[t].by /\ q = tx[t].request /\ c = tx[t].contribution
    BY <1>1 DEF Formed
  <1>3. PICK pot \in Nat : pot = Pot(q)
    BY PotIsNatural DEF IInv
  <1>4. /\ contributed' = [contributed EXCEPT ![u] = @ + pot]
        /\ ledger' = [ledger EXCEPT ![u] = @ + pot]
        /\ request' = [request EXCEPT ![q].status = "filled", ![q].filler = u, ![q].fill = c]
        /\ award' = [award EXCEPT ![q][u] = pot]
        /\ UNCHANGED <<consumed, floored, bounty>> /\ End(t)
    BY <1>2, <1>3 DEF FillCommit, Post
  <1>5. Claimed(tx[t]) /\ request[q].status = "open" /\ ~request[q].deleted
    BY <1>1, <1>2 DEF Claimed, ClaimHolds, IsOpen
  <1>6. /\ request' \in [Requests -> RequestRows]
        /\ request'[q].status = "filled" /\ request'[q].filler = u
        /\ request'[q].deleted = request[q].deleted
        /\ \A r \in Requests \ {q} : request'[r] = request[r]
    <2> DEFINE row == [request[q] EXCEPT !.status = "filled", !.filler = u, !.fill = c]
    <2>1. request[q] \in RequestRows
      BY DEF IInv, TypeOK
    <2>2. row \in RequestRows
      BY <2>1 DEF RequestRows
    <2>3. row.status = "filled" /\ row.filler = u /\ row.deleted = request[q].deleted
      BY <2>1 DEF RequestRows
    <2>4. request' = [request EXCEPT ![q] = row]
      BY <1>4 DEF IInv, TypeOK
    <2> HIDE DEF row
    <2> QED BY <2>2, <2>3, <2>4 DEF IInv, TypeOK
  <1>7. /\ award' \in [Requests -> [Members -> Nat \cup {None}]]
        /\ award'[q][u] = pot /\ \A r \in Requests \ {q} : award'[r] = award[r]
    BY <1>4 DEF IInv, TypeOK
  <1>8. TransactionsFormed'
    BY <1>2, <1>4, <1>5, <1>6, CommitKeepsOthers
  <1>9. TypeOK'
    <2>1. contributed' \in [Members -> Nat] /\ ledger' \in [Members -> Int]
      BY <1>4 DEF IInv, TypeOK, AccountsTypeOK
    <2>2. /\ memberLock' \in [Members -> Transactions \cup {None}]
          /\ requestLock' \in [Requests -> Transactions \cup {None}]
      BY <1>4, EndKeeps DEF IInv
    <2> QED BY <1>4, <1>6, <1>7, <1>8, <2>1, <2>2
               DEF IInv, TypeOK, AccountsTypeOK, TransactionsFormed
  <1>10. RowsFormed'
    BY <1>4, <1>6 DEF IInv, RowsFormed
  <1>11. \A r \in Requests : Pot(r)' = Pot(r)
    BY <1>4 DEF Pot
  <1>12. FillPaidInFull'
    <2>1. ASSUME NEW r \in Requests, request'[r].status = "filled"
          PROVE  award'[r][request'[r].filler] = Pot(r)'
      <3>1. CASE r = q
        BY <1>3, <1>6, <1>7, <1>11, <3>1
      <3>2. CASE r # q
        BY <1>6, <1>7, <1>11, <2>1, <3>2 DEF IInv, FillPaidInFull
      <3> QED BY <3>1, <3>2
    <2> QED BY <2>1 DEF FillPaidInFull
  <1>13. ASSUME NEW v \in Members
         PROVE  /\ Earns(v, q) = 0 /\ Earns(v, q)' = IF v = u THEN pot ELSE 0
                /\ Costs(v, q) = bounty[q][v] /\ Costs(v, q)' = bounty[q][v]
    <2>1. q \notin PaidTo(v) /\ (q \in PaidTo(v)' <=> v = u)
      BY <1>5, <1>6 DEF PaidTo
    <2>2. q \in Kept /\ q \in Kept'
      BY <1>5, <1>6 DEF Kept, Refunded
    <2> QED BY <1>3, <1>4, <1>11, <2>1, <2>2 DEF Earns, Costs
  <1>14. Money' /\ ElsewhereStays
    <2>1. ASSUME NEW v \in Members
          PROVE  /\ contributed'[v] = contributed[v] - Earns(v, q) + Earns(v, q)'
                 /\ consumed'[v] = consumed[v] - Costs(v, q) + Costs(v, q)'
                 /\ ledger'[v] - ledger[v]
                       = (contributed'[v] - contributed[v]) - (consumed'[v] - consumed[v])
      <3>1. bounty[q][v] \in Nat
        BY DEF IInv, TypeOK
      <3> QED BY <1>4, <1>13, <3>1 DEF IInv, TypeOK, AccountsTypeOK
    <2>2. ~floored'
      BY <1>4 DEF IInv, Money, FloorNeverBinds
    <2> QED BY <1>4, <1>6, <1>9, <2>1, <2>2, MoneyMoves
  <1>15. DebitsCovered
    BY <1>4 DEF DebitsCovered, IInv, TypeOK, AccountsTypeOK
  <1> QED BY <1>8, <1>9, <1>10, <1>12, <1>14, <1>15 DEF StepIsSound, IInv

(***************************************************************************)
(* The claim has matched the filler, so what is clawed back is the whole   *)
(* pot, and it is still part of what the filler has contributed.           *)
(***************************************************************************)
LEMMA UnfillCommitKeeps ==
  ASSUME IInv, NEW t \in Transactions, UnfillCommit(t)
  PROVE  StepIsSound
  <1>1. /\ tx[t] \in TransactionStates /\ Formed(tx[t]) /\ ClaimHolds(t)
        /\ tx[t].op = "unfill" /\ tx[t].step = "clawback"
    BY DEF IInv, TransactionsFormed, UnfillCommit, At
  <1>2. PICK f \in Members, q \in Requests : f = tx[t].read.filler /\ q = tx[t].request
    BY <1>1 DEF Formed
  <1>3. PICK pot \in Nat : pot = Pot(q)
    BY PotIsNatural DEF IInv
  <1>4. /\ Claimed(tx[t]) /\ request[q].status = "filled" /\ ~request[q].deleted
        /\ request[q].filler = f
    BY <1>1, <1>2 DEF Claimed, ClaimHolds, UnfillMatches, IsFilled
  <1>5. ClawedBack(q, f) = pot
    BY <1>3, <1>4 DEF IInv, FillPaidInFull, ClawedBack
  <1>6. contributed[f] >= pot
    BY <1>3, <1>4, PaidPotIsEarned
  <1>7. CASE Rollback(t)
    BY <1>7, RollbackKeeps
  <1>8. CASE ~Rollback(t)
    <2>1. /\ contributed' = [contributed EXCEPT ![f] = FloorSub(@, pot)]
          /\ floored' = (floored \/ contributed[f] < pot)
          /\ ledger' = [ledger EXCEPT ![f] = @ + (-pot)]
          /\ request' = [request EXCEPT ![q].status = "open", ![q].filler = None,
                                        ![q].fill = None]
          /\ UNCHANGED <<consumed, bounty, award>> /\ End(t)
      BY <1>2, <1>5, <1>8 DEF UnfillCommit, Post
    <2>2. /\ \A v \in Members :
                /\ contributed'[v] = contributed[v] - (IF v = f THEN pot ELSE 0)
                /\ ledger'[v] = ledger[v] - (IF v = f THEN pot ELSE 0)
          /\ contributed' \in [Members -> Nat] /\ ledger' \in [Members -> Int]
          /\ floored' = floored
      BY <1>6, <2>1 DEF FloorSub, IInv, TypeOK, AccountsTypeOK
    <2>3. /\ request' \in [Requests -> RequestRows]
          /\ request'[q].status = "open" /\ request'[q].deleted = request[q].deleted
          /\ \A r \in Requests \ {q} : request'[r] = request[r]
      <3> DEFINE row == [request[q] EXCEPT !.status = "open", !.filler = None, !.fill = None]
      <3>1. request[q] \in RequestRows
        BY DEF IInv, TypeOK
      <3>2. row \in RequestRows
        BY <3>1 DEF RequestRows
      <3>3. row.status = "open" /\ row.deleted = request[q].deleted
        BY <3>1 DEF RequestRows
      <3>4. request' = [request EXCEPT ![q] = row]
        BY <2>1 DEF IInv, TypeOK
      <3> HIDE DEF row
      <3> QED BY <3>2, <3>3, <3>4 DEF IInv, TypeOK
    <2>4. TransactionsFormed'
      BY <1>2, <1>4, <2>1, <2>3, CommitKeepsOthers
    <2>5. TypeOK'
      <3>1. /\ memberLock' \in [Members -> Transactions \cup {None}]
            /\ requestLock' \in [Requests -> Transactions \cup {None}]
        BY <2>1, EndKeeps DEF IInv
      <3> QED BY <2>1, <2>2, <2>3, <2>4, <3>1
                 DEF IInv, TypeOK, AccountsTypeOK, TransactionsFormed
    <2>6. RowsFormed'
      BY <2>1, <2>3 DEF IInv, RowsFormed
    <2>7. FillPaidInFull'
      BY <2>1, <2>3 DEF IInv, FillPaidInFull, Pot
    <2>8. ASSUME NEW v \in Members
          PROVE  /\ Earns(v, q) = IF v = f THEN pot ELSE 0
                 /\ Earns(v, q)' = 0
                 /\ Costs(v, q) = bounty[q][v] /\ Costs(v, q)' = bounty[q][v]
      <3>1. q \notin PaidTo(v)' /\ (q \in PaidTo(v) <=> v = f)
        BY <1>4, <2>3 DEF PaidTo
      <3>2. q \in Kept /\ q \in Kept'
        BY <1>4, <2>3 DEF Kept, Refunded
      <3> QED BY <1>3, <2>1, <3>1, <3>2 DEF Earns, Costs
    <2>9. Money' /\ ElsewhereStays
      <3>1. ASSUME NEW v \in Members
            PROVE  /\ contributed'[v] = contributed[v] - Earns(v, q) + Earns(v, q)'
                   /\ consumed'[v] = consumed[v] - Costs(v, q) + Costs(v, q)'
                   /\ ledger'[v] - ledger[v]
                         = (contributed'[v] - contributed[v]) - (consumed'[v] - consumed[v])
        <4>1. bounty[q][v] \in Nat
          BY DEF IInv, TypeOK
        <4> QED BY <2>1, <2>2, <2>8, <4>1 DEF IInv, TypeOK, AccountsTypeOK
      <3>2. ~floored'
        BY <2>2 DEF IInv, Money, FloorNeverBinds
      <3> QED BY <2>1, <2>3, <2>5, <3>1, <3>2, MoneyMoves
    <2>10. DebitsCovered
      BY <2>1 DEF DebitsCovered, IInv, TypeOK, AccountsTypeOK
    <2> QED BY <2>4, <2>5, <2>6, <2>7, <2>9, <2>10 DEF StepIsSound, IInv
  <1> QED BY <1>7, <1>8

(***************************************************************************)
(* The claim has matched the status, so a refunded pot was never paid out, *)
(* and each backer's bounty is still part of what they have consumed.      *)
(***************************************************************************)
LEMMA DeleteCommitKeeps ==
  ASSUME IInv, NEW t \in Transactions, DeleteCommit(t)
  PROVE  StepIsSound
  <1>1. /\ tx[t] \in TransactionStates /\ Formed(tx[t]) /\ ClaimHolds(t)
        /\ tx[t].op = "delete" /\ tx[t].step = "refund"
    BY DEF IInv, TransactionsFormed, DeleteCommit, At
  <1>2. PICK q \in Requests : q = tx[t].request
    BY <1>1 DEF Formed
  <1>3. PICK open \in BOOLEAN : open <=> tx[t].read.status = "open"
    OBVIOUS
  <1>4. /\ Claimed(tx[t]) /\ ~request[q].deleted
        /\ request[q].status = IF open THEN "open" ELSE "filled"
    BY <1>1, <1>2, <1>3 DEF Claimed, ClaimHolds, DeleteMatches, Formed, TransactionStates,
                            RequestRows
  <1>5. PICK owed \in SUBSET Members : owed = IF open THEN Backers(q) ELSE {}
    BY DEF Backers
  <1>6. /\ consumed' = [v \in Members |-> IF v \in owed THEN FloorSub(consumed[v], bounty[q][v])
                                                        ELSE consumed[v]]
        /\ floored' = (floored \/ \E v \in owed : consumed[v] < bounty[q][v])
        /\ ledger' = [v \in Members |-> IF v \in owed THEN ledger[v] + bounty[q][v]
                                                      ELSE ledger[v]]
        /\ request' = [request EXCEPT ![q].deleted = TRUE]
        /\ UNCHANGED <<contributed, bounty, award>> /\ End(t)
    BY <1>2, <1>3, <1>5 DEF DeleteCommit, Owed
  <1>7. bounty[q] \in [Members -> Nat]
    BY DEF IInv, TypeOK
  <1>8. \A v \in Members : consumed[v] >= bounty[q][v]
    BY <1>4, OpenPledgeIsConsumed
  <1>9. ASSUME NEW v \in Members
        PROVE  /\ consumed'[v] = consumed[v] - (IF open THEN bounty[q][v] ELSE 0)
               /\ ledger'[v] = ledger[v] + (IF open THEN bounty[q][v] ELSE 0)
               /\ consumed'[v] \in Nat /\ ledger'[v] \in Int
    <2>1. consumed[v] \in Nat /\ ledger[v] \in Int /\ bounty[q][v] \in Nat
      BY <1>7 DEF IInv, TypeOK, AccountsTypeOK
    <2>2. v \in owed <=> open /\ bounty[q][v] > 0
      BY <1>5 DEF Backers
    <2> QED BY <1>6, <1>8, <2>1, <2>2 DEF FloorSub
  <1>10. floored' = floored
    <2>1. ASSUME NEW v \in Members
          PROVE  ~(consumed[v] < bounty[q][v])
      <3>1. consumed[v] \in Nat /\ bounty[q][v] \in Nat
        BY <1>7 DEF IInv, TypeOK, AccountsTypeOK
      <3> QED BY <1>8, <3>1
    <2> QED BY <1>5, <1>6, <2>1 DEF IInv, TypeOK, AccountsTypeOK
  <1>11. /\ request' \in [Requests -> RequestRows]
         /\ request'[q].status = request[q].status /\ request'[q].filler = request[q].filler
         /\ request'[q].deleted
         /\ \A r \in Requests \ {q} : request'[r] = request[r]
    BY <1>6 DEF IInv, TypeOK, RequestRows
  <1>12. TransactionsFormed'
    BY <1>2, <1>4, <1>6, <1>11, CommitKeepsOthers
  <1>13. TypeOK'
    <2>1. consumed' \in [Members -> Nat] /\ ledger' \in [Members -> Int]
      BY <1>6, <1>9
    <2>2. /\ memberLock' \in [Members -> Transactions \cup {None}]
          /\ requestLock' \in [Requests -> Transactions \cup {None}]
      BY <1>6, EndKeeps DEF IInv
    <2> QED BY <1>6, <1>10, <1>11, <1>12, <2>1, <2>2
               DEF IInv, TypeOK, AccountsTypeOK, TransactionsFormed
  <1>14. RowsFormed'
    BY <1>6, <1>11 DEF IInv, RowsFormed
  <1>15. FillPaidInFull'
    BY <1>6, <1>11 DEF IInv, FillPaidInFull, Pot
  <1>16. ASSUME NEW v \in Members
         PROVE  /\ Earns(v, q)' = Earns(v, q) /\ Earns(v, q) \in Nat
                /\ Costs(v, q) = bounty[q][v]
                /\ Costs(v, q)' = IF open THEN 0 ELSE bounty[q][v]
    <2>1. (q \in PaidTo(v)' <=> q \in PaidTo(v)) /\ Pot(q)' = Pot(q) /\ Pot(q) \in Nat
      BY <1>6, <1>11, PotIsNatural DEF PaidTo, Pot, IInv
    <2>2. q \in Kept /\ (q \in Kept' <=> ~open)
      BY <1>4, <1>11 DEF Kept, Refunded
    <2> QED BY <1>6, <2>1, <2>2 DEF Earns, Costs
  <1>17. Money' /\ ElsewhereStays
    <2>1. ASSUME NEW v \in Members
          PROVE  /\ contributed'[v] = contributed[v] - Earns(v, q) + Earns(v, q)'
                 /\ consumed'[v] = consumed[v] - Costs(v, q) + Costs(v, q)'
                 /\ ledger'[v] - ledger[v]
                       = (contributed'[v] - contributed[v]) - (consumed'[v] - consumed[v])
      <3>1. /\ contributed[v] \in Int /\ consumed[v] \in Int /\ ledger[v] \in Int
            /\ bounty[q][v] \in Int /\ contributed' = contributed
        BY <1>6, <1>7 DEF IInv, TypeOK, AccountsTypeOK
      <3>2. CASE open
        BY <1>9, <1>16, <3>1, <3>2
      <3>3. CASE ~open
        BY <1>9, <1>16, <3>1, <3>3
      <3> QED BY <3>2, <3>3
    <2>2. ~floored'
      BY <1>10 DEF IInv, Money, FloorNeverBinds
    <2> QED BY <1>6, <1>11, <1>13, <2>1, <2>2, MoneyMoves
  <1>18. DebitsCovered
    <2>1. ASSUME NEW v \in Members
          PROVE  ~(consumed'[v] > consumed[v])
      BY <1>7, <1>9 DEF IInv, TypeOK, AccountsTypeOK
    <2> QED BY <2>1 DEF DebitsCovered
  <1> QED BY <1>12, <1>13, <1>14, <1>15, <1>17, <1>18 DEF StepIsSound, IInv

-----------------------------------------------------------------------------
(* The invariant.                                                          *)

\* At the start the columns hold what the members opened with.
LEMMA InitHolds ==
  Init => IInv /\ \A u \in Members : EarnedElsewhere(u) = Opening[u] /\ SpentElsewhere(u) = 0
  <1> SUFFICES ASSUME Init
               PROVE  /\ IInv
                      /\ \A u \in Members : /\ EarnedElsewhere(u) = Opening[u]
                                            /\ SpentElsewhere(u) = 0
    OBVIOUS
  <1> USE DEF Init, AccountsInit
  <1>1. NoRequest \in RequestRows /\ NoRequest.status = "absent" /\ NoRequest.filler = None
    BY DEF NoRequest, RequestRows
  <1>2. TypeOK
    <2>1. AccountsTypeOK
      <3>1. contributed \in [Members -> Nat]
        BY OpeningIsBalance
      <3>2. consumed \in [Members -> Nat] /\ ledger \in [Members -> Int]
        OBVIOUS
      <3>3. floored \in BOOLEAN /\ memberLock \in [Members -> Transactions \cup {None}]
        OBVIOUS
      <3> QED BY <3>1, <3>2, <3>3 DEF AccountsTypeOK
    <2>2. request \in [Requests -> RequestRows] /\ tx \in [Transactions -> TransactionStates]
      BY <1>1, IdleIsFormed
    <2> QED BY <2>1, <2>2 DEF TypeOK
  <1>3. RowsFormed /\ FillPaidInFull
    BY <1>1 DEF RowsFormed, FillPaidInFull
  <1>4. TransactionsFormed
    <2>1. ASSUME NEW t \in Transactions
          PROVE  Formed(tx[t]) /\ ClaimHolds(t) /\ CreatesAlone(t)
      BY IdleIsFormed DEF ClaimHolds, CreatesAlone
    <2> QED BY <1>2, <2>1 DEF TransactionsFormed, TypeOK
  <1>5. ASSUME NEW u \in Members
        PROVE  TotalOn(Pots, PaidTo(u)) = 0 /\ TotalOn(PledgesOf(u), Kept) = 0
    <2>1. Pots \in [Requests -> Nat] /\ PledgesOf(u) \in [Requests -> Nat]
      BY <1>2, TotalsAreNatural
    <2>2. \A r \in Requests : r \notin PaidTo(u) /\ PledgesOf(u)[r] = 0
      BY <1>1 DEF PaidTo, PledgesOf
    <2> QED BY <2>1, <2>2, TotalOnZeros
  <1>6. \A u \in Members : EarnedElsewhere(u) = Opening[u] /\ SpentElsewhere(u) = 0
    <2>1. ASSUME NEW u \in Members
          PROVE  EarnedElsewhere(u) = Opening[u] /\ SpentElsewhere(u) = 0
      <3>1. Opening[u] \in Nat
        BY OpeningIsBalance
      <3> QED BY <1>5, <3>1 DEF EarnedElsewhere, SpentElsewhere
    <2> QED BY <2>1
  <1>7. RequestsAreCovered
    BY <1>6, OpeningIsBalance DEF RequestsAreCovered
  <1>8. LedgerExplainsBalances /\ FloorNeverBinds
    <2>1. ASSUME NEW u \in Members
          PROVE  Balance(u) = Opening[u] + ledger[u]
      <3>1. Opening[u] \in Nat
        BY OpeningIsBalance
      <3> QED BY <3>1 DEF Balance
    <2> QED BY <2>1 DEF LedgerExplainsBalances, FloorNeverBinds
  <1> QED BY <1>2, <1>3, <1>4, <1>6, <1>7, <1>8 DEF IInv, Money

LEMMA BeginKeeps ==
  ASSUME IInv, NEW t \in Transactions, Begin(t)
  PROVE  StepIsSound
  <1>1. PICK u \in Members, r \in Requests :
           \/ \E a \in Amounts : CreateRead(t, u, r, a) \/ BountyRead(t, u, r, a)
           \/ \E c \in Contributions : FillRead(t, u, r, c)
           \/ UnfillRead(t, u, r)
           \/ DeleteRead(t, u, r)
    BY DEF Begin
  <1> QED BY <1>1, CreateReadKeeps, BountyReadKeeps, FillReadKeeps, UnfillReadKeeps,
             DeleteReadKeeps

LEMMA AdvanceKeeps ==
  ASSUME IInv, NEW t \in Transactions, Advance(t)
  PROVE  StepIsSound
  BY CreateCommitKeeps, BountyClaimKeeps, BountyReadMemberKeeps, BountyCommitKeeps,
     FillCheckKeeps, FillClaimKeeps, FillCommitKeeps, UnfillClaimKeeps, UnfillCommitKeeps,
     DeleteClaimKeeps, RefundLockKeeps, DeleteCommitKeeps DEF Advance

LEMMA NextKeeps ==
  ASSUME IInv, [Next]_vars
  PROVE  IInv' /\ ElsewhereStays /\ [DebitsCovered]_accountVars
  <1>1. CASE UNCHANGED vars
    <2>1. UNCHANGED <<contributed, consumed, ledger, floored, memberLock, request, bounty,
                      award, requestLock, tx>>
      BY <1>1 DEF vars, accountVars, requestVars
    <2>2. TypeOK'
      BY <2>1 DEF IInv, TypeOK, AccountsTypeOK
    <2>3. RowsFormed' /\ FillPaidInFull'
      BY <2>1 DEF IInv, RowsFormed, FillPaidInFull, Pot
    <2>4. TransactionsFormed'
      BY <2>1 DEF IInv, TransactionsFormed, ClaimHolds, CreatesAlone, IsOpen, UnfillMatches,
                  IsFilled, DeleteMatches
    <2>5. Pots' = Pots /\ (\A u \in Members : PaidTo(u)' = PaidTo(u))
      BY <2>1 DEF Pots, Pot, PaidTo
    <2>6. Kept' = Kept /\ (\A u \in Members : PledgesOf(u)' = PledgesOf(u))
      BY <2>1 DEF Kept, Refunded, PledgesOf
    <2>7. ElsewhereStays
      BY <2>1, <2>5, <2>6 DEF ElsewhereStays, EarnedElsewhere, SpentElsewhere
    <2>8. RequestsAreCovered'
      BY <2>7 DEF IInv, Money, RequestsAreCovered, ElsewhereStays
    <2>9. LedgerExplainsBalances' /\ FloorNeverBinds'
      BY <2>1 DEF IInv, Money, LedgerExplainsBalances, FloorNeverBinds, Balance
    <2> QED BY <1>1, <2>2, <2>3, <2>4, <2>7, <2>8, <2>9 DEF IInv, Money, vars
  <1>2. ASSUME NEW t \in Transactions,
               Begin(t) \/ Advance(t) \/ DeadlockVictim(t) \/ Crash(t)
        PROVE  StepIsSound
    <2>1. CASE Begin(t)
      BY <2>1, BeginKeeps
    <2>2. CASE Advance(t)
      BY <2>2, AdvanceKeeps
    <2>3. CASE DeadlockVictim(t) \/ Crash(t)
      BY <2>3, RollbackKeeps DEF DeadlockVictim, Crash
    <2> QED BY <1>2, <2>1, <2>2, <2>3
  <1> QED BY <1>1, <1>2 DEF Next, StepIsSound

(***************************************************************************)
(* Somebody else's step: it writes no row of requests, and the balances    *)
(* still hold what requests have moved.                                    *)
(***************************************************************************)
LEMMA OthersStepKeeps ==
  ASSUME IInv, UNCHANGED <<requestVars, tx>>, AccountsTypeOK', Money'
  PROVE  IInv'
  <1>1. TypeOK'
    BY DEF IInv, TypeOK, requestVars
  <1>2. RowsFormed' /\ FillPaidInFull'
    BY DEF IInv, RowsFormed, FillPaidInFull, Pot, requestVars
  <1>3. TransactionsFormed'
    BY DEF IInv, TransactionsFormed, ClaimHolds, CreatesAlone, IsOpen, UnfillMatches, IsFilled,
           DeleteMatches, requestVars
  <1> QED BY <1>1, <1>2, <1>3 DEF IInv

\* When requests are all there is, nothing is earned or spent elsewhere.
OnlyRequests ==
    IInv /\ \A u \in Members : EarnedElsewhere(u) = Opening[u] /\ SpentElsewhere(u) = 0

LEMMA EscrowInvariant == Spec => []OnlyRequests
  <1>1. OnlyRequests /\ [Next]_vars => OnlyRequests'
    BY NextKeeps DEF OnlyRequests, ElsewhereStays
  <1>2. Init => OnlyRequests
    BY InitHolds DEF OnlyRequests
  <1> QED BY <1>1, <1>2, PTL DEF Spec

(***************************************************************************)
(* The types hold for any instance: in particular no statement, however    *)
(* interleaved, takes a balance or a bounty below zero, and a claw-back    *)
(* never finds the award it takes back missing.                            *)
(***************************************************************************)
THEOREM EscrowTypeCorrect == Spec => []TypeOK
  <1>1. OnlyRequests => TypeOK
    BY DEF OnlyRequests, IInv
  <1> QED BY <1>1, EscrowInvariant, PTL

(***************************************************************************)
(* Every fill on record was paid the whole pot, bounties added while it    *)
(* ran included (fillRequest against addBounty).                           *)
(***************************************************************************)
THEOREM FillPaidInFullTheorem == Spec => []FillPaidInFull
  <1>1. OnlyRequests => FillPaidInFull
    BY DEF OnlyRequests, IInv
  <1> QED BY <1>1, EscrowInvariant, PTL

(***************************************************************************)
(* Nobody has contributed anything by requests but the pots of those they  *)
(* are the paid filler of (fillRequest, unfillRequest).                    *)
(***************************************************************************)
THEOREM ContributedIsEarnedTheorem == Spec => []ContributedIsEarned
  <1>1. ASSUME OnlyRequests
        PROVE  ContributedIsEarned
    <2>1. ASSUME NEW u \in Members
          PROVE  contributed[u] = Opening[u] + TotalOn(Pots, PaidTo(u))
      <3>1. TotalOn(Pots, PaidTo(u)) \in Nat /\ contributed[u] \in Nat
        BY <1>1, TotalsAreNatural DEF OnlyRequests, IInv, TypeOK, AccountsTypeOK
      <3> QED BY <1>1, <3>1, OpeningIsBalance DEF OnlyRequests, EarnedElsewhere
    <2> QED BY <2>1 DEF ContributedIsEarned, Pots
  <1> QED BY <1>1, EscrowInvariant, PTL

(***************************************************************************)
(* What anybody has consumed is what they have pledged on requests that    *)
(* have not refunded them (createRequest, addBounty, deleteRequest).       *)
(***************************************************************************)
THEOREM ConsumedIsPledgedTheorem == Spec => []ConsumedIsPledged
  <1>1. ASSUME OnlyRequests
        PROVE  ConsumedIsPledged
    <2>1. ASSUME NEW u \in Members
          PROVE  consumed[u] = TotalOn(PledgesOf(u), Kept)
      <3>1. TotalOn(PledgesOf(u), Kept) \in Nat /\ consumed[u] \in Nat
        BY <1>1, TotalsAreNatural DEF OnlyRequests, IInv, TypeOK, AccountsTypeOK
      <3> QED BY <1>1, <3>1 DEF OnlyRequests, SpentElsewhere
    <2> QED BY <2>1 DEF ConsumedIsPledged, PledgesOf, Kept
  <1> QED BY <1>1, EscrowInvariant, PTL

(***************************************************************************)
(* The ledger explains every balance, and decrementFloored never has to    *)
(* floor: no claw-back or refund is made twice or from the wrong member.   *)
(***************************************************************************)
THEOREM LedgerTheorem == Spec => [](LedgerExplainsBalances /\ FloorNeverBinds)
  <1>1. OnlyRequests => LedgerExplainsBalances /\ FloorNeverBinds
    BY DEF OnlyRequests, IInv, Money
  <1> QED BY <1>1, EscrowInvariant, PTL

(***************************************************************************)
(* No debit overdraws a member, however old the balance it was checked     *)
(* against (debitBalance).                                                 *)
(***************************************************************************)
THEOREM NoOverdraftTheorem == Spec => NoOverdraft
  <1>1. OnlyRequests /\ [Next]_vars => [DebitsCovered]_accountVars
    BY NextKeeps DEF OnlyRequests
  <1>2. [][DebitsCovered]_accountVars => NoOverdraft
    BY PTL DEF NoOverdraft, DebitsCovered
  <1> QED BY <1>1, <1>2, EscrowInvariant, PTL DEF Spec

-----------------------------------------------------------------------------
(***************************************************************************)
(* Deadlocks.  A User row is held across statements by refunds only, and a *)
(* request row by transactions past their claim; so nobody waits for a     *)
(* transaction that is still waiting for its request row.                  *)
(***************************************************************************)
LocksHeld ==
    /\ \A u \in Members, t \in Transactions : memberLock[u] = t => At(t, "delete", "refund")
    /\ \A r \in Requests, t \in Transactions : requestLock[r] = t => Claimed(tx[t])

\* A step that gives t no lock moves no other transaction.
LEMMA LocksStay ==
  ASSUME TypeOK, LocksHeld, NEW t \in Transactions, NEW x,
         tx' = [tx EXCEPT ![t] = x],
         memberLock' = memberLock \/ memberLock' = ReleaseAll(memberLock, t),
         requestLock' = requestLock \/ requestLock' = ReleaseAll(requestLock, t),
         \/ ~At(t, "delete", "refund") /\ ~Claimed(tx[t])
         \/ ~At(t, "delete", "refund") /\ Claimed(x)
         \/ memberLock' = ReleaseAll(memberLock, t) /\ requestLock' = ReleaseAll(requestLock, t)
  PROVE  LocksHeld'
  <1>1. \A s \in Transactions : tx'[s] = IF s = t THEN x ELSE tx[s]
    BY DEF TypeOK
  <1>2. ASSUME NEW u \in Members, NEW s \in Transactions, memberLock'[u] = s
        PROVE  /\ memberLock[u] = s
               /\ s = t => memberLock' = memberLock
    BY <1>2, NoneIsNoTransaction DEF ReleaseAll, TypeOK, AccountsTypeOK
  <1>3. ASSUME NEW r \in Requests, NEW s \in Transactions, requestLock'[r] = s
        PROVE  /\ requestLock[r] = s
               /\ s = t => requestLock' = requestLock
    BY <1>3, NoneIsNoTransaction DEF ReleaseAll, TypeOK
  <1>4. ASSUME NEW u \in Members, memberLock'[u] = t
        PROVE  FALSE
    <2>1. At(t, "delete", "refund")
      BY <1>2, <1>4 DEF LocksHeld
    <2>2. memberLock'[u] = None
      BY <2>1, <1>2, <1>4 DEF ReleaseAll, TypeOK, AccountsTypeOK
    <2> QED BY <2>2, <1>4, NoneIsNoTransaction
  <1>5. ASSUME NEW r \in Requests, requestLock'[r] = t
        PROVE  Claimed(x)
    <2>1. Claimed(tx[t])
      BY <1>3, <1>5 DEF LocksHeld
    <2>2. CASE requestLock' = ReleaseAll(requestLock, t)
      BY <2>2, <1>5, <1>3, NoneIsNoTransaction DEF ReleaseAll, TypeOK
    <2> QED BY <2>1, <2>2
  <1>6. \A u \in Members, s \in Transactions : memberLock'[u] = s => At(s, "delete", "refund")'
    BY <1>1, <1>2, <1>4 DEF LocksHeld, At
  <1>7. \A r \in Requests, s \in Transactions : requestLock'[r] = s => Claimed(tx'[s])
    BY <1>1, <1>3, <1>5 DEF LocksHeld
  <1> QED BY <1>6, <1>7 DEF LocksHeld

LEMMA LocksKept ==
  ASSUME TypeOK, LocksHeld, NEW t \in Transactions, Begin(t) \/ Advance(t) \/ Rollback(t)
  PROVE  LocksHeld'
  <1>1. CASE End(t)
    <2>1. /\ tx' = [tx EXCEPT ![t] = Idle]
          /\ memberLock' = ReleaseAll(memberLock, t)
          /\ requestLock' = ReleaseAll(requestLock, t)
      BY <1>1 DEF End
    <2> HIDE DEF Idle
    <2> QED BY <2>1, LocksStay
  <1>2. CASE Begin(t)
    <2> DEFINE Untouched == /\ tx[t] = Idle /\ UNCHANGED <<memberLock, requestLock>>
                            /\ \A s \in Transactions \ {t} : tx'[s] = tx[s]
    <2>1. \A u \in Members, r \in Requests, a \in Amounts : CreateRead(t, u, r, a) => Untouched
      BY DEF CreateRead, TypeOK, accountVars, requestVars
    <2>2. \A u \in Members, r \in Requests, a \in Amounts : BountyRead(t, u, r, a) => Untouched
      BY DEF BountyRead, TypeOK, accountVars, requestVars
    <2>3. \A u \in Members, r \in Requests, c \in Contributions : FillRead(t, u, r, c) => Untouched
      BY DEF FillRead, TypeOK, accountVars, requestVars
    <2>4. \A u \in Members, r \in Requests : UnfillRead(t, u, r) => Untouched
      BY DEF UnfillRead, TypeOK, accountVars, requestVars
    <2>5. \A u \in Members, r \in Requests : DeleteRead(t, u, r) => Untouched
      BY DEF DeleteRead, TypeOK, accountVars, requestVars
    <2>6. Untouched
      <3> HIDE DEF Untouched
      <3> QED BY <1>2, <2>1, <2>2, <2>3, <2>4, <2>5 DEF Begin
    <2>7. ~At(t, "delete", "refund") /\ ~Claimed(tx[t])
      BY <2>6 DEF Idle, At, Claimed
    <2> QED BY <2>6, <2>7 DEF LocksHeld, At
  <1>3. ASSUME NEW step \in {"read", "pay", "clawback", "refund"},
               tx[t].op # "create", tx[t].step = "claim", requestLock[tx[t].request] = None,
               requestLock' = TakeLock(requestLock, tx[t].request, t),
               Proceed(t, step), UNCHANGED memberLock
        PROVE  LocksHeld'
    <2>1. /\ \A s \in Transactions \ {t} : tx'[s] = tx[s]
          /\ tx'[t].op = tx[t].op /\ tx'[t].step = step
      BY <1>3 DEF Proceed, TypeOK, TransactionStates
    <2>2. Claimed(tx'[t]) /\ ~At(t, "delete", "refund")
      BY <2>1, <1>3 DEF Claimed, At
    <2>3. \A r \in Requests, s \in Transactions \ {t} : requestLock'[r] = s => requestLock[r] = s
      BY <1>3 DEF TakeLock, TypeOK
    <2> QED BY <1>3, <2>1, <2>2, <2>3 DEF LocksHeld, At
  <1>4. CASE \E u \in Members : RefundLock(t, u)
    <2>1. PICK u \in Members : RefundLock(t, u)
      BY <1>4
    <2> QED BY <2>1 DEF RefundLock, LocksHeld, At, TakeLock, TypeOK, AccountsTypeOK, requestVars
  <1>5. CASE BountyReadMember(t) \/ FillCheck(t)
    <2>1. CASE Rollback(t)
      BY <2>1, <1>1 DEF Rollback
    <2>2. CASE ~Rollback(t)
      <3>1. UNCHANGED <<memberLock, requestLock>> /\ tx[t].op \in {"addBounty", "fill"}
        BY <1>5, <2>2 DEF BountyReadMember, FillCheck, At, accountVars, requestVars
      <3>2. \/ ~Claimed(tx[t]) /\ tx' = [tx EXCEPT ![t].step = "claim"]
            \/ /\ tx[t].op = "addBounty"
               /\ tx' = [tx EXCEPT ![t].step = "debit", ![t].balance = Snapshot(tx[t].by)]
        BY <1>5, <2>2 DEF BountyReadMember, FillCheck, At, Proceed, Claimed
      <3>3. CASE tx' = [tx EXCEPT ![t].step = "claim"] /\ ~Claimed(tx[t])
        <4>1. tx' = [tx EXCEPT ![t] = [tx[t] EXCEPT !.step = "claim"]]
          BY <3>3
        <4> QED BY <3>1, <3>3, <4>1, LocksStay DEF At
      <3>4. CASE /\ tx[t].op = "addBounty"
                 /\ tx' = [tx EXCEPT ![t].step = "debit", ![t].balance = Snapshot(tx[t].by)]
        <4> DEFINE x == [tx[t] EXCEPT !.step = "debit", !.balance = Snapshot(tx[t].by)]
        <4>1. tx' = [tx EXCEPT ![t] = x]
          BY <3>4
        <4>2. Claimed(x)
          BY <3>4 DEF Claimed, TypeOK, TransactionStates
        <4> QED BY <3>1, <4>1, <4>2, LocksStay DEF At
      <3> QED BY <3>2, <3>3, <3>4
    <2> QED BY <2>1, <2>2
  <1>6. CASE BountyClaim(t) \/ FillClaim(t) \/ UnfillClaim(t) \/ DeleteClaim(t)
    <2>1. tx[t].op # "create" /\ tx[t].step = "claim" /\ requestLock[tx[t].request] = None
      BY <1>6 DEF BountyClaim, FillClaim, UnfillClaim, DeleteClaim, At, Claim
    <2>2. PICK step \in {"read", "pay", "clawback", "refund"}, matches \in BOOLEAN :
             Claim(t, matches, step)
      BY <1>6 DEF BountyClaim, FillClaim, UnfillClaim, DeleteClaim, IsOpen, IsFilled,
                  UnfillMatches, DeleteMatches
    <2>3. CASE Rollback(t)
      BY <2>3, <1>1 DEF Rollback
    <2>4. CASE ~Rollback(t)
      <3>1. /\ requestLock' = TakeLock(requestLock, tx[t].request, t)
            /\ Proceed(t, step) /\ UNCHANGED memberLock
        BY <2>2, <2>4 DEF Claim, accountVars
      <3> QED BY <2>1, <3>1, <1>3
    <2> QED BY <2>3, <2>4
  <1>7. CASE CreateCommit(t) \/ BountyCommit(t) \/ FillCommit(t) \/ UnfillCommit(t) \/ DeleteCommit(t)
    BY <1>7, <1>1 DEF CreateCommit, BountyCommit, FillCommit, UnfillCommit, DeleteCommit, Rollback
  <1>8. CASE Rollback(t)
    BY <1>8, <1>1 DEF Rollback
  <1> QED BY <1>2, <1>4, <1>5, <1>6, <1>7, <1>8 DEF Advance

\* In a circle every transaction is waited for over a User row.
LEMMA CirclesAreRefunds ==
  ASSUME TypeOK, TransactionsFormed, LocksHeld
  PROVE  OnlyRefundsDeadlock
  <1> SUFFICES ASSUME NEW S \in SUBSET Transactions, Circle(S), NEW s \in S
               PROVE  At(s, "delete", "refund")
    BY DEF OnlyRefundsDeadlock
  <1>1. ASSUME NEW a \in Transactions, NEW b \in Transactions, WaitsFor(a, b)
        PROVE  \/ tx[a].step = "claim" /\ Claimed(tx[b])
               \/ At(b, "delete", "refund")
    <2>1. Formed(tx[a]) /\ tx[a] \in TransactionStates /\ tx[a] # Idle
      BY <1>1 DEF TransactionsFormed, WaitsFor
    <2>2. CASE tx[a].step = "claim" /\ requestLock[tx[a].request] = b
      BY <2>1, <2>2 DEF LocksHeld, Formed, TransactionStates
    <2>3. CASE tx[a].step \in {"debit", "pay"} /\ memberLock[tx[a].by] = b
      BY <2>1, <2>3 DEF LocksHeld, Formed, TransactionStates
    <2>4. CASE tx[a].step = "clawback" /\ memberLock[tx[a].read.filler] = b
      BY <2>1, <2>4 DEF LocksHeld, Formed, TransactionStates
    <2>5. CASE tx[a].step = "refund" /\ \E u \in Owed(a) : memberLock[u] = b
      BY <2>5 DEF LocksHeld, Owed, Backers
    <2> QED BY <1>1, <2>2, <2>3, <2>4, <2>5 DEF WaitsFor
  <1>2. PICK w \in S : WaitsFor(w, s)
    BY DEF Circle
  <1>3. PICK v \in S : WaitsFor(v, w)
    BY DEF Circle
  <1>4. tx[w].step # "claim"
    BY <1>1, <1>3 DEF Claimed, At
  <1> QED BY <1>1, <1>2, <1>4

(***************************************************************************)
(* Only refunds deadlock (requestLifecycle.ts:649): no create, pledge,     *)
(* fill or unfill is ever aborted for its locks, with any number of        *)
(* transactions of any kind in flight.                                     *)
(***************************************************************************)
THEOREM OnlyRefundsDeadlockTheorem == Spec => []OnlyRefundsDeadlock
  <1>1. Init => LocksHeld
    BY NoneIsNoTransaction DEF Init, AccountsInit, LocksHeld
  <1>2. OnlyRequests /\ LocksHeld /\ [Next]_vars => LocksHeld'
    <2>1. UNCHANGED vars /\ LocksHeld => LocksHeld'
      BY DEF vars, accountVars, requestVars, LocksHeld, At
    <2> QED BY <2>1, LocksKept DEF OnlyRequests, IInv, Next, DeadlockVictim, Crash
  <1>3. OnlyRequests /\ LocksHeld => OnlyRefundsDeadlock
    BY CirclesAreRefunds DEF OnlyRequests, IInv
  <1> QED BY <1>1, <1>2, <1>3, EscrowInvariant, PTL DEF Spec

-----------------------------------------------------------------------------
(* The refinement of BountyEscrow.                                         *)

\* What the mapping takes for the abstract balance, outcome and payee.
Spendable == [u \in Members |-> Balance(u)]
Outcome == [r \in Requests |-> OutcomeOf(request[r])]
Payee == [r \in Requests |-> request[r].filler]

LEMMA OutcomeIs ==
  ASSUME NEW row
  PROVE  /\ row.status = "absent" => OutcomeOf(row) = "unknown"
         /\ row.status = "open" /\ ~row.deleted => OutcomeOf(row) = "open"
         /\ row.status = "open" /\ row.deleted => OutcomeOf(row) = "refunded"
         /\ row.status = "filled" /\ ~row.deleted => OutcomeOf(row) = "paid"
         /\ row.status = "filled" /\ row.deleted => OutcomeOf(row) = "closed"
  BY DEF OutcomeOf

\* Writing one row moves its outcome and payee only.
LEMMA OneRowMoves ==
  ASSUME NEW q \in Requests, \A r \in Requests \ {q} : request'[r] = request[r]
  PROVE  /\ Outcome' = [Outcome EXCEPT ![q] = OutcomeOf(request'[q])]
         /\ Payee' = [Payee EXCEPT ![q] = request'[q].filler]
  <1>1. \A r \in Requests \ {q} : OutcomeOf(request'[r]) = OutcomeOf(request[r])
    OBVIOUS
  <1>2. Outcome' = [r \in Requests |-> OutcomeOf(request'[r])]
    BY DEF Outcome, OutcomeOf
  <1> QED BY <1>1, <1>2 DEF Outcome, Payee

LEMMA InitRefines == Init => Promise!Init
  <1> SUFFICES ASSUME Init PROVE Promise!Init
    OBVIOUS
  <1> USE DEF Init, AccountsInit
  <1>1. NoRequest.status = "absent" /\ NoRequest.filler = None
    BY DEF NoRequest
  <1>2. Spendable = Opening
    <2>1. ASSUME NEW u \in Members
          PROVE  Balance(u) = Opening[u]
      BY OpeningIsBalance DEF Balance
    <2> QED BY <2>1, OpeningIsBalance DEF Spendable
  <1>3. Outcome = [r \in Requests |-> "unknown"] /\ Payee = [r \in Requests |-> None]
    BY <1>1, OutcomeIs DEF Outcome, Payee
  <1> QED BY <1>2, <1>3 DEF Promise!Init, Spendable, Outcome, Payee

(***************************************************************************)
(* A transaction that applies no write is invisible.                       *)
(***************************************************************************)
LEMMA QuietRefines ==
  ASSUME UNCHANGED <<contributed, consumed, request, bounty>>
  PROVE  UNCHANGED Promise!vars
  BY DEF Promise!vars, Balance, OutcomeOf

\* A member who is charged a pledge on a request that is new or open backs it.
LEMMA PledgeRefines ==
  ASSUME IInv, NEW q \in Requests, NEW u \in Members, NEW a \in Amounts,
         OutcomeOf(request[q]) \in {"unknown", "open"},
         contributed[u] - consumed[u] >= a,
         contributed' = contributed, consumed' = [consumed EXCEPT ![u] = @ + a],
         bounty' = [bounty EXCEPT ![q][u] = @ + a],
         \A r \in Requests \ {q} : request'[r] = request[r],
         OutcomeOf(request'[q]) = "open", request'[q].filler = request[q].filler
  PROVE  Promise!Next
  <1>1. Outcome[q] \in {"unknown", "open"} /\ Spendable[u] >= a
    BY DEF Outcome, Spendable, Balance
  <1>2. Spendable' = [Spendable EXCEPT ![u] = @ - a]
    <2>1. a \in Int /\ \A v \in Members : contributed[v] \in Int /\ consumed[v] \in Int
      BY AmountsArePositive DEF IInv, TypeOK, AccountsTypeOK
    <2>2. \A v \in Members : consumed'[v] = IF v = u THEN consumed[v] + a ELSE consumed[v]
      BY DEF IInv, TypeOK, AccountsTypeOK
    <2>3. \A v \in Members : Balance(v)' = IF v = u THEN Balance(v) - a ELSE Balance(v)
      BY <2>1, <2>2 DEF Balance
    <2> QED BY <2>3 DEF Spendable
  <1>3. Outcome' = [Outcome EXCEPT ![q] = "open"] /\ Payee' = Payee
    BY OneRowMoves DEF Payee
  <1>4. Promise!Back(u, q, a)
    BY <1>1, <1>2, <1>3 DEF Promise!Back, Spendable, Outcome, Payee
  <1> QED BY <1>4 DEF Promise!Next

LEMMA CreateCommitRefines ==
  ASSUME IInv, NEW t \in Transactions, CreateCommit(t)
  PROVE  Promise!Next \/ UNCHANGED Promise!vars
  <1>1. /\ tx[t] \in TransactionStates /\ Formed(tx[t]) /\ CreatesAlone(t)
        /\ tx[t].op = "create" /\ tx[t].step = "debit"
    BY DEF IInv, TransactionsFormed, CreateCommit, At
  <1>2. PICK u \in Members, q \in Requests, a \in Amounts :
           u = tx[t].by /\ q = tx[t].request /\ a = tx[t].amount
    BY <1>1 DEF Formed
  <1>3. CASE Rollback(t)
    BY <1>3, QuietRefines DEF Rollback
  <1>4. CASE ~Rollback(t)
    <2>1. /\ SnapshotHolds(u, tx[t].balance) /\ Spend(u, a)
          /\ request' = [request EXCEPT ![q] = [NoRequest EXCEPT !.status = "open", !.owner = u]]
          /\ bounty' = [bounty EXCEPT ![q][u] = a]
      BY <1>2, <1>4 DEF CreateCommit
    <2>2. /\ request[q].status = "absent" /\ request[q].filler = None
          /\ bounty[q] = [v \in Members |-> 0]
      BY <1>1, <1>2 DEF CreatesAlone, IInv, RowsFormed
    <2>3. /\ request'[q].status = "open" /\ ~request'[q].deleted /\ request'[q].filler = None
          /\ \A r \in Requests \ {q} : request'[r] = request[r]
      BY <2>1 DEF IInv, TypeOK, NoRequest
    <2>4. bounty' = [bounty EXCEPT ![q][u] = @ + a]
      <3>1. bounty[q][u] + a = a
        BY <2>2, AmountsArePositive
      <3> QED BY <2>1, <3>1 DEF IInv, TypeOK
    <2>5. contributed[u] - consumed[u] >= a
      BY <1>1, <1>2, <2>1 DEF Formed, Affords, SnapshotHolds, Snapshot
    <2>6. contributed' = contributed /\ consumed' = [consumed EXCEPT ![u] = @ + a]
      BY <2>1 DEF Spend
    <2>7. OutcomeOf(request[q]) = "unknown" /\ OutcomeOf(request'[q]) = "open"
      BY <2>2, <2>3, OutcomeIs
    <2> QED BY <2>2, <2>3, <2>4, <2>5, <2>6, <2>7, PledgeRefines
  <1> QED BY <1>3, <1>4

LEMMA BountyCommitRefines ==
  ASSUME IInv, NEW t \in Transactions, BountyCommit(t)
  PROVE  Promise!Next \/ UNCHANGED Promise!vars
  <1>1. /\ tx[t] \in TransactionStates /\ Formed(tx[t]) /\ ClaimHolds(t)
        /\ tx[t].op = "addBounty" /\ tx[t].step = "debit"
    BY DEF IInv, TransactionsFormed, BountyCommit, At
  <1>2. PICK u \in Members, q \in Requests, a \in Amounts :
           u = tx[t].by /\ q = tx[t].request /\ a = tx[t].amount
    BY <1>1 DEF Formed
  <1>3. CASE Rollback(t)
    BY <1>3, QuietRefines DEF Rollback
  <1>4. CASE ~Rollback(t)
    <2>1. /\ SnapshotHolds(u, tx[t].balance) /\ Spend(u, a)
          /\ request' = request /\ bounty' = [bounty EXCEPT ![q][u] = @ + a]
      BY <1>2, <1>4 DEF BountyCommit
    <2>2. request[q].status = "open" /\ ~request[q].deleted
      BY <1>1, <1>2 DEF Claimed, ClaimHolds, IsOpen
    <2>3. contributed[u] - consumed[u] >= a
      BY <1>1, <1>2, <2>1 DEF Formed, Affords, SnapshotHolds, Snapshot
    <2>4. contributed' = contributed /\ consumed' = [consumed EXCEPT ![u] = @ + a]
      BY <2>1 DEF Spend
    <2>5. OutcomeOf(request[q]) = "open"
      BY <2>2, OutcomeIs
    <2> QED BY <2>1, <2>3, <2>4, <2>5, PledgeRefines
  <1> QED BY <1>3, <1>4

LEMMA FillCommitRefines ==
  ASSUME IInv, NEW t \in Transactions, FillCommit(t)
  PROVE  Promise!Next
  <1>1. /\ tx[t] \in TransactionStates /\ Formed(tx[t]) /\ ClaimHolds(t)
        /\ tx[t].op = "fill" /\ tx[t].step = "pay"
    BY DEF IInv, TransactionsFormed, FillCommit, At
  <1>2. PICK u \in Members, q \in Requests : u = tx[t].by /\ q = tx[t].request
    BY <1>1 DEF Formed
  <1>3. PICK pot \in Nat : pot = Pot(q)
    BY PotIsNatural DEF IInv
  <1>4. /\ contributed' = [contributed EXCEPT ![u] = @ + pot]
        /\ request' = [request EXCEPT ![q].status = "filled", ![q].filler = u,
                                      ![q].fill = tx[t].contribution]
        /\ UNCHANGED <<consumed, bounty>>
    BY <1>2, <1>3 DEF FillCommit
  <1>5. request[q].status = "open" /\ ~request[q].deleted
    BY <1>1, <1>2 DEF Claimed, ClaimHolds, IsOpen
  <1>6. /\ request'[q].status = "filled" /\ request'[q].filler = u /\ ~request'[q].deleted
        /\ \A r \in Requests \ {q} : request'[r] = request[r]
    BY <1>4, <1>5 DEF IInv, TypeOK, RequestRows
  <1>7. OutcomeOf(request[q]) = "open" /\ OutcomeOf(request'[q]) = "paid"
    BY <1>5, <1>6, OutcomeIs
  <1>8. Outcome[q] = "open" /\ Outcome' = [Outcome EXCEPT ![q] = "paid"]
    BY <1>6, <1>7, OneRowMoves DEF Outcome
  <1>9. Payee' = [Payee EXCEPT ![q] = u]
    BY <1>6, OneRowMoves
  <1>10. Spendable' = [Spendable EXCEPT ![u] = @ + Total(bounty[q])]
    <2>1. \A v \in Members : contributed[v] \in Int /\ consumed[v] \in Int
      BY DEF IInv, TypeOK, AccountsTypeOK
    <2>2. \A v \in Members : contributed'[v] = IF v = u THEN contributed[v] + pot
                                                       ELSE contributed[v]
      BY <1>4 DEF IInv, TypeOK, AccountsTypeOK
    <2>3. \A v \in Members : Balance(v)' = IF v = u THEN Balance(v) + pot ELSE Balance(v)
      BY <1>4, <2>1, <2>2 DEF Balance
    <2> QED BY <1>3, <2>3 DEF Spendable, Pot
  <1>11. Promise!Total(bounty[q]) = Total(bounty[q])
    BY DEF Promise!Total, Promise!Units, Promise!Cardinality, Total, Units, Cardinality
  <1>12. Promise!Pay(u, q)
    BY <1>4, <1>8, <1>9, <1>10, <1>11 DEF Promise!Pay, Spendable, Outcome, Payee
  <1> QED BY <1>12 DEF Promise!Next

LEMMA UnfillCommitRefines ==
  ASSUME IInv, NEW t \in Transactions, UnfillCommit(t)
  PROVE  Promise!Next \/ UNCHANGED Promise!vars
  <1>1. /\ tx[t] \in TransactionStates /\ Formed(tx[t]) /\ ClaimHolds(t)
        /\ tx[t].op = "unfill" /\ tx[t].step = "clawback"
    BY DEF IInv, TransactionsFormed, UnfillCommit, At
  <1>2. PICK f \in Members, q \in Requests : f = tx[t].read.filler /\ q = tx[t].request
    BY <1>1 DEF Formed
  <1>3. PICK pot \in Nat : pot = Pot(q)
    BY PotIsNatural DEF IInv
  <1>4. /\ Claimed(tx[t]) /\ request[q].status = "filled" /\ ~request[q].deleted
        /\ request[q].filler = f
    BY <1>1, <1>2 DEF Claimed, ClaimHolds, UnfillMatches, IsFilled
  <1>5. ClawedBack(q, f) = pot
    BY <1>3, <1>4 DEF IInv, FillPaidInFull, ClawedBack
  <1>6. contributed[f] >= pot
    BY <1>3, <1>4, PaidPotIsEarned
  <1>7. CASE Rollback(t)
    BY <1>7, QuietRefines DEF Rollback
  <1>8. CASE ~Rollback(t)
    <2>1. /\ contributed' = [contributed EXCEPT ![f] = FloorSub(@, pot)]
          /\ request' = [request EXCEPT ![q].status = "open", ![q].filler = None,
                                        ![q].fill = None]
          /\ UNCHANGED <<consumed, bounty>>
      BY <1>2, <1>5, <1>8 DEF UnfillCommit
    <2>2. /\ request'[q].status = "open" /\ request'[q].filler = None /\ ~request'[q].deleted
          /\ \A r \in Requests \ {q} : request'[r] = request[r]
      BY <1>4, <2>1 DEF IInv, TypeOK, RequestRows
    <2>3. OutcomeOf(request[q]) = "paid" /\ OutcomeOf(request'[q]) = "open"
      BY <1>4, <2>2, OutcomeIs
    <2>4. Outcome[q] = "paid" /\ Outcome' = [Outcome EXCEPT ![q] = "open"]
      BY <2>2, <2>3, OneRowMoves DEF Outcome
    <2>5. Payee[q] = f /\ Payee' = [Payee EXCEPT ![q] = None]
      BY <1>4, <2>2, OneRowMoves DEF Payee
    <2>6. Spendable' = [Spendable EXCEPT ![f] = @ - Total(bounty[q])]
      <3>1. \A v \in Members : contributed[v] \in Int /\ consumed[v] \in Int
        BY DEF IInv, TypeOK, AccountsTypeOK
      <3>2. \A v \in Members : contributed'[v] = IF v = f THEN contributed[v] - pot
                                                         ELSE contributed[v]
        BY <1>6, <2>1 DEF FloorSub, IInv, TypeOK, AccountsTypeOK
      <3>3. \A v \in Members : Balance(v)' = IF v = f THEN Balance(v) - pot ELSE Balance(v)
        BY <2>1, <3>1, <3>2 DEF Balance
      <3> QED BY <1>3, <3>3 DEF Spendable, Pot
    <2>7. Promise!Total(bounty[q]) = Total(bounty[q])
      BY DEF Promise!Total, Promise!Units, Promise!Cardinality, Total, Units, Cardinality
    <2>8. Promise!TakeBack(q)
      BY <2>1, <2>4, <2>5, <2>6, <2>7 DEF Promise!TakeBack, Spendable, Outcome, Payee
    <2> QED BY <2>8 DEF Promise!Next
  <1> QED BY <1>7, <1>8

LEMMA DeleteCommitRefines ==
  ASSUME IInv, NEW t \in Transactions, DeleteCommit(t)
  PROVE  Promise!Next
  <1>1. /\ tx[t] \in TransactionStates /\ Formed(tx[t]) /\ ClaimHolds(t)
        /\ tx[t].op = "delete" /\ tx[t].step = "refund"
    BY DEF IInv, TransactionsFormed, DeleteCommit, At
  <1>2. PICK q \in Requests : q = tx[t].request
    BY <1>1 DEF Formed
  <1>3. PICK open \in BOOLEAN : open <=> tx[t].read.status = "open"
    OBVIOUS
  <1>4. /\ ~request[q].deleted
        /\ request[q].status = IF open THEN "open" ELSE "filled"
    BY <1>1, <1>2, <1>3 DEF Claimed, ClaimHolds, DeleteMatches, Formed, TransactionStates,
                            RequestRows
  <1>5. PICK owed \in SUBSET Members : owed = IF open THEN Backers(q) ELSE {}
    BY DEF Backers
  <1>6. /\ consumed' = [v \in Members |-> IF v \in owed THEN FloorSub(consumed[v], bounty[q][v])
                                                        ELSE consumed[v]]
        /\ request' = [request EXCEPT ![q].deleted = TRUE]
        /\ UNCHANGED <<contributed, bounty>>
    BY <1>2, <1>3, <1>5 DEF DeleteCommit, Owed
  <1>7. /\ request'[q].status = request[q].status /\ request'[q].filler = request[q].filler
        /\ request'[q].deleted
        /\ \A r \in Requests \ {q} : request'[r] = request[r]
    BY <1>6 DEF IInv, TypeOK, RequestRows
  <1>8. Payee' = Payee
    BY <1>7, OneRowMoves DEF Payee
  <1>9. CASE open
    <2>1. OutcomeOf(request[q]) = "open" /\ OutcomeOf(request'[q]) = "refunded"
      BY <1>4, <1>7, <1>9, OutcomeIs
    <2>2. Outcome[q] = "open" /\ Outcome' = [Outcome EXCEPT ![q] = "refunded"]
      BY <1>7, <2>1, OneRowMoves DEF Outcome
    <2>3. Spendable' = [v \in Members |-> Spendable[v] + bounty[q][v]]
      <3>1. ASSUME NEW v \in Members
            PROVE  Balance(v)' = Balance(v) + bounty[q][v]
        <4>1. contributed[v] \in Int /\ consumed[v] \in Nat /\ bounty[q][v] \in Nat
          BY DEF IInv, TypeOK, AccountsTypeOK
        <4>2. consumed[v] >= bounty[q][v]
          BY <1>4, <1>9, OpenPledgeIsConsumed
        <4>3. v \in owed <=> bounty[q][v] > 0
          BY <1>5, <1>9 DEF Backers
        <4>4. consumed'[v] = consumed[v] - bounty[q][v]
          BY <1>6, <4>1, <4>2, <4>3 DEF FloorSub
        <4> QED BY <1>6, <4>1, <4>4 DEF Balance
      <3> QED BY <3>1 DEF Spendable
    <2>4. Promise!Refund(q)
      BY <1>6, <1>8, <2>2, <2>3 DEF Promise!Refund, Spendable, Outcome, Payee
    <2> QED BY <2>4 DEF Promise!Next
  <1>10. CASE ~open
    <2>1. OutcomeOf(request[q]) = "paid" /\ OutcomeOf(request'[q]) = "closed"
      BY <1>4, <1>7, <1>10, OutcomeIs
    <2>2. Outcome[q] = "paid" /\ Outcome' = [Outcome EXCEPT ![q] = "closed"]
      BY <1>7, <2>1, OneRowMoves DEF Outcome
    <2>3. Spendable' = Spendable
      BY <1>5, <1>6, <1>10 DEF Spendable, Balance, IInv, TypeOK, AccountsTypeOK
    <2>4. Promise!Close(q)
      BY <1>6, <1>8, <2>2, <2>3 DEF Promise!Close, Spendable, Outcome, Payee
    <2> QED BY <2>4 DEF Promise!Next
  <1> QED BY <1>9, <1>10

(***************************************************************************)
(* Only the five commits write balances, rows or bounties.                 *)
(***************************************************************************)
LEMMA ReadsAndRollbacksAreQuiet ==
  ASSUME NEW t \in Transactions,
         \/ Begin(t) \/ DeadlockVictim(t) \/ Crash(t)
         \/ BountyClaim(t) \/ BountyReadMember(t)
         \/ FillCheck(t) \/ FillClaim(t) \/ UnfillClaim(t) \/ DeleteClaim(t)
         \/ \E u \in Members : RefundLock(t, u)
  PROVE  UNCHANGED <<contributed, consumed, request, bounty>>
  <1> USE DEF accountVars, requestVars
  <1>1. CASE Begin(t)
    BY <1>1 DEF Begin, CreateRead, BountyRead, FillRead, UnfillRead, DeleteRead
  <1>2. CASE DeadlockVictim(t) \/ Crash(t)
    BY <1>2 DEF DeadlockVictim, Crash, Rollback
  <1>3. CASE BountyReadMember(t) \/ FillCheck(t)
    BY <1>3 DEF BountyReadMember, FillCheck, Rollback
  <1>4. CASE BountyClaim(t) \/ FillClaim(t) \/ UnfillClaim(t) \/ DeleteClaim(t)
    BY <1>4 DEF BountyClaim, FillClaim, UnfillClaim, DeleteClaim, Claim, Rollback
  <1>5. CASE \E u \in Members : RefundLock(t, u)
    BY <1>5 DEF RefundLock
  <1> QED BY <1>1, <1>2, <1>3, <1>4, <1>5

LEMMA NextRefines ==
  ASSUME IInv, [Next]_vars
  PROVE  [Promise!Next]_(Promise!vars)
  <1>1. CASE UNCHANGED vars
    BY <1>1, QuietRefines DEF vars, accountVars, requestVars
  <1>2. ASSUME NEW t \in Transactions,
               Begin(t) \/ Advance(t) \/ DeadlockVictim(t) \/ Crash(t)
        PROVE  Promise!Next \/ UNCHANGED Promise!vars
    <2>1. CASE CreateCommit(t) \/ BountyCommit(t)
      BY <2>1, CreateCommitRefines, BountyCommitRefines
    <2>2. CASE FillCommit(t) \/ UnfillCommit(t) \/ DeleteCommit(t)
      BY <2>2, FillCommitRefines, UnfillCommitRefines, DeleteCommitRefines
    <2>3. CASE ~(\/ CreateCommit(t) \/ BountyCommit(t) \/ FillCommit(t)
                 \/ UnfillCommit(t) \/ DeleteCommit(t))
      BY <1>2, <2>3, ReadsAndRollbacksAreQuiet, QuietRefines DEF Advance
    <2> QED BY <2>1, <2>2, <2>3
  <1> QED BY <1>1, <1>2 DEF Next

(***************************************************************************)
(* The transactions, locks and stale reads of requests.ts implement the    *)
(* promise: every commit is one move of BountyEscrow, and every other step *)
(* is invisible.                                                           *)
(***************************************************************************)
THEOREM EscrowRefinesTheorem == Spec => ImplementsBountyEscrow
  <1>1. OnlyRequests /\ [Next]_vars => [Promise!Next]_(Promise!vars)
    BY NextRefines DEF OnlyRequests
  <1> QED BY <1>1, InitRefines, EscrowInvariant, PTL DEF Spec, ImplementsBountyEscrow,
                                                         Promise!Spec
=============================================================================
