----------------------- MODULE DownloadGrants_proofs -----------------------
(***************************************************************************)
(* DownloadGrants for any finite members and grant ids, any contributions  *)
(* and costs and any number of transactions in flight: types, balances     *)
(* that are exactly what the completed grants moved, a ledger that         *)
(* explains them, a floor that never binds, debits that never overdraw.    *)
(*                                                                         *)
(* As in RequestEscrow_proofs, the inductive invariant lets balances hold  *)
(* more than grants account for: Economy_proofs uses the same lemmas.      *)
(***************************************************************************)
EXTENDS DownloadGrants, Sums_proofs, TLAPS

GrantSteps == {"read", "recent", "debit", "credit", "link", "commit"}
ReverseSteps == {"claim", "refund", "clawback"}

(***************************************************************************)
(* The strengthening.  A grant's id is its own until it commits.  A        *)
(* reversal carries what its grant's row says, and past its claim holds    *)
(* that row, still completed.  Past its debit a grant holds the consumer's *)
(* row with the balance it read; whoever will move a balance holds it.     *)
(***************************************************************************)
Formed(x) ==
    x.step \in GrantSteps \cup ReverseSteps =>
        x.by \in Members /\ x.contribution \in Contributions /\ x.grant \in Grants

CreatesAlone(t) ==
    tx[t].step \in GrantSteps =>
        /\ grant[tx[t].grant].status = "absent"
        /\ \A s \in Transactions : tx[s].grant = tx[t].grant => s = t

ReversesRow(t) ==
    LET row == grant[tx[t].grant] IN
    /\ tx[t].step \in ReverseSteps =>
          /\ row.status # "absent" /\ row.consumer = tx[t].by
          /\ row.contribution = tx[t].contribution /\ row.exempt = tx[t].exempt
    /\ tx[t].step \in {"refund", "clawback"} =>
          grantLock[tx[t].grant] = t /\ row.status = "COMPLETED"

Debited(x) == x.step \in {"credit", "link", "commit"} /\ ~SuppressConsumer(x.exempt)

HoldsMembers(t) ==
    LET x == tx[t] IN
    /\ Debited(x) => /\ memberLock[x.by] = t
                     /\ SnapshotHolds(x.by, x.balance) /\ Affords(x.balance, Cost[x.contribution])
    /\ x.step \in {"link", "commit"} /\ ~SuppressContributor(x.exempt) =>
          memberLock[Owner[x.contribution]] = t
    /\ x.step = "clawback" /\ ~SuppressConsumer(x.exempt) => memberLock[x.by] = t

Sound(t) == Formed(tx[t]) /\ CreatesAlone(t) /\ ReversesRow(t) /\ HoldsMembers(t)

RowsFormed ==
    \A g \in Grants : grant[g].status # "absent" =>
        grant[g].consumer \in Members /\ grant[g].contribution \in Contributions

Books == LedgerExplainsBalances /\ FloorNeverBinds

\* What each completed grant counts for.
DebitOf ==
    [g \in Grants |-> IF g \in Completed THEN Debit(grant[g].contribution, grant[g].exempt) ELSE 0]
CreditOf ==
    [g \in Grants |-> IF g \in Completed THEN Credit(grant[g].contribution, grant[g].exempt) ELSE 0]

\* What a member's columns hold that is not the doing of grants.
EarnedElsewhere(u) == contributed[u] - TotalOn(CreditOf, ContributedBy(u))
SpentElsewhere(u) == consumed[u] - TotalOn(DebitOf, ConsumedBy(u))

\* All that completed grants have moved is still in the columns.
GrantsAreCovered == \A u \in Members : EarnedElsewhere(u) >= 0 /\ SpentElsewhere(u) >= 0

IInv ==
    /\ TypeOK /\ RowsFormed /\ GrantsAreCovered /\ Books
    /\ \A t \in Transactions : Sound(t)

\* No debit overdraws in this step.
DebitsCovered == \A u \in Members : consumed'[u] > consumed[u] => contributed'[u] >= consumed'[u]

\* The step moves balances by what grants moved and nothing else.
ElsewhereStays ==
    \A u \in Members :
        EarnedElsewhere(u)' = EarnedElsewhere(u) /\ SpentElsewhere(u)' = SpentElsewhere(u)

StepIsSound == IInv' /\ DebitsCovered /\ ElsewhereStays

-----------------------------------------------------------------------------
(* Small facts.                                                            *)

LEMMA IdleIsFormed ==
  /\ Idle \in TransactionStates
  /\ Idle.step = "idle" /\ Idle.grant = None
  BY DEF Idle, TransactionStates, Exemptions

LEMMA AmountsNatural ==
  ASSUME Assumptions, NEW c \in Contributions, NEW e
  PROVE  /\ Debit(c, e) \in Nat /\ Credit(c, e) \in Nat /\ Cost[c] \in Nat
         /\ Owner[c] \in Members
         /\ Debit(c, e) # 0 => ~SuppressConsumer(e) /\ Debit(c, e) = Cost[c]
         /\ Credit(c, e) # 0 => ~SuppressContributor(e)
  BY DEF Assumptions, Debit, Credit

-----------------------------------------------------------------------------
(***************************************************************************)
(* A step of transaction t that leaves the locks of the others alone,      *)
(* moves no balance they hold, and completes or reverses no row but its    *)
(* own keeps what the others rely on.                                      *)
(***************************************************************************)
LEMMA OthersKeep ==
  ASSUME Assumptions, IInv, NEW t \in Transactions, NEW x \in TransactionStates,
         tx' = [tx EXCEPT ![t] = x],
         \A s \in Transactions \ {t} : tx[s].step \in GrantSteps => x.grant # tx[s].grant,
         \A s \in Transactions \ {t}, g \in Grants : grantLock[g] = s => grantLock'[g] = s,
         \A s \in Transactions \ {t}, u \in Members :
            memberLock[u] = s => /\ memberLock'[u] = s
                                 /\ contributed'[u] = contributed[u] /\ consumed'[u] = consumed[u],
         \A g \in Grants : grant[g].status # "absent" =>
            /\ grant'[g].status # "absent" /\ grant'[g].consumer = grant[g].consumer
            /\ grant'[g].contribution = grant[g].contribution
            /\ grant'[g].exempt = grant[g].exempt,
         \A g \in Grants :
            \/ grant'[g].status = grant[g].status
            \/ /\ g = tx[t].grant
               /\ tx[t].step \in GrantSteps \cup {"refund", "clawback"},
         Sound(t)'
  PROVE  \A s \in Transactions : Sound(s)'
  <1>1. ASSUME NEW s \in Transactions, s # t
        PROVE  Sound(s)'
    <2>1. tx'[s] = tx[s] /\ tx'[t] = x
      BY <1>1 DEF IInv, TypeOK
    <2>2. Sound(s) /\ Sound(t)
      BY DEF IInv
    <2>3. Formed(tx[s])'
      BY <2>1, <2>2 DEF Sound, Formed
    <2>4. ASSUME tx[s].step \in GrantSteps \cup {"refund", "clawback"}
          PROVE  grant'[tx[s].grant].status = grant[tx[s].grant].status
      <3>1. tx[s].grant \in Grants
        BY <2>2, <2>4 DEF Sound, Formed, ReverseSteps
      <3>2. CASE /\ tx[s].grant = tx[t].grant
                 /\ tx[t].step \in GrantSteps \cup {"refund", "clawback"}
        <4>1. tx[s].step \notin GrantSteps /\ tx[t].step \notin GrantSteps
          BY <1>1, <2>2, <3>2 DEF Sound, CreatesAlone
        <4> QED BY <1>1, <2>2, <2>4, <3>2, <4>1 DEF Sound, ReversesRow
      <3> QED BY <3>1, <3>2
    <2>5. CreatesAlone(s)'
      <3>1. SUFFICES ASSUME tx[s].step \in GrantSteps
                     PROVE  CreatesAlone(s)'
        BY <2>1 DEF CreatesAlone
      <3>2. grant'[tx[s].grant].status = "absent"
        BY <2>2, <2>4, <3>1 DEF Sound, CreatesAlone
      <3>3. ASSUME NEW q \in Transactions, tx'[q].grant = tx[s].grant
            PROVE  q = s
        <4>1. CASE q = t
          BY <1>1, <2>1, <3>1, <3>3, <4>1
        <4>2. CASE q # t
          BY <2>2, <3>1, <3>3, <4>2 DEF Sound, CreatesAlone, IInv, TypeOK
        <4> QED BY <4>1, <4>2
      <3> QED BY <2>1, <3>2, <3>3 DEF CreatesAlone
    <2>6. ReversesRow(s)'
      <3>1. CASE tx[s].step \in ReverseSteps
        <4>1. tx[s].grant \in Grants
          BY <2>2, <3>1 DEF Sound, Formed
        <4>2. /\ grant[tx[s].grant].status # "absent" /\ grant[tx[s].grant].consumer = tx[s].by
              /\ grant[tx[s].grant].contribution = tx[s].contribution
              /\ grant[tx[s].grant].exempt = tx[s].exempt
          BY <2>2, <3>1 DEF Sound, ReversesRow
        <4>3. tx[s].step \in {"refund", "clawback"} =>
                 /\ grantLock'[tx[s].grant] = s
                 /\ grant'[tx[s].grant].status = "COMPLETED"
          BY <1>1, <2>2, <2>4, <4>1 DEF Sound, ReversesRow
        <4> QED BY <2>1, <4>1, <4>2, <4>3 DEF ReversesRow
      <3>2. CASE tx[s].step \notin ReverseSteps
        BY <2>1, <3>2 DEF ReversesRow, ReverseSteps
      <3> QED BY <3>1, <3>2
    <2>7. HoldsMembers(s)'
      <3>1. CASE tx[s].step \in GrantSteps \cup ReverseSteps
        <4>1. /\ tx[s].by \in Members /\ tx[s].contribution \in Contributions
              /\ Owner[tx[s].contribution] \in Members
          BY <2>2, <3>1, AmountsNatural DEF Sound, Formed
        <4>2. HoldsMembers(s)
          BY <2>2 DEF Sound
        <4> QED BY <1>1, <2>1, <4>1, <4>2 DEF HoldsMembers, Debited, SnapshotHolds, Snapshot
      <3>2. CASE tx[s].step \notin GrantSteps \cup ReverseSteps
        BY <2>1, <3>2 DEF HoldsMembers, Debited, GrantSteps, ReverseSteps
      <3> QED BY <3>1, <3>2
    <2> QED BY <2>3, <2>5, <2>6, <2>7 DEF Sound
  <1> QED BY <1>1

(***************************************************************************)
(* A step of t that moves no balance and writes no grant.                  *)
(***************************************************************************)
LEMMA QuietStep ==
  ASSUME Assumptions, IInv, NEW t \in Transactions, NEW x \in TransactionStates,
         tx' = [tx EXCEPT ![t] = x],
         UNCHANGED <<contributed, consumed, ledger, floored, exempt, consumerRow, grant>>,
         memberLock' \in [Members -> Transactions \cup {None}],
         grantLock' \in [Grants -> Transactions \cup {None}],
         \A s \in Transactions \ {t} : tx[s].step \in GrantSteps => x.grant # tx[s].grant,
         \A s \in Transactions \ {t}, g \in Grants : grantLock[g] = s => grantLock'[g] = s,
         \A s \in Transactions \ {t}, u \in Members : memberLock[u] = s => memberLock'[u] = s,
         Sound(t)'
  PROVE  StepIsSound
  <1>1. \A s \in Transactions : Sound(s)'
    BY OthersKeep
  <1>2. TypeOK'
    BY DEF IInv, TypeOK, AccountsTypeOK
  <1>3. RowsFormed' /\ Books'
    BY DEF IInv, RowsFormed, Books, LedgerExplainsBalances, FloorNeverBinds, Balance
  <1>4. ElsewhereStays
    BY DEF ElsewhereStays, EarnedElsewhere, SpentElsewhere, DebitOf, CreditOf, ConsumedBy,
           ContributedBy, Completed
  <1>5. GrantsAreCovered'
    BY <1>4 DEF IInv, GrantsAreCovered, ElsewhereStays
  <1>6. DebitsCovered
    BY DEF IInv, TypeOK, AccountsTypeOK, DebitsCovered
  <1> QED BY <1>1, <1>2, <1>3, <1>4, <1>5, <1>6 DEF StepIsSound, IInv

\* The end of a transaction frees its rows and no others.
LEMMA EndKeeps ==
  ASSUME Assumptions, IInv, NEW t \in Transactions, End(t)
  PROVE  /\ tx' = [tx EXCEPT ![t] = Idle]
         /\ memberLock' \in [Members -> Transactions \cup {None}]
         /\ grantLock' \in [Grants -> Transactions \cup {None}]
         /\ \A s \in Transactions \ {t} : tx[s].step \in GrantSteps => Idle.grant # tx[s].grant
         /\ \A s \in Transactions \ {t}, g \in Grants : grantLock[g] = s => grantLock'[g] = s
         /\ \A s \in Transactions \ {t}, u \in Members : memberLock[u] = s => memberLock'[u] = s
         /\ Sound(t)'
  <1>1. tx' = [tx EXCEPT ![t] = Idle] /\ tx'[t] = Idle
    BY DEF End, IInv, TypeOK
  <1>2. /\ memberLock' \in [Members -> Transactions \cup {None}]
        /\ grantLock' \in [Grants -> Transactions \cup {None}]
    BY DEF End, ReleaseAll, IInv, TypeOK, AccountsTypeOK
  <1>3. /\ \A s \in Transactions \ {t}, g \in Grants : grantLock[g] = s => grantLock'[g] = s
        /\ \A s \in Transactions \ {t}, u \in Members : memberLock[u] = s => memberLock'[u] = s
    BY DEF End, ReleaseAll, IInv, TypeOK, AccountsTypeOK
  <1>4. \A s \in Transactions : tx[s].step \in GrantSteps => tx[s].grant # None
    BY DEF IInv, Sound, Formed, Assumptions
  <1>5. Sound(t)'
    BY <1>1, IdleIsFormed DEF Sound, Formed, CreatesAlone, ReversesRow, HoldsMembers, Debited,
                              GrantSteps, ReverseSteps
  <1> QED BY <1>1, <1>2, <1>3, <1>4, <1>5, IdleIsFormed

LEMMA RollbackKeeps ==
  ASSUME Assumptions, IInv, NEW t \in Transactions, Rollback(t)
  PROVE  StepIsSound
  BY EndKeeps, IdleIsFormed, QuietStep DEF Rollback

(***************************************************************************)
(* Reads and the statements that wait for nothing.                         *)
(***************************************************************************)
LEMMA ReadKeeps ==
  ASSUME Assumptions, IInv, NEW t \in Transactions, NEW x \in TransactionStates,
         tx' = [tx EXCEPT ![t] = x], UNCHANGED <<accountVars, grantVars>>,
         \A s \in Transactions \ {t} : tx[s].step \in GrantSteps => x.grant # tx[s].grant,
         Sound(t)'
  PROVE  StepIsSound
  BY QuietStep DEF accountVars, grantVars, IInv, TypeOK, AccountsTypeOK

\* A transaction that goes on keeps its grant id to itself.
LEMMA OwnGrant ==
  ASSUME IInv, NEW t \in Transactions
  PROVE  \A s \in Transactions \ {t} : tx[s].step \in GrantSteps => tx[t].grant # tx[s].grant
  BY DEF IInv, Sound, CreatesAlone

\* The next state of a transaction that only takes a step.
LEMMA StepIs ==
  ASSUME IInv, NEW t \in Transactions, NEW step \in GrantSteps \cup ReverseSteps, Proceed(t, step)
  PROVE  \E x \in TransactionStates :
            /\ tx' = [tx EXCEPT ![t] = x] /\ tx'[t] = x
            /\ x.step = step /\ x.by = tx[t].by /\ x.grant = tx[t].grant
            /\ x.contribution = tx[t].contribution /\ x.exempt = tx[t].exempt
            /\ x.balance = tx[t].balance
  <1> DEFINE x == [tx[t] EXCEPT !.step = step]
  <1>1. tx[t] \in TransactionStates
    BY DEF IInv, TypeOK
  <1>2. x \in TransactionStates
    BY <1>1 DEF TransactionStates, GrantSteps, ReverseSteps
  <1>3. tx' = [tx EXCEPT ![t] = x] /\ tx'[t] = x
    BY DEF Proceed, IInv, TypeOK
  <1>4. /\ x.step = step /\ x.by = tx[t].by /\ x.grant = tx[t].grant
        /\ x.contribution = tx[t].contribution /\ x.exempt = tx[t].exempt
        /\ x.balance = tx[t].balance
    BY <1>1 DEF TransactionStates
  <1> HIDE DEF x
  <1> QED BY <1>2, <1>3, <1>4

(***************************************************************************)
(* A transaction that only takes a step, waiting for nothing.              *)
(***************************************************************************)
LEMMA ProceedKeeps ==
  ASSUME Assumptions, IInv, NEW t \in Transactions, NEW step \in GrantSteps \cup ReverseSteps,
         Proceed(t, step), UNCHANGED <<accountVars, grantVars>>,
         Sound(t)'
  PROVE  StepIsSound
  <1>1. PICK x \in TransactionStates : tx' = [tx EXCEPT ![t] = x] /\ x.grant = tx[t].grant
    BY StepIs
  <1> QED BY <1>1, OwnGrant, ReadKeeps

\* The locks once t has taken u's row.
LEMMA MemberLocked ==
  ASSUME IInv, NEW t \in Transactions, NEW u \in Members, NEW step, LockMember(t, u, step)
  PROVE  /\ memberLock' \in [Members -> Transactions \cup {None}]
         /\ memberLock'[u] = t
         /\ \A v \in Members : memberLock[v] = t => memberLock'[v] = t
         /\ \A s \in Transactions \ {t}, v \in Members : memberLock[v] = s => memberLock'[v] = s
         /\ UNCHANGED <<contributed, consumed, ledger, floored, grantVars>> /\ Proceed(t, step)
  BY NoneIsNoTransaction DEF LockMember, TakeLock, MayLock, IInv, TypeOK, AccountsTypeOK

LEMMA LockMemberKeeps ==
  ASSUME Assumptions, IInv, NEW t \in Transactions, NEW u \in Members,
         NEW step \in GrantSteps \cup ReverseSteps, LockMember(t, u, step), Sound(t)'
  PROVE  StepIsSound
  <1>1. PICK x \in TransactionStates : tx' = [tx EXCEPT ![t] = x] /\ x.grant = tx[t].grant
    BY StepIs, MemberLocked
  <1>2. grantLock' \in [Grants -> Transactions \cup {None}] /\ grantLock' = grantLock
    BY MemberLocked DEF grantVars, IInv, TypeOK
  <1>3. \A s \in Transactions \ {t} : tx[s].step \in GrantSteps => x.grant # tx[s].grant
    BY <1>1, OwnGrant
  <1>4. UNCHANGED <<contributed, consumed, ledger, floored, exempt, consumerRow, grant>>
    BY MemberLocked DEF grantVars
  <1>5. /\ memberLock' \in [Members -> Transactions \cup {None}]
        /\ \A s \in Transactions \ {t}, v \in Members : memberLock[v] = s => memberLock'[v] = s
    BY MemberLocked
  <1> QED BY <1>1, <1>2, <1>3, <1>4, <1>5, QuietStep

-----------------------------------------------------------------------------
(* The statements of a grant before its commit.                            *)

LEMMA GrantReadKeeps ==
  ASSUME Assumptions, IInv, NEW t \in Transactions, NEW u \in Members, NEW c \in Contributions,
         NEW g \in Grants, GrantRead(t, u, c, g)
  PROVE  StepIsSound
  <1> DEFINE x == [Idle EXCEPT !.step = "read", !.by = u, !.contribution = c,
                               !.exempt = exempt[c], !.grant = g]
  <1>1. exempt[c] \in Exemptions
    BY DEF IInv, TypeOK
  <1>2. x \in TransactionStates
    BY <1>1, IdleIsFormed DEF TransactionStates
  <1>3. x.step = "read" /\ x.by = u /\ x.contribution = c /\ x.grant = g
    BY DEF Idle
  <1>4. /\ tx' = [tx EXCEPT ![t] = x] /\ UNCHANGED <<accountVars, grantVars>>
        /\ UnusedId(g)
    BY DEF GrantRead
  <1> HIDE DEF x
  <1>5. tx'[t] = x /\ grant' = grant /\ \A s \in Transactions \ {t} : tx'[s] = tx[s]
    BY <1>4 DEF IInv, TypeOK, grantVars
  <1>6. Formed(x) /\ ReversesRow(t)' /\ HoldsMembers(t)'
    BY <1>3, <1>5 DEF Formed, ReversesRow, HoldsMembers, Debited, GrantSteps, ReverseSteps
  <1>7. CreatesAlone(t)'
    BY <1>3, <1>4, <1>5 DEF CreatesAlone, UnusedId
  <1>8. Sound(t)'
    BY <1>5, <1>6, <1>7 DEF Sound
  <1>9. \A s \in Transactions \ {t} : x.grant # tx[s].grant
    BY <1>3, <1>4 DEF UnusedId
  <1> QED BY <1>2, <1>4, <1>8, <1>9, ReadKeeps

(***************************************************************************)
(* A grant that goes on holds its id as it did; what is left to show is    *)
(* that it holds the rows of members its new step relies on.               *)
(***************************************************************************)
LEMMA GoesOn ==
  ASSUME IInv, NEW t \in Transactions, NEW x \in TransactionStates,
         tx' = [tx EXCEPT ![t] = x], grant' = grant,
         tx[t].step \in GrantSteps, x.step \in GrantSteps, x.by = tx[t].by,
         x.contribution = tx[t].contribution, x.grant = tx[t].grant,
         HoldsMembers(t)'
  PROVE  Sound(t)'
  <1>1. tx'[t] = x /\ \A s \in Transactions \ {t} : tx'[s] = tx[s]
    BY DEF IInv, TypeOK
  <1>2. Sound(t)
    BY DEF IInv
  <1>3. Formed(tx'[t]) /\ ReversesRow(t)'
    BY <1>1, <1>2 DEF Sound, Formed, ReversesRow, GrantSteps, ReverseSteps
  <1>4. CreatesAlone(t)'
    BY <1>1, <1>2 DEF Sound, CreatesAlone
  <1> QED BY <1>3, <1>4 DEF Sound

LEMMA GrantReadConsumerKeeps ==
  ASSUME Assumptions, IInv, NEW t \in Transactions, GrantReadConsumer(t)
  PROVE  StepIsSound
  <1> DEFINE x == [tx[t] EXCEPT !.step = "recent", !.balance = Snapshot(tx[t].by)]
  <1>1. tx[t] \in TransactionStates /\ Formed(tx[t]) /\ tx[t].step = "read"
    BY DEF IInv, TypeOK, Sound, GrantReadConsumer
  <1>2. CASE Rollback(t)
    BY <1>2, RollbackKeeps
  <1>3. CASE ~Rollback(t)
    <2>1. /\ tx' = [tx EXCEPT ![t].step = "recent", ![t].balance = Snapshot(tx[t].by)]
          /\ UNCHANGED <<accountVars, grantVars>>
      BY <1>3 DEF GrantReadConsumer
    <2>2. Snapshot(tx[t].by) \in [contributed : Nat, consumed : Nat]
      BY <1>1 DEF Formed, GrantSteps, Snapshot, IInv, TypeOK, AccountsTypeOK
    <2>3. x \in TransactionStates
      BY <1>1, <2>2 DEF TransactionStates
    <2>4. /\ x.step = "recent" /\ x.by = tx[t].by /\ x.grant = tx[t].grant
          /\ x.contribution = tx[t].contribution
      BY <1>1 DEF TransactionStates
    <2>5. tx' = [tx EXCEPT ![t] = x] /\ tx'[t] = x
      BY <2>1 DEF IInv, TypeOK
    <2> HIDE DEF x
    <2>6. HoldsMembers(t)'
      BY <2>4, <2>5 DEF HoldsMembers, Debited
    <2>7. Sound(t)'
      BY <1>1, <2>1, <2>3, <2>4, <2>5, <2>6, GoesOn DEF GrantSteps, grantVars
    <2>8. \A s \in Transactions \ {t} : tx[s].step \in GrantSteps => x.grant # tx[s].grant
      BY <2>4, OwnGrant
    <2> QED BY <2>1, <2>3, <2>5, <2>7, <2>8, ReadKeeps
  <1> QED BY <1>2, <1>3

LEMMA GrantFindRecentKeeps ==
  ASSUME Assumptions, IInv, NEW t \in Transactions, GrantFindRecent(t)
  PROVE  StepIsSound
  <1>1. CASE Rollback(t)
    BY <1>1, RollbackKeeps
  <1>2. CASE ~Rollback(t)
    <2> DEFINE step == IF SuppressConsumer(tx[t].exempt) THEN "credit" ELSE "debit"
    <2>1. /\ tx[t].step = "recent" /\ Proceed(t, step) /\ UNCHANGED <<accountVars, grantVars>>
          /\ step \in GrantSteps
      BY <1>2 DEF GrantFindRecent, GrantSteps
    <2>2. step = "debit" \/ (step = "credit" /\ SuppressConsumer(tx[t].exempt))
      OBVIOUS
    <2> HIDE DEF step
    <2>3. PICK x \in TransactionStates :
             /\ tx' = [tx EXCEPT ![t] = x] /\ tx'[t] = x
             /\ x.step = step /\ x.by = tx[t].by /\ x.grant = tx[t].grant
             /\ x.contribution = tx[t].contribution /\ x.exempt = tx[t].exempt
      BY <2>1, StepIs
    <2>4. HoldsMembers(t)'
      BY <2>2, <2>3 DEF HoldsMembers, Debited
    <2>5. Sound(t)'
      BY <2>1, <2>3, <2>4, GoesOn DEF GrantSteps, grantVars
    <2> QED BY <2>1, <2>5, ProceedKeeps
  <1> QED BY <1>1, <1>2

LEMMA GrantDebitKeeps ==
  ASSUME Assumptions, IInv, NEW t \in Transactions, GrantDebit(t)
  PROVE  StepIsSound
  <1>1. CASE Rollback(t)
    BY <1>1, RollbackKeeps
  <1>2. CASE ~Rollback(t)
    <2>1. /\ tx[t].step = "debit" /\ LockMember(t, tx[t].by, "credit")
          /\ Affords(tx[t].balance, Cost[tx[t].contribution])
          /\ SnapshotHolds(tx[t].by, tx[t].balance)
      BY <1>2 DEF GrantDebit
    <2>2. tx[t].by \in Members /\ "credit" \in GrantSteps
      BY <2>1 DEF IInv, Sound, Formed, GrantSteps
    <2>3. /\ memberLock'[tx[t].by] = t /\ Proceed(t, "credit") /\ grant' = grant
          /\ contributed' = contributed /\ consumed' = consumed
      BY <2>1, <2>2, MemberLocked DEF grantVars
    <2>4. PICK x \in TransactionStates :
             /\ tx' = [tx EXCEPT ![t] = x] /\ tx'[t] = x
             /\ x.step = "credit" /\ x.by = tx[t].by /\ x.grant = tx[t].grant
             /\ x.contribution = tx[t].contribution /\ x.balance = tx[t].balance
      BY <2>2, <2>3, StepIs
    <2>5. HoldsMembers(t)'
      BY <2>1, <2>3, <2>4 DEF HoldsMembers, Debited, SnapshotHolds, Snapshot
    <2>6. Sound(t)'
      BY <2>1, <2>3, <2>4, <2>5, GoesOn DEF GrantSteps
    <2> QED BY <2>1, <2>2, <2>6, LockMemberKeeps
  <1> QED BY <1>1, <1>2

LEMMA GrantCreditKeeps ==
  ASSUME Assumptions, IInv, NEW t \in Transactions, GrantCredit(t)
  PROVE  StepIsSound
  <1> DEFINE o == Owner[tx[t].contribution]
  <1>1. /\ tx[t].step = "credit" /\ "link" \in GrantSteps /\ HoldsMembers(t)
        /\ tx[t].by \in Members /\ tx[t].contribution \in Contributions
    BY DEF GrantCredit, IInv, Sound, Formed, GrantSteps
  <1>2. o \in Members
    BY <1>1, AmountsNatural
  <1>3. /\ Proceed(t, "link") /\ grant' = grant
        /\ contributed' = contributed /\ consumed' = consumed
        /\ memberLock[tx[t].by] = t => memberLock'[tx[t].by] = t
        /\ ~SuppressContributor(tx[t].exempt) => memberLock'[o] = t
    BY <1>1, <1>2, MemberLocked DEF GrantCredit, accountVars, grantVars
  <1>4. PICK x \in TransactionStates :
           /\ tx' = [tx EXCEPT ![t] = x] /\ tx'[t] = x
           /\ x.step = "link" /\ x.by = tx[t].by /\ x.grant = tx[t].grant
           /\ x.contribution = tx[t].contribution /\ x.exempt = tx[t].exempt
           /\ x.balance = tx[t].balance
    BY <1>1, <1>3, StepIs
  <1>5. HoldsMembers(t)'
    BY <1>1, <1>3, <1>4 DEF HoldsMembers, Debited, SnapshotHolds, Snapshot
  <1>6. Sound(t)'
    BY <1>1, <1>3, <1>4, <1>5, GoesOn DEF GrantSteps
  <1> QED BY <1>1, <1>2, <1>6, LockMemberKeeps, ProceedKeeps DEF GrantCredit

LEMMA GrantLinkKeeps ==
  ASSUME Assumptions, IInv, NEW t \in Transactions, GrantLink(t)
  PROVE  StepIsSound
  <1> DEFINE x == [tx[t] EXCEPT !.step = "commit", !.first = (tx[t].by \notin consumerRow)]
  <1>1. tx[t] \in TransactionStates /\ HoldsMembers(t) /\ tx[t].step = "link"
    BY DEF IInv, TypeOK, Sound, GrantLink
  <1>2. x \in TransactionStates
    BY <1>1 DEF TransactionStates
  <1>3. /\ x.step = "commit" /\ x.by = tx[t].by /\ x.grant = tx[t].grant
        /\ x.contribution = tx[t].contribution /\ x.exempt = tx[t].exempt
        /\ x.balance = tx[t].balance
    BY <1>1 DEF TransactionStates
  <1>4. /\ tx' = [tx EXCEPT ![t] = x] /\ tx'[t] = x
        /\ UNCHANGED <<accountVars, grantVars>>
    BY DEF GrantLink, IInv, TypeOK
  <1> HIDE DEF x
  <1>5. HoldsMembers(t)'
    BY <1>1, <1>3, <1>4 DEF HoldsMembers, Debited, SnapshotHolds, Snapshot, accountVars
  <1>6. Sound(t)'
    BY <1>1, <1>2, <1>3, <1>4, <1>5, GoesOn DEF GrantSteps, grantVars
  <1> QED BY <1>2, <1>3, <1>4, <1>6, OwnGrant, ReadKeeps

-----------------------------------------------------------------------------
(* The statements of a reversal before its commit.                         *)

LEMMA ReverseReadKeeps ==
  ASSUME Assumptions, IInv, NEW t \in Transactions, NEW g \in Grants, ReverseRead(t, g)
  PROVE  StepIsSound
  <1> DEFINE x == [Idle EXCEPT !.step = "claim", !.grant = g, !.by = grant[g].consumer,
                               !.contribution = grant[g].contribution, !.exempt = grant[g].exempt]
  <1>1. /\ grant[g] \in GrantRows /\ grant[g].status = "COMPLETED"
        /\ grant[g].consumer \in Members /\ grant[g].contribution \in Contributions
    BY DEF ReverseRead, IInv, TypeOK, RowsFormed
  <1>2. x \in TransactionStates
    BY <1>1, IdleIsFormed DEF TransactionStates, GrantRows
  <1>3. /\ x.step = "claim" /\ x.grant = g /\ x.by = grant[g].consumer
        /\ x.contribution = grant[g].contribution /\ x.exempt = grant[g].exempt
    BY DEF Idle
  <1>4. tx' = [tx EXCEPT ![t] = x] /\ UNCHANGED <<accountVars, grantVars>>
    BY DEF ReverseRead, ReversedAs
  <1> HIDE DEF x
  <1>5. tx'[t] = x /\ grant' = grant
    BY <1>4 DEF IInv, TypeOK, grantVars
  <1>6. Sound(t)'
    BY <1>1, <1>3, <1>5 DEF Sound, Formed, CreatesAlone, ReversesRow, HoldsMembers, Debited,
                            GrantSteps, ReverseSteps
  <1>7. \A s \in Transactions : tx[s].step \in GrantSteps => tx[s].grant # g
    BY <1>1 DEF IInv, Sound, CreatesAlone
  <1> QED BY <1>2, <1>3, <1>4, <1>6, <1>7, ReadKeeps

LEMMA ReverseClaimKeeps ==
  ASSUME Assumptions, IInv, NEW t \in Transactions, ReverseClaim(t)
  PROVE  StepIsSound
  <1> DEFINE g == tx[t].grant
  <1>1. CASE Rollback(t)
    BY <1>1, RollbackKeeps
  <1>2. CASE ~Rollback(t)
    <2>1. /\ tx[t].step = "claim" /\ grantLock[g] = None /\ grant[g].status = "COMPLETED"
          /\ grantLock' = [grantLock EXCEPT ![g] = t] /\ Proceed(t, "refund")
          /\ UNCHANGED <<accountVars, exempt, consumerRow, grant>>
      BY <1>2 DEF ReverseClaim, Reversible, TakeLock
    <2>2. Sound(t) /\ g \in Grants /\ "refund" \in ReverseSteps
      BY <2>1 DEF IInv, Sound, Formed, ReverseSteps
    <2>3. PICK x \in TransactionStates :
             /\ tx' = [tx EXCEPT ![t] = x] /\ tx'[t] = x
             /\ x.step = "refund" /\ x.by = tx[t].by /\ x.grant = tx[t].grant
             /\ x.contribution = tx[t].contribution /\ x.exempt = tx[t].exempt
      BY <2>1, <2>2, StepIs
    <2>4. /\ grantLock' \in [Grants -> Transactions \cup {None}] /\ grantLock'[g] = t
          /\ \A s \in Transactions \ {t}, h \in Grants : grantLock[h] = s => grantLock'[h] = s
      BY <2>1, <2>2, NoneIsNoTransaction DEF IInv, TypeOK
    <2>5. Sound(t)'
      BY <2>1, <2>2, <2>3, <2>4 DEF Sound, Formed, CreatesAlone, ReversesRow, HoldsMembers,
                                    Debited, GrantSteps, ReverseSteps
    <2>6. memberLock' \in [Members -> Transactions \cup {None}] /\ memberLock' = memberLock
      BY <2>1 DEF accountVars, IInv, TypeOK, AccountsTypeOK
    <2>7. \A s \in Transactions \ {t} : tx[s].step \in GrantSteps => x.grant # tx[s].grant
      BY <2>3, OwnGrant
    <2>8. UNCHANGED <<contributed, consumed, ledger, floored, exempt, consumerRow, grant>>
      BY <2>1 DEF accountVars
    <2> QED BY <2>3, <2>4, <2>5, <2>6, <2>7, <2>8, QuietStep
  <1> QED BY <1>1, <1>2

LEMMA ReverseRefundKeeps ==
  ASSUME Assumptions, IInv, NEW t \in Transactions, ReverseRefund(t)
  PROVE  StepIsSound
  <1>1. /\ tx[t].step = "refund" /\ "clawback" \in ReverseSteps
        /\ Sound(t) /\ tx[t].by \in Members
    BY DEF ReverseRefund, IInv, Sound, Formed, ReverseSteps
  <1>2. /\ Proceed(t, "clawback") /\ grant' = grant /\ grantLock' = grantLock
        /\ ~SuppressConsumer(tx[t].exempt) => memberLock'[tx[t].by] = t
    BY <1>1, MemberLocked DEF ReverseRefund, grantVars
  <1>3. PICK x \in TransactionStates :
           /\ tx' = [tx EXCEPT ![t] = x] /\ tx'[t] = x
           /\ x.step = "clawback" /\ x.by = tx[t].by /\ x.grant = tx[t].grant
           /\ x.contribution = tx[t].contribution /\ x.exempt = tx[t].exempt
    BY <1>1, <1>2, StepIs
  <1>4. Sound(t)'
    BY <1>1, <1>2, <1>3 DEF Sound, Formed, CreatesAlone, ReversesRow, HoldsMembers, Debited,
                            GrantSteps, ReverseSteps
  <1> QED BY <1>1, <1>4, LockMemberKeeps, ProceedKeeps DEF ReverseRefund

-----------------------------------------------------------------------------
(* Money.                                                                  *)

\* What the grant g counts for in the two totals of a member.
Costs(u, g) == IF g \in ConsumedBy(u) THEN DebitOf[g] ELSE 0
Earns(u, g) == IF g \in ContributedBy(u) THEN CreditOf[g] ELSE 0

LEMMA TotalsAreNatural ==
  ASSUME Assumptions, IInv, NEW u \in Members
  PROVE  /\ DebitOf \in [Grants -> Nat] /\ CreditOf \in [Grants -> Nat]
         /\ TotalOn(DebitOf, ConsumedBy(u)) \in Nat
         /\ TotalOn(CreditOf, ContributedBy(u)) \in Nat
  <1>1. DebitOf \in [Grants -> Nat] /\ CreditOf \in [Grants -> Nat]
    BY AmountsNatural DEF DebitOf, CreditOf, Completed, IInv, RowsFormed
  <1>2. IsFiniteSet(Grants)
    BY DEF Assumptions
  <1> QED BY <1>1, <1>2, TotalOnType

\* So are they after a step that keeps the types.
LEMMA TotalsStayNatural ==
  ASSUME Assumptions, TypeOK', RowsFormed', NEW u \in Members
  PROVE  /\ DebitOf' \in [Grants -> Nat] /\ CreditOf' \in [Grants -> Nat]
         /\ TotalOn(DebitOf', ConsumedBy(u)') \in Nat
         /\ TotalOn(CreditOf', ContributedBy(u)') \in Nat
  <1>1. DebitOf' \in [Grants -> Nat] /\ CreditOf' \in [Grants -> Nat]
    BY AmountsNatural DEF DebitOf, CreditOf, Completed, RowsFormed
  <1>2. IsFiniteSet(Grants)
    BY DEF Assumptions
  <1> QED BY <1>1, <1>2, TotalOnType

\* A decrement never reaches the floor: what a completed grant moved is there.
LEMMA GrantIsInBalances ==
  ASSUME Assumptions, IInv, NEW g \in Completed
  PROVE  /\ consumed[grant[g].consumer] >= DebitOf[g]
         /\ contributed[Owner[grant[g].contribution]] >= CreditOf[g]
  <1>1. /\ g \in Grants /\ grant[g].consumer \in Members
        /\ Owner[grant[g].contribution] \in Members
    BY AmountsNatural DEF Completed, IInv, RowsFormed
  <1>2. PICK u \in Members, o \in Members :
           u = grant[g].consumer /\ o = Owner[grant[g].contribution]
    BY <1>1
  <1>3. IsFiniteSet(Grants) /\ g \in ConsumedBy(u) /\ g \in ContributedBy(o)
    BY <1>2 DEF Assumptions, ConsumedBy, ContributedBy
  <1>4. DebitOf \in [Grants -> Nat] /\ CreditOf \in [Grants -> Nat]
    BY <1>2, TotalsAreNatural
  <1>5. TotalOn(DebitOf, ConsumedBy(u)) >= DebitOf[g]
    BY <1>1, <1>3, <1>4, TotalOnCovers
  <1>6. TotalOn(CreditOf, ContributedBy(o)) >= CreditOf[g]
    BY <1>1, <1>3, <1>4, TotalOnCovers
  <1>7. /\ consumed[u] - TotalOn(DebitOf, ConsumedBy(u)) >= 0
        /\ contributed[o] - TotalOn(CreditOf, ContributedBy(o)) >= 0
    BY DEF IInv, GrantsAreCovered, EarnedElsewhere, SpentElsewhere
  <1>8. /\ TotalOn(DebitOf, ConsumedBy(u)) \in Nat /\ TotalOn(CreditOf, ContributedBy(o)) \in Nat
        /\ DebitOf[g] \in Nat /\ CreditOf[g] \in Nat
        /\ consumed[u] \in Nat /\ contributed[o] \in Nat
    BY <1>1, <1>4, TotalsAreNatural DEF IInv, TypeOK, AccountsTypeOK
  <1> QED BY <1>2, <1>5, <1>6, <1>7, <1>8

(***************************************************************************)
(* If a step writes one grant, and moves every balance by what that grant  *)
(* counts for and the ledger by what it moves the balances, the books      *)
(* still agree.                                                            *)
(***************************************************************************)
LEMMA MoneyMoves ==
  ASSUME Assumptions, IInv, TypeOK', RowsFormed', NEW q \in Grants,
         \A g \in Grants \ {q} : grant'[g] = grant[g],
         \A u \in Members :
            /\ contributed'[u] = contributed[u] - Earns(u, q) + Earns(u, q)'
            /\ consumed'[u] = consumed[u] - Costs(u, q) + Costs(u, q)'
            /\ ledger'[u] - ledger[u]
                  = (contributed'[u] - contributed[u]) - (consumed'[u] - consumed[u]),
         ~floored'
  PROVE  GrantsAreCovered' /\ Books' /\ ElsewhereStays
  <1>1. DebitOf' \in [Grants -> Nat] /\ CreditOf' \in [Grants -> Nat]
    BY AmountsNatural DEF DebitOf, CreditOf, Completed, RowsFormed
  <1>2. ASSUME NEW u \in Members
        PROVE  /\ EarnedElsewhere(u)' = EarnedElsewhere(u)
               /\ SpentElsewhere(u)' = SpentElsewhere(u)
               /\ Balance(u)' = Opening[u] + ledger'[u]
    <2>1. /\ DebitOf \in [Grants -> Nat] /\ CreditOf \in [Grants -> Nat]
      BY TotalsAreNatural
    <2>2. /\ \A g \in Grants \ {q} :
                DebitOf'[g] = DebitOf[g] /\ (g \in ConsumedBy(u)' <=> g \in ConsumedBy(u))
          /\ \A g \in Grants \ {q} :
                CreditOf'[g] = CreditOf[g] /\ (g \in ContributedBy(u)' <=> g \in ContributedBy(u))
      BY DEF DebitOf, CreditOf, ConsumedBy, ContributedBy, Completed
    <2>3. IsFiniteSet(Grants)
      BY DEF Assumptions
    <2>4. TotalOn(DebitOf', ConsumedBy(u)') = TotalOn(DebitOf, ConsumedBy(u))
             - (IF q \in ConsumedBy(u) THEN DebitOf[q] ELSE 0)
             + (IF q \in ConsumedBy(u)' THEN DebitOf'[q] ELSE 0)
      BY <1>1, <2>1, <2>2, <2>3, TotalOnMove, SMTT(60)
    <2>5. TotalOn(CreditOf', ContributedBy(u)') = TotalOn(CreditOf, ContributedBy(u))
             - (IF q \in ContributedBy(u) THEN CreditOf[q] ELSE 0)
             + (IF q \in ContributedBy(u)' THEN CreditOf'[q] ELSE 0)
      BY <1>1, <2>1, <2>2, <2>3, TotalOnMove, SMTT(60)
    <2>6. /\ Costs(u, q) = IF q \in ConsumedBy(u) THEN DebitOf[q] ELSE 0
          /\ Costs(u, q)' = IF q \in ConsumedBy(u)' THEN DebitOf'[q] ELSE 0
          /\ Earns(u, q) = IF q \in ContributedBy(u) THEN CreditOf[q] ELSE 0
          /\ Earns(u, q)' = IF q \in ContributedBy(u)' THEN CreditOf'[q] ELSE 0
      BY DEF Costs, Earns
    <2>7. /\ DebitOf[q] \in Nat /\ DebitOf'[q] \in Nat /\ CreditOf[q] \in Nat
          /\ CreditOf'[q] \in Nat /\ Opening[u] \in Nat
          /\ TotalOn(DebitOf, ConsumedBy(u)) \in Nat /\ TotalOn(CreditOf, ContributedBy(u)) \in Nat
      BY <1>1, <2>1, <2>3, TotalOnType, OpeningIsBalance
    <2>8. /\ EarnedElsewhere(u)' = contributed'[u] - TotalOn(CreditOf', ContributedBy(u)')
          /\ SpentElsewhere(u)' = consumed'[u] - TotalOn(DebitOf', ConsumedBy(u)')
      BY DEF EarnedElsewhere, SpentElsewhere
    <2>9. /\ contributed[u] \in Int /\ contributed'[u] \in Int /\ consumed[u] \in Int
          /\ consumed'[u] \in Int /\ ledger[u] \in Int /\ ledger'[u] \in Int
      BY DEF IInv, TypeOK, AccountsTypeOK
    <2>10. EarnedElsewhere(u)' = EarnedElsewhere(u)
      BY <2>5, <2>6, <2>7, <2>8, <2>9 DEF EarnedElsewhere
    <2>11. SpentElsewhere(u)' = SpentElsewhere(u)
      BY <2>4, <2>6, <2>7, <2>8, <2>9 DEF SpentElsewhere
    <2>12. Balance(u) = Opening[u] + ledger[u]
      BY DEF IInv, Books, LedgerExplainsBalances, FloorNeverBinds
    <2>13. Balance(u)' = Opening[u] + ledger'[u]
      BY <2>7, <2>9, <2>12 DEF Balance
    <2> QED BY <2>10, <2>11, <2>13
  <1>3. ElsewhereStays
    BY <1>2 DEF ElsewhereStays
  <1>4. GrantsAreCovered'
    BY <1>3 DEF IInv, GrantsAreCovered, ElsewhereStays
  <1>5. Books'
    BY <1>2 DEF Books, LedgerExplainsBalances, FloorNeverBinds
  <1> QED BY <1>3, <1>4, <1>5

-----------------------------------------------------------------------------
(* Commits: each writes one grant's row and the balances it moves.         *)

LEMMA GrantCommitKeeps ==
  ASSUME Assumptions, IInv, NEW t \in Transactions, GrantCommit(t)
  PROVE  StepIsSound
  <1>1. CASE Rollback(t)
    BY <1>1, RollbackKeeps
  <1>2. CASE ~Rollback(t)
    <2>1. tx[t].step = "commit" /\ Sound(t) /\ tx[t] \in TransactionStates
      BY DEF GrantCommit, IInv, TypeOK
    <2>2. PICK u \in Members, c \in Contributions, q \in Grants, e \in Exemptions :
             u = tx[t].by /\ c = tx[t].contribution /\ q = tx[t].grant /\ e = tx[t].exempt
      BY <2>1 DEF Sound, Formed, GrantSteps, TransactionStates
    <2> DEFINE o == Owner[c]
               d == Debit(c, e)
               k == Credit(c, e)
               row == [status |-> "COMPLETED", consumer |-> u, contribution |-> c,
                       exempt |-> e, recent |-> TRUE]
    <2>3. /\ d \in Nat /\ k \in Nat /\ o \in Members
          /\ d # 0 => ~SuppressConsumer(e) /\ d = Cost[c]
          /\ k # 0 => ~SuppressContributor(e)
      BY AmountsNatural
    <2>4. /\ consumed' = [consumed EXCEPT ![u] = @ + d]
          /\ contributed' = [contributed EXCEPT ![o] = @ + k]
          /\ ledger' = Post(Post(ledger, u, -d), o, k)
          /\ grant' = [grant EXCEPT ![q] = row]
          /\ consumerRow' = consumerRow \cup {u} /\ floored' = floored /\ exempt' = exempt
          /\ End(t)
      BY <1>2, <2>2 DEF GrantCommit, PostGrant
    <2>5. row \in GrantRows /\ row.status = "COMPLETED" /\ row.consumer = u
          /\ row.contribution = c /\ row.exempt = e
      BY DEF GrantRows
    <2>6. grant[q].status = "absent"
      BY <2>1, <2>2 DEF Sound, CreatesAlone, GrantSteps
    <2>7. grant'[q] = row /\ \A g \in Grants \ {q} : grant'[g] = grant[g]
      BY <2>4 DEF IInv, TypeOK
    <2>8. Owner[c] = o /\ Debit(c, e) = d /\ Credit(c, e) = k
      OBVIOUS
    <2> HIDE DEF row, d, k, o
    <2>9. /\ \A v \in Members : consumed'[v] = consumed[v] + (IF v = u THEN d ELSE 0)
          /\ \A v \in Members : contributed'[v] = contributed[v] + (IF v = o THEN k ELSE 0)
          /\ \A v \in Members : ledger'[v] = ledger[v] - (IF v = u THEN d ELSE 0)
                                                       + (IF v = o THEN k ELSE 0)
      BY <2>3, <2>4 DEF Post, IInv, TypeOK, AccountsTypeOK
    <2>10. TypeOK'
      <3>1. /\ consumed' \in [Members -> Nat] /\ contributed' \in [Members -> Nat]
            /\ ledger' \in [Members -> Int]
        BY <2>3, <2>4 DEF Post, IInv, TypeOK, AccountsTypeOK
      <3>2. grant' \in [Grants -> GrantRows] /\ consumerRow' \subseteq Members
        BY <2>4, <2>5 DEF IInv, TypeOK
      <3>3. /\ memberLock' \in [Members -> Transactions \cup {None}]
            /\ grantLock' \in [Grants -> Transactions \cup {None}]
            /\ tx' \in [Transactions -> TransactionStates]
        BY <2>4, EndKeeps, IdleIsFormed DEF IInv, TypeOK
      <3> QED BY <2>4, <3>1, <3>2, <3>3 DEF IInv, TypeOK, AccountsTypeOK
    <2>11. RowsFormed'
      BY <2>5, <2>7 DEF IInv, RowsFormed
    <2>12. \A v \in Members :
              /\ Costs(v, q) = 0 /\ Costs(v, q)' = IF v = u THEN d ELSE 0
              /\ Earns(v, q) = 0 /\ Earns(v, q)' = IF v = o THEN k ELSE 0
      BY <2>5, <2>6, <2>7, <2>8
         DEF Costs, Earns, ConsumedBy, ContributedBy, Completed, DebitOf, CreditOf
    <2>13. GrantsAreCovered' /\ Books' /\ ElsewhereStays
      <3>1. ASSUME NEW v \in Members
            PROVE  /\ contributed'[v] = contributed[v] - Earns(v, q) + Earns(v, q)'
                   /\ consumed'[v] = consumed[v] - Costs(v, q) + Costs(v, q)'
                   /\ ledger'[v] - ledger[v]
                         = (contributed'[v] - contributed[v]) - (consumed'[v] - consumed[v])
        BY <2>3, <2>9, <2>12 DEF IInv, TypeOK, AccountsTypeOK
      <3>2. ~floored'
        BY <2>4 DEF IInv, Books, FloorNeverBinds
      <3> QED BY <2>7, <2>10, <2>11, <3>1, <3>2, MoneyMoves
    <2>14. /\ d # 0 => memberLock[u] = t
           /\ k # 0 => memberLock[o] = t
      BY <2>1, <2>2, <2>3, <2>8 DEF Sound, HoldsMembers, Debited
    <2>15. \A s \in Transactions \ {t}, v \in Members : memberLock[v] = s =>
              contributed'[v] = contributed[v] /\ consumed'[v] = consumed[v]
      BY <2>3, <2>9, <2>14 DEF IInv, TypeOK, AccountsTypeOK
    <2>16. \A s \in Transactions : Sound(s)'
      BY <2>1, <2>2, <2>4, <2>6, <2>7, <2>15, EndKeeps, IdleIsFormed, OthersKeep DEF GrantSteps
    <2>17. DebitsCovered
      <3>1. d # 0 => contributed[u] - consumed[u] >= d
        BY <2>1, <2>2, <2>3, <2>8 DEF Sound, HoldsMembers, Debited, Affords, SnapshotHolds,
                                      Snapshot
      <3> QED BY <2>3, <2>9, <3>1 DEF DebitsCovered, IInv, TypeOK, AccountsTypeOK
    <2> QED BY <2>10, <2>11, <2>13, <2>16, <2>17 DEF StepIsSound, IInv
  <1> QED BY <1>1, <1>2

LEMMA ReverseCommitKeeps ==
  ASSUME Assumptions, IInv, NEW t \in Transactions, ReverseCommit(t)
  PROVE  StepIsSound
  <1>1. tx[t].step = "clawback" /\ Sound(t) /\ tx[t] \in TransactionStates
    BY DEF ReverseCommit, IInv, TypeOK
  <1>2. PICK u \in Members, c \in Contributions, q \in Grants, e \in Exemptions :
           u = tx[t].by /\ c = tx[t].contribution /\ q = tx[t].grant /\ e = tx[t].exempt
    BY <1>1 DEF Sound, Formed, ReverseSteps, TransactionStates
  <1> DEFINE o == Owner[c]
             d == Debit(c, e)
             k == Credit(c, e)
             row == [grant[q] EXCEPT !.status = "REVERSED"]
  <1>3. /\ d \in Nat /\ k \in Nat /\ o \in Members
        /\ d # 0 => ~SuppressConsumer(e)
        /\ k # 0 => ~SuppressContributor(e)
    BY AmountsNatural
  <1>4. /\ consumed' = [consumed EXCEPT ![u] = FloorSub(@, d)]
        /\ contributed' = [contributed EXCEPT ![o] = FloorSub(@, k)]
        /\ floored' = (floored \/ consumed[u] < d \/ contributed[o] < k)
        /\ ledger' = Post(Post(ledger, u, d), o, -k)
        /\ grant' = [grant EXCEPT ![q] = row]
        /\ consumerRow' = consumerRow /\ exempt' = exempt
        /\ SuppressContributor(e) \/ MayLock(o, t)
        /\ End(t)
    BY <1>2 DEF ReverseCommit
  <1>5. /\ grant[q].status = "COMPLETED" /\ grant[q].consumer = u
        /\ grant[q].contribution = c /\ grant[q].exempt = e /\ grant[q] \in GrantRows
    BY <1>1, <1>2 DEF Sound, ReversesRow, ReverseSteps, IInv, TypeOK
  <1>6. /\ row \in GrantRows /\ row.status = "REVERSED" /\ row.consumer = u
        /\ row.contribution = c /\ row.exempt = e
    BY <1>5 DEF GrantRows
  <1>7. grant'[q] = row /\ \A g \in Grants \ {q} : grant'[g] = grant[g]
    BY <1>4 DEF IInv, TypeOK
  <1>8. Owner[c] = o /\ Debit(c, e) = d /\ Credit(c, e) = k
    OBVIOUS
  <1> HIDE DEF row, d, k, o
  <1>9. consumed[u] >= d /\ contributed[o] >= k
    <2>1. q \in Completed
      BY <1>5 DEF Completed
    <2>2. DebitOf[q] = d /\ CreditOf[q] = k
      BY <1>5, <1>8, <2>1 DEF DebitOf, CreditOf
    <2> QED BY <1>5, <1>8, <2>1, <2>2, GrantIsInBalances
  <1>10. /\ \A v \in Members : consumed'[v] = consumed[v] - (IF v = u THEN d ELSE 0)
         /\ \A v \in Members : contributed'[v] = contributed[v] - (IF v = o THEN k ELSE 0)
         /\ \A v \in Members : ledger'[v] = ledger[v] + (IF v = u THEN d ELSE 0)
                                                      - (IF v = o THEN k ELSE 0)
         /\ ~floored'
    <2>1. consumed' = [consumed EXCEPT ![u] = @ - d]
      BY <1>4, <1>9 DEF FloorSub
    <2>2. contributed' = [contributed EXCEPT ![o] = @ - k]
      BY <1>4, <1>9 DEF FloorSub
    <2>3. ~floored'
      BY <1>3, <1>4, <1>9 DEF IInv, Books, FloorNeverBinds, TypeOK, AccountsTypeOK
    <2> QED BY <1>3, <1>4, <2>1, <2>2, <2>3 DEF Post, IInv, TypeOK, AccountsTypeOK
  <1>11. TypeOK'
    <2>1. /\ consumed' \in [Members -> Nat] /\ contributed' \in [Members -> Nat]
          /\ ledger' \in [Members -> Int]
      BY <1>3, <1>4, <1>9 DEF FloorSub, Post, IInv, TypeOK, AccountsTypeOK
    <2>2. grant' \in [Grants -> GrantRows]
      BY <1>4, <1>6 DEF IInv, TypeOK
    <2>3. /\ memberLock' \in [Members -> Transactions \cup {None}]
          /\ grantLock' \in [Grants -> Transactions \cup {None}]
          /\ tx' \in [Transactions -> TransactionStates]
      BY <1>4, EndKeeps, IdleIsFormed DEF IInv, TypeOK
    <2>4. floored' \in BOOLEAN
      BY <1>4
    <2> QED BY <1>4, <2>1, <2>2, <2>3, <2>4 DEF IInv, TypeOK, AccountsTypeOK
  <1>12. RowsFormed'
    BY <1>6, <1>7 DEF IInv, RowsFormed
  <1>13. \A v \in Members :
            /\ Costs(v, q) = (IF v = u THEN d ELSE 0) /\ Costs(v, q)' = 0
            /\ Earns(v, q) = (IF v = o THEN k ELSE 0) /\ Earns(v, q)' = 0
    BY <1>5, <1>6, <1>7, <1>8
       DEF Costs, Earns, ConsumedBy, ContributedBy, Completed, DebitOf, CreditOf
  <1>14. GrantsAreCovered' /\ Books' /\ ElsewhereStays
    <2>1. ASSUME NEW v \in Members
          PROVE  /\ contributed'[v] = contributed[v] - Earns(v, q) + Earns(v, q)'
                 /\ consumed'[v] = consumed[v] - Costs(v, q) + Costs(v, q)'
                 /\ ledger'[v] - ledger[v]
                       = (contributed'[v] - contributed[v]) - (consumed'[v] - consumed[v])
      <3>1. contributed[v] \in Int /\ consumed[v] \in Int /\ ledger[v] \in Int
        BY DEF IInv, TypeOK, AccountsTypeOK
      <3> QED BY <1>3, <1>10, <1>13, <3>1, SMTT(60)
    <2> QED BY <1>7, <1>10, <1>11, <1>12, <2>1, MoneyMoves
  <1>15. /\ d # 0 => memberLock[u] = t
         /\ k # 0 => memberLock[o] \in {None, t}
    BY <1>1, <1>2, <1>3, <1>4 DEF Sound, HoldsMembers, MayLock
  <1>16. \A s \in Transactions \ {t}, v \in Members : memberLock[v] = s =>
            contributed'[v] = contributed[v] /\ consumed'[v] = consumed[v]
    BY <1>3, <1>10, <1>15, NoneIsNoTransaction DEF IInv, TypeOK, AccountsTypeOK
  <1>17. \A s \in Transactions : Sound(s)'
    BY <1>1, <1>2, <1>4, <1>5, <1>6, <1>7, <1>16, EndKeeps, IdleIsFormed, OthersKeep
  <1>18. DebitsCovered
    BY <1>3, <1>10 DEF DebitsCovered, IInv, TypeOK, AccountsTypeOK
  <1> QED BY <1>11, <1>12, <1>14, <1>17, <1>18 DEF StepIsSound, IInv

-----------------------------------------------------------------------------
(* Steps of no transaction.                                                *)

LEMMA EnvironmentKeeps ==
  ASSUME Assumptions, IInv, Environment
  PROVE  StepIsSound
  <1>1. /\ UNCHANGED <<contributed, consumed, ledger, floored, memberLock, grantLock, tx>>
        /\ consumerRow' = consumerRow
    BY DEF Environment, SetContributionRatioExempt, WindowPasses, accountVars
  <1>2. TypeOK'
    <2>1. AccountsTypeOK'
      BY <1>1 DEF IInv, TypeOK, AccountsTypeOK
    <2>2. exempt' \in [Contributions -> Exemptions]
      BY DEF Environment, SetContributionRatioExempt, WindowPasses, Assumptions, IInv, TypeOK
    <2>3. grant' \in [Grants -> GrantRows]
      <3>1. grant \in [Grants -> GrantRows]
        BY DEF IInv, TypeOK
      <3>2. grant' = grant \/ \E g \in Grants : grant' = [grant EXCEPT ![g].recent = FALSE]
        BY DEF Environment, SetContributionRatioExempt, WindowPasses
      <3>3. ASSUME NEW g \in Grants, grant' = [grant EXCEPT ![g].recent = FALSE]
            PROVE  grant' \in [Grants -> GrantRows]
        <4>1. [grant[g] EXCEPT !.recent = FALSE] \in GrantRows
          BY <3>1 DEF GrantRows
        <4> QED BY <3>1, <3>3, <4>1
      <3> QED BY <3>1, <3>2, <3>3
    <2> QED BY <1>1, <2>1, <2>2, <2>3 DEF IInv, TypeOK
  <1>3. \A g \in Grants :
           /\ grant'[g].status = grant[g].status /\ grant'[g].consumer = grant[g].consumer
           /\ grant'[g].contribution = grant[g].contribution
           /\ grant'[g].exempt = grant[g].exempt
    BY DEF Environment, SetContributionRatioExempt, WindowPasses, IInv, TypeOK, GrantRows
  <1>4. \A t \in Transactions : Sound(t)'
    BY <1>1, <1>3 DEF IInv, Sound, Formed, CreatesAlone, ReversesRow, HoldsMembers, Debited,
                      SnapshotHolds, Snapshot, GrantSteps, ReverseSteps
  <1>5. RowsFormed'
    BY <1>3 DEF IInv, RowsFormed
  <1>6. Completed' = Completed
    BY <1>3 DEF Completed
  <1>7. DebitOf' = DebitOf /\ CreditOf' = CreditOf
    BY <1>3, <1>6 DEF DebitOf, CreditOf
  <1>8. \A u \in Members : ConsumedBy(u)' = ConsumedBy(u) /\ ContributedBy(u)' = ContributedBy(u)
    BY <1>3, <1>6 DEF ConsumedBy, ContributedBy, Completed
  <1>9. ElsewhereStays
    BY <1>1, <1>7, <1>8 DEF ElsewhereStays, EarnedElsewhere, SpentElsewhere
  <1>10. GrantsAreCovered'
    BY <1>9 DEF IInv, GrantsAreCovered, ElsewhereStays
  <1>11. Books' /\ DebitsCovered
    BY <1>1 DEF IInv, Books, LedgerExplainsBalances, FloorNeverBinds, Balance, DebitsCovered,
                TypeOK, AccountsTypeOK
  <1> QED BY <1>2, <1>4, <1>5, <1>9, <1>10, <1>11 DEF StepIsSound, IInv

-----------------------------------------------------------------------------
\* At the start the columns hold what the members opened with.
LEMMA InitHolds ==
  ASSUME Assumptions, Init
  PROVE  IInv /\ \A u \in Members : EarnedElsewhere(u) = Opening[u] /\ SpentElsewhere(u) = 0
  <1>1. TypeOK
    <2>1. AccountsTypeOK
      <3>1. /\ contributed = Opening /\ consumed = [u \in Members |-> 0]
            /\ ledger = [u \in Members |-> 0] /\ floored = FALSE
            /\ memberLock = [u \in Members |-> None]
        BY DEF Init, AccountsInit
      <3>2. consumed \in [Members -> Nat] /\ ledger \in [Members -> Int]
        BY <3>1
      <3>3. memberLock \in [Members -> Transactions \cup {None}]
        BY <3>1
      <3>4. floored \in BOOLEAN /\ contributed \in [Members -> Nat]
        BY <3>1, OpeningIsBalance
      <3> QED BY <3>2, <3>3, <3>4 DEF AccountsTypeOK
    <2>2. NoGrant \in GrantRows /\ "NONE" \in Exemptions
      BY DEF NoGrant, GrantRows, Exemptions
    <2> QED BY <2>1, <2>2, IdleIsFormed DEF Init, TypeOK, Assumptions
  <1>2. RowsFormed /\ Completed = {}
    BY DEF Init, RowsFormed, NoGrant, Completed
  <1>3. \A t \in Transactions : Sound(t)
    BY IdleIsFormed DEF Init, Sound, Formed, CreatesAlone, ReversesRow, HoldsMembers, Debited,
                        GrantSteps, ReverseSteps
  <1>4. \A u \in Members : consumed[u] = 0 /\ contributed[u] = Opening[u] /\ ledger[u] = 0
    BY DEF Init, AccountsInit
  <1>5. Books
    BY <1>4, OpeningIsBalance
       DEF Init, AccountsInit, Books, LedgerExplainsBalances, FloorNeverBinds, Balance
  <1>6. ASSUME NEW u \in Members
        PROVE  EarnedElsewhere(u) = Opening[u] /\ SpentElsewhere(u) = 0
    <2>1. DebitOf \in [Grants -> Nat] /\ CreditOf \in [Grants -> Nat]
      BY <1>2 DEF DebitOf, CreditOf
    <2>2. ConsumedBy(u) = {} /\ ContributedBy(u) = {}
      BY <1>2 DEF ConsumedBy, ContributedBy
    <2>3. TotalOn(DebitOf, {}) = 0 /\ TotalOn(CreditOf, {}) = 0
      BY <2>1, TotalOnZeros
    <2>4. Opening[u] \in Nat
      BY OpeningIsBalance
    <2> QED BY <1>4, <2>2, <2>3, <2>4 DEF EarnedElsewhere, SpentElsewhere
  <1>7. GrantsAreCovered
    BY <1>6, OpeningIsBalance DEF GrantsAreCovered
  <1> QED BY <1>1, <1>2, <1>3, <1>5, <1>6, <1>7 DEF IInv

LEMMA NextKeeps ==
  ASSUME Assumptions, IInv, [Next]_vars
  PROVE  StepIsSound
  <1>1. ASSUME NEW t \in Transactions, Begin(t)
        PROVE  StepIsSound
    BY <1>1, GrantReadKeeps, ReverseReadKeeps DEF Begin
  <1>2. ASSUME NEW t \in Transactions, Advance(t)
        PROVE  StepIsSound
    BY <1>2, GrantReadConsumerKeeps, GrantFindRecentKeeps, GrantDebitKeeps, GrantCreditKeeps,
       GrantLinkKeeps, GrantCommitKeeps, ReverseClaimKeeps, ReverseRefundKeeps, ReverseCommitKeeps
       DEF Advance
  <1>3. ASSUME NEW t \in Transactions, DeadlockVictim(t) \/ Crash(t)
        PROVE  StepIsSound
    BY <1>3, RollbackKeeps DEF DeadlockVictim, Crash
  <1>4. CASE UNCHANGED vars
    <2>1. UNCHANGED <<contributed, consumed, ledger, floored, memberLock, exempt, consumerRow,
                      grant, grantLock, tx>>
      BY <1>4 DEF vars, accountVars, grantVars
    <2>2. \A t \in Transactions : Sound(t)'
      BY <2>1 DEF IInv, Sound, Formed, CreatesAlone, ReversesRow, HoldsMembers, Debited,
                  SnapshotHolds, Snapshot
    <2>3. TypeOK' /\ RowsFormed'
      BY <2>1 DEF IInv, TypeOK, AccountsTypeOK, RowsFormed
    <2>4. ElsewhereStays
      BY <2>1 DEF ElsewhereStays, EarnedElsewhere, SpentElsewhere, DebitOf, CreditOf, ConsumedBy,
                  ContributedBy, Completed
    <2>5. GrantsAreCovered'
      BY <2>4 DEF IInv, GrantsAreCovered, ElsewhereStays
    <2>6. Books'
      BY <2>1 DEF IInv, Books, LedgerExplainsBalances, FloorNeverBinds, Balance
    <2>7. DebitsCovered
      BY <2>1 DEF IInv, TypeOK, AccountsTypeOK, DebitsCovered
    <2> QED BY <2>2, <2>3, <2>4, <2>5, <2>6, <2>7 DEF StepIsSound, IInv
  <1> QED BY <1>1, <1>2, <1>3, <1>4, EnvironmentKeeps DEF Next

(***************************************************************************)
(* Somebody else's step: it writes no row of grants, moves no balance that *)
(* a transaction holds, and the balances still hold what grants have       *)
(* moved.                                                                  *)
(***************************************************************************)
LEMMA OthersStepKeeps ==
  ASSUME IInv, UNCHANGED <<grantVars, tx>>, memberLock' = memberLock,
         AccountsTypeOK', GrantsAreCovered', Books',
         \A u \in Members : memberLock[u] \in Transactions =>
            contributed'[u] = contributed[u] /\ consumed'[u] = consumed[u]
  PROVE  IInv'
  <1>1. TypeOK' /\ RowsFormed'
    BY DEF IInv, TypeOK, RowsFormed, grantVars
  <1>2. ASSUME NEW t \in Transactions
        PROVE  Sound(t)'
    <2>1. Sound(t) /\ UNCHANGED <<grant, grantLock, tx>>
      BY DEF IInv, grantVars
    <2>2. Formed(tx[t])' /\ CreatesAlone(t)' /\ ReversesRow(t)'
      BY <2>1 DEF Sound, Formed, CreatesAlone, ReversesRow
    <2>3. Debited(tx[t]) => tx[t].by \in Members
      BY <2>1 DEF Sound, Formed, Debited, GrantSteps
    <2>4. HoldsMembers(t)'
      BY <2>1, <2>3 DEF Sound, HoldsMembers, Debited, SnapshotHolds, Snapshot
    <2> QED BY <2>2, <2>4 DEF Sound
  <1> QED BY <1>1, <1>2 DEF IInv

\* When downloads are all there is, nothing is earned or spent elsewhere.
OnlyDownloads ==
    IInv /\ \A u \in Members : EarnedElsewhere(u) = Opening[u] /\ SpentElsewhere(u) = 0

LEMMA OnlyDownloadsKept ==
  ASSUME Assumptions, OnlyDownloads, [Next]_vars
  PROVE  OnlyDownloads'
  BY NextKeeps DEF OnlyDownloads, StepIsSound, ElsewhereStays

LEMMA GrantsInvariant ==
  ASSUME Assumptions
  PROVE  Spec => []OnlyDownloads
  <1>1. Init => OnlyDownloads
    BY InitHolds DEF OnlyDownloads
  <1>2. OnlyDownloads /\ [Next]_vars => OnlyDownloads'
    BY OnlyDownloadsKept
  <1> QED BY <1>1, <1>2, PTL DEF Spec

\* The totals of BalancesMatchGrants are the totals over all grants.
LEMMA SumsAreTotals ==
  ASSUME NEW u
  PROVE  /\ Total([g \in ConsumedBy(u) |-> Debit(grant[g].contribution, grant[g].exempt)])
               = TotalOn(DebitOf, ConsumedBy(u))
         /\ Total([g \in ContributedBy(u) |-> Credit(grant[g].contribution, grant[g].exempt)])
               = TotalOn(CreditOf, ContributedBy(u))
  <1>1. [x \in DOMAIN DebitOf \cap ConsumedBy(u) |-> DebitOf[x]] =
           [g \in ConsumedBy(u) |-> Debit(grant[g].contribution, grant[g].exempt)]
    BY DEF DebitOf, ConsumedBy, Completed
  <1>2. [x \in DOMAIN CreditOf \cap ContributedBy(u) |-> CreditOf[x]] =
           [g \in ContributedBy(u) |-> Credit(grant[g].contribution, grant[g].exempt)]
    BY DEF CreditOf, ContributedBy, Completed
  <1> QED BY <1>1, <1>2 DEF TotalOn

LEMMA GrantsExplainBalances ==
  ASSUME Assumptions, OnlyDownloads
  PROVE  BalancesMatchGrants
  <1>1. ASSUME NEW u \in Members
        PROVE  /\ consumed[u] = TotalOn(DebitOf, ConsumedBy(u))
               /\ contributed[u] = Opening[u] + TotalOn(CreditOf, ContributedBy(u))
    <2>1. /\ TotalOn(DebitOf, ConsumedBy(u)) \in Nat /\ TotalOn(CreditOf, ContributedBy(u)) \in Nat
          /\ consumed[u] \in Nat /\ contributed[u] \in Nat /\ Opening[u] \in Nat
      BY TotalsAreNatural, OpeningIsBalance DEF OnlyDownloads, IInv, TypeOK, AccountsTypeOK
    <2> QED BY <2>1 DEF OnlyDownloads, EarnedElsewhere, SpentElsewhere
  <1> QED BY <1>1, SumsAreTotals DEF BalancesMatchGrants

-----------------------------------------------------------------------------
(***************************************************************************)
(* Types: no grant or reversal takes a balance below zero.                 *)
(***************************************************************************)
THEOREM GrantsTypeCorrect ==
  ASSUME Assumptions
  PROVE  Spec => []TypeOK
  <1>1. OnlyDownloads => TypeOK
    BY DEF OnlyDownloads, IInv
  <1> QED BY <1>1, GrantsInvariant, PTL

(***************************************************************************)
(* Balances are exactly what the completed grants moved (downloads.ts):    *)
(* no interleaving moves a side twice or reverses what never accrued.      *)
(***************************************************************************)
THEOREM BalancesTheorem ==
  ASSUME Assumptions
  PROVE  Spec => []BalancesMatchGrants
  <1>1. OnlyDownloads => BalancesMatchGrants
    BY GrantsExplainBalances
  <1> QED BY <1>1, GrantsInvariant, PTL

(***************************************************************************)
(* The ledger explains every balance, and decrementFloored never floors    *)
(* (ratio.ts): a reversal takes back only what its grant moved.          *)
(***************************************************************************)
THEOREM GrantLedgerTheorem ==
  ASSUME Assumptions
  PROVE  Spec => [](LedgerExplainsBalances /\ FloorNeverBinds)
  <1>1. OnlyDownloads => LedgerExplainsBalances /\ FloorNeverBinds
    BY DEF OnlyDownloads, IInv, Books
  <1> QED BY <1>1, GrantsInvariant, PTL

(***************************************************************************)
(* No download overdraws a member, however old the balance it was checked  *)
(* against (ratio.ts, debitBalance).                                     *)
(***************************************************************************)
THEOREM GrantsNoOverdraftTheorem ==
  ASSUME Assumptions
  PROVE  Spec => NoOverdraft
  <1>1. OnlyDownloads /\ [Next]_vars => [DebitsCovered]_accountVars
    BY NextKeeps DEF OnlyDownloads, StepIsSound
  <1>2. [][DebitsCovered]_accountVars => NoOverdraft
    BY PTL DEF NoOverdraft, DebitsCovered
  <1> QED BY <1>1, <1>2, GrantsInvariant, PTL DEF Spec
-----------------------------------------------------------------------------
(***************************************************************************)
(* Deadlocks.  A transaction that holds a User row and waits again holds   *)
(* its consumer's; one that holds a grant row is past its claim.           *)
(***************************************************************************)
HoldsFirst(x, u) ==
    x.step \in {"link", "commit"} \/ (x.step \in {"credit", "clawback"} /\ u = x.by)

LocksHeld ==
    /\ \A u \in Members, t \in Transactions : memberLock[u] = t => HoldsFirst(tx[t], u)
    /\ \A g \in Grants, t \in Transactions :
          grantLock[g] = t => tx[t].step \in {"refund", "clawback"}

\* One transaction moves, and every lock it still has or newly has is in order.
LEMMA OneMoves ==
  ASSUME LocksHeld, NEW t \in Transactions,
         \A s \in Transactions \ {t} : tx'[s] = tx[s],
         \A u \in Members, s \in Transactions \ {t} : memberLock'[u] = s => memberLock[u] = s,
         \A g \in Grants, s \in Transactions \ {t} : grantLock'[g] = s => grantLock[g] = s,
         \A u \in Members : memberLock'[u] = t => HoldsFirst(tx'[t], u),
         \A g \in Grants : grantLock'[g] = t => tx'[t].step \in {"refund", "clawback"}
  PROVE  LocksHeld'
  BY DEF LocksHeld, HoldsFirst

LEMMA EndsInOrder ==
  ASSUME TypeOK, LocksHeld, NEW t \in Transactions, End(t)
  PROVE  LocksHeld'
  <1>1. /\ \A u \in Members : memberLock'[u] = IF memberLock[u] = t THEN None ELSE memberLock[u]
        /\ \A g \in Grants : grantLock'[g] = IF grantLock[g] = t THEN None ELSE grantLock[g]
    BY DEF End, ReleaseAll, TypeOK, AccountsTypeOK
  <1>2. \A s \in Transactions \ {t} : tx'[s] = tx[s]
    BY DEF End, TypeOK
  <1> QED BY <1>1, <1>2, NoneIsNoTransaction, OneMoves

\* A step from one that holds no lock, or to one that may keep those it has.
LEMMA ProceedsInOrder ==
  ASSUME TypeOK, LocksHeld, NEW t \in Transactions, NEW step,
         \A s \in Transactions \ {t} : tx'[s] = tx[s],
         tx'[t].step = step, tx'[t].by = tx[t].by \/ tx[t].step = "idle",
         UNCHANGED <<memberLock, grantLock>>,
         \/ tx[t].step \in {"idle", "read", "recent", "debit"}
         \/ tx[t].step \in {"credit", "link"} /\ step \in {"link", "commit"}
         \/ tx[t].step = "refund" /\ step = "clawback"
  PROVE  LocksHeld'
  <1>1. \A u \in Members : memberLock[u] = t => HoldsFirst(tx'[t], u)
    BY DEF LocksHeld, HoldsFirst
  <1>2. \A g \in Grants : grantLock[g] = t => tx'[t].step \in {"refund", "clawback"}
    BY DEF LocksHeld
  <1> QED BY <1>1, <1>2, OneMoves

\* A User row taken: the consumer's first, the contributor's last.
LEMMA LocksInOrder ==
  ASSUME TypeOK, LocksHeld, NEW t \in Transactions, NEW u, NEW step, LockMember(t, u, step),
         \/ tx[t].step = "debit" /\ step = "credit" /\ u = tx[t].by
         \/ tx[t].step = "credit" /\ step = "link"
         \/ tx[t].step = "refund" /\ step = "clawback" /\ u = tx[t].by
  PROVE  LocksHeld'
  <1>1. /\ \A s \in Transactions \ {t} : tx'[s] = tx[s]
        /\ tx'[t].by = tx[t].by /\ tx'[t].step = step
        /\ UNCHANGED grantLock
    BY DEF LockMember, Proceed, TypeOK, TransactionStates, grantVars
  <1>2. \A w \in Members : memberLock'[w] = IF w = u THEN t ELSE memberLock[w]
    BY DEF LockMember, TakeLock, TypeOK, AccountsTypeOK
  <1>3. \A w \in Members : memberLock'[w] = t => HoldsFirst(tx'[t], w)
    BY <1>1, <1>2 DEF LocksHeld, HoldsFirst
  <1>4. \A g \in Grants : grantLock[g] = t => tx'[t].step \in {"refund", "clawback"}
    BY <1>1 DEF LocksHeld
  <1>5. \A w \in Members, s \in Transactions \ {t} : memberLock'[w] = s => memberLock[w] = s
    BY <1>2
  <1> QED BY <1>1, <1>3, <1>4, <1>5, OneMoves

LEMMA LocksKept ==
  ASSUME TypeOK, LocksHeld, NEW t \in Transactions, Begin(t) \/ Advance(t) \/ Rollback(t)
  PROVE  LocksHeld'
  <1>1. CASE Rollback(t)
    BY <1>1, EndsInOrder DEF Rollback
  <1>2. ASSUME NEW g \in Grants, ReverseRead(t, g)
        PROVE  LocksHeld'
    <2>1. /\ tx[t].step = "idle" /\ UNCHANGED <<memberLock, grantLock>>
          /\ \A s \in Transactions \ {t} : tx'[s] = tx[s]
      BY <1>2 DEF ReverseRead, Idle, accountVars, grantVars, TypeOK
    <2> QED BY <2>1, ProceedsInOrder
  <1>3. ASSUME NEW g \in Grants, NEW u \in Members, NEW c \in Contributions, GrantRead(t, u, c, g)
        PROVE  LocksHeld'
    <2>1. /\ tx[t].step = "idle" /\ UNCHANGED <<memberLock, grantLock>>
          /\ \A s \in Transactions \ {t} : tx'[s] = tx[s]
      BY <1>3 DEF GrantRead, Idle, accountVars, grantVars, TypeOK
    <2> QED BY <2>1, ProceedsInOrder
  <1>4. CASE GrantReadConsumer(t)
    <2>1. CASE ~Rollback(t)
      <3>1. /\ tx[t].step = "read" /\ UNCHANGED <<memberLock, grantLock>>
            /\ tx'[t].by = tx[t].by
            /\ \A s \in Transactions \ {t} : tx'[s] = tx[s]
        BY <1>4, <2>1 DEF GrantReadConsumer, accountVars, grantVars, TypeOK, TransactionStates
      <3> QED BY <3>1, ProceedsInOrder
    <2> QED BY <2>1, <1>1
  <1>5. CASE GrantFindRecent(t)
    <2>1. CASE ~Rollback(t)
      <3>1. /\ tx[t].step = "recent" /\ UNCHANGED <<memberLock, grantLock>>
            /\ tx'[t].by = tx[t].by
            /\ \A s \in Transactions \ {t} : tx'[s] = tx[s]
        BY <1>5, <2>1 DEF GrantFindRecent, Proceed, accountVars, grantVars, TypeOK,
                          TransactionStates
      <3> QED BY <3>1, ProceedsInOrder
    <2> QED BY <2>1, <1>1
  <1>6. CASE GrantDebit(t)
    <2>1. tx[t].step = "debit" /\ (LockMember(t, tx[t].by, "credit") \/ Rollback(t))
      BY <1>6 DEF GrantDebit
    <2> QED BY <2>1, <1>1, LocksInOrder
  <1>7. CASE GrantCredit(t)
    <2>1. CASE LockMember(t, Owner[tx[t].contribution], "link")
      BY <1>7, <2>1, LocksInOrder DEF GrantCredit
    <2>2. CASE Proceed(t, "link") /\ UNCHANGED <<accountVars, grantVars>>
      <3>1. /\ tx[t].step = "credit" /\ UNCHANGED <<memberLock, grantLock>>
            /\ tx'[t].by = tx[t].by /\ tx'[t].step = "link"
            /\ \A s \in Transactions \ {t} : tx'[s] = tx[s]
        BY <1>7, <2>2 DEF GrantCredit, Proceed, accountVars, grantVars, TypeOK, TransactionStates
      <3> QED BY <3>1, ProceedsInOrder
    <2> QED BY <1>7, <2>1, <2>2 DEF GrantCredit
  <1>8. CASE GrantLink(t)
    <2>1. /\ tx[t].step = "link" /\ UNCHANGED <<memberLock, grantLock>>
          /\ tx'[t].by = tx[t].by /\ tx'[t].step = "commit"
          /\ \A s \in Transactions \ {t} : tx'[s] = tx[s]
      BY <1>8 DEF GrantLink, accountVars, grantVars, TypeOK, TransactionStates
    <2> QED BY <2>1, ProceedsInOrder
  <1>9. CASE GrantCommit(t) \/ ReverseCommit(t)
    BY <1>9, <1>1, EndsInOrder DEF GrantCommit, ReverseCommit
  <1>10. CASE ReverseClaim(t)
    <2>1. CASE ~Rollback(t)
      <3>1. /\ tx[t].step = "claim" /\ UNCHANGED memberLock
            /\ tx'[t].step = "refund"
            /\ \A s \in Transactions \ {t} : tx'[s] = tx[s]
            /\ \A g \in Grants, s \in Transactions \ {t} : grantLock'[g] = s => grantLock[g] = s
        BY <1>10, <2>1 DEF ReverseClaim, Proceed, accountVars, TakeLock, TypeOK, TransactionStates
      <3>2. \A u \in Members : memberLock[u] # t
        BY <3>1 DEF LocksHeld, HoldsFirst
      <3> QED BY <3>1, <3>2, OneMoves
    <2> QED BY <2>1, <1>1
  <1>11. CASE ReverseRefund(t)
    <2>1. CASE LockMember(t, tx[t].by, "clawback")
      BY <1>11, <2>1, LocksInOrder DEF ReverseRefund
    <2>2. CASE Proceed(t, "clawback") /\ UNCHANGED <<accountVars, grantVars>>
      <3>1. /\ tx[t].step = "refund" /\ UNCHANGED <<memberLock, grantLock>>
            /\ tx'[t].by = tx[t].by /\ tx'[t].step = "clawback"
            /\ \A s \in Transactions \ {t} : tx'[s] = tx[s]
        BY <1>11, <2>2 DEF ReverseRefund, Proceed, accountVars, grantVars, TypeOK,
                           TransactionStates
      <3> QED BY <3>1, ProceedsInOrder
    <2> QED BY <1>11, <2>1, <2>2 DEF ReverseRefund
  <1> QED BY <1>1, <1>2, <1>3, <1>4, <1>5, <1>6, <1>7, <1>8, <1>9, <1>10, <1>11
          DEF Begin, Advance

\* In a circle nobody is at a claim: a claim holds nothing that is waited for.
LEMMA CirclesOverSecondRow ==
  ASSUME TypeOK, \A t \in Transactions : Formed(tx[t]), LocksHeld, Assumptions
  PROVE  DeadlocksOverSecondRow
  <1> SUFFICES ASSUME NEW S \in SUBSET Transactions, Circle(S), NEW s \in S
               PROVE  tx[s].step \in {"credit", "clawback"} /\ memberLock[tx[s].by] = s
    BY DEF DeadlocksOverSecondRow
  <1>1. ASSUME NEW a \in Transactions, NEW b \in Transactions, WaitsFor(a, b)
        PROVE  \/ tx[a].step = "claim" /\ tx[b].step \in {"refund", "clawback"}
               \/ tx[a].step \in {"debit", "refund", "credit", "clawback"}
                  /\ \E u \in Members : memberLock[u] = b
    <2>1. Formed(tx[a])
      OBVIOUS
    <2>2. CASE tx[a].step = "claim" /\ grantLock[tx[a].grant] = b
      BY <2>1, <2>2 DEF Formed, ReverseSteps, LocksHeld
    <2>3. CASE tx[a].step # "claim"
      BY <1>1, <2>1, <2>3 DEF WaitsFor, Formed, GrantSteps, ReverseSteps, Assumptions
    <2> QED BY <1>1, <2>2, <2>3 DEF WaitsFor
  <1>2. PICK w \in S : WaitsFor(w, s)
    BY DEF Circle
  <1>3. PICK v \in S : WaitsFor(v, w)
    BY DEF Circle
  <1>4. tx[w].step # "claim"
    BY <1>1, <1>3 DEF LocksHeld, HoldsFirst
  <1>5. PICK u \in Members : memberLock[u] = s
    BY <1>1, <1>2, <1>4
  <1>6. PICK h \in S : WaitsFor(s, h)
    BY DEF Circle
  <1>7. tx[s].step \notin {"link", "commit"}
    BY <1>1, <1>6
  <1> QED BY <1>5, <1>7 DEF LocksHeld, HoldsFirst

(***************************************************************************)
(* Deadlocks are over the second User row (downloads.ts): each transaction *)
(* of one has taken its consumer's row and waits for the contributor's,    *)
(* with any number of grants and reversals in flight.                      *)
(***************************************************************************)
THEOREM DeadlocksTheorem ==
  ASSUME Assumptions
  PROVE  Spec => []DeadlocksOverSecondRow
  <1>1. Init => LocksHeld
    BY NoneIsNoTransaction DEF Init, AccountsInit, LocksHeld
  <1>2. OnlyDownloads /\ LocksHeld /\ [Next]_vars => LocksHeld'
    <2>1. UNCHANGED vars \/ Environment => UNCHANGED <<memberLock, grantLock, tx>>
      BY DEF vars, Environment, SetContributionRatioExempt, WindowPasses, accountVars, grantVars
    <2>2. UNCHANGED <<memberLock, grantLock, tx>> /\ LocksHeld => LocksHeld'
      BY DEF LocksHeld, HoldsFirst
    <2> QED BY <2>1, <2>2, LocksKept DEF OnlyDownloads, IInv, Next, DeadlockVictim, Crash
  <1>3. OnlyDownloads /\ LocksHeld => DeadlocksOverSecondRow
    BY CirclesOverSecondRow DEF OnlyDownloads, IInv, Sound
  <1> QED BY <1>1, <1>2, <1>3, GrantsInvariant, PTL DEF Spec
=============================================================================
