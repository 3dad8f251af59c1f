------------------------------ MODULE Accounts ------------------------------
(***************************************************************************)
(* The byte balances every economy transaction moves: the columns          *)
(* User.contributed and User.consumed, the EconomyTransaction ledger, and  *)
(* the row locks PostgreSQL takes on a User row that a transaction has     *)
(* updated and not committed.  A transaction's writes become visible at    *)
(* its commit (READ COMMITTED); the row lock keeps any other writer away   *)
(* from the row in the meantime, so a model step may evaluate an UPDATE's  *)
(* WHERE clause when it takes the lock and apply the write at the commit.  *)
(***************************************************************************)
EXTENDS Integers, Sums

CONSTANTS Members,      \* user ids
          Transactions, \* slots for interactive transactions in flight
          Opening,      \* what each member has contributed at the start
          None          \* SQL null, and the owner of a free lock

VARIABLES contributed,  \* User.contributed, in bytes
          consumed,     \* User.consumed, in bytes
          ledger,       \* per member, the sum of EconomyTransaction.amount
          floored,      \* decrementFloored has taken its flooring branch
          memberLock    \* the transaction holding each User row, or None

accountVars == <<contributed, consumed, ledger, floored, memberLock>>

ASSUME NoneIsNoMember == None \notin Members
ASSUME NoneIsNoTransaction == None \notin Transactions
ASSUME FiniteMembers == IsFiniteSet(Members)
ASSUME OpeningIsBalance == Opening \in [Members -> Nat]

Balance(u) == contributed[u] - consumed[u]

\* What debitBalance is given: the member as the caller read it.
Snapshot(u) == [contributed |-> contributed[u], consumed |-> consumed[u]]

Affords(read, amount) == read.contributed - read.consumed >= amount

\* Mutant: the compare-and-swap pins consumed only and misses a claw-back.
SnapshotHoldsOneColumn(u, read) == read.consumed = consumed[u]

\* The WHERE clause of debitBalance: neither column moved since the read.
SnapshotHolds(u, read) == read = Snapshot(u)

FloorSub(a, b) == IF a >= b THEN a - b ELSE 0

\* An UPDATE of the row by transaction t does not have to wait.
MayLock(u, t) == memberLock[u] \in {None, t}

TakeLock(locks, row, t) == [locks EXCEPT ![row] = t]

ReleaseAll(locks, t) ==
    [row \in DOMAIN locks |-> IF locks[row] = t THEN None ELSE locks[row]]

Post(book, u, amount) == [book EXCEPT ![u] = @ + amount]

AccountsInit ==
    /\ contributed = Opening
    /\ consumed = [u \in Members |-> 0]
    /\ ledger = [u \in Members |-> 0]
    /\ floored = FALSE
    /\ memberLock = [u \in Members |-> None]

AccountsTypeOK ==
    /\ contributed \in [Members -> Nat]
    /\ consumed \in [Members -> Nat]
    /\ ledger \in [Members -> Int]
    /\ floored \in BOOLEAN
    /\ memberLock \in [Members -> Transactions \cup {None}]

(***************************************************************************)
(* The ledger explains every balance: what a member has earned less what   *)
(* they have spent is what they opened with plus every ledger row written  *)
(* for them.  A credit applied without its row, a row without its credit,  *)
(* or a balance write that overwrites a concurrent one breaks it.  It is   *)
(* stated for accounts no floor has bound, since callers of                *)
(* decrementFloored record the nominal amount either way.                  *)
(***************************************************************************)
LedgerExplainsBalances ==
    ~floored => \A u \in Members : Balance(u) = Opening[u] + ledger[u]

(***************************************************************************)
(* decrementFloored never has to floor: every amount it takes back was     *)
(* added to that column earlier and not yet taken back.  The code says the *)
(* floor binds only when a balance was set out-of-band, which no modelled  *)
(* operation does.                                                         *)
(***************************************************************************)
FloorNeverBinds == ~floored

(***************************************************************************)
(* A debit never overdraws: whenever consumed grows, what the member has   *)
(* contributed still covers it, although the balance was read several      *)
(* statements earlier and may have been debited or clawed back since.      *)
(***************************************************************************)
NoOverdraft ==
    [][\A u \in Members : consumed'[u] > consumed[u] => contributed'[u] >= consumed'[u]]_accountVars
=============================================================================
