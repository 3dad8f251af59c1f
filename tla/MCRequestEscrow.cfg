\* Two transactions in flight, two members, two requests, both contributions
\* fit both requests, bounties of one byte.
SPECIFICATION Spec
CONSTANTS
    alice = alice
    bob = bob
    r1 = r1
    r2 = r2
    c1 = c1
    c2 = c2
    t1 = t1
    t2 = t2
    None = None
    Members <- MCMembers
    Transactions = {t1, t2}
    Requests <- MCRequests
    Contributions = {c1, c2}
    Owner <- MCOwner
    Fits <- MCFits
    Moderators = {bob}
    Amounts = {1}
    PledgeLimit = 1
    Opening <- MCOpening
SYMMETRY TransactionSymmetry
INVARIANTS
    TypeOK
    LedgerExplainsBalances
    ContributedIsEarned
    ConsumedIsPledged
    FillPaidInFull
    FloorNeverBinds
    OnlyRefundsDeadlock
PROPERTIES
    NoOverdraft
    ImplementsBountyEscrow
\* Every request id has been used and deleted: nothing is left to do.
CHECK_DEADLOCK FALSE
