\* Two request transactions beside one download transaction, two members who
\* download from each other and fill the one request.
SPECIFICATION Spec
CONSTANTS
    alice = alice
    bob = bob
    ca = ca
    cb = cb
    r1 = r1
    t1 = t1
    t2 = t2
    t3 = t3
    g1 = g1
    None = None
    Members = {alice, bob}
    RequestTransactions = {t1, t3}
    DownloadTransactions = {t2}
    Requests = {r1}
    Contributions = {ca, cb}
    Owner <- MCOwner
    Fits <- MCFits
    Moderators = {bob}
    Amounts = {1}
    PledgeLimit = 1
    Grants = {g1}
    Cost <- MCCost
    Opening <- MCOpening
    Levered = {ca}
    NewMembers = {}
SYMMETRY RequestSlots
INVARIANTS
    EveryByteAccountedFor
    BytesConserved
    OnlyRefundsAndGrantsDeadlock
\* Every request and grant id has been used and settled.
CHECK_DEADLOCK FALSE
