\* Two requests of one member for one contribution in flight.
SPECIFICATION Spec
CONSTANTS
    alice = alice
    bob = bob
    ca = ca
    cb = cb
    t1 = t1
    t2 = t2
    g1 = g1
    g2 = g2
    None = None
    Members = {alice, bob}
    Transactions = {t1, t2}
    Contributions = {ca, cb}
    Grants = {g1, g2}
    Owner <- MCOwner
    Cost <- MCCost
    Opening <- MCOpening
    Levered = {ca}
    NewMembers = {bob}
INVARIANTS
    RecentGrantReused
CHECK_DEADLOCK FALSE
