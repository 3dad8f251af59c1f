\* Two requests in flight to one address, staff moderating one member, the clock
\* running out once.
SPECIFICATION Spec
CONSTANTS
    alice = alice
    bob = bob
    None = None
    Moderated = {bob}
    Members = {alice, bob}
    Addresses = {a1}
    Requests = {s1, s2}
    Opening <- MCOpening
    RankSettings <- TwoRanks
    StaffMax = 2
    Lifetime = 1
    MaxClock = 1
    MaxSends = 2
SYMMETRY Slots
INVARIANTS
    TypeOK
    InvitesConserved
    TreeFollowsInvites
PROPERTIES
    CancelledHoldsAddress
    GrantsKeepToCap
