\* The sweep beside a re-send by another member who is then revoked.
SPECIFICATION Spec
CONSTANTS
    alice = alice
    bob = bob
    None = None
    Moderated = {bob}
    Members = {alice, bob}
    Addresses = {a1}
    Requests = {s1}
    Opening <- BothHold
    RankSettings <- OneRank
    StaffMax = 2
    Lifetime = 1
    MaxClock = 2
    MaxSends = 2
PROPERTIES
    InviteReturnsToInviter
