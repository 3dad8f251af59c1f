\* Three members, an answer beside a staff form, two entries in the log.
SPECIFICATION Spec
CONSTANTS
    Members = {alice, bob, carol}
    Requests = {s1}
    Forms = {f1}
    Lists <- MCLists
    Unsteady = {}
    None = None
    MaxEvents = 2
INVARIANTS
    OffersAreTheLeaders
\* The leadership log is full.
CHECK_DEADLOCK FALSE
