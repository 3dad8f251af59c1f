\* Each component on an instance of its own, small enough for all its steps.
SPECIFICATION MCSpec
CONSTANTS
    alice = alice
    bob = bob
    ca = ca
    cb = cb
    u1 = u1
    s1 = s1
    s2 = s2
    None = None
    \* Two transactions, two members, two grant ids.
    Members = {alice, bob}
    Transactions = {s1, s2}
    Contributions = {ca, cb}
    Owner <- OwnerOf
    Cost <- CostOf
    Opening <- OpeningOf
    Grants = {g1, g2}
    Levered = {ca}
    NewMembers = {bob}
    \* Three people, two registrations for one or two seats; staff open one.
    People = {p1, p2, p3}
    Registrations = {s1, s2}
    Limits = {1, 2}
    MaxUncapped = 1
    \* Two tokens good for two instants, two requests in flight.
    Tokens = {k1, k2}
    RecoveryRequests = {s1, s2}
    Lifetime = 2
    LastInstant = 2
    \* Three members, an answer beside a staff form, two entries in the log.
    Leaders = {alice, bob, carol}
    Answers = {r1}
    Forms = {f1}
    Lists = {{bob}}
    Unsteady = {carol}
    MaxEvents = 2
    \* One link, two checks or reports beside the sweep; each tries twice.
    CheckedLinks = {l1}
    Writers = {s1, s2}
    Window = 1
    Attempts = 2
    MaxTime = 3
    \* One member, two overlapping cycles and one failure.
    MemberIds = {1}
    InactivityCycles = {s1, s2}
    WarnAfter = 1
    DisableAfter = 2
    Grace = 1
    NeverAfter = 1
    BatchSize = 1
    Cap = 1
    AdminCreated = {}
    Moderated = {1}
    MaxFailures = 1
    \* One URL, two overlapping cycles, one of which may die.
    Urls = {u1}
    Bytes <- BytesOf
    ImportCycles = {s1, s2}
    Retries = 1
    MaxWrites = 2
    MaxCrashes = 1
    \* One topic of three posts by two authors, two requests in flight.
    Boards = {main, trash}
    Trash = trash
    Topics = {t1}
    Posts = {1, 2, 3}
    Authors = {alice, bob}
    ForumRequests = {s1, s2}
    \* Two members, two toggles in flight.
    Voters = {alice, bob}
    Toggles = {s1, s2}
SYMMETRY Slots
INVARIANTS
    TypeOK
    BalancesMatchGrants
    LedgerExplainsBalances
    DeadlocksOverSecondRow
    SeatsNeverOversold
    SegmentOpenWhilePass
    OneImportAtATime
    LiveTopicsHavePosts
    VoteCountMatches
PROPERTIES
    RetiredTokensSetNothing
    HandoffsHappened
    NobodyIsDisabledUnwarned
\* A forum whose posts are used up, a leadership whose log is full: those stop.
CHECK_DEADLOCK FALSE
