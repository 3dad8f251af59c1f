SPECIFICATION FairSpec
CONSTANTS
    alice = alice
    a1 = a1
    s1 = s1
    s2 = s2
    l1 = l1
    u1 = u1
    None = None
PROPERTIES
    LapsedInvitesEnd
    SuspectLinksSettle
    DormantMembersGo
    RanksSettle
    PendingRowsSettle
