CONSTANTS
    t1 = t1
    t2 = t2
    t3 = t3
    t4 = t4
    p1 = p1
    p2 = p2
    b1 = b1
    x1 = x1
    y1 = y1
    Clients = {t1, t2, t3, t4}
    Sessions <- MCSessions
    MaxFaults = 1
    MaxKeys = 2
    N = 3
    Listed = {x1, y1}
    KindOf <- MCKindOf
    KindList <- MCKindList
    MaxChanges = 2
    Mode <- MCMode
    Alike = {1}
    MaxVersion = 1
    PodList <- MCPodList
    RoleOf <- MCRoleOf
    MaxLines = 1
SPECIFICATION FairSpec
INVARIANTS TypeOK QuitsAfterLast OwnObject DeletedForGood OnePortForward GoodbyeHolds
PROPERTIES  ListConverges
CHECK_DEADLOCK FALSE
