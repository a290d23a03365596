SPECIFICATION MCSpec
CONSTANTS
    p1 = p1
    p2 = p2
    t1 = t1
    h1 = h1
    t2 = t2
    h2 = h2
    l1 = l1
    l2 = l2
    heavy = heavy
    hostNet = hostNet
    v1 = v1
    v2 = v2
    Process = {p1, p2}
    Handle = {t1, h1, t2, h2}
    ProcessOf <- Builders
    TargetOf <- Targets
    HeavyOf <- Heavies
    Name = {l1, l2, heavy}
    SlotCount <- OneSlotEach
    Net = {hostNet}
    NetOf <- AllOnHost
    MaxRecords = 1
    Version = {v1, v2}
    VersionOf <- OneVersionEach
    TargetLock <- LockOfEach
    HeavyLock = heavy
INVARIANT SlotStaysHeld
CHECK_DEADLOCK FALSE
