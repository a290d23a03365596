SPECIFICATION FairSpec
CONSTANTS
    p1 = p1
    p2 = p2
    p3 = p3
    client = client
    resource = resource
    hostNet = hostNet
    privateNet = privateNet
    Process = {p1, p2, p3}
    Handle = {p1, p2, p3}
    ProcessOf <- OneEach
    Name <- TwoNames
    SlotCount <- SeveralSlots
    Net <- TwoNets
    NetOf <- FirstApart
    MaxRecords = 1
INVARIANTS SlotExclusion HolderRecordKept
PROPERTIES OnlyOldCopiesLost WaitersServed
CHECK_DEADLOCK FALSE
