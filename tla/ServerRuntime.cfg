SPECIFICATION MCSpec
CONSTANTS
    content = content
    runtime = runtime
    shared = shared
    first = first
    second = second
    rebind1 = rebind1
    rebind2 = rebind2
    pod1 = pod1
    pod2 = pod2
    Partition = {content, runtime}
    Database = {shared, first, second}
    Own <- OwnDatabases
    Rebind = {rebind1, rebind2}
    MaxConnections = 3
    Pod = {pod1, pod2}
    Container = {pod1, pod2}
    Servers = 2
    MaxIterations = 2
INVARIANTS ReadsWhole ReadsServed SignedOff PromotedRan
PROPERTIES HealsUnlessCloseHangs StartSettles ImplementsPodStatus
CHECK_DEADLOCK FALSE
