SPECIFICATION MCSpec
CONSTANTS
    content = content
    runtime = runtime
    shared = shared
    first = first
    second = second
    rebind1 = rebind1
    rebind2 = rebind2
    pod1 = pod1
    pod2 = pod2
    Partition = {content, runtime}
    Database = {shared, first, second}
    Own <- OwnDatabases
    Rebind = {}
    MaxConnections = 2
    Pod = {}
    Container = {}
    Servers = 1
    MaxIterations = 1
PROPERTIES ReadersHeal
CHECK_DEADLOCK FALSE
