SPECIFICATION MCSpec
CONSTANTS
    server = server
    read1 = read1
    read2 = read2
    write1 = write1
    write2 = write2
    Proc = {server}
    Reader = {read1, read2}
    Invalidator = {write1, write2}
    ProcOf <- OneProcess
SYMMETRY ReadersAlike
INVARIANTS TypeOK ReadsOwnWrites NoStaleJoin CachedNotStale MissedKept
CHECK_DEADLOCK FALSE
