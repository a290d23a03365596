SPECIFICATION Spec
CONSTANTS
    server = server
    read1 = read1
    read2 = read2
    write1 = write1
    write2 = write2
    Proc = {server}
    Reader = {read1}
    Invalidator = {write1, write2}
    ProcOf <- OneProcess
INVARIANT MissedKept
CHECK_DEADLOCK FALSE
