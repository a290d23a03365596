SPECIFICATION MCSpec
CONSTANTS
    server = server
    read1 = read1
    read2 = read2
    Proc = {server}
    Reader = {read1, read2}
    Invalidator = {}
    ProcOf <- OneProcess
    file1 = file1
    file2 = file2
    Path = {file1, file2}
    MaxChanges = 4
    t1 = t1
    t2 = t2
    w1 = w1
    w2 = w2
    Task = {t1, t2}
    Worker = {w1, w2}
    MaxAttempts = 2
    Concurrency = 2
    Threshold = 1
    MaxGeneration = 3
INVARIANTS OneRun PathsKept ClosedForGood OneHolder ResultOfLastClaim DoneMeansCompleted
PROPERTIES ReadsEnd ChangesReachRun CloseEnds CompletedStays RunsReturn
CHECK_DEADLOCK FALSE
