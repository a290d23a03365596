SPECIFICATION Spec
CONSTANTS
    part1 = part1
    part2 = part2
    prune1 = prune1
    prune2 = prune2
    Count = 1
    Part = {part1, part2}
    Concurrency = 2
    Pruner = {prune1}
    Keep = 1
INVARIANT FailedReadsFailed
CHECK_DEADLOCK FALSE
