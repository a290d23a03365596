SPECIFICATION MCSpec
CONSTANTS
    part1 = part1
    part2 = part2
    prune1 = prune1
    prune2 = prune2
    Count = 3
    Part = {part1, part2}
    Concurrency = 2
    Pruner = {prune1, prune2}
    Keep = 1
INVARIANT ReturnedWhole
PROPERTIES NewestKept RemainsGo
CHECK_DEADLOCK FALSE
