SPECIFICATION Spec
CONSTANTS
    k = k
    l = l
    p = p
    q = q
    Events <- TwoEvents
    Keys = {k, l}
    KeyOf <- Alternating
    Partitions = {p, q}
    PartitionOf <- TwoPartitions
    Relays = {r1, r2}
    BatchSize = 2
    MaxAttempts = 2
    MaxCrashes = 0
INVARIANTS
    ResultsMatchInput
CHECK_DEADLOCK FALSE
