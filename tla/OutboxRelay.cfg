SPECIFICATION FairSpec
CONSTANTS
    k = k
    l = l
    p = p
    q = q
    Events <- ThreeEvents
    Keys = {k, l}
    KeyOf <- Alternating
    Partitions = {p, q}
    PartitionOf <- TwoPartitions
    Relays = {r1, r2}
    BatchSize = 2
    MaxAttempts = 2
    MaxCrashes = 1
INVARIANTS
    ClaimsAreExclusive
PROPERTIES
    SentMeansStored
    EventsAreSettled
CHECK_DEADLOCK FALSE
