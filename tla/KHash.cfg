SPECIFICATION TableSpec
CONSTANTS
    k1 = k1
    k2 = k2
    k3 = k3
    k4 = k4
    Keys <- FourKeys
    Vals = {0, 1}
    HashFunc <- FourHashes
    MaxBuckets = 16
    MaxFailures = 1
INVARIANT SearchEnds
PROPERTY ImplementsMap
CHECK_DEADLOCK FALSE
