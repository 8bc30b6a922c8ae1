\* Counters of at most 3 instead of 15; entries in any order of their ids.
CONSTANTS
    k1 = k1
    k2 = k2
    k3 = k3
    Keys = {k1, k2, k3}
    H1 <- MCH1
    H2 <- MCH2
    WordSize = 8
    CountModulus = 16
    CounterMax = 3
    MaxBlooms = 3
    NFuncs <- MCNFuncs
    CountsPerFunc <- MCCountsPerFunc
    Capacity = 3
    Ids = {0, 1, 2, 4, 5}
    MaxSeqnum = 6
SPECIFICATION Spec
\* The bound on mem_seqnum stops the system.
CHECK_DEADLOCK FALSE
INVARIANTS CountersExact NoFalseNegative FillBound
PROPERTIES RoutingStable KeepsPromise
