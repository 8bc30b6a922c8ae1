SPECIFICATION FairSpec
CONSTANTS
    c1 = c1
    c2 = c2
    a = a
    b = b
    Clients <- TwoClients
    Items <- TwoItems
    Hashes = 2
    Hash <- TwoHashes
    BitCounts = {8, 9, 11}
    MaxBits = 7
    Mantissa = 2
    WordBits = 4
    Databases = {0, 1}
    Wanted <- OneOrBad
    Lists <- OneOrTwo
    MaxCalls <- TwoAndOne
    MaxFaults = 1
INVARIANTS OwnReplies NoMiss Isolated Deleted FaultsExplained
PROPERTY Returns
CHECK_DEADLOCK FALSE
