\* Three processes, a file that has room for all filters unless a crash wastes some.
CONSTANTS
    Handles = {p1, p2, p3}
    Keys = {k1, k2, k3}
    MAX_FILTERS = 2
    n <- MCn
    FilterSize <- MCFilterSize
    HeaderSize = 1
    MaxFileSize = 4
    None = None
    MaxCrashes = 1
SPECIFICATION Spec
SYMMETRY Symmetry
INVARIANTS ChainWhole NoMiss
PROPERTY FaultsExplained
