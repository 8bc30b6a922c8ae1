\* Process and machine crashes anywhere; every msync may fail.
CONSTANTS
    Cells = {c1, c2}
    MaxSeqnum = 3
    FailingSyncs = {"clear", "flush"}
SPECIFICATION Spec
INVARIANTS MemSeqnumSound DiskSeqnumSound FlushDurable ClearedUnlessExposed
