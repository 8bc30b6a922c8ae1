\* Two loaders and as many codes as segments; the process is killed once, and one
\* connection breaks.
CONSTANTS
    Loaders = {l1, l2}
    Segments = {sA, sB}
    CodeSpace = 2
    None = None
    k1 = k1
    k2 = k2
    sA = sA
    sB = sB
    Entries <- MCEntries
    MaxPushed = 3
    MaxCrashes = 1
    MaxDisconnects = 1
SPECIFICATION LoaderSpec
INVARIANTS NoMapRace CacheDecodes 
PROPERTIES ImplementsTable 
