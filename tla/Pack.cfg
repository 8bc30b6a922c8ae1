\* Three parts of texts with short, long, incomplete and equal lines.
CONSTANTS
    Texts <- All
    UIntSpace = 13
    MostParts = 4
    nthr = 3
    FlagSegs = FlagSegs
    KeyLen <- KeyLengths
    Splits <- Small
    KeysNew = 4
    MaxLines = 4
    MaxLineLength = 4
    MaxParts = 5
    k1 = k1
    k2 = k2
    k3 = k3
    k4 = k4
    gA = gA
    gB = gB
SPECIFICATION Spec
INVARIANTS OwnLines KeysBelong SplitSound FaultsExplained
PROPERTY Terminates
