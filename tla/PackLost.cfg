\* Two parts.
CONSTANTS
    Texts <- Uniform
    UIntSpace = 13
    MostParts = 4
    nthr = 2
    FlagSegs = FlagSegs
    KeyLen <- KeyLengths
    Splits <- Small
    KeysNew = 4
    MaxLines = 1
    MaxLineLength = 4
    MaxParts = 5
    k1 = k1
    k2 = k2
    k3 = k3
    k4 = k4
    gA = gA
    gB = gB
SPECIFICATION Spec
INVARIANT NoLineLost
