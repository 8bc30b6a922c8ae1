SPECIFICATION MainSpec
CONSTANTS
    Pad = Pad
    Tab = Tab
    Space = Space
    Slash = Slash
    NewLine = NewLine
    Nul = Nul
    Files <- FewLines
    Leftovers <- Memories
    KeyBytes <- SomeKeys
    Capacity = 20
    KeySpace = 100
    ShortSpace = 3
    MaxSegs = 3
    MaxFailures = 1
INVARIANTS CountsExact KeysDecoded
CHECK_DEADLOCK FALSE
