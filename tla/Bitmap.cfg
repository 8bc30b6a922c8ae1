\* Three counters: two share a byte, the third leaves a spare nibble.  One
\* header byte lies before them.
CONSTANTS
    Size = 3
    Offset = 1
SPECIFICATION BitmapSpec
PROPERTY ImplementsCounters
