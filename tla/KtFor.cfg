\* Three workers and five calls: shares of different lengths.
CONSTANTS
    n_threads = 3
    n = 5
SPECIFICATION Spec
INVARIANTS AtMostOnce AllCalled
PROPERTY Terminates
