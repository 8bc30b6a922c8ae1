\* Three workers, three steps, four data; the middle step may reject any of them.
CONSTANTS
    n_threads = 3
    n_steps = 3
    Items = 4
SPECIFICATION Spec
INVARIANTS StepExclusive AllThrough ReadAll
PROPERTY Terminates
