SPECIFICATION Spec
CONSTANTS
    CHUNCKSIZE = 48
    MAX_HEAP = 160
    Indices = {0, 1, 2}
    Sizes = {8, 16, 32}
    num_ops = 7
INVARIANTS
    HeapSound
    DriverContent
PROPERTY GrowsOnlyWhenFull
