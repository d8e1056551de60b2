SPECIFICATION Spec
CONSTANTS
    Workers = {w1, w2}
    MainThread = main
    Ids = {s1, s2}
    Slots = 2
    Fds = {fd1, fd2, fd3}
    NoFd = NoFd
    Counts = {0, 1}
    MaxAccepts = 3
SYMMETRY Symmetry
INVARIANTS
    TypeOK
    MutexHandOff
    WaitingIntact
    ServedByOne
    QuiescentPersisted
PROPERTY IsQueue
